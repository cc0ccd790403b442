----------------------------- MODULE TradeFlowProofs -----------------------------
(***************************************************************************)
(* Theorems of TradeFlow, for every number of threads, keys, decisions and *)
(* orders, every clock and every market day.                               *)
(*                                                                         *)
(* Moved says what one step of the store means to one decision, as far as  *)
(* a call that is under way depends on it.  The inductive invariant FlowInv *)
(* says of every call what it still knows of the decision it read, and of  *)
(* every ledger that each stage a decision reached is written down once or *)
(* is about to be, by one call.                                            *)
(***************************************************************************)
EXTENDS TradeFlow, DecisionStoreProofs, FiniteSetTheorems

----------------------------------------------------------------------------
(***************************************************************************)
(* One step of one decision.                                               *)
(***************************************************************************)
Moved(d, e) ==
  /\ e.status \in Statuses
  /\ Len(e.log) = Len(d.log) + 1
  /\ Rank(d.status) <= Rank(e.status)
  /\ Rank(d.status) > 0 => Rank(d.status) < Rank(e.status)
  /\ \A s \in Statuses : Passed(e, s) <=> Passed(d, s) \/ s = e.status
  /\ d.settlement.delivered => /\ e.settlement.delivered
                               /\ e.settlement.position = d.settlement.position
  /\ d.settlement.settled => e.settlement = d.settlement

\* A move along an edge of the graph: besides, what the store may touch on this edge.
MovedOn(d, e) ==
  /\ Moved(d, e)
  /\ d.status \in Statuses
  /\ e.status \in AllowedTransitions(d.status)
  /\ e.status \notin TraderTargets => e.instr = d.instr
  /\ e.status \notin ExecutionStatuses => e.exec = d.exec
  /\ e.gate = d.gate

\* The ranks are the numbers from 0 to 7.
LEMMA RankType == \A s : Rank(s) \in 0..7
BY DEF Rank

\* What has been passed is not above the status; only the status itself is passed at its rank.
LEMMA PassedRanks ==
  ASSUME NEW d, Sound(d), NEW s, Passed(d, s)
  PROVE  Rank(s) <= Rank(d.status)
BY DEF Sound, Climbed, Passed

\* The length of a log is a number.
LEMMA LogLength ==
  ASSUME NEW d \in Decision
  PROVE  Len(d.log) \in Nat
<1> DEFINE Rec == [seq : Nat, from : Statuses \cup {"NONE"}, to : Statuses]
<1>1. d.log \in Seq(Rec)
  BY DEF Decision
<1> HIDE DEF Rec
<1>2. QED
  BY <1>1

\* A legal transition moves a decision on along an edge.
LEMMA AdvanceMovesOn ==
  ASSUME NEW d \in Decision, NEW u \in Decision, NEW t \in Statuses, d.status # "ABSENT",
         Sound(d), StageUpdate(d, u, t), Legal(d, u, t)
  PROVE  MovedOn(d, Advance(u, t)) /\ Advance(u, t) \in Decision /\ Sound(Advance(u, t))
<1> DEFINE e == Advance(u, t)
           n == Len(d.log)
<1>1. /\ n \in Nat /\ n >= 1
      /\ e.status = t
      /\ Len(e.log) = n + 1
      /\ \A i \in 1..n : e.log[i] = d.log[i]
      /\ e.log[n + 1] = [seq |-> n + 1, from |-> d.status, to |-> t]
  BY AdvanceAppends DEF Sound
<1>2. /\ e.instr = u.instr /\ e.exec = u.exec /\ e.gate = u.gate
  BY DEF Advance, Decision
<1>3. d.status \in Statuses /\ t \in AllowedTransitions(d.status) /\ e \in Decision
  BY AdvanceType DEF Legal, Decision, StageUpdate
<1>4. DecisionStep(d, e)
  BY DEF DecisionStep
<1>5. Sound(e)
  BY AdvanceSound
<1> HIDE DEF e, n
<1>6. /\ Rank(d.status) <= Rank(t)
      /\ Rank(d.status) > 0 => Rank(d.status) < Rank(t)
  BY <1>3, EdgesClimb
<1>7. ASSUME NEW s PROVE Passed(e, s) <=> Passed(d, s) \/ s = t
  <2>1. Passed(e, s) <=> \E i \in 1..n + 1 : e.log[i].to = s
    BY <1>1 DEF Passed
  <2>2. Passed(d, s) <=> \E i \in 1..n : d.log[i].to = s
    BY DEF Passed, n
  <2>3. 1..n + 1 = (1..n) \cup {n + 1}
    BY <1>1
  <2>4. e.log[n + 1].to = t
    BY <1>1
  <2>5. QED
    BY <1>1, <2>1, <2>2, <2>3, <2>4
<1>8. /\ d.settlement.delivered => /\ e.settlement.delivered
                                   /\ e.settlement.position = d.settlement.position
      /\ d.settlement.settled => e.settlement = d.settlement
  BY <1>4, DecisionStepFinal
<1>9. Moved(d, e)
  BY <1>1, <1>6, <1>7, <1>8 DEF Moved, n
<1>10. QED
  BY <1>1, <1>2, <1>3, <1>5, <1>9 DEF MovedOn, StageUpdate, e

\* A decision that is proposed moves like any other.
LEMMA ProposalMoves ==
  ASSUME NEW d \in Decision, Sound(d), d.status = "ABSENT",
         NEW gate, NEW rec, NEW b
  PROVE  Moved(d, Proposed(gate, rec, b))
<1> DEFINE e == Proposed(gate, rec, b)
<1>1. /\ e.status = "PROPOSED"
      /\ e.log = <<[seq |-> 1, from |-> "NONE", to |-> "PROPOSED"]>>
  BY DEF Proposed, NoDecision
<1>2. Len(e.log) = 1 /\ \A s : Passed(e, s) <=> s = "PROPOSED"
  BY <1>1 DEF Passed
<1>3. d.log = <<>> /\ ~d.settlement.delivered /\ ~d.settlement.settled
  BY AbsentIsUntouched
<1>4. Len(d.log) = 0 /\ \A s : ~Passed(d, s)
  BY <1>3 DEF Passed
<1>5. Rank(d.status) = 0 /\ Rank(e.status) = 0 /\ "PROPOSED" \in Statuses
  BY <1>1 DEF Rank, Statuses
<1> HIDE DEF e
<1>6. QED
  BY <1>1, <1>2, <1>3, <1>4, <1>5 DEF Moved, e

\* A move of the store moves one decision on and leaves the others alone.
LEMMA MoveFacts ==
  ASSUME StoreInv, NEW x \in Ids, OneDecisionMoves(x)
  PROVE  /\ MovedOn(decisions[x], decisions'[x])
         /\ decisions'[x] \in Decision /\ Sound(decisions'[x])
         /\ decisions' \in [Ids -> Decision]
         /\ \A id \in Ids \ {x} : decisions'[id] = decisions[id]
<1>1. PICK t \in Statuses, u \in Decision :
        /\ StageUpdate(decisions[x], u, t)
        /\ Legal(decisions[x], u, t)
        /\ decisions' = [decisions EXCEPT ![x] = Advance(u, t)]
  BY DEF OneDecisionMoves
<1>2. /\ decisions[x] \in Decision /\ decisions[x].status # "ABSENT" /\ Sound(decisions[x])
      /\ decisions \in [Ids -> Decision]
  BY DEF StoreInv, TypeOK, OneDecisionMoves, Exists
<1>3. /\ decisions'[x] = Advance(u, t)
      /\ \A id \in Ids \ {x} : decisions'[id] = decisions[id]
  BY <1>1, <1>2
<1>4. MovedOn(decisions[x], Advance(u, t)) /\ Advance(u, t) \in Decision /\ Sound(Advance(u, t))
  BY <1>1, <1>2, AdvanceMovesOn
<1>5. QED
  BY <1>1, <1>2, <1>3, <1>4

----------------------------------------------------------------------------
(***************************************************************************)
(* Types.                                                                  *)
(***************************************************************************)
CallPcs == {"idle", "next", "read", "commit", "fill", "record", "aborted"}

Guard == [status : Statuses \cup {"ANY"}, seq : Nat]

Call == [pc : CallPcs, op : Services \cup {"none"}, batch : BOOLEAN, todo : Seq(Ids),
         due : SUBSET Ids, guard : Guard, key : Keys \cup {NoKey}, at : Nat, requested : Nat,
         buy : Nat, sell : Nat]

Entry == [payload : [id : Ids \cup {"none"}, guard : Guard], record : Nat]

LedgerEntry == [id : Ids, buy : Nat, sell : Nat, at : Nat]

FlowTypeOK ==
  /\ published \in Nat
  /\ calls \in [Threads -> Call]
  /\ records \in [Services -> Seq(LedgerEntry)]
  /\ keyed \in [Services -> [Keys -> Entry]]

(***************************************************************************)
(* What a call c still knows of decision d, which it is at.                *)
(***************************************************************************)
Serving(c) == c.pc \in {"read", "commit", "fill", "record"}

\* the order the call computed is the one the trader's word asks for
TheOrder(c, d) ==
  /\ c.requested = InstructionVolume(d)
  /\ c.buy <= d.instr.buy /\ c.sell <= d.instr.sell
  /\ c.buy + c.sell <= c.requested
  /\ c.buy + c.sell = 0 \/ c.buy + c.sell > FillTolerance

\* Before it moves the decision, a request may be outdated, but then the store refuses it: the
\* decision has climbed, or its log has grown.
BeforeCommit(c, d) ==
  /\ c.op = "submit" => Rank(d.status) >= 1 /\ (Rank(d.status) = 1 => TheOrder(c, d))
  /\ c.op # "submit" /\ (c.batch \/ (c.guard # NoGuard /\ c.guard.seq = Len(d.log))) =>
       c.buy = d.exec.buy /\ c.sell = d.exec.sell

\* After it, the decision is past the stage, and shows what the call is about to write.
AfterCommit(c, d) ==
  /\ Passed(d, TargetOf(c.op))
  /\ c.pc = "fill" => c.op = "submit" /\ d.status = "SUBMITTED" /\ TheOrder(c, d)
  /\ c.op = "submit" /\ c.pc = "record" =>
       Rank(d.status) >= 3 /\ d.exec.buy = c.buy /\ d.exec.sell = c.sell
  /\ c.op # "submit" => Rank(d.status) >= 3
  /\ c.batch \/ c.guard # NoGuard =>
       /\ c.op = "deliver" => d.settlement.position = d.exec.buy - d.exec.sell
       /\ c.op = "settle"  => d.settlement.pnl = d.exec.buy - d.exec.sell

CallFits(c, d) ==
  /\ d.status # "ABSENT"
  /\ c.op \in Services
  /\ c.guard # NoGuard => c.guard.seq \in 1..Len(d.log)
  /\ c.batch => Rank(d.status) >= 3
  /\ c.pc = "commit" => BeforeCommit(c, d)
  /\ c.pc \in {"fill", "record"} => AfterCommit(c, d)

CallOK(c, book) ==
  /\ c.batch => c.guard = NoGuard /\ c.key = NoKey /\ c.op # "submit"
  /\ c.pc = "next" => c.batch
  /\ Serving(c) => /\ c.todo # <<>>
                   /\ CallFits(c, book[Head(c.todo)])
                   /\ c.key # NoKey => Head(c.todo) \in KeyOwner[c.key]

CallsOK == \A t \in Threads : CallOK(calls[t], decisions)

(***************************************************************************)
(* Orders and ledgers.                                                     *)
(***************************************************************************)
\* the order asks for what the trader said and stays on the trader's side
OrderOK(d) ==
  /\ d.exec.status # "NONE" => /\ d.exec.requested = InstructionVolume(d)
                               /\ d.exec.buy <= d.instr.buy /\ d.exec.sell <= d.instr.sell
  /\ d.status = "SUBMITTED" => d.exec.buy = 0 /\ d.exec.sell = 0

OrdersOK == \A id \in Ids : OrderOK(decisions[id])

\* the call moved the decision for op and has not written its record yet
Pending(c, op, id) == c.pc \in {"fill", "record"} /\ c.op = op /\ Head(c.todo) = id

Underway(op, id) == \E t \in Threads : Pending(calls[t], op, id)

Written(ledger, id) == \E i \in DOMAIN ledger : ledger[i].id = id

LedgerOK(op, id) ==
  /\ \A i, j \in DOMAIN records[op] : records[op][i].id = id /\ records[op][j].id = id => i = j
  /\ \A t, u \in Threads : Pending(calls[t], op, id) /\ Pending(calls[u], op, id) => t = u
  /\ ~(Written(records[op], id) /\ Underway(op, id))
  /\ Passed(decisions[id], TargetOf(op)) <=> Written(records[op], id) \/ Underway(op, id)

LedgersOK == \A op \in Services, id \in Ids : LedgerOK(op, id)

\* an order's record is final: the decision has left the simulator with these volumes
OrderRecordOK(r, d) == Rank(d.status) >= 3 /\ d.exec.buy = r.buy /\ d.exec.sell = r.sell

OrderRecordsOK ==
  \A i \in DOMAIN records["submit"] :
    OrderRecordOK(records["submit"][i], decisions[records["submit"][i].id])

FlowInv ==
  /\ StoreInv /\ FlowTypeOK
  /\ CallsOK /\ OrdersOK /\ LedgersOK /\ OrderRecordsOK

----------------------------------------------------------------------------
(***************************************************************************)
(* What a call knows survives the steps of the others.                     *)
(***************************************************************************)
\* One step of a decision in TradeFlow: once the simulator has answered, the order is final.
FlowStep(d, e) ==
  \/ e = d
  \/ Moved(d, e) /\ (Rank(d.status) >= 3 => e.exec = d.exec)

\* The stages that services move a decision to.
LEMMA Targets ==
  /\ TargetOf("submit") = "SUBMITTED" /\ TargetOf("deliver") = "DELIVERED"
  /\ TargetOf("settle") = "SETTLED" /\ TargetOf("evaluate") = "EVALUATED"
  /\ \A op \in Services : TargetOf(op) \in Statuses \ TraderTargets
  /\ \A op, po \in Services : TargetOf(op) = TargetOf(po) => op = po
BY DEF TargetOf, Services, Statuses, TraderTargets

\* A decision that reached the stage of deliver or of settle has the figures of the stage.
LEMMA FiguresPresent ==
  ASSUME NEW d, Sound(d)
  PROVE  /\ Passed(d, TargetOf("deliver")) => d.settlement.delivered
         /\ Passed(d, TargetOf("settle")) => d.settlement.settled
BY Targets DEF Sound, RecordsMatchLog

\* A call still fits the decision it is at after somebody else's step.
LEMMA CallKept ==
  ASSUME NEW c \in Call, NEW d \in Decision, NEW e \in Decision, Sound(d),
         CallFits(c, d), FlowStep(d, e), c.pc = "fill" => e = d
  PROVE  CallFits(c, e)
<1>1. CASE e = d
  BY <1>1
<1> SUFFICES ASSUME e # d PROVE CallFits(c, e)
  BY <1>1
<1>2. Moved(d, e) /\ (Rank(d.status) >= 3 => e.exec = d.exec) /\ c.pc # "fill"
  BY DEF FlowStep
<1>3. Rank(d.status) \in 0..7 /\ Rank(e.status) \in 0..7 /\ Len(d.log) \in Nat
  BY RankType, LogLength
<1>4. /\ e.status \in Statuses /\ Len(e.log) = Len(d.log) + 1
      /\ Rank(d.status) <= Rank(e.status)
      /\ Rank(d.status) > 0 => Rank(d.status) < Rank(e.status)
  BY <1>2 DEF Moved
<1>5. e.status # "ABSENT"
  BY <1>4 DEF Statuses
<1>6. c.guard # NoGuard => c.guard.seq \in 1..Len(e.log) /\ c.guard.seq # Len(e.log)
  BY <1>3, <1>4 DEF CallFits
<1>7. ASSUME c.pc = "commit" PROVE BeforeCommit(c, e)
  <2>1. c.op = "submit" => Rank(e.status) >= 1 /\ Rank(e.status) # 1
    BY <1>3, <1>4, <1>7 DEF CallFits, BeforeCommit
  <2>2. c.op # "submit" /\ c.batch => c.buy = e.exec.buy /\ c.sell = e.exec.sell
    BY <1>2, <1>7 DEF CallFits, BeforeCommit
  <2>3. QED
    BY <1>6, <2>1, <2>2 DEF BeforeCommit
<1>8. ASSUME c.pc = "record" PROVE AfterCommit(c, e)
  <2>1. AfterCommit(c, d) /\ c.op \in Services
    BY <1>8 DEF CallFits
  <2>2. Passed(e, TargetOf(c.op))
    BY <1>2, <2>1, Targets DEF Moved, AfterCommit
  <2>3. Rank(d.status) >= 3 /\ Rank(e.status) >= 3
    BY <1>3, <1>4, <1>8, <2>1 DEF AfterCommit
  <2>4. e.exec = d.exec
    BY <1>2, <2>3
  <2>5. c.op = "deliver" => e.settlement.position = d.settlement.position
    BY <1>2, <2>1, FiguresPresent DEF Moved, AfterCommit
  <2>6. c.op = "settle" => e.settlement.pnl = d.settlement.pnl
    BY <1>2, <2>1, FiguresPresent DEF Moved, AfterCommit
  <2>7. QED
    BY <1>2, <1>8, <2>1, <2>2, <2>3, <2>4, <2>5, <2>6 DEF AfterCommit
<1>9. c.batch => Rank(e.status) >= 3
  BY <1>3, <1>4 DEF CallFits
<1>10. QED
  BY <1>2, <1>5, <1>6, <1>7, <1>8, <1>9 DEF CallFits

\* All calls of the other threads, when one decision takes a step.
LEMMA CallOKKept ==
  ASSUME NEW c \in Call, StoreInv, CallOK(c, decisions),
         \A id \in Ids : decisions'[id] \in Decision /\ FlowStep(decisions[id], decisions'[id]),
         c.pc = "fill" => decisions'[Head(c.todo)] = decisions[Head(c.todo)]
  PROVE  CallOK(c, decisions')
<1>1. CASE Serving(c)
  <2> DEFINE id == Head(c.todo)
  <2>1. id \in Ids
    BY <1>1 DEF CallOK, Call
  <2>2. decisions[id] \in Decision /\ Sound(decisions[id]) /\ CallFits(c, decisions[id])
    BY <1>1, <2>1 DEF StoreInv, TypeOK, CallOK
  <2> HIDE DEF id
  <2>3. CallFits(c, decisions'[id])
    <3>1. c.pc = "fill" => decisions'[id] = decisions[id]
      BY DEF id
    <3>2. QED
      BY <2>1, <2>2, <3>1, CallKept
  <2>4. QED
    BY <2>3 DEF CallOK, id
<1>2. CASE ~Serving(c)
  BY <1>2 DEF CallOK
<1>3. QED
  BY <1>1, <1>2

\* Every record of a ledger names a decision.
LEMMA RecordType ==
  ASSUME FlowTypeOK, NEW op \in Services, NEW i \in DOMAIN records[op]
  PROVE  records[op][i] \in LedgerEntry /\ records[op][i].id \in Ids
<1>1. records[op] \in Seq(LedgerEntry)
  BY DEF FlowTypeOK
<1>2. records[op][i] \in LedgerEntry
  BY <1>1
<1>3. QED
  BY <1>2 DEF LedgerEntry

----------------------------------------------------------------------------
(***************************************************************************)
(* Steps of the world: the market, the orchestrator, the trader, the clock. *)
(***************************************************************************)
LEMMA WorldStep ==
  ASSUME FlowInv, TypeOK', published' \in Nat, UNCHANGED <<calls, records, keyed>>,
         \A id \in Ids : LET d == decisions[id]
                             e == decisions'[id] IN
           \/ e = d
           \/ /\ Moved(d, e) /\ Sound(e) /\ OrderOK(e)
              /\ e.status \in TraderTargets /\ Rank(d.status) <= 1
  PROVE  FlowInv'
<1>1. ASSUME NEW id \in Ids
      PROVE  LET d == decisions[id]
                 e == decisions'[id] IN
             /\ d \in Decision /\ e \in Decision /\ Sound(d) /\ Sound(e) /\ OrderOK(e)
             /\ FlowStep(d, e)
             /\ Rank(d.status) >= 2 => e = d
             /\ \A op \in Services : Passed(e, TargetOf(op)) <=> Passed(d, TargetOf(op))
  <2> DEFINE d == decisions[id]
             e == decisions'[id]
  <2>1. d \in Decision /\ e \in Decision /\ Sound(d) /\ OrderOK(d)
    BY DEF FlowInv, StoreInv, TypeOK, OrdersOK
  <2>2. \/ e = d
        \/ /\ Moved(d, e) /\ Sound(e) /\ OrderOK(e)
           /\ e.status \in TraderTargets /\ Rank(d.status) <= 1
    OBVIOUS
  <2> HIDE DEF d, e
  <2>3. Rank(d.status) \in Int
    BY RankType
  <2>4. FlowStep(d, e) /\ Sound(e) /\ OrderOK(e) /\ (Rank(d.status) >= 2 => e = d)
    BY <2>1, <2>2, <2>3 DEF FlowStep
  <2>5. \A op \in Services : Passed(e, TargetOf(op)) <=> Passed(d, TargetOf(op))
    BY <2>2, Targets DEF Moved
  <2>6. QED
    BY <2>1, <2>4, <2>5 DEF d, e
<1>2. StoreInv' /\ OrdersOK'
  BY <1>1 DEF StoreInv, OrdersOK
<1>3. FlowTypeOK'
  BY DEF FlowInv, FlowTypeOK
<1>4. CallsOK'
  <2> SUFFICES ASSUME NEW t \in Threads PROVE CallOK(calls[t], decisions')
    BY DEF CallsOK
  <2>1. calls[t] \in Call /\ CallOK(calls[t], decisions)
    BY DEF FlowInv, FlowTypeOK, CallsOK
  <2>2. ASSUME calls[t].pc = "fill"
        PROVE  decisions'[Head(calls[t].todo)] = decisions[Head(calls[t].todo)]
    <3>1. Head(calls[t].todo) \in Ids
      BY <2>1, <2>2 DEF CallOK, Call, Serving
    <3>2. decisions[Head(calls[t].todo)].status = "SUBMITTED"
      BY <2>1, <2>2 DEF CallOK, CallFits, AfterCommit, Serving
    <3>3. QED
      BY <1>1, <3>1, <3>2 DEF Rank
  <2>3. QED
    BY <1>1, <2>1, <2>2, CallOKKept DEF FlowInv
<1>5. LedgersOK'
  <2> SUFFICES ASSUME NEW op \in Services, NEW id \in Ids PROVE LedgerOK(op, id)'
    BY DEF LedgersOK
  <2>1. LedgerOK(op, id)
    BY DEF FlowInv, LedgersOK
  <2>2. Underway(op, id)' <=> Underway(op, id)
    BY DEF Underway, Pending
  <2>3. QED
    BY <1>1, <2>1, <2>2 DEF LedgerOK, Pending, Written
<1>6. OrderRecordsOK'
  <2> SUFFICES ASSUME NEW i \in DOMAIN records["submit"]
               PROVE  OrderRecordOK(records["submit"][i], decisions'[records["submit"][i].id])
    BY DEF OrderRecordsOK
  <2>1. records["submit"][i].id \in Ids
    BY RecordType DEF FlowInv, Services
  <2>2. OrderRecordOK(records["submit"][i], decisions[records["submit"][i].id])
    BY DEF FlowInv, OrderRecordsOK
  <2>3. Rank(decisions[records["submit"][i].id].status) \in Int
    BY RankType
  <2>4. QED
    BY <1>1, <2>1, <2>2, <2>3 DEF OrderRecordOK
<1>7. QED
  BY <1>2, <1>3, <1>4, <1>5, <1>6 DEF FlowInv

\* A decision the trader still holds has no order.
LEMMA NoOrderYet ==
  ASSUME NEW d, Sound(d), Rank(d.status) <= 1
  PROVE  d.exec.status = "NONE"
<1>1. Rank("SUBMITTED") = 2 /\ Rank(d.status) \in Int
  BY RankType DEF Rank
<1>2. ~Passed(d, "SUBMITTED")
  BY <1>1, PassedRanks
<1>3. QED
  BY <1>2 DEF Sound, RecordsMatchLog

\* The trader's word leads to a stage no service moves a decision to.
LEMMA TraderTarget ==
  ASSUME TypeOK, NEW id \in Ids, TraderStep(id)
  PROVE  decisions'[id].status \in TraderTargets /\ UNCHANGED <<order, batches, now>>
<1>1. ASSUME NEW g, NEW t, NEW i, Transition(id, g, t, [decisions[id] EXCEPT !.instr = i])
      PROVE  decisions'[id].status = t /\ UNCHANGED <<order, batches, now>>
  BY <1>1 DEF Transition, Advance, TypeOK, Decision
<1>2. QED
  BY <1>1 DEF TraderStep, Accept, Modify, Reject, Delay, Reopen, TraderTargets

\* What the trader may still say leaves every order alone.
LEMMA TraderKeeps ==
  ASSUME FlowInv, NEW x \in Ids, Trader(x)
  PROVE  FlowInv'
<1> DEFINE d == decisions[x]
           e == decisions'[x]
<1>1. StoreInv /\ TypeOK /\ TraderStep(x) /\ UNCHANGED flowVars
  BY DEF FlowInv, StoreInv, Trader
<1>2. OneDecisionMoves(x)
  BY <1>1, TraderStepMoves
<1>3. /\ MovedOn(d, e) /\ e \in Decision /\ Sound(e)
      /\ decisions' \in [Ids -> Decision]
      /\ \A id \in Ids \ {x} : decisions'[id] = decisions[id]
  BY <1>1, <1>2, MoveFacts
<1>4. e.status \in TraderTargets /\ UNCHANGED <<order, batches, now>>
  BY <1>1, TraderTarget
<1>5. d.status \in {"PROPOSED", "DELAYED", "ACCEPTED", "MODIFIED"}
  BY <1>3, <1>4, EdgeSources DEF MovedOn
<1>6. Rank(d.status) <= 1
  BY <1>5 DEF Rank
<1>7. d.exec.status = "NONE"
  BY <1>1, <1>6, NoOrderYet DEF StoreInv
<1>8. e.exec = d.exec
  BY <1>3, <1>4 DEF MovedOn, TraderTargets, ExecutionStatuses
<1>9. OrderOK(e)
  BY <1>4, <1>7, <1>8 DEF OrderOK, TraderTargets
<1>10. TypeOK' /\ published' \in Nat /\ UNCHANGED <<calls, records, keyed>>
  BY <1>1, <1>3, <1>4 DEF TypeOK, flowVars, FlowInv, FlowTypeOK
<1> HIDE DEF d, e
<1>11. \A id \in Ids : IF id = x
                       THEN decisions[id] = d /\ decisions'[id] = e
                       ELSE decisions'[id] = decisions[id]
  BY <1>3 DEF d, e
<1>12. Moved(d, e)
  BY <1>3 DEF MovedOn
<1>13. QED
  BY <1>3, <1>4, <1>6, <1>9, <1>10, <1>11, <1>12, WorldStep

\* A listed gate is an instant.
LEMMA MarketGate == published \in Nat => Market.gate \in Int
<1> SUFFICES ASSUME published \in Nat PROVE Market.gate \in Int
  OBVIOUS
<1>1. ASSUME NEW k \in Listed(published) PROVE GateOf(k) \in Int
  BY FlowAssumption, StoreAssumption DEF Listed, GateOf
<1>2. CASE Listed(published) = {}
  BY <1>2 DEF Market, Listing, NotListed, NoGate
<1>3. CASE Listed(published) # {}
  <2> DEFINE k == CHOOSE k \in Listed(published) : TRUE
  <2>1. k \in Listed(published)
    BY <1>3
  <2>2. GateOf(k) \in Int
    BY <1>1, <2>1
  <2>3. Market.gate = GateOf(k)
    BY <1>3 DEF Market, Listing
  <2>4. QED
    BY <2>2, <2>3
<1>4. QED
  BY <1>2, <1>3

\* A proposal is a decision without an order.
LEMMA ProposeKeeps ==
  ASSUME FlowInv, NEW b \in BatchIds, NEW x \in Ids, NEW rec \in Orders, Propose(b, x, rec)
  PROVE  FlowInv'
<1> DEFINE gate == Market.gate
<1> HIDE DEF gate
<1>1. /\ CreateBatch(b, <<x>>, [i \in {x} |-> gate], [i \in {x} |-> rec])
      /\ UNCHANGED flowVars
  BY DEF Propose, gate
<1>2. gate \in Int
  BY MarketGate DEF gate, FlowInv, FlowTypeOK
<1>3. /\ decisions[x].status = "ABSENT"
      /\ decisions' = [id \in Ids |-> IF id = x THEN Proposed(gate, rec, b) ELSE decisions[id]]
      /\ order' = order \o <<x>> /\ batches' = [batches EXCEPT ![b] = <<x>>] /\ now' = now
  BY <1>1 DEF CreateBatch, Exists
<1>4. TypeOK' /\ published' \in Nat /\ UNCHANGED <<calls, records, keyed>>
  <2>1. Proposed(gate, rec, b) \in Decision
    BY <1>2, ProposedType
  <2>2. QED
    BY <1>1, <1>3, <2>1 DEF FlowInv, StoreInv, TypeOK, flowVars, FlowTypeOK
<1>5. /\ Moved(decisions[x], Proposed(gate, rec, b))
      /\ Sound(Proposed(gate, rec, b))
      /\ Rank(decisions[x].status) <= 1
  BY <1>3, ProposalMoves, ProposedSound DEF FlowInv, StoreInv, TypeOK, Rank
<1>6. OrderOK(Proposed(gate, rec, b)) /\ Proposed(gate, rec, b).status \in TraderTargets
  BY DEF OrderOK, Proposed, NoDecision, NoExecution, TraderTargets
<1>7. QED
  BY <1>3, <1>4, <1>5, <1>6, WorldStep

----------------------------------------------------------------------------
(***************************************************************************)
(* Steps of a call that leave the decisions alone.                         *)
(***************************************************************************)
\* A thread goes on with its call, which was and is before its transition or after its record.
LEMMA LocalStep ==
  ASSUME FlowInv, NEW t \in Threads, NEW c \in Call, CallOK(c, decisions), GoOn(t, c),
         calls[t].pc \notin {"fill", "record"}, c.pc \notin {"fill", "record"},
         UNCHANGED <<vars, published, records, keyed>>
  PROVE  FlowInv'
<1>1. \A u \in Threads : calls'[u] = IF u = t THEN c ELSE calls[u]
  BY DEF GoOn, FlowInv, FlowTypeOK
<1>2. calls' \in [Threads -> Call]
  BY DEF GoOn, FlowInv, FlowTypeOK
<1>3. \A u \in Threads : \A op, id : Pending(calls'[u], op, id) <=> Pending(calls[u], op, id)
  BY <1>1 DEF Pending
<1>4. StoreInv' /\ OrdersOK' /\ OrderRecordsOK'
  BY DEF FlowInv, StoreInv, TypeOK, OrdersOK, OrderRecordsOK, vars
<1>5. FlowTypeOK'
  BY <1>2 DEF FlowInv, FlowTypeOK
<1>6. CallsOK'
  BY <1>1 DEF FlowInv, CallsOK, vars
<1>7. LedgersOK'
  <2> SUFFICES ASSUME NEW op \in Services, NEW id \in Ids PROVE LedgerOK(op, id)'
    BY DEF LedgersOK
  <2>1. LedgerOK(op, id)
    BY DEF FlowInv, LedgersOK
  <2>2. Underway(op, id)' <=> Underway(op, id)
    BY <1>3 DEF Underway
  <2>3. QED
    BY <1>3, <2>1, <2>2 DEF LedgerOK, vars
<1>8. QED
  BY <1>4, <1>5, <1>6, <1>7 DEF FlowInv

\* A call that raised holds nothing.
LEMMA IdleOK == Idle \in Call /\ CallOK(Idle, decisions) /\ Idle.pc = "idle"
<1>1. <<>> \in Seq(Ids)
  OBVIOUS
<1>2. NoGuard \in Guard
  BY DEF NoGuard, Guard
<1>3. QED
  BY <1>1, <1>2 DEF Idle, Call, CallOK, CallPcs, Serving

\* A call that raises before its transition, or after its record, drops what it knew.
LEMMA RaiseKeeps ==
  ASSUME FlowInv, NEW t \in Threads, Raise(t), calls[t].pc \notin {"fill", "record"},
         UNCHANGED <<vars, published, records, keyed>>
  PROVE  FlowInv'
<1> DEFINE c == [calls[t] EXCEPT !.pc = "aborted"]
<1>1. c \in Call /\ CallOK(c, decisions) /\ c.pc = "aborted"
  BY DEF FlowInv, FlowTypeOK, CallsOK, Call, CallPcs, CallOK, Serving
<1> HIDE DEF c
<1>2. GoOn(t, c) \/ GoOn(t, Idle)
  BY DEF Raise, c
<1>3. QED
  BY <1>1, <1>2, IdleOK, LocalStep

\* The decision a call is at, and the rest of its list.
LEMMA SubjectType ==
  ASSUME FlowInv, NEW t \in Threads, calls[t].todo # <<>>
  PROVE  /\ Subject(t) \in Ids
         /\ Tail(calls[t].todo) \in Seq(Ids)
         /\ decisions[Subject(t)] \in Decision /\ Sound(decisions[Subject(t)])
<1>1. calls[t].todo \in Seq(Ids)
  BY DEF FlowInv, FlowTypeOK, Call
<1>2. Head(calls[t].todo) \in Ids /\ Tail(calls[t].todo) \in Seq(Ids)
  BY <1>1
<1>3. QED
  BY <1>2 DEF Subject, FlowInv, StoreInv, TypeOK

\* A serving call fits the decision it is at.
LEMMA ServingFits ==
  ASSUME FlowInv, NEW t \in Threads, Serving(calls[t])
  PROVE  /\ calls[t] \in Call /\ calls[t].todo # <<>>
         /\ CallFits(calls[t], decisions[Subject(t)])
         /\ calls[t].key # NoKey => Subject(t) \in KeyOwner[calls[t].key]
         /\ calls[t].batch => /\ calls[t].guard = NoGuard /\ calls[t].key = NoKey
                              /\ calls[t].op # "submit"
BY DEF FlowInv, FlowTypeOK, CallsOK, CallOK, Subject

\* A version a client read is a record of the log: the newest when it was read.
LEMMA GuardFacts ==
  ASSUME NEW d \in Decision, Sound(d), d.status # "ABSENT", NEW kind
  PROVE  /\ CurrentSequence(d) = Len(d.log) /\ Len(d.log) \in Nat \ {0}
         /\ GuardOf(kind, d) \in Guard
         /\ GuardOf(kind, d) # NoGuard => GuardOf(kind, d).seq \in 1..Len(d.log)
<1>1. d.log # <<>> /\ Len(d.log) \in Nat /\ d.status \in Statuses
  BY LogLength DEF Sound, LogIsPath, Decision
<1>2. Len(d.log) # 0
  <2> DEFINE Rec == [seq : Nat, from : Statuses \cup {"NONE"}, to : Statuses]
  <2>1. d.log \in Seq(Rec)
    BY DEF Decision
  <2> HIDE DEF Rec
  <2>2. QED
    BY <1>1, <2>1
<1>3. CurrentSequence(d) = Len(d.log)
  BY <1>1, <1>2 DEF CurrentSequence, Sound, LogIsPath
<1>4. QED
  BY <1>1, <1>2, <1>3 DEF GuardOf, Guard, NoGuard

\* A request that arrives carries a version its client read.
LEMMA BeginKeeps ==
  ASSUME FlowInv, NEW t \in Threads, NEW op \in Services, NEW id \in Ids, NEW kind,
         NEW k \in Keys \cup {NoKey}, Begin(t, op, id, kind, k)
  PROVE  FlowInv'
<1> DEFINE g == GuardOf(kind, decisions[id])
           c == [Idle EXCEPT !.pc = "read", !.op = op, !.todo = <<id>>, !.key = k, !.at = now,
                             !.guard = g]
<1>1. /\ decisions[id] \in Decision /\ Sound(decisions[id])
      /\ decisions[id].status # "ABSENT" /\ now \in Nat
  BY DEF FlowInv, StoreInv, TypeOK, Begin, Exists
<1>2. g \in Guard /\ (g # NoGuard => g.seq \in 1..Len(decisions[id].log))
  BY <1>1, GuardFacts
<1>3. GoOn(t, c) /\ calls[t].pc = "idle" /\ (k # NoKey => id \in KeyOwner[k])
      /\ UNCHANGED <<vars, published, records, keyed>>
  BY DEF Begin, GoOn
<1> HIDE DEF g
<1>4. <<id>> \in Seq(Ids) /\ <<id>> # <<>> /\ Head(<<id>>) = id
  OBVIOUS
<1>5. /\ c.pc = "read" /\ c.op = op /\ c.todo = <<id>> /\ c.key = k /\ c.guard = g
      /\ c.batch = FALSE
  BY DEF Idle
<1>6. c \in Call
  BY <1>1, <1>2, <1>4 DEF Idle, Call, CallPcs
<1> HIDE DEF c
<1>7. CallFits(c, decisions[id])
  BY <1>1, <1>2, <1>5 DEF CallFits
<1>8. CallOK(c, decisions)
  BY <1>3, <1>4, <1>5, <1>7 DEF CallOK
<1>9. QED
  BY <1>3, <1>5, <1>6, <1>8, LocalStep

\* The batch carries neither version nor key.
LEMMA BeginBatchKeeps ==
  ASSUME FlowInv, NEW t \in Threads, BeginBatch(t)
  PROVE  FlowInv'
<1> DEFINE due == {id \in Ids : decisions[id].status \in Deliverable \cup {"DELIVERED", "SETTLED"}}
           c == [Idle EXCEPT !.pc = "next", !.batch = TRUE, !.at = now, !.todo = order,
                             !.due = due]
<1>1. /\ GoOn(t, c) /\ calls[t].pc = "idle"
      /\ UNCHANGED <<vars, published, records, keyed>>
  BY DEF BeginBatch, GoOn
<1>2. order \in Seq(Ids) /\ now \in Nat /\ due \in SUBSET Ids
  BY DEF FlowInv, StoreInv, TypeOK
<1> HIDE DEF due
<1>3. c \in Call /\ c.pc = "next"
  BY <1>2, IdleOK DEF Idle, Call, CallPcs
<1>4. CallOK(c, decisions)
  BY DEF CallOK, Serving, Idle
<1>5. QED
  BY <1>1, <1>3, <1>4, LocalStep

\* What the handler computes is an order the trader's word asks for.
LEMMA ReadToSubmitKeeps ==
  ASSUME FlowInv, NEW t \in Threads, ReadToSubmit(t)
  PROVE  FlowInv'
<1> DEFINE a == calls[t]
           d == decisions[Subject(t)]
           volume == InstructionVolume(d)
           buying == d.instr.buy > FillTolerance
<1>1. /\ a.pc = "read" /\ a.op = "submit" /\ Serving(a)
      /\ UNCHANGED <<vars, published, records, keyed>>
  BY DEF ReadToSubmit, Serving
<1>2. /\ a \in Call /\ a.todo # <<>> /\ CallFits(a, d)
      /\ a.key # NoKey => Subject(t) \in KeyOwner[a.key]
      /\ ~a.batch
  BY <1>1, ServingFits DEF Call
<1>3. d \in Decision /\ d.instr.buy \in Nat /\ d.instr.sell \in Nat
  BY <1>2, SubjectType DEF Decision
<1>4. volume \in Nat
  BY <1>3 DEF InstructionVolume
<1>5. ASSUME NEW filled \in Fills(volume), Submittable(d, a.at),
             GoOn(t, [a EXCEPT !.pc = "commit", !.requested = volume,
                               !.buy  = IF buying THEN filled ELSE 0,
                               !.sell = IF buying THEN 0 ELSE filled])
      PROVE  FlowInv'
  <2> DEFINE c == [a EXCEPT !.pc = "commit", !.requested = volume,
                            !.buy  = IF buying THEN filled ELSE 0,
                            !.sell = IF buying THEN 0 ELSE filled]
  <2>1. filled \in Nat /\ filled <= volume /\ (filled = 0 \/ filled > FillTolerance)
    BY <1>4 DEF Fills
  <2>2. c \in Call
    BY <1>2, <1>4, <2>1 DEF Call, CallPcs
  <2>3. /\ c.pc = "commit" /\ c.op = "submit" /\ c.requested = volume
        /\ c.buy = (IF buying THEN filled ELSE 0) /\ c.sell = (IF buying THEN 0 ELSE filled)
        /\ c.todo = a.todo /\ c.key = a.key /\ c.guard = a.guard /\ c.batch = a.batch
    BY <1>1, <1>2 DEF Call
  <2>4. TheOrder(c, d)
    BY <1>3, <2>1, <2>3 DEF TheOrder, InstructionVolume, FillTolerance
  <2>5. Rank(d.status) = 1
    BY <1>5 DEF Submittable, Rank
  <2> HIDE DEF c
  <2>6. BeforeCommit(c, d)
    BY <2>3, <2>4, <2>5 DEF BeforeCommit
  <2>7. ~c.batch
    BY <1>2, <2>3
  <2>8. CallFits(c, d)
    BY <1>2, <2>3, <2>6, <2>7 DEF CallFits, Services
  <2>9. CallOK(c, decisions)
    BY <1>2, <2>3, <2>7, <2>8 DEF CallOK, Subject
  <2>10. QED
    BY <1>1, <1>5, <2>2, <2>3, <2>9, LocalStep DEF c
<1>6. CASE Raise(t)
  BY <1>1, <1>6, RaiseKeeps
<1>7. QED
  BY <1>5, <1>6 DEF ReadToSubmit

\* What the handler computes is the volume executed when it read the decision.
LEMMA ReadOutcomeKeeps ==
  ASSUME FlowInv, NEW t \in Threads, ReadOutcome(t)
  PROVE  FlowInv'
<1> DEFINE a == calls[t]
           d == decisions[Subject(t)]
           c == [a EXCEPT !.pc = "commit", !.buy = d.exec.buy, !.sell = d.exec.sell]
           skip == [a EXCEPT !.pc = "next", !.todo = Tail(a.todo)]
<1>1. /\ a.pc = "read" /\ a.op # "submit" /\ Serving(a)
      /\ UNCHANGED <<vars, published, records, keyed>>
      /\ GoOn(t, c) \/ RaiseInput(t) \/ Raise(t)
  BY DEF ReadOutcome, Serving
<1>2. /\ a \in Call /\ a.todo # <<>> /\ CallFits(a, d)
      /\ a.key # NoKey => Subject(t) \in KeyOwner[a.key]
      /\ a.batch => a.guard = NoGuard /\ a.key = NoKey /\ a.op # "submit"
  BY <1>1, ServingFits
<1>3. d.exec.buy \in Nat /\ d.exec.sell \in Nat /\ Tail(a.todo) \in Seq(Ids)
  BY <1>2, SubjectType DEF Decision
<1>4. CASE GoOn(t, c)
  <2>1. c \in Call
    BY <1>2, <1>3 DEF Call, CallPcs
  <2>2. /\ c.pc = "commit" /\ c.op = a.op /\ c.buy = d.exec.buy /\ c.sell = d.exec.sell
        /\ c.todo = a.todo /\ c.key = a.key /\ c.guard = a.guard /\ c.batch = a.batch
    BY <1>2 DEF Call
  <2> HIDE DEF c
  <2>3. CallFits(c, d)
    BY <1>1, <1>2, <2>2 DEF CallFits, BeforeCommit
  <2>4. CallOK(c, decisions)
    BY <1>2, <2>2, <2>3 DEF CallOK, Subject
  <2>5. QED
    BY <1>1, <1>4, <2>1, <2>2, <2>4, LocalStep
<1>5. CASE RaiseInput(t)
  <2>1. a.batch => skip \in Call /\ CallOK(skip, decisions) /\ skip.pc = "next"
    BY <1>2, <1>3 DEF Call, CallPcs, CallOK, Serving
  <2>2. GoOn(t, IF a.batch THEN skip ELSE Idle)
    BY <1>5 DEF RaiseInput
  <2> HIDE DEF skip
  <2>3. QED
    BY <1>1, <2>1, <2>2, IdleOK, LocalStep
<1>6. CASE Raise(t)
  BY <1>1, <1>6, RaiseKeeps
<1>7. QED
  BY <1>1, <1>4, <1>5, <1>6

\* The batch takes up a decision only when its order is over.
LEMMA NextInBatchKeeps ==
  ASSUME FlowInv, NEW t \in Threads, NextInBatch(t)
  PROVE  FlowInv'
<1> DEFINE a == calls[t]
           s == decisions[Subject(t)].status
           op == CASE s \in Deliverable -> "deliver"
                   [] s = "DELIVERED"   -> "settle"
                   [] s = "SETTLED"     -> "evaluate"
                   [] OTHER             -> "none"
           try == [a EXCEPT !.pc = "read", !.op = op]
           skip == [a EXCEPT !.todo = Tail(a.todo)]
<1>1. /\ a.pc = "next"
      /\ UNCHANGED <<vars, published, records, keyed>>
      /\ \/ GoOn(t, Idle)
         \/ a.todo # <<>> /\ op # "none" /\ GoOn(t, try)
         \/ a.todo # <<>> /\ GoOn(t, skip)
         \/ Raise(t)
  BY DEF NextInBatch
<1>2. a \in Call /\ a.batch /\ a.guard = NoGuard /\ a.key = NoKey
  BY <1>1 DEF FlowInv, FlowTypeOK, CallsOK, CallOK
<1>3. ASSUME a.todo # <<>>, op # "none", GoOn(t, try) PROVE FlowInv'
  <2>1. op \in Services /\ op # "submit" /\ s # "ABSENT" /\ Rank(s) >= 3
    BY <1>3 DEF Services, Deliverable, Rank
  <2> HIDE DEF op
  <2>2. try \in Call
    BY <1>2, <2>1 DEF Call, CallPcs
  <2>3. /\ try.pc = "read" /\ try.op = op /\ try.todo = a.todo /\ try.key = NoKey
        /\ try.guard = NoGuard
    BY <1>2 DEF Call
  <2> HIDE DEF try
  <2>4. CallOK(try, decisions)
    BY <1>3, <2>1, <2>3 DEF CallOK, CallFits, Subject
  <2>5. QED
    BY <1>1, <1>3, <2>2, <2>3, <2>4, LocalStep
<1>4. ASSUME a.todo # <<>>, GoOn(t, skip) PROVE FlowInv'
  <2>1. Tail(a.todo) \in Seq(Ids)
    BY <1>4, SubjectType
  <2>2. a.op # "submit"
    BY <1>2 DEF FlowInv, CallsOK, CallOK
  <2>3. /\ skip.pc = "next" /\ skip.guard = NoGuard /\ skip.key = NoKey
        /\ skip.batch /\ skip.op # "submit"
    BY <1>1, <1>2, <2>2 DEF Call
  <2>4. skip \in Call
    BY <1>2, <2>1 DEF Call
  <2> HIDE DEF skip
  <2>5. CallOK(skip, decisions)
    BY <2>3 DEF CallOK, Serving
  <2>6. QED
    BY <1>1, <1>4, <2>3, <2>4, <2>5, LocalStep
<1>5. CASE Raise(t)
  BY <1>1, <1>5, RaiseKeeps
<1>6. QED
  BY <1>1, <1>3, <1>4, <1>5, IdleOK, LocalStep

----------------------------------------------------------------------------
(***************************************************************************)
(* Steps of a call that move its decision: the transition itself, and what *)
(* the simulator reports.                                                  *)
(***************************************************************************)
LEMMA ServeStep ==
  ASSUME FlowInv, NEW t \in Threads, NEW c \in Call, NEW x \in Ids,
         x = Subject(t), Head(c.todo) = x, c.op = calls[t].op, c.op \in Services,
         c.pc \in {"fill", "record"},
         GoOn(t, c), UNCHANGED <<order, batches, now, published, records, keyed>>,
         decisions' \in [Ids -> Decision],
         \A id \in Ids \ {x} : decisions'[id] = decisions[id],
         Moved(decisions[x], decisions'[x]), FlowStep(decisions[x], decisions'[x]),
         Sound(decisions'[x]), OrderOK(decisions'[x]), CallOK(c, decisions'),
         decisions[x].status = "SUBMITTED" => Pending(calls[t], "submit", x),
         \/ /\ calls[t].pc = "commit"
            /\ decisions'[x].status = TargetOf(c.op) /\ ~Passed(decisions[x], TargetOf(c.op))
         \/ /\ calls[t].pc = "fill"
            /\ \A op \in Services : decisions'[x].status # TargetOf(op)
  PROVE  FlowInv'
<1> DEFINE d == decisions[x]
           e == decisions'[x]
<1>1. \A u \in Threads : calls'[u] = IF u = t THEN c ELSE calls[u]
  BY DEF GoOn, FlowInv, FlowTypeOK
<1>2. \A id \in Ids : /\ decisions[id] \in Decision /\ decisions'[id] \in Decision
                      /\ FlowStep(decisions[id], decisions'[id])
                      /\ Sound(decisions'[id]) /\ OrderOK(decisions'[id])
  BY DEF FlowInv, StoreInv, TypeOK, OrdersOK, FlowStep
<1>3. StoreInv' /\ OrdersOK'
  BY <1>2 DEF FlowInv, StoreInv, TypeOK, OrdersOK
<1>4. FlowTypeOK'
  BY DEF FlowInv, FlowTypeOK, GoOn
<1>5. CallsOK'
  <2> SUFFICES ASSUME NEW u \in Threads PROVE CallOK(calls'[u], decisions')
    BY DEF CallsOK
  <2>1. CASE u = t
    BY <1>1, <2>1
  <2>2. CASE u # t
    <3>1. calls'[u] = calls[u] /\ calls[u] \in Call /\ CallOK(calls[u], decisions)
      BY <1>1, <2>2 DEF FlowInv, FlowTypeOK, CallsOK
    <3>2. ASSUME calls[u].pc = "fill"
          PROVE  decisions'[Head(calls[u].todo)] = decisions[Head(calls[u].todo)]
      <4>1. /\ calls[u].todo # <<>>
            /\ CallFits(calls[u], decisions[Head(calls[u].todo)])
        BY <3>1, <3>2 DEF CallOK, Serving
      <4>2. Head(calls[u].todo) \in Ids
        BY <3>1, <4>1 DEF Call
      <4>3. CASE Head(calls[u].todo) = x
        <5>1. decisions[x].status = "SUBMITTED" /\ calls[u].op = "submit"
          BY <3>2, <4>1, <4>3 DEF CallFits, AfterCommit
        <5>2. Pending(calls[u], "submit", x) /\ Pending(calls[t], "submit", x)
          BY <3>2, <4>3, <5>1 DEF Pending
        <5>3. LedgerOK("submit", x)
          BY DEF FlowInv, LedgersOK, Services
        <5>4. QED
          BY <2>2, <5>2, <5>3 DEF LedgerOK
      <4>4. QED
        BY <4>2, <4>3
    <3>3. QED
      BY <1>2, <3>1, <3>2, CallOKKept DEF FlowInv
  <2>3. QED
    BY <2>1, <2>2
<1>6. LedgersOK'
  <2> SUFFICES ASSUME NEW op \in Services, NEW id \in Ids PROVE LedgerOK(op, id)'
    BY DEF LedgersOK
  <2>1. LedgerOK(op, id)
    BY DEF FlowInv, LedgersOK
  <2>2. Pending(c, op, id) <=> c.op = op /\ id = x
    BY DEF Pending
  <2>3. TargetOf(op) \in Statuses /\ (TargetOf(op) = TargetOf(c.op) => op = c.op)
    BY Targets
  <2>4. CASE c.op = op /\ id = x /\ calls[t].pc = "commit"
    <3>1. ~Written(records[op], id) /\ ~Underway(op, id)
      BY <2>1, <2>4 DEF LedgerOK
    <3>2. \A u \in Threads : Pending(calls'[u], op, id) <=> u = t
      BY <1>1, <2>2, <2>4, <3>1 DEF Underway
    <3>3. Passed(decisions'[id], TargetOf(op))
      BY <2>3, <2>4 DEF Moved
    <3>4. QED
      BY <2>1, <3>1, <3>2, <3>3 DEF LedgerOK, Underway
  <2>5. CASE ~(c.op = op /\ id = x /\ calls[t].pc = "commit")
    <3>1. Pending(calls[t], op, id) <=> Pending(c, op, id)
      BY <2>2, <2>5 DEF Pending, Subject
    <3>2. \A u \in Threads : Pending(calls'[u], op, id) <=> Pending(calls[u], op, id)
      BY <1>1, <3>1
    <3>3. Underway(op, id)' <=> Underway(op, id)
      BY <3>2 DEF Underway
    <3>4. Passed(decisions'[id], TargetOf(op)) <=> Passed(decisions[id], TargetOf(op))
      BY <2>3, <2>5 DEF Moved
    <3>5. QED
      BY <2>1, <3>2, <3>3, <3>4 DEF LedgerOK
  <2>6. QED
    BY <2>4, <2>5
<1>7. OrderRecordsOK'
  <2> SUFFICES ASSUME NEW i \in DOMAIN records["submit"]
               PROVE  OrderRecordOK(records["submit"][i], decisions'[records["submit"][i].id])
    BY DEF OrderRecordsOK
  <2> DEFINE id == records["submit"][i].id
  <2>1. id \in Ids
    BY RecordType DEF FlowInv, Services
  <2>2. OrderRecordOK(records["submit"][i], decisions[id])
    BY DEF FlowInv, OrderRecordsOK
  <2> HIDE DEF id
  <2>3. FlowStep(decisions[id], decisions'[id])
    BY <1>2, <2>1
  <2>4. Rank(decisions[id].status) \in Int /\ Rank(decisions'[id].status) \in Int
    BY RankType
  <2>5. QED
    BY <2>2, <2>3, <2>4 DEF OrderRecordOK, FlowStep, Moved, id
<1>8. QED
  BY <1>3, <1>4, <1>5, <1>6, <1>7 DEF FlowInv

\* What a transition that replaces the order, or the outcome, leaves in the store.
LEMMA TransitionEffect ==
  ASSUME TypeOK, NEW id \in Ids, NEW g, NEW t, NEW x
  PROVE  /\ Transition(id, g, t, [decisions[id] EXCEPT !.exec = x]) =>
              decisions'[id].status = t /\ decisions'[id].exec = x
         /\ Transition(id, g, t, [decisions[id] EXCEPT !.settlement = x]) =>
              decisions'[id].status = t /\ decisions'[id].settlement = x
         /\ Transition(id, g, t, [decisions[id] EXCEPT !.evaluated = x]) =>
              decisions'[id].status = t
<1> DEFINE d == decisions[id]
<1>1. d \in Decision /\ decisions \in [Ids -> Decision]
  BY DEF TypeOK
<1>2. ASSUME NEW u, Transition(id, g, t, u)
      PROVE  decisions'[id] = Advance(u, t)
  BY <1>1, <1>2 DEF Transition
<1>3. /\ Advance([d EXCEPT !.exec = x], t).status = t
      /\ Advance([d EXCEPT !.exec = x], t).exec = x
  BY <1>1 DEF Advance, Decision
<1>4. /\ Advance([d EXCEPT !.settlement = x], t).status = t
      /\ Advance([d EXCEPT !.settlement = x], t).settlement = x
  BY <1>1 DEF Advance, Decision
<1>5. Advance([d EXCEPT !.evaluated = x], t).status = t
  BY <1>1 DEF Advance, Decision
<1>6. QED
  BY <1>2, <1>3, <1>4, <1>5

\* The order that a submission starts.
NewOrder(v) == [NoExecution EXCEPT !.status = "SUBMITTED", !.requested = v]

\* What the four transitions of the services have in common, and what each writes.
LEMMA CommitEffect ==
  ASSUME FlowInv, NEW t \in Threads, Commit(t)
  PROVE  LET c == calls[t]
             x == Subject(t)
             e == decisions'[x] IN
         /\ OneDecisionMoves(x)
         /\ Precondition(decisions[x], c.guard)
         /\ UNCHANGED <<order, batches, now>>
         /\ e.status = TargetOf(c.op)
         /\ c.op = "submit"  => e.exec = NewOrder(c.requested)
         /\ c.op = "deliver" => e.settlement.position = NetExecuted(c)
         /\ c.op = "settle"  => e.settlement.pnl = NetExecuted(c)
<1> DEFINE c == calls[t]
           x == Subject(t)
           d == decisions[x]
           e == decisions'[x]
<1>1. c.pc = "commit" /\ Serving(c) /\ TypeOK
  BY DEF Commit, Serving, FlowInv, StoreInv
<1>2. x \in Ids /\ c \in Call /\ d \in Decision
  BY <1>1, ServingFits, SubjectType
<1>3. c.requested \in Nat /\ NetExecuted(c) \in Int
  BY <1>2 DEF Call, NetExecuted
<1>4. CASE c.op = "submit" /\ Submit(x, c.guard, c.requested)
  <2>1. OneDecisionMoves(x)
    BY <1>1, <1>2, <1>3, <1>4, SubmitMoves
  <2>2. Transition(x, c.guard, "SUBMITTED", [d EXCEPT !.exec = NewOrder(c.requested)])
    BY <1>4 DEF Submit, NewOrder
  <2>3. e.status = "SUBMITTED" /\ e.exec = NewOrder(c.requested)
    BY <1>1, <1>2, <2>2, TransitionEffect
  <2>4. QED
    BY <1>4, <2>1, <2>2, <2>3, Targets DEF Transition
<1>5. CASE c.op = "deliver" /\ Deliver(x, c.guard, NetExecuted(c))
  <2>1. OneDecisionMoves(x)
    BY <1>1, <1>2, <1>3, <1>5, DeliverMoves
  <2>2. Transition(x, c.guard, "DELIVERED", [d EXCEPT !.settlement = Delivered(NetExecuted(c))])
    BY <1>5 DEF Deliver
  <2>3. e.status = "DELIVERED" /\ e.settlement = Delivered(NetExecuted(c))
    BY <1>1, <1>2, <2>2, TransitionEffect
  <2>4. Delivered(NetExecuted(c)).position = NetExecuted(c)
    BY DEF Delivered
  <2>5. QED
    BY <1>5, <2>1, <2>2, <2>3, <2>4, Targets DEF Transition
<1>6. CASE c.op = "settle" /\ Settle(x, c.guard, NetExecuted(c))
  <2> DEFINE s == [d.settlement EXCEPT !.settled = TRUE, !.pnl = NetExecuted(c)]
  <2>1. OneDecisionMoves(x)
    BY <1>1, <1>2, <1>3, <1>6, SettleMoves
  <2>2. Transition(x, c.guard, "SETTLED", [d EXCEPT !.settlement = s])
    BY <1>6 DEF Settle
  <2>3. s.pnl = NetExecuted(c)
    BY <1>2 DEF Decision
  <2> HIDE DEF s
  <2>4. e.status = "SETTLED" /\ e.settlement = s
    BY <1>1, <1>2, <2>2, TransitionEffect
  <2>5. QED
    BY <1>6, <2>1, <2>2, <2>3, <2>4, Targets DEF Transition
<1>7. CASE c.op = "evaluate" /\ Evaluate(x, c.guard)
  <2>1. OneDecisionMoves(x)
    BY <1>1, <1>2, <1>7, EvaluateMoves
  <2>2. Transition(x, c.guard, "EVALUATED", [d EXCEPT !.evaluated = TRUE])
    BY <1>7 DEF Evaluate
  <2>3. e.status = "EVALUATED"
    BY <1>1, <1>2, <2>2, TransitionEffect
  <2>4. QED
    BY <1>7, <2>1, <2>2, <2>3, Targets DEF Transition
<1>8. QED
  BY <1>4, <1>5, <1>6, <1>7 DEF Commit

\* The transition is legal, so the decision was not at the stage and not with the simulator;
\* and the store accepted the version, so what the call computed from it is still true.
LEMMA CommitKeeps ==
  ASSUME FlowInv, NEW t \in Threads, Commit(t)
  PROVE  FlowInv'
<1> DEFINE a == calls[t]
           x == Subject(t)
           d == decisions[x]
           e == decisions'[x]
           c == [a EXCEPT !.pc = IF a.op = "submit" THEN "fill" ELSE "record"]
<1>1. /\ a.pc = "commit" /\ Serving(a) /\ GoOn(t, c)
      /\ UNCHANGED <<published, records, keyed>>
  BY DEF Commit, Serving
<1>2. /\ a \in Call /\ a.todo # <<>> /\ CallFits(a, d)
      /\ a.key # NoKey => x \in KeyOwner[a.key]
      /\ a.batch => a.guard = NoGuard /\ a.key = NoKey /\ a.op # "submit"
  BY <1>1, ServingFits
<1>3. x \in Ids /\ d \in Decision /\ Sound(d) /\ OrderOK(d)
  BY <1>2, SubjectType DEF FlowInv, OrdersOK
<1>4. /\ OneDecisionMoves(x)
      /\ Precondition(d, a.guard)
      /\ UNCHANGED <<order, batches, now>>
      /\ e.status = TargetOf(a.op)
      /\ a.op = "submit"  => e.exec = NewOrder(a.requested)
      /\ a.op = "deliver" => e.settlement.position = NetExecuted(a)
      /\ a.op = "settle"  => e.settlement.pnl = NetExecuted(a)
  BY CommitEffect
<1>5. /\ MovedOn(d, e) /\ Moved(d, e) /\ e \in Decision /\ Sound(e)
      /\ decisions' \in [Ids -> Decision]
      /\ \A id \in Ids \ {x} : decisions'[id] = decisions[id]
  BY <1>3, <1>4, MoveFacts DEF FlowInv, MovedOn
<1>6. a.op \in Services /\ d.status # "ABSENT" /\ BeforeCommit(a, d)
  BY <1>1, <1>2 DEF CallFits
<1>7. /\ c \in Call /\ c.op = a.op /\ c.todo = a.todo /\ c.guard = a.guard
      /\ c.batch = a.batch /\ c.key = a.key /\ c.requested = a.requested
      /\ c.buy = a.buy /\ c.sell = a.sell
      /\ c.pc = IF a.op = "submit" THEN "fill" ELSE "record"
  BY <1>2 DEF Call, CallPcs
<1>8. Head(c.todo) = x
  BY <1>7 DEF Subject
<1> HIDE DEF a, c, d, e
<1>9. /\ a.op = "submit" => d.status \in {"ACCEPTED", "MODIFIED"}
      /\ a.op = "deliver" => d.status \in Deliverable
      /\ a.op = "settle" => d.status = "DELIVERED"
      /\ a.op = "evaluate" => d.status = "SETTLED"
  BY <1>4, <1>5, Targets, EdgeSources DEF MovedOn, Deliverable
<1>10. /\ d.status # "SUBMITTED"
       /\ a.op = "submit" => Rank(d.status) = 1
       /\ a.op # "submit" => Rank(d.status) >= 3 /\ Rank(e.status) >= 3
       /\ Rank(d.status) < Rank(e.status)
  BY <1>4, <1>6, <1>9, Targets DEF Deliverable, Rank, Services
<1>11. ~Passed(d, TargetOf(a.op))
  <2>1. Rank(d.status) \in Int /\ Rank(e.status) \in Int
    BY RankType
  <2>2. QED
    BY <1>3, <1>4, <1>10, <2>1, PassedRanks
<1>12. Passed(e, TargetOf(a.op))
  BY <1>4, <1>5 DEF Moved
<1>13. e.instr = d.instr
  BY <1>4, <1>5, <1>6, Targets DEF MovedOn
<1>14. a.op # "submit" => e.exec = d.exec
  BY <1>4, <1>5, <1>6, Targets DEF MovedOn, Services, ExecutionStatuses
<1>15. FlowStep(d, e)
  BY <1>5, <1>10, <1>14 DEF FlowStep
<1>16. a.op = "submit" => TheOrder(a, d) /\ e.exec = NewOrder(a.requested)
  BY <1>4, <1>6, <1>10 DEF BeforeCommit
<1>17. OrderOK(e)
  <2>1. CASE a.op = "submit"
    <3>1. /\ e.exec.requested = a.requested /\ e.exec.buy = 0 /\ e.exec.sell = 0
      BY <1>16, <2>1 DEF NewOrder, NoExecution
    <3>2. a.requested = InstructionVolume(e)
      BY <1>13, <1>16, <2>1 DEF TheOrder, InstructionVolume
    <3>3. e.instr.buy >= 0 /\ e.instr.sell >= 0
      BY <1>5 DEF Decision
    <3>4. QED
      BY <3>1, <3>2, <3>3 DEF OrderOK
  <2>2. CASE a.op # "submit"
    <3>1. e.status # "SUBMITTED"
      BY <1>4, <1>6, <2>2, Targets DEF Services
    <3>2. QED
      BY <1>3, <1>13, <1>14, <2>2, <3>1 DEF OrderOK, InstructionVolume
  <2>3. QED
    BY <2>1, <2>2
<1>18. a.op # "submit" /\ (a.batch \/ a.guard # NoGuard) =>
         NetExecuted(a) = e.exec.buy - e.exec.sell
  <2> SUFFICES ASSUME a.op # "submit", a.batch \/ a.guard # NoGuard
               PROVE  NetExecuted(a) = e.exec.buy - e.exec.sell
    OBVIOUS
  <2>1. a.guard # NoGuard => a.guard.seq = Len(d.log)
    <3> SUFFICES ASSUME a.guard # NoGuard PROVE a.guard.seq = Len(d.log)
      OBVIOUS
    <3>1. a.guard.seq \in 1..Len(d.log)
      BY <1>2 DEF CallFits
    <3>2. CurrentSequence(d) = Len(d.log) /\ Len(d.log) \in Nat
      BY <1>3, <1>6, GuardFacts
    <3>3. QED
      BY <1>4, <3>1, <3>2 DEF Precondition
  <2>2. a.buy = d.exec.buy /\ a.sell = d.exec.sell
    BY <1>6, <2>1 DEF BeforeCommit
  <2>3. QED
    BY <1>14, <2>2 DEF NetExecuted
<1>19. AfterCommit(c, e)
  <2>1. CASE a.op = "submit"
    <3>1. c.pc = "fill" /\ c.op = "submit" /\ e.status = "SUBMITTED"
      BY <1>4, <1>7, <2>1, Targets
    <3>2. TheOrder(c, e)
      BY <1>7, <1>13, <1>16, <2>1 DEF TheOrder, InstructionVolume
    <3>3. QED
      BY <1>12, <2>1, <3>1, <3>2 DEF AfterCommit
  <2>2. CASE a.op # "submit"
    <3>1. c.pc = "record" /\ c.op = a.op
      BY <1>7, <2>2
    <3>2. Rank(e.status) >= 3
      BY <1>10, <2>2
    <3>3. c.batch \/ c.guard # NoGuard =>
            /\ c.op = "deliver" => e.settlement.position = e.exec.buy - e.exec.sell
            /\ c.op = "settle"  => e.settlement.pnl = e.exec.buy - e.exec.sell
      BY <1>4, <1>7, <1>18, <2>2
    <3>4. QED
      BY <1>12, <2>2, <3>1, <3>2, <3>3 DEF AfterCommit
  <2>3. QED
    BY <2>1, <2>2
<1>20. CallFits(c, e)
  <2>1. e.status # "ABSENT"
    BY <1>5 DEF Moved, Statuses
  <2>2. c.guard # NoGuard => c.guard.seq \in 1..Len(e.log)
    <3>1. Len(d.log) \in Nat /\ Len(e.log) = Len(d.log) + 1
      BY <1>3, <1>5, LogLength DEF Moved
    <3>2. QED
      BY <1>2, <1>7, <3>1 DEF CallFits
  <2>3. c.batch => Rank(e.status) >= 3
    BY <1>2, <1>7, <1>10
  <2>4. c.pc # "commit"
    BY <1>7
  <2>5. QED
    BY <1>6, <1>7, <1>19, <2>1, <2>2, <2>3, <2>4 DEF CallFits
<1>21. CallOK(c, decisions')
  <2>1. decisions'[Head(c.todo)] = e
    BY <1>8 DEF e
  <2>2. c.pc # "next"
    BY <1>7
  <2>3. QED
    BY <1>2, <1>7, <1>8, <1>20, <2>1, <2>2 DEF CallOK
<1>22. c.pc \in {"fill", "record"} /\ c.op \in Services /\ c.op = a.op
  BY <1>6, <1>7
<1>23. QED
  BY <1>1, <1>3, <1>4, <1>5, <1>7, <1>8, <1>10, <1>11, <1>15, <1>17, <1>21, <1>22, ServeStep
     DEF a, d, e

\* What the simulator's answer leaves in the store: the order with the volumes of the call.
LEMMA ReportEffect ==
  ASSUME FlowInv, NEW t \in Threads, Report(t)
  PROVE  LET c == calls[t]
             x == Subject(t)
             d == decisions[x]
             e == decisions'[x] IN
         /\ d.status = "SUBMITTED" /\ TheOrder(c, d)
         /\ OneDecisionMoves(x)
         /\ UNCHANGED <<order, batches, now>>
         /\ e.status \in {"FILLED", "PARTIALLY_FILLED", "EXPIRED"}
         /\ e.exec.requested = d.exec.requested /\ d.exec.requested = InstructionVolume(d)
         /\ e.exec.buy = c.buy /\ e.exec.sell = c.sell
<1> DEFINE c == calls[t]
           x == Subject(t)
           d == decisions[x]
           e == decisions'[x]
           base == d.exec
<1>1. c.pc = "fill" /\ Serving(c) /\ TypeOK
  BY DEF Report, Serving, FlowInv, StoreInv
<1>2. x \in Ids /\ c \in Call /\ d \in Decision /\ Sound(d) /\ OrderOK(d) /\ CallFits(c, d)
  BY <1>1, ServingFits, SubjectType DEF FlowInv, OrdersOK
<1>3. d.status = "SUBMITTED" /\ TheOrder(c, d)
  BY <1>1, <1>2 DEF CallFits, AfterCommit
<1>4. d.exec.status = "SUBMITTED"
  BY <1>2, <1>3 DEF Sound, RecordsMatchLog, ExecutionStatuses
<1>5. base.requested = InstructionVolume(d) /\ base.buy = 0 /\ base.sell = 0
  BY <1>2, <1>3, <1>4 DEF OrderOK
<1>6. /\ c.buy \in Nat /\ c.sell \in Nat /\ base.requested \in Nat
      /\ base \in [status : ExecutionStatuses \cup {"NONE"}, requested : Nat, buy : Nat,
                   sell : Nat, unfilled : Nat]
  BY <1>2 DEF Call, Decision
<1>7. CASE ApplyFill(x, c.buy, c.sell)
  <2> DEFINE left   == AtLeastZero(base.requested - (c.buy + c.sell))
             target == IF left <= FillTolerance THEN "FILLED" ELSE "PARTIALLY_FILLED"
             o      == [base EXCEPT !.status = target, !.buy = c.buy, !.sell = c.sell,
                                    !.unfilled = left]
  <2>1. c.buy + c.sell \in (base.buy + base.sell)..base.requested
    BY <1>3, <1>5, <1>6 DEF TheOrder
  <2>2. OneDecisionMoves(x)
    BY <1>1, <1>2, <1>6, <1>7, <2>1, ApplyFillMoves
  <2>3. Transition(x, NoGuard, target, [d EXCEPT !.exec = o])
    BY <1>7 DEF ApplyFill
  <2>4. o.buy = c.buy /\ o.sell = c.sell /\ o.requested = base.requested
    BY <1>6
  <2> HIDE DEF o
  <2>5. e.status = target /\ e.exec = o
    BY <1>1, <1>2, <2>3, TransitionEffect
  <2>6. UNCHANGED <<order, batches, now>>
    BY <2>3 DEF Transition
  <2>7. QED
    BY <1>3, <1>5, <2>2, <2>4, <2>5, <2>6
<1>8. CASE c.buy + c.sell <= FillTolerance /\ Expire(x)
  <2> DEFINE o == [base EXCEPT !.status   = "EXPIRED",
                               !.unfilled = AtLeastZero(base.requested - (base.buy + base.sell))]
  <2>1. c.buy = 0 /\ c.sell = 0
    BY <1>3, <1>6, <1>8 DEF TheOrder, FillTolerance
  <2>2. OneDecisionMoves(x)
    BY <1>1, <1>2, <1>8, ExpireMoves
  <2>3. Transition(x, NoGuard, "EXPIRED", [d EXCEPT !.exec = o])
    BY <1>8 DEF Expire
  <2>4. o.buy = base.buy /\ o.sell = base.sell /\ o.requested = base.requested
    BY <1>6
  <2> HIDE DEF o
  <2>5. e.status = "EXPIRED" /\ e.exec = o
    BY <1>1, <1>2, <2>3, TransitionEffect
  <2>6. UNCHANGED <<order, batches, now>>
    BY <2>3 DEF Transition
  <2>7. QED
    BY <1>3, <1>5, <2>1, <2>2, <2>4, <2>5, <2>6
<1>9. QED
  BY <1>7, <1>8 DEF Report

\* Nobody but the call that placed the order resolves it, with the volumes it will write.
LEMMA ReportKeeps ==
  ASSUME FlowInv, NEW t \in Threads, Report(t)
  PROVE  FlowInv'
<1> DEFINE a == calls[t]
           x == Subject(t)
           d == decisions[x]
           e == decisions'[x]
           c == [a EXCEPT !.pc = "record"]
<1>1. /\ a.pc = "fill" /\ Serving(a) /\ GoOn(t, c)
      /\ UNCHANGED <<published, records, keyed>>
  BY DEF Report, Serving
<1>2. /\ a \in Call /\ a.todo # <<>> /\ CallFits(a, d)
      /\ a.key # NoKey => x \in KeyOwner[a.key]
      /\ a.batch => a.guard = NoGuard /\ a.key = NoKey /\ a.op # "submit"
  BY <1>1, ServingFits
<1>3. x \in Ids /\ d \in Decision /\ Sound(d)
  BY <1>2, SubjectType
<1>4. /\ d.status = "SUBMITTED" /\ TheOrder(a, d)
      /\ OneDecisionMoves(x)
      /\ UNCHANGED <<order, batches, now>>
      /\ e.status \in {"FILLED", "PARTIALLY_FILLED", "EXPIRED"}
      /\ e.exec.requested = d.exec.requested /\ d.exec.requested = InstructionVolume(d)
      /\ e.exec.buy = a.buy /\ e.exec.sell = a.sell
  BY ReportEffect
<1>5. /\ MovedOn(d, e) /\ Moved(d, e) /\ e \in Decision /\ Sound(e)
      /\ decisions' \in [Ids -> Decision]
      /\ \A id \in Ids \ {x} : decisions'[id] = decisions[id]
  BY <1>3, <1>4, MoveFacts DEF FlowInv, MovedOn
<1>6. a.op = "submit" /\ AfterCommit(a, d)
  BY <1>1, <1>2 DEF CallFits, AfterCommit
<1>7. /\ c \in Call /\ c.op = a.op /\ c.todo = a.todo /\ c.guard = a.guard
      /\ c.batch = a.batch /\ c.key = a.key /\ c.buy = a.buy /\ c.sell = a.sell
      /\ c.pc = "record"
  BY <1>2 DEF Call, CallPcs
<1>8. Head(c.todo) = x
  BY <1>7 DEF Subject
<1> HIDE DEF a, c, d, e
<1>9. Rank(d.status) = 2 /\ Rank(e.status) >= 3
  BY <1>4 DEF Rank
<1>10. FlowStep(d, e)
  BY <1>5, <1>9 DEF FlowStep
<1>11. e.instr = d.instr
  BY <1>4, <1>5 DEF MovedOn, TraderTargets
<1>12. OrderOK(e)
  BY <1>4, <1>11 DEF OrderOK, TheOrder, InstructionVolume
<1>13. AfterCommit(c, e)
  <2>1. Passed(e, TargetOf(c.op))
    BY <1>5, <1>6, <1>7, Targets DEF Moved, AfterCommit, Statuses
  <2>2. QED
    BY <1>4, <1>6, <1>7, <1>9, <2>1 DEF AfterCommit
<1>14. CallFits(c, e)
  <2>1. e.status # "ABSENT"
    BY <1>4
  <2>2. c.guard # NoGuard => c.guard.seq \in 1..Len(e.log)
    <3>1. Len(d.log) \in Nat /\ Len(e.log) = Len(d.log) + 1
      BY <1>3, <1>5, LogLength DEF Moved
    <3>2. QED
      BY <1>2, <1>7, <3>1 DEF CallFits
  <2>3. QED
    BY <1>6, <1>7, <1>9, <1>13, <2>1, <2>2 DEF CallFits, Services
<1>15. CallOK(c, decisions')
  <2>1. decisions'[Head(c.todo)] = e
    BY <1>8 DEF e
  <2>2. QED
    BY <1>2, <1>7, <1>8, <1>14, <2>1 DEF CallOK
<1>16. /\ Pending(a, "submit", x) /\ c.op \in Services
       /\ \A op \in Services : e.status # TargetOf(op)
  BY <1>1, <1>4, <1>6, <1>7, Targets DEF Pending, Subject, Services, a
<1>17. QED
  BY <1>1, <1>3, <1>4, <1>5, <1>7, <1>8, <1>10, <1>12, <1>15, <1>16, ServeStep DEF a, d, e

----------------------------------------------------------------------------
(***************************************************************************)
(* Record: the pending line of the ledger is written.                      *)
(***************************************************************************)
LEMMA AppendEntry ==
  ASSUME NEW S, NEW s \in Seq(S), NEW r \in S
  PROVE  /\ Append(s, r) \in Seq(S)
         /\ DOMAIN Append(s, r) = DOMAIN s \cup {Len(s) + 1}
         /\ Len(s) + 1 \notin DOMAIN s /\ Len(s) \in Nat
         /\ \A i \in DOMAIN s : Append(s, r)[i] = s[i]
         /\ Append(s, r)[Len(s) + 1] = r
OBVIOUS

\* The record of the pending stage becomes the one line of its ledger.
LEMMA RecordKeeps ==
  ASSUME FlowInv, NEW t \in Threads, Record(t)
  PROVE  FlowInv'
<1> DEFINE a == calls[t]
           x == Subject(t)
           d == decisions[x]
           r == [id |-> x, buy |-> a.buy, sell |-> a.sell, at |-> a.at]
           s == records[a.op]
           n == Len(s) + 1
           entry == [payload |-> Payload(a), record |-> n]
           c == IF a.batch THEN [a EXCEPT !.pc = "next"] ELSE Idle
<1>1. /\ a.pc = "record" /\ Serving(a) /\ GoOn(t, c)
      /\ records' = [records EXCEPT ![a.op] = Append(s, r)]
      /\ keyed' = keyed \/ (a.key # NoKey /\ keyed' = [keyed EXCEPT ![a.op][a.key] = entry])
      /\ UNCHANGED <<vars, published>>
  BY DEF Record, Serving
<1>2. /\ a \in Call /\ a.todo # <<>> /\ CallFits(a, d)
      /\ a.key # NoKey => x \in KeyOwner[a.key]
      /\ a.batch => a.guard = NoGuard /\ a.key = NoKey /\ a.op # "submit"
  BY <1>1, ServingFits
<1>3. a.op \in Services /\ AfterCommit(a, d)
  BY <1>1, <1>2 DEF CallFits
<1>4. x \in Ids /\ d \in Decision
  BY <1>2, SubjectType
<1>5. r \in LedgerEntry /\ entry \in Entry
  <2>1. r \in LedgerEntry
    BY <1>2, <1>4 DEF Call, LedgerEntry
  <2>2. Payload(a) \in [id : Ids \cup {"none"}, guard : Guard]
    BY <1>2, <1>4 DEF Call, Payload, Subject
  <2>3. n \in Nat
    BY <1>3 DEF FlowInv, FlowTypeOK
  <2>4. QED
    BY <2>1, <2>2, <2>3 DEF Entry
<1>6. s \in Seq(LedgerEntry)
  BY <1>3 DEF FlowInv, FlowTypeOK
<1>7. r.id = x /\ r.buy = a.buy /\ r.sell = a.sell
  OBVIOUS
<1> HIDE DEF r
<1>8. /\ Append(s, r) \in Seq(LedgerEntry)
      /\ DOMAIN Append(s, r) = DOMAIN s \cup {n}
      /\ n \notin DOMAIN s
      /\ \A i \in DOMAIN s : Append(s, r)[i] = s[i]
      /\ Append(s, r)[n] = r
  BY <1>5, <1>6, AppendEntry
<1>9. c \in Call /\ CallOK(c, decisions) /\ c.pc \notin {"fill", "record"}
  <2>1. CASE a.batch
    <3>1. c = [a EXCEPT !.pc = "next"]
      BY <2>1
    <3>2. /\ c.pc = "next" /\ c.guard = NoGuard /\ c.key = NoKey /\ c.batch
          /\ c.op # "submit" /\ c \in Call
      BY <1>2, <2>1, <3>1 DEF Call, CallPcs
    <3>3. QED
      BY <3>2 DEF CallOK, Serving
  <2>2. CASE ~a.batch
    BY <2>2, IdleOK
  <2>3. QED
    BY <2>1, <2>2
<1> HIDE DEF c, entry, s, n
<1>10. \A u \in Threads : calls'[u] = IF u = t THEN c ELSE calls[u]
  BY <1>1 DEF GoOn, FlowInv, FlowTypeOK
<1>11. \A op \in Services : records'[op] = IF op = a.op THEN Append(s, r) ELSE records[op]
  BY <1>1 DEF FlowInv, FlowTypeOK
<1>12. StoreInv' /\ OrdersOK'
  BY <1>1 DEF FlowInv, StoreInv, TypeOK, OrdersOK, vars
<1>13. FlowTypeOK'
  <2>1. calls' \in [Threads -> Call]
    BY <1>1, <1>9 DEF GoOn, FlowInv, FlowTypeOK
  <2>2. records' \in [Services -> Seq(LedgerEntry)]
    BY <1>1, <1>3, <1>8 DEF FlowInv, FlowTypeOK
  <2>3. a.key # NoKey => a.key \in Keys
    BY <1>2 DEF Call
  <2>4. keyed' \in [Services -> [Keys -> Entry]]
    <3>1. CASE keyed' = keyed
      BY <3>1 DEF FlowInv, FlowTypeOK
    <3>2. CASE a.key # NoKey /\ keyed' = [keyed EXCEPT ![a.op][a.key] = entry]
      <4>1. [keyed[a.op] EXCEPT ![a.key] = entry] \in [Keys -> Entry]
        BY <1>3, <1>5, <2>3, <3>2 DEF FlowInv, FlowTypeOK
      <4>2. keyed' = [keyed EXCEPT ![a.op] = [keyed[a.op] EXCEPT ![a.key] = entry]]
        BY <3>2
      <4>3. QED
        BY <1>3, <4>1, <4>2 DEF FlowInv, FlowTypeOK
    <3>3. QED
      BY <1>1, <3>1, <3>2
  <2>5. QED
    BY <1>1, <2>1, <2>2, <2>4 DEF FlowInv, FlowTypeOK
<1>14. CallsOK'
  <2> SUFFICES ASSUME NEW u \in Threads PROVE CallOK(calls'[u], decisions)
    BY <1>1 DEF CallsOK, vars
  <2>1. QED
    BY <1>9, <1>10 DEF FlowInv, CallsOK
<1>15. LedgersOK'
  <2> SUFFICES ASSUME NEW op \in Services, NEW id \in Ids PROVE LedgerOK(op, id)'
    BY DEF LedgersOK
  <2>1. LedgerOK(op, id) /\ decisions' = decisions
    BY <1>1 DEF FlowInv, LedgersOK, vars
  <2>2. Pending(a, op, id) <=> op = a.op /\ id = x
    BY <1>1 DEF Pending, Subject
  <2>3. ~Pending(c, op, id)
    BY <1>9 DEF Pending
  <2>4. CASE op = a.op /\ id = x
    <3>1. ~Written(s, id) /\ \A u \in Threads : Pending(calls[u], op, id) => u = t
      BY <2>1, <2>2, <2>4 DEF LedgerOK, Underway, s
    <3>2. \A u \in Threads : ~Pending(calls'[u], op, id)
      BY <1>10, <2>3, <3>1
    <3>3. records'[op] = Append(s, r)
      BY <1>11, <2>4
    <3>4. Written(Append(s, r), id)
      BY <1>7, <1>8, <2>4 DEF Written
    <3>5. \A i \in DOMAIN Append(s, r) : Append(s, r)[i].id = id => i = n
      BY <1>8, <3>1 DEF Written
    <3>6. Passed(decisions[id], TargetOf(op))
      BY <1>3, <2>4
         DEF AfterCommit
    <3>7. QED
      BY <2>1, <3>2, <3>3, <3>4, <3>5, <3>6 DEF LedgerOK, Underway
  <2>5. CASE ~(op = a.op /\ id = x)
    <3>1. \A u \in Threads : Pending(calls'[u], op, id) <=> Pending(calls[u], op, id)
      BY <1>10, <2>2, <2>3, <2>5
    <3>2. Underway(op, id)' <=> Underway(op, id)
      BY <3>1 DEF Underway
    <3>3. /\ Written(records'[op], id) <=> Written(records[op], id)
          /\ \A i \in DOMAIN records'[op] : records'[op][i].id = id =>
               i \in DOMAIN records[op] /\ records[op][i].id = id
      BY <1>7, <1>8, <1>11, <2>5 DEF Written, s
    <3>4. QED
      BY <2>1, <3>1, <3>2, <3>3 DEF LedgerOK
  <2>6. QED
    BY <2>4, <2>5
<1>16. OrderRecordsOK'
  <2> SUFFICES ASSUME NEW i \in DOMAIN records'["submit"]
               PROVE  OrderRecordOK(records'["submit"][i], decisions[records'["submit"][i].id])
    BY <1>1 DEF OrderRecordsOK, vars
  <2>1. CASE a.op = "submit"
    <3>1. records'["submit"] = Append(s, r) /\ s = records["submit"]
      BY <1>11, <2>1 DEF Services, s
    <3>2. OrderRecordOK(r, d)
      BY <1>1, <1>3, <1>7, <2>1 DEF AfterCommit, OrderRecordOK
    <3>3. CASE i = n
      BY <1>7, <1>8, <3>1, <3>2, <3>3
    <3>4. CASE i # n
      BY <1>8, <3>1, <3>4 DEF FlowInv, OrderRecordsOK
    <3>5. QED
      BY <3>3, <3>4
  <2>2. CASE a.op # "submit"
    BY <1>11, <2>2 DEF FlowInv, OrderRecordsOK, Services
  <2>3. QED
    BY <2>1, <2>2
<1>17. QED
  BY <1>12, <1>13, <1>14, <1>15, <1>16 DEF FlowInv

----------------------------------------------------------------------------
(***************************************************************************)
(* The invariant of the services, whatever the threads, and what follows.  *)
(***************************************************************************)
LEMMA FlowInitOK == FlowInit => FlowInv
<1> SUFFICES ASSUME FlowInit PROVE FlowInv
  OBVIOUS
<1>1. StoreInv
  BY NoDecisionType, NoDecisionSound DEF FlowInit, Init, StoreInv, TypeOK
<1>2. \A t \in Threads : calls[t] = Idle
  BY DEF FlowInit
<1>3. \A op \in Services : records[op] = <<>>
  BY DEF FlowInit
<1>4. \A id \in Ids : decisions[id] = NoDecision
  BY DEF FlowInit, Init
<1>5. FlowTypeOK
  <2>1. <<>> \in Seq(LedgerEntry)
    OBVIOUS
  <2>2. NoEntry \in Entry
    BY DEF NoEntry, Entry, NoGuard, Guard
  <2>3. QED
    BY <2>1, <2>2, IdleOK DEF FlowInit, FlowTypeOK
<1>6. CallsOK
  BY <1>2, IdleOK DEF CallsOK
<1>7. OrdersOK
  BY <1>4 DEF OrdersOK, OrderOK, NoDecision, NoExecution
<1>8. LedgersOK
  <2> SUFFICES ASSUME NEW op \in Services, NEW id \in Ids PROVE LedgerOK(op, id)
    BY DEF LedgersOK
  <2>1. DOMAIN records[op] = {}
    BY <1>3
  <2>2. \A t \in Threads : ~Pending(calls[t], op, id)
    BY <1>2, IdleOK DEF Pending
  <2>3. ~Passed(decisions[id], TargetOf(op))
    BY <1>4 DEF NoDecision, Passed
  <2>4. QED
    BY <2>1, <2>2, <2>3 DEF LedgerOK, Written, Underway
<1>9. OrderRecordsOK
  BY <1>3 DEF OrderRecordsOK, Services
<1>10. QED
  BY <1>1, <1>5, <1>6, <1>7, <1>8, <1>9 DEF FlowInv

\* Every step of the services, and of the world around them, keeps the invariant.
LEMMA FlowNextKeeps == FlowInv /\ [FlowNext]_<<vars, flowVars>> => FlowInv'
<1> SUFFICES ASSUME FlowInv, [FlowNext]_<<vars, flowVars>> PROVE FlowInv'
  OBVIOUS
<1>1. CASE Refresh \/ Clock \/ UNCHANGED <<vars, flowVars>>
  <2>1. UNCHANGED <<decisions, order, batches, calls, records, keyed>>
    BY <1>1 DEF Refresh, Clock, Tick, vars, flowVars
  <2>2. now' \in Nat /\ published' \in Nat
    BY <1>1 DEF Refresh, Clock, Tick, vars, flowVars, FlowInv, StoreInv, TypeOK, FlowTypeOK
  <2>3. QED
    BY <2>1, <2>2, WorldStep DEF FlowInv, StoreInv, TypeOK
<1>2. ASSUME NEW t \in Threads, Arrive(t) PROVE FlowInv'
  <2>1. Operations \ {"process"} \subseteq Services
    BY FlowAssumption
  <2>2. QED
    BY <1>2, <2>1, BeginKeeps, BeginBatchKeeps DEF Arrive
<1>3. ASSUME NEW t \in Threads, Refused(t) PROVE FlowInv'
  BY <1>3, RaiseKeeps DEF Refused
<1>4. ASSUME NEW t \in Threads, Abandon(t) PROVE FlowInv'
  BY <1>4, IdleOK, LocalStep DEF Abandon
<1>5. ASSUME NEW t \in Threads, Serve(t) PROVE FlowInv'
  BY <1>3, <1>4, <1>5, ReadToSubmitKeeps, ReadOutcomeKeeps, CommitKeeps, ReportKeeps, RecordKeeps,
     NextInBatchKeeps DEF Serve
<1>6. QED
  BY <1>1, <1>2, <1>5, ProposeKeeps, TraderKeeps DEF FlowNext

\* The steps of the specification, its fairness aside.
LEMMA FlowSteps == FlowSpec => FlowInit /\ [][FlowNext]_<<vars, flowVars>>
BY PTL DEF FlowSpec

\* The inductive invariant of the services.
THEOREM FlowInvariant == FlowSpec => []FlowInv
BY FlowInitOK, FlowNextKeeps, FlowSteps, PTL

\* Whatever the requests, their order and their retries: a decision has one record in the ledger
\* of each stage it reached, or one call is about to write it, and none for another stage.
THEOREM LedgersMatchHolds == FlowSpec => []LedgersMatchDecisions
<1>1. FlowInv => LedgersMatchDecisions
  <2> SUFFICES ASSUME FlowInv, NEW op \in Services, NEW id \in Ids
               PROVE  /\ Cardinality(RecordsOf(op, id)) <= 1
                      /\ Passed(decisions[id], TargetOf(op)) <=>
                           (Cardinality(RecordsOf(op, id)) = 1)
                           # (\E t \in Threads : /\ calls[t].pc \in {"fill", "record"}
                                                /\ calls[t].op = op /\ Subject(t) = id)
    BY Zenon DEF LedgersMatchDecisions
  <2> DEFINE pending == \E t \in Threads : /\ calls[t].pc \in {"fill", "record"}
                                           /\ calls[t].op = op /\ Subject(t) = id
             once    == Cardinality(RecordsOf(op, id)) = 1
             reached == Passed(decisions[id], TargetOf(op))
  <2>1. LedgerOK(op, id)
    BY DEF FlowInv, LedgersOK
  <2>2. pending <=> Underway(op, id)
    BY DEF Underway, Pending, Subject
  <2>3. CASE ~Written(records[op], id)
    <3>1. RecordsOf(op, id) = {}
      BY <2>3 DEF Written, RecordsOf
    <3>2. Cardinality(RecordsOf(op, id)) = 0
      BY <3>1, FS_EmptySet
    <3>3. ~once /\ (reached <=> pending)
      BY <2>1, <2>2, <2>3, <3>2 DEF LedgerOK
    <3>4. reached <=> once # pending
      BY <3>3
    <3>5. Cardinality(RecordsOf(op, id)) <= 1
      BY <3>2
    <3>6. QED
      BY <3>4, <3>5, Zenon
  <2>4. CASE Written(records[op], id)
    <3>1. PICK i : RecordsOf(op, id) = {i}
      BY <2>1, <2>4 DEF LedgerOK, RecordsOf, Written
    <3>2. Cardinality(RecordsOf(op, id)) = 1
      BY <3>1, FS_Singleton
    <3>3. once /\ reached /\ ~pending
      BY <2>1, <2>2, <2>4, <3>2 DEF LedgerOK
    <3>4. reached <=> once # pending
      BY <3>3
    <3>5. Cardinality(RecordsOf(op, id)) <= 1
      BY <3>2
    <3>6. QED
      BY <3>4, <3>5, Zenon
  <2>5. QED
    BY <2>3, <2>4
<1>2. QED
  BY <1>1, FlowInvariant, PTL

\* What the store booked is the order the trader asked for, and what its record reports.
THEOREM OrderFollowsTraderHolds == FlowSpec => []OrderFollowsTrader
<1>1. FlowInv => OrderFollowsTrader
  <2> SUFFICES ASSUME FlowInv, NEW id \in Ids
               PROVE  LET d == decisions[id] IN
                      /\ d.exec.status # "NONE" => /\ d.exec.requested = InstructionVolume(d)
                                                   /\ d.exec.buy  <= d.instr.buy
                                                   /\ d.exec.sell <= d.instr.sell
                      /\ \A i \in RecordsOf("submit", id) :
                           /\ d.exec.buy = records["submit"][i].buy
                           /\ d.exec.sell = records["submit"][i].sell
    BY DEF OrderFollowsTrader
  <2>1. OrderOK(decisions[id])
    BY DEF FlowInv, OrdersOK
  <2>2. ASSUME NEW i \in RecordsOf("submit", id)
        PROVE  OrderRecordOK(records["submit"][i], decisions[id])
    BY DEF FlowInv, OrderRecordsOK, RecordsOf
  <2>3. QED
    BY <2>1, <2>2 DEF OrderOK, OrderRecordOK
<1>2. QED
  BY <1>1, FlowInvariant, PTL

\* The delivered position and the settled P&L are those of the executed volume, for a request
\* that carries the version its client read and for the batch, which carries none.
THEOREM OutcomeOfWhatWasTradedHolds == FlowSpec => []OutcomeOfWhatWasTraded
<1>1. FlowInv => OutcomeOfWhatWasTraded
  <2> SUFFICES ASSUME FlowInv, NEW t \in Threads, calls[t].pc = "record",
                      calls[t].guard # NoGuard \/ calls[t].batch
               PROVE  LET d == decisions[Subject(t)]
                          traded == d.exec.buy - d.exec.sell
                      IN  /\ calls[t].op = "deliver" => d.settlement.position = traded
                          /\ calls[t].op = "settle"  => d.settlement.pnl = traded
    BY DEF OutcomeOfWhatWasTraded
  <2>1. CallFits(calls[t], decisions[Subject(t)])
    BY ServingFits DEF Serving
  <2>2. QED
    BY <2>1 DEF CallFits, AfterCommit
<1>2. QED
  BY <1>1, FlowInvariant, PTL

----------------------------------------------------------------------------
(***************************************************************************)
(* What the services do to the store: propose, move one decision, nothing. *)
(***************************************************************************)
LEMMA FlowMoves ==
  ASSUME FlowInv, [FlowNext]_<<vars, flowVars>>
  PROVE  \/ UNCHANGED decisions
         \/ \E x \in Ids : OneDecisionMoves(x)
         \/ \E b \in BatchIds, x \in Ids, rec \in Orders : Propose(b, x, rec)
<1>1. CASE Refresh \/ Clock \/ UNCHANGED <<vars, flowVars>>
  BY <1>1 DEF Refresh, Clock, Tick, vars
<1>2. ASSUME NEW x \in Ids, Trader(x) PROVE OneDecisionMoves(x)
  BY <1>2, TraderStepMoves DEF Trader, FlowInv, StoreInv
<1>3. ASSUME NEW t \in Threads, Arrive(t) PROVE UNCHANGED decisions
  BY <1>3 DEF Arrive, Begin, BeginBatch, vars
<1>4. ASSUME NEW t \in Threads, Commit(t) \/ Report(t) PROVE \E x \in Ids : OneDecisionMoves(x)
  <2>1. Serving(calls[t])
    BY <1>4 DEF Commit, Report, Serving
  <2>2. Subject(t) \in Ids
    BY <2>1, ServingFits, SubjectType
  <2>3. OneDecisionMoves(Subject(t))
    BY <1>4, CommitEffect, ReportEffect
  <2>4. QED
    BY <2>2, <2>3
<1>5. ASSUME NEW t \in Threads, Serve(t), ~Commit(t), ~Report(t) PROVE UNCHANGED decisions
  BY <1>5 DEF Serve, ReadToSubmit, ReadOutcome, Refused, Record, NextInBatch, Abandon, vars
<1>6. QED
  BY <1>1, <1>2, <1>3, <1>4, <1>5 DEF FlowNext

\* The ledgers are written by Record only.
LEMMA OnlyRecordWrites ==
  ASSUME [FlowNext]_<<vars, flowVars>>
  PROVE  \/ \E t \in Threads : Record(t)
         \/ UNCHANGED <<records, keyed, answered>>
<1>1. CASE Refresh \/ Clock \/ UNCHANGED <<vars, flowVars>>
  BY <1>1 DEF Refresh, Clock, flowVars
<1>2. ASSUME NEW b, NEW x, NEW rec, Propose(b, x, rec) PROVE UNCHANGED <<records, keyed, answered>>
  BY <1>2 DEF Propose, flowVars
<1>3. ASSUME NEW x, Trader(x) PROVE UNCHANGED <<records, keyed, answered>>
  BY <1>3 DEF Trader, flowVars
<1>4. ASSUME NEW t \in Threads, Arrive(t) PROVE UNCHANGED <<records, keyed, answered>>
  BY <1>4 DEF Arrive, Begin, BeginBatch
<1>5. ASSUME NEW t \in Threads, Serve(t), ~Record(t) PROVE UNCHANGED <<records, keyed, answered>>
  BY <1>5 DEF Serve, ReadToSubmit, ReadOutcome, Commit, Refused, Report, NextInBatch, Abandon
<1>6. QED
  BY <1>1, <1>2, <1>3, <1>4, <1>5 DEF FlowNext

----------------------------------------------------------------------------
(***************************************************************************)
(* Retries.  A key stands for one request, so for one decision; and the    *)
(* record of a decision's stage is written once.                           *)
(***************************************************************************)
OneOwner == \A k \in Keys : \A x, y \in KeyOwner[k] : x = y

Answered(a, index, ledgers) ==
  /\ a.op \in Services /\ a.key \in Keys
  /\ index[a.op][a.key] = a.entry
  /\ \E id \in KeyOwner[a.key] : Written(ledgers[a.op], id)

AllAnswered == \A a \in answered : Answered(a, keyed, records)

\* A record that was written stays.
LEMMA WrittenStays ==
  ASSUME FlowInv, NEW t \in Threads, Record(t), NEW op \in Services
  PROVE  /\ \A id : Written(records[op], id) => Written(records'[op], id)
         /\ op = calls[t].op => Written(records'[op], Subject(t))
<1> DEFINE r == [id |-> Subject(t), buy |-> calls[t].buy, sell |-> calls[t].sell,
                 at |-> calls[t].at]
<1>1. Serving(calls[t])
  BY DEF Record, Serving
<1>2. Subject(t) \in Ids /\ calls[t] \in Call /\ calls[t].op \in Services
  BY <1>1, ServingFits, SubjectType DEF CallFits
<1>3. r \in LedgerEntry /\ r.id = Subject(t)
  BY <1>2 DEF LedgerEntry, Call
<1>4. records' = [records EXCEPT ![calls[t].op] = Append(records[calls[t].op], r)]
  BY DEF Record
<1> HIDE DEF r
<1>5. records[op] \in Seq(LedgerEntry)
  BY DEF FlowInv, FlowTypeOK
<1>6. records'[op] = IF op = calls[t].op THEN Append(records[op], r) ELSE records[op]
  BY <1>2, <1>4 DEF FlowInv, FlowTypeOK
<1>7. /\ DOMAIN Append(records[op], r) = DOMAIN records[op] \cup {Len(records[op]) + 1}
      /\ \A i \in DOMAIN records[op] : Append(records[op], r)[i] = records[op][i]
      /\ Append(records[op], r)[Len(records[op]) + 1] = r
  BY <1>3, <1>5, AppendEntry
<1>8. QED
  BY <1>3, <1>6, <1>7 DEF Written

\* The entry that Record writes replaces no answer that was given.
LEMMA RecordAnswers ==
  ASSUME OneOwner, FlowInv, AllAnswered, NEW t \in Threads, Record(t)
  PROVE  AllAnswered'
<1> DEFINE c == calls[t]
           x == Subject(t)
           entry == [payload |-> Payload(c), record |-> Len(records[c.op]) + 1]
           fresh == [op |-> c.op, key |-> c.key, entry |-> entry]
<1>1. c.pc = "record" /\ Serving(c)
  BY DEF Record, Serving
<1>2. /\ c \in Call /\ c.op \in Services /\ x \in Ids
      /\ c.key # NoKey => x \in KeyOwner[c.key] /\ c.key \in Keys
  BY <1>1, ServingFits, SubjectType DEF CallFits, Call
<1>3. ~Written(records[c.op], x)
  <2>1. Pending(c, c.op, x) /\ LedgerOK(c.op, x)
    BY <1>1, <1>2 DEF Pending, Subject, FlowInv, LedgersOK
  <2>2. QED
    BY <2>1 DEF LedgerOK, Underway
<1>4. /\ keyed \in [Services -> [Keys -> Entry]]
      /\ \A op \in Services : /\ \A id : Written(records[op], id) => Written(records'[op], id)
                              /\ op = c.op => Written(records'[op], x)
  BY WrittenStays DEF FlowInv, FlowTypeOK
<1>5. CASE UNCHANGED <<keyed, answered>>
  BY <1>4, <1>5 DEF AllAnswered, Answered
<1>6. CASE /\ c.key # NoKey
           /\ keyed' = [keyed EXCEPT ![c.op][c.key] = entry]
           /\ answered' = answered \cup {fresh}
  <2>1. fresh.op = c.op /\ fresh.key = c.key /\ fresh.entry = entry
    OBVIOUS
  <2> HIDE DEF entry, fresh
  <2>2. /\ keyed'[c.op][c.key] = entry
        /\ \A op \in Services, k \in Keys : op # c.op \/ k # c.key => keyed'[op][k] = keyed[op][k]
    BY <1>2, <1>4, <1>6
  <2>3. Answered(fresh, keyed', records')
    BY <1>2, <1>4, <1>6, <2>1, <2>2 DEF Answered
  <2>4. ASSUME NEW a \in answered PROVE Answered(a, keyed', records')
    <3>1. Answered(a, keyed, records)
      BY DEF AllAnswered
    <3>2. a.op # c.op \/ a.key # c.key
      BY <1>2, <1>3, <1>6, <3>1 DEF Answered, OneOwner
    <3>3. QED
      BY <1>4, <2>2, <3>1, <3>2 DEF Answered
  <2>5. QED
    BY <1>6, <2>3, <2>4 DEF AllAnswered
<1>7. QED
  BY <1>5, <1>6 DEF Record

\* A keyed request that was answered with a record is answered with the same record again: no
\* other thread, and no retry that overtakes the first answer, replaces it.
THEOREM RetryFindsRecordHolds ==
  ASSUME OneOwner
  PROVE  FlowSpec => []RetryFindsRecord
<1>1. FlowInit => AllAnswered
  BY DEF FlowInit, AllAnswered
<1>2. FlowInv /\ AllAnswered /\ [FlowNext]_<<vars, flowVars>> => AllAnswered'
  <2> SUFFICES ASSUME FlowInv, AllAnswered, [FlowNext]_<<vars, flowVars>> PROVE AllAnswered'
    OBVIOUS
  <2>1. CASE UNCHANGED <<records, keyed, answered>>
    BY <2>1 DEF AllAnswered, Answered
  <2>2. QED
    BY <2>1, OnlyRecordWrites, RecordAnswers
<1>3. AllAnswered => RetryFindsRecord
  BY DEF AllAnswered, Answered, RetryFindsRecord
<1>4. QED
  BY <1>1, <1>2, <1>3, FlowInvariant, FlowSteps, PTL

----------------------------------------------------------------------------
(***************************************************************************)
(* The refinement of TradeTicket by the services.                          *)
(***************************************************************************)
LEMMA FlowIsTicketStep ==
  ASSUME FlowInv, NothingBooked, [FlowNext]_<<vars, flowVars>>
  PROVE  /\ \/ Ticket!Next
            \/ UNCHANGED <<[id \in Ids |-> PhaseOf(decisions[id].status)],
                           [id \in Ids |-> decisions[id].exec.buy + decisions[id].exec.sell]>>
         /\ NothingBooked'
<1>1. TicketInv
  BY DEF TicketInv, FlowInv
<1>2. CASE UNCHANGED decisions
  BY <1>2 DEF NothingBooked
<1>3. ASSUME NEW x \in Ids, OneDecisionMoves(x)
      PROVE  /\ \/ Ticket!Next
                \/ UNCHANGED <<[id \in Ids |-> PhaseOf(decisions[id].status)],
                               [id \in Ids |-> decisions[id].exec.buy + decisions[id].exec.sell]>>
             /\ NothingBooked'
  BY <1>1, <1>3, MoveIsTicketStep
<1>4. ASSUME NEW b \in BatchIds, NEW x \in Ids, NEW rec \in Orders, Propose(b, x, rec)
      PROVE  Ticket!Next /\ NothingBooked'
  <2>1. \A i \in Ids : IF i \in {x}
                       THEN /\ decisions[i].status = "ABSENT"
                            /\ \E gate, r, c : decisions'[i] = Proposed(gate, r, c)
                       ELSE decisions'[i] = decisions[i]
    BY <1>4 DEF Propose, CreateBatch, Exists
  <2>2. QED
    BY <1>1, <2>1, ConstructIsTicketStep
<1>5. QED
  BY <1>2, <1>3, <1>4, FlowMoves

\* The services implement TradeTicket too: however many threads serve one decision, it goes once
\* through the market, and its outcome is delivered, settled and scored once, in that order.
THEOREM FlowTicketRefined == FlowSpec => TicketSpec
<1>1. FlowInit => Ticket!Init /\ NothingBooked
  <2> SUFFICES ASSUME FlowInit PROVE Ticket!Init /\ NothingBooked
    OBVIOUS
  <2>1. \A i \in Ids : decisions[i] = NoDecision
    BY DEF FlowInit, Init
  <2>2. /\ NoDecision.status = "ABSENT"
        /\ NoDecision.exec.status = "NONE"
        /\ NoDecision.exec.buy = 0 /\ NoDecision.exec.sell = 0
    BY DEF NoDecision, NoExecution
  <2>3. QED
    BY <2>1, <2>2 DEF Ticket!Init, Unbooked, NothingBooked, PhaseOf
<1>2. FlowInv /\ NothingBooked /\ [FlowNext]_<<vars, flowVars>> =>
        /\ [Ticket!Next]_<<[id \in Ids |-> PhaseOf(decisions[id].status)],
                           [id \in Ids |-> decisions[id].exec.buy + decisions[id].exec.sell]>>
        /\ NothingBooked'
  BY FlowIsTicketStep
<1>3. QED
  BY <1>1, <1>2, FlowInvariant, FlowSteps, PTL DEF TicketSpec, Ticket!Spec

----------------------------------------------------------------------------
(***************************************************************************)
(* Gate Closure.  A decision's gate is the gate of some market day, and so *)
(* is that of the cached entry.  The entry names a later day than the      *)
(* decision only when the market was published after the auction between. *)
(***************************************************************************)
DayGate(gate) == \E k \in Nat : gate = GateOf(k)

\* The constants of the market day.
LEMMA DayConstants ==
  Gate \in Nat /\ Auction \in Nat /\ Day \in Nat /\ Gate < Auction /\ Auction < Day
BY FlowAssumption

\* The gates of two days are a whole day apart.
LEMMA GatesApart ==
  ASSUME NEW k \in Nat, NEW m \in Nat
  PROVE  /\ GateOf(k) \in Nat
         /\ m <= k => GateOf(m) <= GateOf(k)
         /\ m > k  => GateOf(m) >= GateOf(k) + Day
<1>1. /\ k * Day \in Nat /\ m * Day \in Nat
  BY DayConstants
<1>2. ASSUME m <= k PROVE m * Day <= k * Day
  <2>1. PICK n \in Nat : k = m + n
    BY <1>2
  <2>2. k * Day = m * Day + n * Day /\ n * Day \in Nat
    BY <2>1, DayConstants
  <2>3. QED
    BY <1>1, <2>2
<1>3. ASSUME m > k PROVE m * Day >= k * Day + Day
  <2>1. PICK n \in Nat : m = k + 1 + n
    BY <1>3
  <2>2. m * Day = k * Day + Day + n * Day /\ n * Day \in Nat
    BY <2>1, DayConstants
  <2>3. QED
    BY <1>1, <2>2, DayConstants
<1>4. QED
  BY <1>1, <1>2, <1>3, DayConstants DEF GateOf

\* The next auction after an instant is no later than any auction that is still to come.
LEMMA NextIsFirst ==
  ASSUME NEW at \in Nat, NEW k \in Nat, at < AuctionAfter(GateOf(k))
  PROVE  NextAuction(at) <= AuctionAfter(GateOf(k))
<1> DEFINE q == at \div Day
           r == at % Day
<1>1. /\ Day \in Nat \ {0} /\ Auction \in Nat /\ Auction < Day /\ Gate \in Nat
  BY DayConstants
<1>2. /\ q \in Nat /\ r \in 0..(Day - 1) /\ at = q * Day + r
  BY <1>1
<1> HIDE DEF q, r
<1>3. AuctionAfter(GateOf(k)) = k * Day + Auction /\ k * Day \in Nat /\ q * Day \in Nat
  BY <1>1, <1>2 DEF AuctionAfter, GateOf
<1>4. NextAuction(at) = (IF r < Auction THEN 0 ELSE Day) + q * Day + Auction
  BY DEF NextAuction, q, r
<1>5. CASE q < k
  <2>1. PICK n \in Nat : k = q + 1 + n
    BY <1>2, <1>5
  <2>2. k * Day = q * Day + Day + n * Day /\ n * Day \in Nat
    BY <1>1, <1>2, <2>1
  <2>3. QED
    BY <1>1, <1>2, <1>3, <1>4, <2>2
<1>6. CASE q = k
  BY <1>1, <1>2, <1>3, <1>4, <1>6
<1>7. CASE q > k
  <2>1. PICK n \in Nat : q = k + 1 + n
    BY <1>2, <1>7
  <2>2. q * Day = k * Day + Day + n * Day /\ n * Day \in Nat
    BY <1>1, <1>2, <2>1
  <2>3. QED
    BY <1>1, <1>2, <1>3, <2>2
<1>8. QED
  BY <1>2, <1>5, <1>6, <1>7

\* A listed gate is that of a day whose preceding auction is over.
LEMMA ListedGate ==
  ASSUME NEW at \in Nat, Listing(at).gate # NoGate \/ Listing(at).tradeable
  PROVE  \E m \in Nat : Listing(at).gate = GateOf(m) /\ GateOf(m) < NextAuction(at)
<1> DEFINE k == CHOOSE k \in Listed(at) : TRUE
<1>1. Listed(at) # {}
  BY DEF Listing, NotListed
<1>2. k \in Listed(at)
  BY <1>1
<1>3. Listing(at).gate = GateOf(k)
  BY <1>1 DEF Listing
<1> HIDE DEF k
<1>4. k \in Nat /\ GateOf(k) < NextAuction(at)
  BY <1>2 DEF Listed
<1>5. QED
  BY <1>3, <1>4

\* An order that is stamped this way for a decision with this gate is not late, or the auction
\* that follows the gate was over when the market was published.
NotLate(at, gate, publication) == at < gate \/ publication >= AuctionAfter(gate)

\* Gate Closure of the cached entry stands for the decision's own until the next auction.
LEMMA EntryStandsForDecision ==
  ASSUME NEW at \in Nat, NEW publication \in Nat, NEW gate, DayGate(gate),
         Listing(publication).tradeable, at < Listing(publication).gate
  PROVE  NotLate(at, gate, publication)
<1>1. PICK k \in Nat : gate = GateOf(k)
  BY DEF DayGate
<1>2. PICK m \in Nat : Listing(publication).gate = GateOf(m) /\ GateOf(m) < NextAuction(publication)
  BY ListedGate
<1>3. CASE m <= k
  <2>1. GateOf(m) <= GateOf(k) /\ GateOf(m) \in Nat /\ GateOf(k) \in Nat
    BY <1>3, GatesApart
  <2>2. at < gate
    BY <1>1, <1>2, <2>1
  <2>3. QED
    BY <2>2 DEF NotLate
<1>4. CASE m > k
  <2>1. GateOf(m) >= GateOf(k) + Day /\ GateOf(m) \in Nat /\ GateOf(k) \in Nat
    BY <1>4, GatesApart
  <2>2. AuctionAfter(GateOf(k)) \in Nat /\ AuctionAfter(GateOf(k)) < GateOf(k) + Day
    BY <2>1, DayConstants DEF AuctionAfter
  <2>3. ~(NextAuction(publication) <= AuctionAfter(GateOf(k)))
    <3>1. NextAuction(publication) \in Int
      BY DayConstants DEF NextAuction
    <3>2. QED
      BY <1>2, <2>1, <2>2, <3>1, DayConstants
  <2>4. publication >= AuctionAfter(GateOf(k))
    BY <2>2, <2>3, NextIsFirst
  <2>5. QED
    BY <1>1, <2>4 DEF NotLate
<1>5. QED
  BY <1>3, <1>4

\* What is not late stays so as the market is published again.
LEMMA NotLateStays ==
  ASSUME NEW at, NEW gate, DayGate(gate), NEW p \in Nat, NEW q \in Nat, p <= q, NotLate(at, gate, p)
  PROVE  NotLate(at, gate, q)
<1>1. AuctionAfter(gate) \in Int
  BY GatesApart, DayConstants DEF DayGate, AuctionAfter
<1>2. QED
  BY <1>1 DEF NotLate

\* the call has checked Gate Closure
Checked(c) == c.op = "submit" /\ c.pc \in {"commit", "fill", "record"}

DayInv ==
  /\ published <= now
  /\ \A id \in Ids : decisions[id].status # "ABSENT" => DayGate(decisions[id].gate)
  /\ \A t \in Threads :
       Checked(calls[t]) => NotLate(calls[t].at, decisions[Subject(t)].gate, published)
  /\ \A i \in DOMAIN records["submit"] :
       NotLate(records["submit"][i].at, decisions[records["submit"][i].id].gate, published)

\* The clock goes forward, and the market is published at its instant.
LEMMA TimeMoves ==
  ASSUME [FlowNext]_<<vars, flowVars>>
  PROVE  /\ now' = now \/ now' = now + 1
         /\ published' = published \/ (published' = now /\ now' = now)
<1>1. CASE Refresh \/ Clock \/ UNCHANGED <<vars, flowVars>>
  BY <1>1 DEF Refresh, Clock, Tick, vars, flowVars
<1>2. ASSUME NEW b, NEW x, NEW rec, Propose(b, x, rec) PROVE UNCHANGED <<now, published>>
  BY <1>2 DEF Propose, CreateBatch, flowVars
<1>3. ASSUME NEW x, Trader(x) PROVE UNCHANGED <<now, published>>
  BY <1>3 DEF Trader, flowVars, TraderStep, Accept, Modify, Reject, Delay, Reopen, Transition
<1>4. ASSUME NEW t \in Threads, Arrive(t) PROVE UNCHANGED <<now, published>>
  BY <1>4 DEF Arrive, Begin, BeginBatch, vars
<1>5. ASSUME NEW t \in Threads, Commit(t) \/ Report(t) PROVE UNCHANGED <<now, published>>
  BY <1>5 DEF Commit, Report, Submit, Deliver, Settle, Evaluate, ApplyFill, Expire, Transition
<1>6. ASSUME NEW t \in Threads, Serve(t), ~Commit(t), ~Report(t)
      PROVE  UNCHANGED <<now, published>>
  BY <1>6 DEF Serve, ReadToSubmit, ReadOutcome, Refused, Record, NextInBatch, Abandon, vars
<1>7. QED
  BY <1>1, <1>2, <1>3, <1>4, <1>5, <1>6 DEF FlowNext

\* A call has checked Gate Closure because it just did, or because it had.
LEMMA CheckedByReading ==
  ASSUME FlowInv, [FlowNext]_<<vars, flowVars>>, NEW u \in Threads, Checked(calls'[u])
  PROVE  /\ Serving(calls[u]) /\ calls'[u].todo = calls[u].todo
         /\ \/ Checked(calls[u]) /\ calls'[u].at = calls[u].at
            \/ Market.tradeable /\ calls'[u].at < Market.gate
<1> DEFINE Old == /\ Checked(calls[u]) /\ calls'[u].at = calls[u].at
                  /\ calls'[u].todo = calls[u].todo
           New == /\ Serving(calls[u]) /\ calls'[u].todo = calls[u].todo
                  /\ Market.tradeable /\ calls'[u].at < Market.gate
<1>1. ASSUME UNCHANGED calls PROVE Old
  BY <1>1
<1>2. ASSUME NEW t \in Threads, NEW c, GoOn(t, c)
      PROVE  IF u = t THEN calls'[u] = c ELSE calls'[u] = calls[u]
  BY <1>2 DEF GoOn, FlowInv, FlowTypeOK
<1>3. ASSUME NEW t \in Threads, NEW c, GoOn(t, c), ~Checked(c) PROVE Old
  BY <1>2, <1>3
<1>4. /\ ~Checked(Idle)
      /\ \A t \in Threads : calls[t] \in Call
  BY DEF Checked, Idle, FlowInv, FlowTypeOK
<1>5. ASSUME NEW t \in Threads, Raise(t) \/ RaiseInput(t) PROVE Old
  <2>1. ~Checked([calls[t] EXCEPT !.pc = "aborted"])
    BY <1>4 DEF Checked, Call
  <2>2. ~Checked([calls[t] EXCEPT !.pc = "next", !.todo = Tail(calls[t].todo)])
    BY <1>4 DEF Checked, Call
  <2>3. QED
    BY <1>3, <1>4, <1>5, <2>1, <2>2 DEF Raise, RaiseInput
<1>6. ASSUME NEW t \in Threads, Arrive(t) PROVE Old
  <2>1. ASSUME NEW op, NEW id, NEW kind, NEW k, Begin(t, op, id, kind, k) PROVE Old
    <3> DEFINE c == [Idle EXCEPT !.pc = "read", !.op = op, !.todo = <<id>>, !.key = k, !.at = now,
                                 !.guard = GuardOf(kind, decisions[id])]
    <3>1. GoOn(t, c)
      BY <2>1 DEF Begin, GoOn
    <3>2. c.pc = "read"
      BY DEF Idle
    <3> HIDE DEF c
    <3>3. QED
      BY <1>3, <3>1, <3>2 DEF Checked
  <2>2. CASE BeginBatch(t)
    <3> DEFINE c == [Idle EXCEPT !.pc = "next", !.batch = TRUE, !.at = now, !.todo = order,
                                 !.due = {id \in Ids : decisions[id].status
                                            \in Deliverable \cup {"DELIVERED", "SETTLED"}}]
    <3>1. GoOn(t, c)
      BY <2>2 DEF BeginBatch, GoOn
    <3>2. c.pc = "next"
      BY DEF Idle
    <3> HIDE DEF c
    <3>3. QED
      BY <1>3, <3>1, <3>2 DEF Checked
  <2>3. QED
    BY <1>6, <2>1, <2>2 DEF Arrive
<1>7. ASSUME NEW t \in Threads, ReadToSubmit(t) PROVE Old \/ New
  <2>1. CASE Raise(t)
    BY <1>5, <2>1
  <2>2. ASSUME NEW v, NEW b, NEW s, Submittable(decisions[Subject(t)], calls[t].at),
               GoOn(t, [calls[t] EXCEPT !.pc = "commit", !.requested = v, !.buy = b, !.sell = s])
        PROVE  Old \/ New
    <3> DEFINE c == [calls[t] EXCEPT !.pc = "commit", !.requested = v, !.buy = b, !.sell = s]
    <3>1. c.at = calls[t].at /\ c.todo = calls[t].todo
      BY <1>4 DEF Call
    <3>2. Serving(calls[t])
      BY <1>7 DEF ReadToSubmit, Serving
    <3>3. GoOn(t, c)
      BY <2>2
    <3> HIDE DEF c
    <3>4. CASE u = t
      BY <1>2, <2>2, <3>1, <3>2, <3>3, <3>4 DEF Submittable
    <3>5. CASE u # t
      BY <1>2, <3>3, <3>5
    <3>6. QED
      BY <3>4, <3>5
  <2>3. QED
    BY <1>7, <2>1, <2>2 DEF ReadToSubmit
<1>8. ASSUME NEW t \in Threads, ReadOutcome(t) PROVE Old
  <2>1. calls[t].op # "submit"
    BY <1>8 DEF ReadOutcome
  <2>2. ~Checked([calls[t] EXCEPT !.pc = "commit", !.buy = decisions[Subject(t)].exec.buy,
                                  !.sell = decisions[Subject(t)].exec.sell])
    BY <1>4, <2>1 DEF Checked, Call
  <2>3. QED
    BY <1>3, <1>5, <1>8, <2>2 DEF ReadOutcome
<1>9. ASSUME NEW t \in Threads, Commit(t) \/ Report(t) PROVE Old
  <2>1. PICK p : GoOn(t, [calls[t] EXCEPT !.pc = p])
    BY <1>9 DEF Commit, Report
  <2>2. calls[t].pc \in {"commit", "fill"}
    BY <1>9 DEF Commit, Report
  <2>3. /\ [calls[t] EXCEPT !.pc = p].at = calls[t].at
        /\ [calls[t] EXCEPT !.pc = p].op = calls[t].op
        /\ [calls[t] EXCEPT !.pc = p].todo = calls[t].todo
    BY <1>4 DEF Call
  <2>4. QED
    BY <1>2, <2>1, <2>2, <2>3 DEF Checked
<1>10. ASSUME NEW t \in Threads, Refused(t) PROVE Old
  BY <1>5, <1>10 DEF Refused
<1>11. ASSUME NEW t \in Threads, Record(t) PROVE Old
  <2>1. ~Checked([calls[t] EXCEPT !.pc = "next"])
    BY <1>4 DEF Checked, Call
  <2>2. QED
    BY <1>3, <1>4, <1>11, <2>1 DEF Record
<1>12. ASSUME NEW t \in Threads, NextInBatch(t) PROVE Old
  <2>1. calls[t].pc = "next"
    BY <1>12 DEF NextInBatch
  <2>2. ASSUME NEW op PROVE ~Checked([calls[t] EXCEPT !.pc = "read", !.op = op])
    BY <1>4 DEF Checked, Call
  <2>3. ~Checked([calls[t] EXCEPT !.todo = Tail(calls[t].todo)])
    BY <1>4, <2>1 DEF Checked, Call
  <2>4. QED
    BY <1>3, <1>4, <1>5, <1>12, <2>2, <2>3 DEF NextInBatch
<1>13. ASSUME NEW t \in Threads, Abandon(t) PROVE Old
  BY <1>3, <1>4, <1>13 DEF Abandon
<1>14. ASSUME Refresh \/ Clock \/ UNCHANGED <<vars, flowVars>> PROVE Old
  BY <1>1, <1>14 DEF Refresh, Clock, flowVars
<1>15. ASSUME NEW b, NEW x, NEW rec, Propose(b, x, rec) \/ Trader(x) PROVE Old
  BY <1>1, <1>15 DEF Propose, Trader, flowVars
<1>16. Old \/ New
  BY <1>6, <1>7, <1>8, <1>9, <1>10, <1>11, <1>12, <1>13, <1>14, <1>15 DEF FlowNext, Serve
<1>17. QED
  BY <1>16 DEF Checked, Serving

\* The gate of a decision never changes, and a new decision takes that of a market day.
LEMMA GateKept ==
  ASSUME FlowInv, DayInv, [FlowNext]_<<vars, flowVars>>, NEW id \in Ids
  PROVE  /\ decisions[id].status # "ABSENT" => decisions'[id].gate = decisions[id].gate
         /\ decisions'[id].status # "ABSENT" => DayGate(decisions'[id].gate)
<1> DEFINE Kept == /\ decisions[id].status # "ABSENT" => decisions'[id].gate = decisions[id].gate
                   /\ decisions'[id].status # "ABSENT" => DayGate(decisions'[id].gate)
<1>1. CASE UNCHANGED decisions
  BY <1>1 DEF DayInv
<1>2. ASSUME NEW x \in Ids, OneDecisionMoves(x) PROVE Kept
  <2>1. decisions[x].status # "ABSENT"
    BY <1>2 DEF OneDecisionMoves, Exists
  <2>2. decisions'[x].gate = decisions[x].gate
    BY <1>2, MoveFacts DEF FlowInv, MovedOn
  <2>3. id # x => decisions'[id] = decisions[id]
    BY <1>2, MoveFacts DEF FlowInv
  <2>4. QED
    BY <2>1, <2>2, <2>3 DEF DayInv
<1>3. ASSUME NEW b \in BatchIds, NEW x \in Ids, NEW rec \in Orders, Propose(b, x, rec) PROVE Kept
  <2>1. CASE id = x
    <3>1. decisions'[id] = Proposed(Market.gate, rec, b) /\ decisions[id].status = "ABSENT"
      BY <1>3, <2>1 DEF Propose, CreateBatch, FreshSequences, Exists
    <3>2. Proposed(Market.gate, rec, b).gate = Market.gate
      BY DEF Proposed, NoDecision
    <3>3. DayGate(Market.gate)
      BY <1>3, ListedGate DEF Propose, Market, DayGate, FlowInv, FlowTypeOK
    <3>4. QED
      BY <3>1, <3>2, <3>3
  <2>2. CASE id # x
    BY <1>3, <2>2 DEF Propose, CreateBatch, DayInv
  <2>3. QED
    BY <2>1, <2>2
<1>4. QED
  BY <1>1, <1>2, <1>3, FlowMoves

\* Every gate stays that of a market day, and no order under way or placed becomes late.
LEMMA DayKept ==
  ASSUME FlowInv, DayInv, [FlowNext]_<<vars, flowVars>>
  PROVE  DayInv'
<1>1. now \in Nat /\ published \in Nat /\ published <= now
  BY DEF FlowInv, StoreInv, TypeOK, FlowTypeOK, DayInv
<1>2. published' \in Nat /\ published <= published' /\ published' <= now'
  BY <1>1, TimeMoves
<1>3. ASSUME NEW id \in Ids, decisions[id].status # "ABSENT", NEW at,
             NotLate(at, decisions[id].gate, published)
      PROVE  NotLate(at, decisions'[id].gate, published')
  BY <1>1, <1>2, <1>3, GateKept, NotLateStays DEF DayInv
<1>4. ASSUME NEW t \in Threads, Checked(calls'[t])
      PROVE  NotLate(calls'[t].at, decisions'[Subject(t)'].gate, published')
  <2>1. /\ Serving(calls[t]) /\ calls'[t].todo = calls[t].todo
        /\ \/ Checked(calls[t]) /\ calls'[t].at = calls[t].at
           \/ Market.tradeable /\ calls'[t].at < Market.gate
    BY <1>4, CheckedByReading
  <2>2. Subject(t) \in Ids /\ decisions[Subject(t)].status # "ABSENT"
    BY <2>1, ServingFits, SubjectType DEF CallFits
  <2>3. Subject(t)' = Subject(t)
    BY <2>1 DEF Subject
  <2>4. calls' \in [Threads -> Call]
    BY FlowNextKeeps DEF FlowInv, FlowTypeOK
  <2>5. calls'[t].at \in Nat
    BY <2>4 DEF Call
  <2>6. CASE Checked(calls[t]) /\ calls'[t].at = calls[t].at
    BY <1>3, <2>2, <2>3, <2>6 DEF DayInv
  <2>7. CASE Market.tradeable /\ calls'[t].at < Market.gate
    <3>1. NotLate(calls'[t].at, decisions[Subject(t)].gate, published)
      BY <1>1, <2>2, <2>5, <2>7, EntryStandsForDecision DEF DayInv, Market
    <3>2. QED
      BY <1>3, <2>2, <2>3, <3>1
  <2>8. QED
    BY <2>1, <2>6, <2>7
<1>5. ASSUME NEW i \in DOMAIN records["submit"]
      PROVE  /\ records["submit"][i].id \in Ids
             /\ decisions[records["submit"][i].id].status # "ABSENT"
  <2>1. records["submit"][i].id \in Ids
    BY RecordType DEF FlowInv, Services
  <2>2. Rank(decisions[records["submit"][i].id].status) >= 3
    BY DEF FlowInv, OrderRecordsOK, OrderRecordOK
  <2>3. QED
    BY <2>1, <2>2 DEF Rank
<1>6. ASSUME NEW i \in DOMAIN records["submit"]
      PROVE  NotLate(records["submit"][i].at, decisions'[records["submit"][i].id].gate, published')
  BY <1>3, <1>5 DEF DayInv
<1>7. ASSUME NEW i \in DOMAIN records'["submit"]
      PROVE  NotLate(records'["submit"][i].at, decisions'[records'["submit"][i].id].gate,
                     published')
  <2>1. CASE UNCHANGED records
    BY <1>6, <1>7, <2>1
  <2>2. ASSUME NEW t \in Threads, Record(t)
        PROVE  NotLate(records'["submit"][i].at, decisions'[records'["submit"][i].id].gate,
                       published')
    <3> DEFINE r == [id |-> Subject(t), buy |-> calls[t].buy, sell |-> calls[t].sell,
                     at |-> calls[t].at]
               s == records["submit"]
    <3>1. Serving(calls[t]) /\ calls[t].pc = "record"
      BY <2>2 DEF Record, Serving
    <3>2. /\ Subject(t) \in Ids /\ calls[t] \in Call /\ calls[t].op \in Services
          /\ decisions[Subject(t)].status # "ABSENT"
      BY <3>1, ServingFits, SubjectType DEF CallFits
    <3>3. r \in LedgerEntry /\ r.at = calls[t].at /\ r.id = Subject(t)
      BY <3>2 DEF LedgerEntry, Call
    <3>4. records' = [records EXCEPT ![calls[t].op] = Append(records[calls[t].op], r)]
      BY <2>2 DEF Record
    <3> HIDE DEF r
    <3>5. s \in Seq(LedgerEntry)
      BY DEF FlowInv, FlowTypeOK, Services
    <3>6. records'["submit"] = IF calls[t].op = "submit" THEN Append(s, r) ELSE s
      BY <3>2, <3>4 DEF FlowInv, FlowTypeOK, Services
    <3>7. /\ DOMAIN Append(s, r) = DOMAIN s \cup {Len(s) + 1}
          /\ \A j \in DOMAIN s : Append(s, r)[j] = s[j]
          /\ Append(s, r)[Len(s) + 1] = r
      BY <3>3, <3>5, AppendEntry
    <3>8. \A j \in DOMAIN s : NotLate(s[j].at, decisions'[s[j].id].gate, published')
      BY <1>6
    <3>9. calls[t].op = "submit" => NotLate(r.at, decisions'[r.id].gate, published')
      BY <1>3, <3>1, <3>2, <3>3 DEF DayInv, Checked
    <3> HIDE DEF s
    <3>10. QED
      BY <1>7, <3>6, <3>7, <3>8, <3>9
  <2>3. QED
    BY <2>1, <2>2, OnlyRecordWrites
<1>8. QED
  BY <1>2, <1>4, <1>7, GateKept DEF DayInv

\* However late or seldom the market is refreshed, on every market day and for every decision:
\* an order that is stamped at or after its own Gate Closure was placed on a market published
\* after the auction that follows it, or such a market has been published since.
THEOREM LateOnlyAfterAuctionHolds == FlowSpec => []LateOnlyAfterAuction
<1>1. FlowInit => DayInv
  BY DEF FlowInit, Init, DayInv, NoDecision, Checked, Idle, Services
<1>2. FlowInv /\ DayInv /\ [FlowNext]_<<vars, flowVars>> => DayInv'
  BY DayKept
<1>3. DayInv => LateOnlyAfterAuction
  BY DEF DayInv, NotLate, LateOnlyAfterAuction
<1>4. QED
  BY <1>1, <1>2, <1>3, FlowInvariant, FlowSteps, PTL
================================================================================
