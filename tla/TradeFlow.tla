-------------------------------- MODULE TradeFlow --------------------------------
(***************************************************************************)
(* The services that carry one decision from the trader's word to its      *)
(* score: ExecutionService.submit_simulated, SettlementService.deliver and *)
(* settle, EvaluationService.evaluate and process_completed, each running  *)
(* in a thread of the API's pool, over one DecisionStore.                  *)
(*                                                                         *)
(* A call takes no lock of its own.  It looks its idempotency key up,      *)
(* reads the decision (and, to submit, the rolling market), computes,      *)
(* moves the decision through the store, and only then writes its record:  *)
(* these are the steps below, and other threads, the trader, the clock and *)
(* the rolling refresh run between them.  What a call computes from what   *)
(* it read touches nothing shared and belongs to the reading step.         *)
(***************************************************************************)
EXTENDS DecisionStore

CONSTANTS
  Threads, Keys,
  NoKey,          \* idempotency_key is None
  Operations,     \* requests that clients send: subsets of Services and "process"
  GuardKinds,     \* what they send along: subsets of {"none", "version"}
  KeyOwner,       \* KeyOwner[k]: the decisions the client uses key k for
  Day, Gate, Auction   \* the market day; gate and auction instants within it

Services == {"submit", "deliver", "settle", "evaluate"}

ASSUME FlowAssumption ==
  /\ NoKey \notin Keys
  /\ Operations \subseteq Services \cup {"process"}
  /\ GuardKinds \subseteq {"none", "version"}
  /\ KeyOwner \in [Keys -> SUBSET Ids]
  /\ Gate \in Nat /\ Auction \in Nat /\ Day \in Nat
  /\ Gate + 1 < Auction /\ Auction < Day

VARIABLES
  published, \* when rolling.period_inputs was last published
  calls,     \* the call each thread is running
  records,   \* the ledger of each service
  keyed,     \* _idempotency of each service
  answered   \* history: keyed requests answered with a record of their own

flowVars == <<published, calls, records, keyed, answered>>

----------------------------------------------------------------------------
(***************************************************************************)
(* The rolling market lists the periods that have not ended and start      *)
(* before the next auction.  A settlement period number comes back every   *)
(* day: gate k is that of the k-th day.                                    *)
(***************************************************************************)
GateOf(k)       == k * Day + Gate
DeliveryEnd(gate) == gate + 1
NextAuction(at) == (IF at % Day < Auction THEN 0 ELSE Day) + (at \div Day) * Day + Auction

Listed(at) ==
  {k \in 0..(MaxTime \div Day + 1) :
     DeliveryEnd(GateOf(k)) > at /\ GateOf(k) < NextAuction(at)}

NotListed == [gate |-> NoGate, tradeable |-> FALSE]

Listing(at) ==
  IF Listed(at) = {} THEN NotListed
  ELSE LET gate == GateOf(CHOOSE k \in Listed(at) : TRUE)
       IN [gate |-> gate, tradeable |-> at < gate]

\* the cached entry of the decisions' settlement period number
Market == Listing(published)

NoEntry == [payload |-> [id |-> "none", guard |-> NoGuard], record |-> 0]

Idle == [pc |-> "idle", op |-> "none", batch |-> FALSE, todo |-> <<>>, due |-> {},
         guard |-> NoGuard, key |-> NoKey, at |-> 0, requested |-> 0, buy |-> 0, sell |-> 0]

FlowInit ==
  /\ Init
  /\ published = 0
  /\ calls = [t \in Threads |-> Idle]
  /\ records = [op \in Services |-> <<>>]
  /\ keyed = [op \in Services |-> [k \in Keys |-> NoEntry]]
  /\ answered = {}

----------------------------------------------------------------------------
\* The world around the calls

\* _publish(): from here on the cached market is what the environment lists now
Refresh ==
  /\ published' = now
  /\ UNCHANGED <<vars, calls, records, keyed, answered>>

\* the orchestrator proposes for the listed period; it compares Gate Closure with the time of
\* the publication, and the optimiser recommends volume for a tradeable period only
Propose(b, id, rec) ==
  /\ Market.gate # NoGate /\ published <= Market.gate
  /\ rec.buy + rec.sell > 0 => Market.tradeable
  /\ CreateBatch(b, <<id>>, [i \in {id} |-> Market.gate], [i \in {id} |-> rec])
  /\ UNCHANGED flowVars

Trader(id) == TraderStep(id) /\ UNCHANGED flowVars

Clock == Tick /\ UNCHANGED flowVars

----------------------------------------------------------------------------
\* Calls

GuardOf(kind, dec) ==
  IF kind = "none" THEN NoGuard ELSE [status |-> dec.status, seq |-> CurrentSequence(dec)]

\* a request arrives; a key that is known answers it from the ledger or with a conflict
Begin(t, op, id, kind, k) ==
  /\ calls[t].pc = "idle" /\ Exists(id)
  /\ k # NoKey => id \in KeyOwner[k] /\ keyed[op][k] = NoEntry
  /\ calls' = [calls EXCEPT ![t] =
                 [Idle EXCEPT !.pc = "read", !.op = op, !.todo = <<id>>, !.key = k, !.at = now,
                              !.guard = GuardOf(kind, decisions[id])]]
  /\ UNCHANGED <<vars, published, records, keyed, answered>>

Deliverable == {"FILLED", "PARTIALLY_FILLED", "EXPIRED", "REJECTED", "CANCELLED"}

\* process_completed(): all decisions, oldest first; those that are worth a try now are due
BeginBatch(t) ==
  LET eligible == Deliverable \cup {"DELIVERED", "SETTLED"}
  IN /\ calls[t].pc = "idle"
     /\ calls' = [calls EXCEPT ![t] =
                    [Idle EXCEPT !.pc = "next", !.batch = TRUE, !.at = now, !.todo = order,
                                 !.due = {id \in Ids : decisions[id].status \in eligible}]]
     /\ UNCHANGED <<vars, published, records, keyed, answered>>

Subject(t) == Head(calls[t].todo)
GoOn(t, c) == calls' = [calls EXCEPT ![t] = c]

\* an exception: the batch catches none of these
Raise(t) == GoOn(t, IF calls[t].batch THEN [calls[t] EXCEPT !.pc = "aborted"] ELSE Idle)

\* a SettlementInputError: the batch reports the decision as skipped
RaiseInput(t) ==
  GoOn(t, IF calls[t].batch
          THEN [calls[t] EXCEPT !.pc = "next", !.todo = Tail(calls[t].todo)]
          ELSE Idle)

\* Mutant: the cached flag stands for the Gate Closure check
SubmittableCached(dec, at) ==
  /\ dec.status \in {"ACCEPTED", "MODIFIED"}
  /\ ~(dec.instr.buy > FillTolerance /\ dec.instr.sell > FillTolerance)
  /\ InstructionVolume(dec) > FillTolerance
  /\ Market.tradeable

\* the checks of submit_simulated before it builds the order
Submittable(dec, at) ==
  /\ dec.status \in {"ACCEPTED", "MODIFIED"}
  /\ ~(dec.instr.buy > FillTolerance /\ dec.instr.sell > FillTolerance)
  /\ InstructionVolume(dec) > FillTolerance
  /\ Market.tradeable
  /\ at < Market.gate

\* what simulate() can make of an order: nothing, or what it takes from levels that each give
\* more than the tolerance
Fills(volume) == {filled \in 0..volume : filled = 0 \/ filled > FillTolerance}

ReadToSubmit(t) ==
  LET c == calls[t]
      dec == decisions[Subject(t)]
      volume == InstructionVolume(dec)
      buying == dec.instr.buy > FillTolerance
  IN /\ c.pc = "read" /\ c.op = "submit"
     /\ \/ /\ Submittable(dec, c.at)
           /\ \E filled \in Fills(volume) :
                GoOn(t, [c EXCEPT !.pc = "commit", !.requested = volume,
                                  !.buy  = IF buying THEN filled ELSE 0,
                                  !.sell = IF buying THEN 0 ELSE filled])
        \/ ~Submittable(dec, c.at) /\ Raise(t)
     /\ UNCHANGED <<vars, published, records, keyed, answered>>

RecordsOf(op, id) == {i \in DOMAIN records[op] : records[op][i].id = id}

\* realised_for(): the executed volumes of the decision as it is read
ReadOutcome(t) ==
  LET c == calls[t]
      dec == decisions[Subject(t)]
      Ended == c.op = "deliver" => c.at >= DeliveryEnd(dec.gate)
      HasSettlement == c.op = "evaluate" => RecordsOf("settle", Subject(t)) # {}
  IN /\ c.pc = "read" /\ c.op # "submit"
     /\ \/ /\ Ended /\ HasSettlement
           /\ GoOn(t, [c EXCEPT !.pc = "commit", !.buy = dec.exec.buy, !.sell = dec.exec.sell])
        \/ ~Ended /\ RaiseInput(t)
        \/ ~HasSettlement /\ Raise(t)
     /\ UNCHANGED <<vars, published, records, keyed, answered>>

TargetOf(op) == CASE op = "submit"  -> "SUBMITTED"
                  [] op = "deliver" -> "DELIVERED"
                  [] op = "settle"  -> "SETTLED"
                  [] OTHER          -> "EVALUATED"

\* the position after delivery and the P&L, of a book that starts at zero and at one price
NetExecuted(c) == c.buy - c.sell

\* the call moves the decision in the store
Commit(t) ==
  LET c == calls[t] IN
  /\ c.pc = "commit"
  /\ \/ c.op = "submit"   /\ Submit(Subject(t), c.guard, c.requested)
     \/ c.op = "deliver"  /\ Deliver(Subject(t), c.guard, NetExecuted(c))
     \/ c.op = "settle"   /\ Settle(Subject(t), c.guard, NetExecuted(c))
     \/ c.op = "evaluate" /\ Evaluate(Subject(t), c.guard)
  /\ GoOn(t, [c EXCEPT !.pc = IF c.op = "submit" THEN "fill" ELSE "record"])
  /\ UNCHANGED <<published, records, keyed, answered>>

\* Mutant: an illegal transition is not answered
RefusedStaleOnly(t) ==
  /\ calls[t].pc = "commit"
  /\ ~Precondition(decisions[Subject(t)], calls[t].guard)
  /\ Raise(t)
  /\ UNCHANGED <<vars, published, records, keyed, answered>>

\* StaleDecisionError or InvalidTransitionError: the decision moved on since it was read
Refused(t) ==
  LET c == calls[t]
      dec == decisions[Subject(t)]
  IN /\ c.pc = "commit"
     /\ ~(Precondition(dec, c.guard) /\ TargetOf(c.op) \in AllowedTransitions(dec.status))
     /\ Raise(t)
     /\ UNCHANGED <<vars, published, records, keyed, answered>>

\* Mutant: an order without a fill is not expired
ReportFillsOnly(t) ==
  LET c == calls[t] IN
  /\ c.pc = "fill"
  /\ \/ c.buy + c.sell >  FillTolerance /\ ApplyFill(Subject(t), c.buy, c.sell)
     \/ c.buy + c.sell <= FillTolerance /\ UNCHANGED vars
  /\ GoOn(t, [c EXCEPT !.pc = "record"])
  /\ UNCHANGED <<published, records, keyed, answered>>

\* submit_simulated tells the store what the simulator filled
Report(t) ==
  LET c == calls[t] IN
  /\ c.pc = "fill"
  /\ \/ c.buy + c.sell >  FillTolerance /\ ApplyFill(Subject(t), c.buy, c.sell)
     \/ c.buy + c.sell <= FillTolerance /\ Expire(Subject(t))
  /\ GoOn(t, [c EXCEPT !.pc = "record"])
  /\ UNCHANGED <<published, records, keyed, answered>>

Payload(c) == [id |-> Head(c.todo), guard |-> c.guard]

\* record(): the ledger entry and, under the same lock, the idempotency entry
Record(t) ==
  LET c == calls[t]
      entry == [payload |-> Payload(c), record |-> Len(records[c.op]) + 1]
  IN /\ c.pc = "record"
     /\ records' = [records EXCEPT ![c.op] =
                      Append(@, [id |-> Subject(t), buy |-> c.buy, sell |-> c.sell, at |-> c.at])]
     /\ \/ c.key = NoKey /\ UNCHANGED <<keyed, answered>>
        \/ /\ c.key # NoKey
           /\ keyed' = [keyed EXCEPT ![c.op][c.key] = entry]
           /\ answered' = answered \cup {[op |-> c.op, key |-> c.key, entry |-> entry]}
     /\ GoOn(t, IF c.batch THEN [c EXCEPT !.pc = "next"] ELSE Idle)
     /\ UNCHANGED <<vars, published>>

\* process_completed() takes the next step of the decision it is at, or the next decision
NextInBatch(t) ==
  LET c == calls[t]
      status == decisions[Subject(t)].status
      due == Subject(t) \in c.due
      op == CASE status \in Deliverable -> "deliver"
              [] status = "DELIVERED"   -> "settle"
              [] status = "SETTLED"     -> "evaluate"
              [] OTHER                  -> "none"
      Recorded == \A s \in {"deliver", "settle", "evaluate"} : RecordsOf(s, Subject(t)) # {}
  IN /\ c.pc = "next"
     /\ \/ c.todo = <<>> /\ GoOn(t, Idle)
        \/ c.todo # <<>> /\ due /\ op # "none" /\ GoOn(t, [c EXCEPT !.pc = "read", !.op = op])
        \/ /\ c.todo # <<>>
           /\ due => op = "none" /\ Recorded
           /\ GoOn(t, [c EXCEPT !.todo = Tail(c.todo)])
        \/ c.todo # <<>> /\ due /\ op = "none" /\ ~Recorded /\ Raise(t)
     /\ UNCHANGED <<vars, published, records, keyed, answered>>

\* the API answers 500 for a batch that raised
Abandon(t) ==
  /\ calls[t].pc = "aborted"
  /\ GoOn(t, Idle)
  /\ UNCHANGED <<vars, published, records, keyed, answered>>

Arrive(t) ==
  \/ \E op \in Operations \ {"process"}, id \in Ids, kind \in GuardKinds, k \in Keys \cup {NoKey} :
       Begin(t, op, id, kind, k)
  \/ "process" \in Operations /\ BeginBatch(t)

Serve(t) ==
  \/ ReadToSubmit(t) \/ ReadOutcome(t) \/ Commit(t) \/ Refused(t)
  \/ Report(t) \/ Record(t) \/ NextInBatch(t) \/ Abandon(t)

FlowNext ==
  \/ Refresh
  \/ \E b \in BatchIds, id \in Ids, rec \in Orders : Propose(b, id, rec)
  \/ \E id \in Ids : Trader(id)
  \/ Clock
  \/ \E t \in Threads : Arrive(t) \/ Serve(t)

\* a thread that holds a call is scheduled again; nothing else is promised
FlowSpec ==
  /\ FlowInit /\ [][FlowNext]_<<vars, flowVars>>
  /\ \A t \in Threads : WF_<<vars, flowVars>>(Serve(t))

----------------------------------------------------------------------------
(***************************************************************************)
(* Properties                                                              *)
(***************************************************************************)
\* However requests race, are retried or sent twice, a decision has at most one simulated
\* order, one delivery, one settlement and one evaluation, none for a stage it did not
\* reach, and one for each stage it reached unless the call that moved it is about to
\* write it (the record is written after the transition, outside the store's lock).
LedgersMatchDecisions ==
  \A op \in Services, id \in Ids :
    LET reached == Passed(decisions[id], TargetOf(op))
        pending == \E t \in Threads : /\ calls[t].pc \in {"fill", "record"}
                                      /\ calls[t].op = op /\ Subject(t) = id
        count   == Cardinality(RecordsOf(op, id))
    IN /\ count <= 1
       /\ reached <=> (count = 1) # pending

\* An order asks for what the trader last said, and what the store booked on the decision is
\* on the trader's side, never more than the order, and what the order's record reports, even
\* when the trader's word changed after the handler read it.
OrderFollowsTrader ==
  \A id \in Ids : LET d == decisions[id] IN
    /\ d.exec.status # "NONE" =>
         /\ d.exec.requested = InstructionVolume(d)
         /\ d.exec.buy  <= d.instr.buy
         /\ d.exec.sell <= d.instr.sell
    /\ \A i \in RecordsOf("submit", id) :
         d.exec.buy = records["submit"][i].buy /\ d.exec.sell = records["submit"][i].sell

\* No order is placed for a period whose Gate Closure has passed when it is submitted.
GateRespected ==
  \A i \in DOMAIN records["submit"] :
    records["submit"][i].at < decisions[records["submit"][i].id].gate

\* The auction that follows a gate, after which the period's number names the next day's.
AuctionAfter(gate) == (gate - Gate) + Auction

\* Refreshes may stop or come late and the cached flag and gate be hours old, but an order is
\* stamped at or after its own Gate Closure in one case only: the market that was read, or
\* one since, was published after the auction that follows that gate, on whatever day.
LateOnlyAfterAuction ==
  \A i \in DOMAIN records["submit"] : LET r == records["submit"][i] IN
    r.at < decisions[r.id].gate \/ published >= AuctionAfter(decisions[r.id].gate)

\* The delivered position and the settled P&L are those of the volume that was executed,
\* although both are computed from a decision that was read before the lock was taken: for a
\* request that carries the version its client read, and for process_completed, which carries
\* none but only starts on a decision whose order is over, whatever else is under way.
OutcomeOfWhatWasTraded ==
  \A t \in Threads : LET c == calls[t] IN
    c.pc = "record" /\ (c.guard # NoGuard \/ c.batch) =>
      LET d == decisions[Subject(t)]
          traded == d.exec.buy - d.exec.sell
      IN /\ c.op = "deliver" => d.settlement.position = traded
         /\ c.op = "settle"  => d.settlement.pnl = traded

\* A keyed request that was answered with a record is answered with the same record again.
RetryFindsRecord ==
  \A a \in answered : keyed[a.op][a.key] = a.entry

\* Every call returns: no request waits for another.
CallsReturn == \A t \in Threads : calls[t].pc # "idle" ~> calls[t].pc = "idle"

\* A submitted decision does not stay SUBMITTED: the call that submitted it reports a fill or
\* an expiry (the simulator is immediate-or-cancel, and nobody else resolves the order).
SubmittedResolves ==
  \A id \in Ids : decisions[id].status = "SUBMITTED" ~> decisions[id].status # "SUBMITTED"
================================================================================
