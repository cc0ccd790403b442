---------------------------------- MODULE Replay ----------------------------------
(***************************************************************************)
(* replay_engine.run_replay: one point-in-time replay of a dataset.  The   *)
(* engine owns its stores and its clock, so nothing interleaves: it goes   *)
(* from event to event, and at each one lets the trader policy act, then   *)
(* closes the gates that are due, then delivers, settles and evaluates the *)
(* periods that are over.  Each of these three passes over all episodes is *)
(* one action.                                                             *)
(*                                                                         *)
(* What the passes do to one episode is written as functions on its        *)
(* record; a decision moves by Advance, and EveryMoveLegal says that the   *)
(* state machine would have accepted every move.                           *)
(*                                                                         *)
(* Time is counted in units of five minutes from the anchor of the sample  *)
(* dataset, which gives the instants below.                                *)
(***************************************************************************)
EXTENDS DecisionLifecycle, HedgeTiming, RealisedPnl, FiniteSetsExt

CONSTANTS
  PeriodCount,   \* periods of the dataset
  Offers,        \* what the dataset may hold for a period
  Policies,      \* subset of NO_ACTION, MODEL_FOLLOW, TIMING_POLICY
  Modes          \* subset of IDEAL, REALISTIC, STRESS

\* the levels of one side of a book, best first, as HedgeTiming and the simulator read them
OrderBook == Seq([price : Int, volume : Nat])

\* What the dataset holds for a period: the book, the recommended volumes, the forecast exposure,
\* the realised generation, the contracted position, the prices, whether it may be traded, is
\* trusted and shows a material revision, and how long after the end of the period its realised
\* figures come (-1: never).
OfferType ==
  [bids : OrderBook, asks : OrderBook, buy : Nat, sell : Nat, exposure : Int, gen : Int, q : Int,
   ref : Int, imbBuy : Int, imbSell : Int,
   tradeable : BOOLEAN, trusted : BOOLEAN, material : BOOLEAN, lag : Nat \cup {-1}]

ASSUME ReplayAssumption ==
  /\ PeriodCount \in Nat \ {0}
  /\ Policies \subseteq {"NO_ACTION", "MODEL_FOLLOW", "TIMING_POLICY"}
  /\ Modes \subseteq {"IDEAL", "REALISTIC", "STRESS"}
  /\ Offers \subseteq OfferType

Periods == 1..PeriodCount

\* build_sample_dataset: a prior vintage at the anchor and the revised one half an hour later, when
\* the market snapshots are there too; the first delivery starts after two hours
DecisionTime == 6
Start(p)     == 24 + 6 * (p - 1)
End(p)       == Start(p) + 6
Gate(p)      == Start(p) - 3

Never == -1   \* source_available_at is None

VARIABLES
  run,        \* the configuration: policy, mode, window of periods and dataset
  clock,      \* the replay clock
  pass,       \* the pass that is due: "act", "gate", "outcome", or "done"
  episodes,   \* one episode for each period, with its decision
  violations  \* reads that the point-in-time view refused

vars == <<run, clock, pass, episodes, violations>>

NoOrder      == [at |-> Never, side |-> "NONE", volume |-> 0, filled |-> 0, cash |-> 0, fees |-> 0]
NoAssessment == [verdict |-> "NONE", volume |-> 0]
NoOutcome    == [at |-> Never, position |-> 0, pnl |-> 0, attributed |-> 0,
                 benchmarks |-> [NO_ACTION |-> 0, MODEL_RECOMMENDATION |-> 0,
                                 TRADER_INSTRUCTION |-> 0, PERFECT_FORESIGHT |-> 0]]

\* order: the simulated order; assessments: _by_key of the timing service, where the decision is the
\* episode's and the run and the policy version never change; skipped: skip_reason is set
NewEpisode ==
  [decision |-> NoDecision, order |-> NoOrder,
   assessments |-> [s \in 0..PeriodCount |-> NoAssessment],
   verdict |-> "NONE", outcome |-> NoOutcome, skipped |-> FALSE]

Init ==
  /\ run \in [policy : Policies, mode : Modes, first : Periods, data : [Periods -> Offers]]
  /\ clock = DecisionTime
  /\ pass = "act"
  /\ episodes = [p \in Periods |-> NewEpisode]
  /\ violations = 0

\* the periods between replay_start and replay_end; the run reads the market of all of them
Window == run.first..PeriodCount

----------------------------------------------------------------------------
\* The point-in-time view

Active(t) == {p \in Periods : DecisionTime <= t /\ End(p) > t}

\* the market snapshot id of the live state is that of the first active period
Snapshot(t) == IF Active(t) = {} THEN 0 ELSE Min(Active(t))

\* Mutant: realised data are handed out when the period ends
RealisedAtEnd(p, t) == run.data[p].lag # Never

Realised(p, t) == run.data[p].lag # Never /\ t >= End(p) + run.data[p].lag

----------------------------------------------------------------------------
\* Trading one decision

Has(e)           == e.decision.status # "ABSENT"
Submitted(e)     == e.order # NoOrder
Move(e, target, updated) == [e EXCEPT !.decision = Advance(updated, target)]

Accept(e) ==
  LET rec == e.decision.rec
  IN Move(e, "ACCEPTED",
          [e.decision EXCEPT !.instr = Instruction("ACCEPT", rec.buy, rec.sell, NoLimit, 0)])

Modify(e, buy, sell) ==
  Move(e, "MODIFIED", [e.decision EXCEPT !.instr = Instruction("MODIFY", buy, sell, NoLimit, 0)])

Reject(e) ==
  Move(e, "REJECTED", [e.decision EXCEPT !.instr = Instruction("REJECT", 0, 0, NoLimit, 0)])

\* submit_simulated: its checks, the simulator, then submit and apply_fill or expire
Submittable(e, p, t) ==
  LET dec == e.decision IN
  /\ dec.status \in {"ACCEPTED", "MODIFIED"}
  /\ run.data[p].trusted
  /\ ~(dec.instr.buy > Tolerance /\ dec.instr.sell > Tolerance)
  /\ dec.instr.buy > Tolerance \/ dec.instr.sell > Tolerance
  /\ p \in Active(t) /\ run.data[p].tradeable /\ t < Gate(p)

Executed(e, p, t) ==
  LET dec    == e.decision
      side   == IF dec.instr.buy > Tolerance THEN "BUY" ELSE "SELL"
      volume == IF side = "BUY" THEN dec.instr.buy ELSE dec.instr.sell
      result == Simulate(Levels(run.data[p], side), side, volume, run.mode)
      sent   == [NoExecution EXCEPT !.status = "SUBMITTED", !.requested = volume]
      filled == [sent EXCEPT !.status = result.status, !.unfilled = result.unfilled,
                             !.buy  = IF side = "BUY" THEN result.filled ELSE 0,
                             !.sell = IF side = "SELL" THEN result.filled ELSE 0]
      onBook == Advance([dec EXCEPT !.exec = sent], "SUBMITTED")
  IN [e EXCEPT !.decision = Advance([onBook EXCEPT !.exec = filled], result.status),
               !.order = [at |-> t, side |-> side, volume |-> volume,
                          filled |-> result.filled, cash |-> result.cash, fees |-> result.fees]]

\* a refused submission leaves the decision accepted or modified
Submit(e, p, t) == IF Submittable(e, p, t) THEN Executed(e, p, t) ELSE e

AcceptAndSubmit(e, p, t) ==
  Submit(IF e.decision.status = "PROPOSED" THEN Accept(e) ELSE e, p, t)

\* Mutant: a partial hedge sends the whole recommendation
SubmitWhole(e, p, t, volume) == AcceptAndSubmit(e, p, t)

\* the volume to hedge now; when that is the recommendation there is nothing to modify
ModifyAndSubmit(e, p, t, volume) ==
  LET rec == e.decision.rec
      now == [buy  |-> IF SideOf(rec) = "BUY" THEN volume ELSE 0,
              sell |-> IF SideOf(rec) = "SELL" THEN volume ELSE 0]
  IN IF Magnitude(now.buy - rec.buy) <= Tolerance /\ Magnitude(now.sell - rec.sell) <= Tolerance
     THEN Submit(Accept(e), p, t)
     ELSE Submit(Modify(e, now.buy, now.sell), p, t)

----------------------------------------------------------------------------
\* The trader policies

\* assess_timing of the decision as it stands at t, against the book
Candidate(e, p, t) ==
  LET offer    == run.data[p]
      rec      == e.decision.rec
      market   == MarketView(offer, rec)
      verdict  == Verdict(offer.trusted, offer.exposure, Required(rec), market, Gate(p) - t)
  IN [verdict |-> verdict, volume |-> NowVolume(verdict, Required(rec), market)]

\* HedgeTimingService.assess: a stored assessment under the same market snapshot is the answer
Assessed(e, p, t) ==
  IF e.assessments[Snapshot(t)] # NoAssessment THEN e.assessments[Snapshot(t)]
  ELSE Candidate(e, p, t)

TimingAction(e, p, t) ==
  LET stored == Assessed(e, p, t)
      known  == [e EXCEPT !.assessments[Snapshot(t)] = stored, !.verdict = stored.verdict]
  IN CASE stored.verdict = "HEDGE_NOW" -> AcceptAndSubmit(known, p, t)
       [] stored.verdict = "PARTIAL_HEDGE_NOW" ->
            IF stored.volume > Tolerance THEN ModifyAndSubmit(known, p, t, stored.volume) ELSE known
       [] stored.verdict = "WAIT" -> known
       [] OTHER -> Reject(known)

HasVolume(rec) == rec.buy > Tolerance \/ rec.sell > Tolerance

ApplyPolicy(e, p, t) ==
  CASE run.policy = "NO_ACTION"    -> Reject(e)
    [] run.policy = "MODEL_FOLLOW" ->
         IF HasVolume(e.decision.rec) THEN AcceptAndSubmit(e, p, t) ELSE e
    [] OTHER -> TimingAction(e, p, t)

\* map_recommended_action refuses a recommendation to buy and to sell
OneSided(rec) == ~(rec.buy > Tolerance /\ rec.sell > Tolerance)

\* the orchestrator proposes for every period with a material revision and a consistent
\* recommendation, outside the window too; an episode without a decision is skipped
CreateAndAct(e, p, t) ==
  LET offer   == run.data[p]
      created == [e EXCEPT !.decision =
                    Proposed(Gate(p), [buy |-> offer.buy, sell |-> offer.sell, limit |-> NoLimit],
                             NoBatch)]
  IN IF offer.material /\ OneSided(offer)
     THEN IF p \in Window THEN ApplyPolicy(created, p, t) ELSE created
     ELSE [e EXCEPT !.skipped = p \in Window]

\* Mutant: the orders that were sent are looked at again too
ReassessAll(e, p, t) ==
  IF run.policy = "TIMING_POLICY" /\ p \in Window /\ Has(e) /\ t < Gate(p)
  THEN TimingAction(e, p, t) ELSE e

\* Mutant: only a decision that is due within the hour is looked at again
ReassessLate(e, p, t) ==
  IF /\ run.policy = "TIMING_POLICY" /\ p \in Window
     /\ Has(e) /\ ~Submitted(e)
     /\ e.decision.status = "PROPOSED"
     /\ t < Gate(p) /\ Gate(p) - t > GateNear
  THEN TimingAction(e, p, t) ELSE e

Reassess(e, p, t) ==
  IF /\ run.policy = "TIMING_POLICY" /\ p \in Window
     /\ Has(e) /\ ~Submitted(e)
     /\ e.decision.status = "PROPOSED"
     /\ t < Gate(p)
  THEN TimingAction(e, p, t) ELSE e

\* Mutant: an accepted decision whose submission failed is forgotten
EnforceGateProposed(e, p, t) ==
  IF p \in Window /\ ~Submitted(e) /\ e.decision.status = "PROPOSED" /\ t >= Gate(p)
  THEN Reject(e) ELSE e

\* a decision that was not submitted by Gate Closure is rejected
EnforceGate(e, p, t) ==
  IF /\ p \in Window /\ ~Submitted(e)
     /\ e.decision.status \in {"PROPOSED", "ACCEPTED", "MODIFIED"}
     /\ t >= Gate(p)
  THEN Reject(e) ELSE e

----------------------------------------------------------------------------
\* Delivery, settlement and evaluation

\* realised_for: the dataset's figures and the volumes that were executed
Inputs(e, p) ==
  LET offer == run.data[p] IN
  [gen |-> offer.gen, q |-> offer.q, buy |-> e.decision.exec.buy, sell |-> e.decision.exec.sell,
   cash |-> e.order.cash, fees |-> e.order.fees,
   ref |-> offer.ref, imbBuy |-> offer.imbBuy, imbSell |-> offer.imbSell]

Deliverable == {"FILLED", "PARTIALLY_FILLED", "EXPIRED", "REJECTED", "CANCELLED"}

Due(e, p, t) ==
  p \in Window /\ e.outcome = NoOutcome /\ t >= End(p) /\ e.decision.status \in Deliverable

\* deliver, settle and evaluate in one go
Outcome(e, p, t) ==
  LET in        == Inputs(e, p)
      rec       == e.decision.rec
      position  == in.q + in.buy - in.sell
      delivered == Advance([e.decision EXCEPT !.settlement = Delivered(position)], "DELIVERED")
      settled   == Advance([delivered EXCEPT !.settlement.settled = TRUE,
                                             !.settlement.pnl = Settled(in)], "SETTLED")
  IN [e EXCEPT !.decision = Advance([settled EXCEPT !.evaluated = TRUE], "EVALUATED"),
               !.outcome  = [at |-> t, position |-> position, pnl |-> settled.settlement.pnl,
                             attributed |-> AttributedTotal(in),
                             benchmarks |-> Benchmarks(in, rec.buy, rec.sell, FeeRate)]]

\* the view refuses figures that are not there yet: the episode is marked and tried again later
DeliverSettleEvaluate(e, p, t) ==
  IF ~Due(e, p, t) THEN e
  ELSE IF Realised(p, t) THEN Outcome(e, p, t) ELSE [e EXCEPT !.skipped = TRUE]

----------------------------------------------------------------------------
\* The event loop

\* the minutes to the gate at which a waiting decision is looked at again: 90, 60, 30 and 10
Checkpoints(p) == {t \in {Gate(p) - 18, Gate(p) - 12, Gate(p) - 6, Gate(p) - 2} : t > DecisionTime}

Events ==
  {DecisionTime} \cup (UNION {{Gate(p), End(p)} : p \in Window}) \cup
  (IF run.policy = "TIMING_POLICY" THEN UNION {Checkpoints(p) : p \in Window} ELSE {})

ForAll(f(_, _, _)) == [p \in Periods |-> f(episodes[p], p, clock)]

ActPass ==
  /\ pass = "act"
  /\ episodes' = IF clock = DecisionTime THEN ForAll(CreateAndAct) ELSE ForAll(Reassess)
  /\ pass' = "gate"
  /\ UNCHANGED <<run, clock, violations>>

GatePass ==
  /\ pass = "gate"
  /\ episodes' = ForAll(EnforceGate)
  /\ pass' = "outcome"
  /\ UNCHANGED <<run, clock, violations>>

\* the last pass of an event; the clock moves on to the next one
OutcomePass ==
  LET later == {t \in Events : t > clock}
      early == {p \in Periods : Due(episodes[p], p, clock) /\ ~Realised(p, clock)}
  IN /\ pass = "outcome"
     /\ episodes' = ForAll(DeliverSettleEvaluate)
     /\ violations' = violations + Cardinality(early)
     /\ IF later = {} THEN pass' = "done" /\ UNCHANGED clock
        ELSE pass' = "act" /\ clock' = Min(later)
     /\ UNCHANGED run

Next == ActPass \/ GatePass \/ OutcomePass

Spec == Init /\ [][Next]_vars

----------------------------------------------------------------------------
\* Properties

\* The engine never asks the state machine for a move it would refuse (which would end the whole
\* run): every audit record is an edge of the graph, and the stage records fit the status.
EveryMoveLegal ==
  \A p \in Periods :
    LET dec == episodes[p].decision IN
    /\ \A i \in 2..Len(dec.log) :
         /\ dec.log[i].from = dec.log[i - 1].to
         /\ dec.log[i].to \in AllowedTransitions(dec.log[i].from)
    /\ StagePayloadOK(dec, NoDecision)

\* No look-ahead (replay.md, point-in-time data rules): an order goes out after the forecast was
\* published and before Gate Closure, and a period is settled only once it is over and its realised
\* data are available.
PointInTime ==
  \A p \in Periods :
    LET e == episodes[p] IN
    /\ Submitted(e) => DecisionTime <= e.order.at /\ e.order.at < Gate(p)
    /\ e.outcome # NoOutcome =>
         /\ run.data[p].lag # Never
         /\ e.outcome.at >= End(p) + run.data[p].lag
         /\ e.order.at < e.outcome.at

\* When the run is over no decision of the window is left behind: each one is evaluated, unless its
\* realised data never came, which the integrity report then shows; one whose submission failed was
\* rejected at its gate.
AllResolved ==
  pass = "done" =>
    \A p \in Window :
      LET status == episodes[p].decision.status IN
      Has(episodes[p]) =>
        /\ IF Realised(p, clock) THEN status = "EVALUATED" ELSE status \in Deliverable
        /\ violations = 0 => status = "EVALUATED"

\* An order is no larger than what is recommended for its side, a partial hedge no larger than the
\* visible book (but for the tolerance within which the recommendation is taken as it is), and what
\* is executed no larger than the order and, IDEAL apart, than the book.
HedgeWithinAdvice ==
  \A p \in Periods :
    LET e     == episodes[p]
        rec   == e.decision.rec
        depth == Depth(Levels(run.data[p], e.order.side))
    IN Submitted(e) =>
         /\ e.order.volume <= IF e.order.side = "BUY" THEN rec.buy ELSE rec.sell
         /\ e.verdict = "PARTIAL_HEDGE_NOW" => e.order.volume <= depth + Tolerance
         /\ e.order.filled <= e.order.volume
         /\ run.mode # "IDEAL" => e.order.filled <= depth
         /\ e.order.filled = e.decision.exec.buy + e.decision.exec.sell

\* Under TIMING_POLICY only a verdict to hedge sends an order, of the volume that was assessed
\* (within the tolerance), and a decision that waited to the end
\* is a no-trade (test_timing_policy_wait_then_reassess_submits_before_gate).
OrdersFollowVerdicts ==
  run.policy = "TIMING_POLICY" =>
    \A p \in Window :
      LET e == episodes[p] IN
      /\ Submitted(e) =>
           /\ e.verdict \in {"HEDGE_NOW", "PARTIAL_HEDGE_NOW"}
           /\ \E s \in 0..PeriodCount :
                /\ e.assessments[s].verdict = e.verdict
                /\ e.order.volume - e.assessments[s].volume \in 0..Tolerance
      /\ pass = "done" /\ e.verdict = "WAIT" => e.outcome.pnl = 0 /\ ~Submitted(e)

\* No checkpoint is missed: a decision that is still proposed before its gate has an assessment
\* under the market snapshot of the clock.
WaitingIsReassessed ==
  run.policy = "TIMING_POLICY" /\ pass \in {"gate", "outcome"} =>
    \A p \in Window :
      episodes[p].decision.status = "PROPOSED" /\ clock < Gate(p) =>
        episodes[p].assessments[Snapshot(clock)] # NoAssessment

\* The settled P&L, the sum of its attribution and the trader benchmark of the evaluation are one
\* figure, which is zero for a period in which nothing was executed.
ReportsAgree ==
  \A p \in Periods :
    LET o == episodes[p].outcome IN
    o # NoOutcome =>
      /\ o.pnl = o.attributed
      /\ o.pnl = o.benchmarks.TRADER_INSTRUCTION
      /\ o.benchmarks.NO_ACTION = 0
      /\ episodes[p].order.filled = 0 => o.pnl = 0
      /\ o.position = run.data[p].q + episodes[p].decision.exec.buy - episodes[p].decision.exec.sell

\* TIMING_POLICY "follows the current hedge-timing verdict" (replay.md:83): after an event, no
\* decision is left waiting whose verdict at the clock is to hedge.
FollowsCurrentVerdict ==
  run.policy = "TIMING_POLICY" /\ pass = "gate" =>
    \A p \in Window :
      episodes[p].decision.status = "PROPOSED" /\ clock < Gate(p) =>
        Candidate(episodes[p], p, clock).verdict \notin {"HEDGE_NOW", "PARTIAL_HEDGE_NOW"}
================================================================================
