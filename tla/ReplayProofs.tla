------------------------------- MODULE ReplayProofs -------------------------------
(***************************************************************************)
(* What holds of every replay, whatever its dataset, policy and execution  *)
(* mode are and however many periods it has.                               *)
(*                                                                         *)
(* No replay looks ahead (PointInTimeHolds).  The argument goes by         *)
(* episode: what a pass does to an episode at t only leaves its order and  *)
(* its outcome alone, or sends an order before its gate, or settles it     *)
(* when its realised data are there.  The clock never stands before the    *)
(* time of the decisions.                                                  *)
(*                                                                         *)
(* Then the pure parts: the money of a period, and what the walk over an   *)
(* order book of any length takes from it.                                 *)
(*                                                                         *)
(* Last the whole run (ReplayInv): EpisodeOK says of one episode how its   *)
(* decision, its log, its order, its assessments and its outcome fit       *)
(* together, and every function of Replay on an episode keeps it; what is  *)
(* left relates the episodes to the clock and to the pass that is due.     *)
(***************************************************************************)
EXTENDS Replay, WellFoundedInduction, FiniteSetTheorems, TLAPS

Fields == {"decision", "order", "assessments", "verdict", "outcome", "skipped"}

\* f has the order and the outcome of e
Same(e, f) == DOMAIN f = Fields /\ f.order = e.order /\ f.outcome = e.outcome

\* f has an order that was sent at t at the latest, if e has not
OrderStep(e, f, p, t) ==
  /\ DOMAIN f = Fields
  /\ f.outcome = e.outcome
  /\ f.order = e.order \/ (f.order.at = t /\ t < Gate(p))

\* f has an outcome, if e has not
OutcomeStep(e, f, p, t) ==
  /\ DOMAIN f = Fields
  /\ f.order = e.order
  /\ f.outcome = e.outcome \/ (f.outcome.at = t /\ t >= End(p) /\ Realised(p, t))

\* the times of an episode
InTime(e, p) ==
  /\ DOMAIN e = Fields
  /\ e.order = NoOrder \/ (e.order.at \in Nat /\ DecisionTime <= e.order.at /\ e.order.at < Gate(p))
  /\ e.outcome = NoOutcome \/
       (/\ e.outcome.at \in Nat /\ run.data[p].lag # Never
        /\ e.outcome.at >= End(p) + run.data[p].lag)

RunType == run.data \in [Periods -> Offers]

TimesOK ==
  /\ RunType /\ run.first \in Periods
  /\ clock \in Nat /\ DecisionTime <= clock
  /\ DOMAIN episodes = Periods
  /\ \A p \in Periods : InTime(episodes[p], p)

----------------------------------------------------------------------------
\* What the passes do to an episode

\* The state machine's moves leave order and outcome alone.
LEMMA MovesAreSame ==
  ASSUME NEW e, DOMAIN e = Fields
  PROVE  /\ \A target, updated : Same(e, Move(e, target, updated))
         /\ Same(e, Accept(e)) /\ Same(e, Reject(e))
         /\ \A buy, sell : Same(e, Modify(e, buy, sell))
  <1>1. \A target, updated : Same(e, Move(e, target, updated))
    BY DEF Same, Move, Fields
  <1> QED
    BY <1>1 DEF Accept, Reject, Modify

\* Submitting sends an order before the gate, or nothing.
LEMMA SubmitIsOrderStep ==
  ASSUME NEW e, NEW f, NEW p, NEW t, Same(e, f)
  PROVE  OrderStep(e, Submit(f, p, t), p, t)
  <1>1. CASE Submittable(f, p, t)
    <2>1. t < Gate(p)
      BY <1>1 DEF Submittable
    <2>2. /\ DOMAIN Executed(f, p, t) = Fields
          /\ Executed(f, p, t).order.at = t
          /\ Executed(f, p, t).outcome = e.outcome
      BY DEF Executed, Same, Fields
    <2> QED
      BY <1>1, <2>1, <2>2 DEF Submit, OrderStep
  <1>2. CASE ~Submittable(f, p, t)
    BY <1>2 DEF Submit, OrderStep, Same
  <1> QED
    BY <1>1, <1>2

\* Both ways to submit a decision of a policy are such steps.
LEMMA HedgesAreOrderSteps ==
  ASSUME NEW e, NEW f, NEW p, NEW t, Same(e, f)
  PROVE  /\ OrderStep(e, AcceptAndSubmit(f, p, t), p, t)
         /\ \A volume : OrderStep(e, ModifyAndSubmit(f, p, t, volume), p, t)
  <1>1. Same(e, Accept(f)) /\ (\A buy, sell : Same(e, Modify(f, buy, sell)))
    BY MovesAreSame DEF Same
  <1>2. OrderStep(e, AcceptAndSubmit(f, p, t), p, t)
    <2>1. CASE f.decision.status = "PROPOSED"
      BY <2>1, <1>1, SubmitIsOrderStep DEF AcceptAndSubmit
    <2>2. CASE f.decision.status # "PROPOSED"
      BY <2>2, SubmitIsOrderStep DEF AcceptAndSubmit
    <2> QED
      BY <2>1, <2>2
  <1>3. ASSUME NEW volume
        PROVE  OrderStep(e, ModifyAndSubmit(f, p, t, volume), p, t)
    <2>1. OrderStep(e, Submit(Accept(f), p, t), p, t)
      BY <1>1, SubmitIsOrderStep
    <2>2. \A buy, sell : OrderStep(e, Submit(Modify(f, buy, sell), p, t), p, t)
      BY <1>1, SubmitIsOrderStep
    <2> QED
      BY <2>1, <2>2 DEF ModifyAndSubmit
  <1> QED
    BY <1>2, <1>3

\* So is whatever the timing verdict makes of a decision.
LEMMA TimingIsOrderStep ==
  ASSUME NEW e, NEW p, NEW t, DOMAIN e = Fields
  PROVE  OrderStep(e, TimingAction(e, p, t), p, t)
  <1> DEFINE stored == Assessed(e, p, t)
             known  == [e EXCEPT !.assessments[Snapshot(t)] = stored, !.verdict = stored.verdict]
  <1>1. Same(e, known)
    BY DEF Same, Fields
  <1>2. Same(e, Reject(known))
    BY <1>1, MovesAreSame DEF Same
  <1>3. TimingAction(e, p, t) \in {AcceptAndSubmit(known, p, t),
                                   ModifyAndSubmit(known, p, t, stored.volume),
                                   known, Reject(known)}
    BY DEF TimingAction
  <1> HIDE DEF known, stored
  <1>4. /\ OrderStep(e, AcceptAndSubmit(known, p, t), p, t)
        /\ OrderStep(e, ModifyAndSubmit(known, p, t, stored.volume), p, t)
    BY <1>1, HedgesAreOrderSteps
  <1>5. OrderStep(e, known, p, t) /\ OrderStep(e, Reject(known), p, t)
    BY <1>1, <1>2 DEF OrderStep, Same
  <1> QED
    BY <1>3, <1>4, <1>5

\* The trader acts on a decision that was just created.
LEMMA CreationIsOrderStep ==
  ASSUME NEW e, NEW p, NEW t, DOMAIN e = Fields
  PROVE  OrderStep(e, CreateAndAct(e, p, t), p, t)
  <1> DEFINE offer   == run.data[p]
             created == [e EXCEPT !.decision =
                           Proposed(Gate(p),
                                    [buy |-> offer.buy, sell |-> offer.sell, limit |-> NoLimit],
                                    NoBatch)]
             skipped == [e EXCEPT !.skipped = p \in Window]
  <1>1. Same(e, created) /\ Same(e, skipped)
    BY DEF Same, Fields
  <1>2. CreateAndAct(e, p, t) \in {ApplyPolicy(created, p, t), created, skipped}
    BY DEF CreateAndAct
  <1> HIDE DEF created, skipped
  <1>3. ApplyPolicy(created, p, t) \in {Reject(created), AcceptAndSubmit(created, p, t), created,
                                        TimingAction(created, p, t)}
    BY DEF ApplyPolicy
  <1>4. Same(e, Reject(created))
    BY <1>1, MovesAreSame DEF Same
  <1>5. OrderStep(e, AcceptAndSubmit(created, p, t), p, t)
    BY <1>1, HedgesAreOrderSteps
  <1>6. OrderStep(e, TimingAction(created, p, t), p, t)
    BY <1>1, TimingIsOrderStep DEF OrderStep, Same
  <1> QED
    BY <1>1, <1>2, <1>3, <1>4, <1>5, <1>6 DEF OrderStep, Same

\* Reassessing, closing a gate, and settling.
LEMMA PassesAreSteps ==
  ASSUME NEW e, NEW p, NEW t, DOMAIN e = Fields
  PROVE  /\ OrderStep(e, Reassess(e, p, t), p, t)
         /\ Same(e, EnforceGate(e, p, t))
         /\ OutcomeStep(e, DeliverSettleEvaluate(e, p, t), p, t)
  <1>1. Reassess(e, p, t) \in {e, TimingAction(e, p, t)}
    BY DEF Reassess
  <1>2. OrderStep(e, Reassess(e, p, t), p, t)
    BY <1>1, TimingIsOrderStep DEF OrderStep
  <1>3. Same(e, EnforceGate(e, p, t))
    BY MovesAreSame DEF EnforceGate, Same
  <1>4. OutcomeStep(e, DeliverSettleEvaluate(e, p, t), p, t)
    <2>1. /\ DOMAIN Outcome(e, p, t) = Fields
          /\ Outcome(e, p, t).order = e.order
          /\ Outcome(e, p, t).outcome.at = t
      BY DEF Outcome, Fields
    <2>2. Same(e, [e EXCEPT !.skipped = TRUE])
      BY DEF Same, Fields
    <2>3. CASE Due(e, p, t) /\ Realised(p, t)
      <3>1. t >= End(p)
        BY <2>3 DEF Due
      <3> QED
        BY <2>1, <2>3, <3>1 DEF DeliverSettleEvaluate, OutcomeStep
    <2>4. CASE ~(Due(e, p, t) /\ Realised(p, t))
      BY <2>2, <2>4 DEF DeliverSettleEvaluate, OutcomeStep, Same
    <2> QED
      BY <2>3, <2>4
  <1> QED
    BY <1>2, <1>3, <1>4

----------------------------------------------------------------------------
\* The clock

\* A nonempty set of numbers has a least one, which Min chooses.
LEMMA MinIsMember ==
  ASSUME NEW T \in SUBSET Nat, T # {}
  PROVE  Min(T) \in T
  <1>1. \E x \in T : \A y \in T : ~(<<y, x>> \in OpToRel(<, Nat))
    BY NatLessThanWellFounded, WFMin
  <1>2. PICK x \in T : \A y \in T : ~(y < x)
    BY <1>1 DEF OpToRel
  <1>3. \A y \in T : x <= y
    BY <1>2
  <1> QED
    BY <1>3 DEF Min

\* No event of a run is before the time of its decisions.
LEMMA EventsAreLate ==
  ASSUME run.first \in Periods
  PROVE  \A t \in Events : t \in Nat /\ DecisionTime <= t
  <1>1. \A p \in Window : p \in Nat /\ 1 <= p
    BY ReplayAssumption DEF Window, Periods
  <1>2. \A p \in Window : /\ Gate(p) \in Nat /\ DecisionTime <= Gate(p)
                         /\ End(p) \in Nat /\ DecisionTime <= End(p)
    BY <1>1 DEF Gate, End, Start, DecisionTime
  <1>3. \A p \in Window : \A t \in Checkpoints(p) : t \in Nat /\ DecisionTime <= t
    BY <1>2 DEF Checkpoints, DecisionTime
  <1>4. \A t \in UNION {{Gate(p), End(p)} : p \in Window} : t \in Nat /\ DecisionTime <= t
    BY <1>2
  <1>5. \A t \in UNION {Checkpoints(p) : p \in Window} : t \in Nat /\ DecisionTime <= t
    BY <1>3
  <1> QED
    BY <1>4, <1>5 DEF Events, DecisionTime

----------------------------------------------------------------------------
\* The invariant

\* Nothing was sent or settled at the beginning.
LEMMA TimesInit == Init => TimesOK
  <1> SUFFICES ASSUME Init PROVE TimesOK
    OBVIOUS
  <1>1. RunType /\ run.first \in Periods
    BY DEF Init, RunType
  <1>2. \A p \in Periods : InTime(episodes[p], p)
    BY DEF Init, InTime, NewEpisode, Fields
  <1> QED
    BY <1>1, <1>2 DEF Init, TimesOK, DecisionTime

\* Each pass keeps the times of the episodes.
LEMMA TimesNext == TimesOK /\ [Next]_vars => TimesOK'
  <1> SUFFICES ASSUME TimesOK, [Next]_vars PROVE TimesOK'
    OBVIOUS
  <1>1. CASE ActPass
    <2>1. \A p \in Periods : OrderStep(episodes[p], episodes'[p], p, clock)
      BY <1>1, CreationIsOrderStep, PassesAreSteps DEF ActPass, ForAll, TimesOK, InTime
    <2>2. \A p \in Periods : InTime(episodes'[p], p)
      BY <2>1 DEF OrderStep, InTime, TimesOK
    <2>3. DOMAIN episodes' = Periods
      BY <1>1 DEF ActPass, ForAll
    <2> QED
      BY <1>1, <2>2, <2>3 DEF ActPass, TimesOK, InTime, RunType
  <1>2. CASE GatePass
    <2>1. \A p \in Periods : Same(episodes[p], episodes'[p])
      BY <1>2, PassesAreSteps DEF GatePass, ForAll, TimesOK, InTime
    <2>2. \A p \in Periods : InTime(episodes'[p], p)
      BY <2>1 DEF Same, InTime, TimesOK
    <2>3. DOMAIN episodes' = Periods
      BY <1>2 DEF GatePass, ForAll
    <2> QED
      BY <1>2, <2>2, <2>3 DEF GatePass, TimesOK, InTime, RunType
  <1>3. CASE OutcomePass
    <2>1. \A p \in Periods : OutcomeStep(episodes[p], episodes'[p], p, clock)
      BY <1>3, PassesAreSteps DEF OutcomePass, ForAll, TimesOK, InTime
    <2>2. ASSUME NEW p \in Periods, Realised(p, clock)
          PROVE  /\ run.data[p].lag # Never
                 /\ clock >= End(p) + run.data[p].lag
      BY <2>2 DEF Realised
    <2>3. \A p \in Periods : InTime(episodes'[p], p)
      BY <2>1, <2>2 DEF OutcomeStep, InTime, TimesOK
    <2>4. DOMAIN episodes' = Periods
      BY <1>3 DEF OutcomePass, ForAll
    <2>5. clock' \in Nat /\ DecisionTime <= clock'
      <3> DEFINE later == {t \in Events : t > clock}
      <3>1. CASE later = {}
        BY <1>3, <3>1 DEF OutcomePass, TimesOK
      <3>2. CASE later # {}
        <4>1. later \in SUBSET Nat /\ (\A t \in later : DecisionTime <= t)
          BY EventsAreLate DEF TimesOK
        <4>2. clock' = Min(later)
          BY <1>3, <3>2 DEF OutcomePass
        <4> QED
          BY <3>2, <4>1, <4>2, MinIsMember
      <3> QED
        BY <3>1, <3>2
    <2> QED
      BY <1>3, <2>3, <2>4, <2>5 DEF OutcomePass, TimesOK, InTime, RunType
  <1>4. CASE UNCHANGED vars
    BY <1>4 DEF vars, TimesOK, InTime, RunType
  <1> QED
    BY <1>1, <1>2, <1>3, <1>4 DEF Next

\* The times are what the point-in-time rules ask for.
LEMMA TimesImply == TimesOK => PointInTime
  <1> SUFFICES ASSUME TimesOK, NEW p \in Periods
               PROVE  LET e == episodes[p] IN
                      /\ Submitted(e) => DecisionTime <= e.order.at /\ e.order.at < Gate(p)
                      /\ e.outcome # NoOutcome =>
                           /\ run.data[p].lag # Never
                           /\ e.outcome.at >= End(p) + run.data[p].lag
                           /\ e.order.at < e.outcome.at
    BY DEF PointInTime
  <1> DEFINE e == episodes[p]
  <1>1. InTime(e, p) /\ run.data[p] \in Offers
    BY DEF TimesOK, RunType
  <1>2. run.data[p].lag # Never => run.data[p].lag \in Nat
    BY <1>1, ReplayAssumption DEF Never, OfferType
  <1>3. p \in Nat /\ 1 <= p
    BY ReplayAssumption DEF Periods
  <1>4. Gate(p) \in Nat /\ End(p) \in Nat /\ 0 < End(p) /\ Gate(p) < End(p)
    BY <1>3 DEF Gate, End, Start
  <1>5. e.order = NoOrder => e.order.at = -1
    BY DEF NoOrder, Never
  <1> QED
    BY <1>1, <1>2, <1>4, <1>5 DEF InTime, Submitted

\* replay_engine with the point-in-time view of replay_dataset: no order goes out before the
\* forecast is published or after its gate, and no period is settled before its realised data are
\* there.
THEOREM PointInTimeHolds == Spec => []PointInTime
  BY TimesInit, TimesNext, TimesImply, PTL DEF Spec

----------------------------------------------------------------------------
(***************************************************************************)
(* The money of a period adds up for every volume, price and generation.   *)
(***************************************************************************)
InputsType ==
  [gen : Int, q : Int, buy : Int, sell : Int, cash : Int, fees : Int,
   ref : Int, imbBuy : Int, imbSell : Int]

\* The imbalance price of a period is a number.
LEMMA PriceType ==
  ASSUME NEW in \in InputsType, NEW imbalance \in Int
  PROVE  ImbalancePrice(in, imbalance) \in Int
  BY DEF ImbalancePrice, InputsType

\* The attribution of pnl_attribution.compute_attribution (execution, fees, volume effect and price
\* regime) leaves nothing over: it adds up to the P&L that compute_settlement books, also when the
\* hedge turns a shortage into a surplus and so changes the price the imbalance is settled at.
THEOREM AttributionReconciles ==
  ASSUME NEW in \in InputsType
  PROVE  AttributedTotal(in) = Settled(in)
  <1> DEFINE na   == Imbalance(in, 0, 0)
             dec  == Imbalance(in, in.buy, in.sell)
             pna  == ImbalancePrice(in, na)
             pdec == ImbalancePrice(in, dec)
             net  == in.buy - in.sell
  <1>1. /\ na \in Int /\ dec \in Int /\ net \in Int
        /\ in.cash \in Int /\ in.fees \in Int
        /\ dec = na - net
    BY DEF Imbalance, InputsType
  <1>2. pna \in Int /\ pdec \in Int
    BY <1>1, PriceType
  <1>3. AttributedTotal(in) = in.cash + (-in.fees) + (-net * pdec) + na * (pdec - pna)
    BY DEF AttributedTotal, Attribution
  <1>4. Settled(in) = (in.cash + dec * pdec - in.fees) - na * pna
    BY DEF Settled, Incremental, TotalCash, NoActionCash, ImbalanceCash
  <1> HIDE DEF na, dec, pna, pdec, net
  <1>5. dec * pdec = na * pdec - net * pdec
    BY <1>1, <1>2
  <1>6. na * (pdec - pna) = na * pdec - na * pna
    BY <1>1, <1>2
  <1>7. -net * pdec = -(net * pdec)
    BY <1>1, <1>2
  <1> QED
    BY <1>1, <1>2, <1>3, <1>4, <1>5, <1>6, <1>7

\* The sale of perfect_foresight_benchmark leaves no imbalance: it earns its trade and the imbalance
\* cash of the case without a hedge, whatever the imbalance prices are.
LEMMA ForesightClosesImbalance ==
  ASSUME NEW in \in InputsType, NEW feeRate \in Int, in.gen <= in.q
  PROVE  Foresight(in, feeRate) =
           (in.q - in.gen) * in.ref - feeRate * (in.q - in.gen) - NoActionCash(in)
  <1> DEFINE needed == in.q - in.gen
  <1>1. needed \in Int /\ in.ref \in Int /\ in.imbSell \in Int /\ Imbalance(in, 0, needed) = 0
    BY DEF Imbalance, InputsType
  <1>2. Foresight(in, feeRate) = AtReference(in, 0, needed, feeRate)
    BY DEF Foresight, InputsType
  <1>3. ImbalanceCash(in, 0) = 0
    BY <1>1 DEF ImbalanceCash, ImbalancePrice
  <1>4. AtReference(in, 0, needed, feeRate)
          = ((needed - 0) * in.ref + 0 - feeRate * (0 + needed)) - NoActionCash(in)
    BY <1>1, <1>3 DEF AtReference, Incremental, TotalCash
  <1>5. NoActionCash(in) \in Int
    BY PriceType DEF NoActionCash, ImbalanceCash, Imbalance, InputsType
  <1> QED
    BY <1>1, <1>2, <1>4, <1>5

\* perfect_foresight_benchmark is not the best sale: whoever sells more than it is paid for the rest
\* by the buyer and, as a surplus, by the imbalance settlement, less the fee.  How much that is.
THEOREM SaleBeyondForesight ==
  ASSUME NEW in \in InputsType, NEW feeRate \in Int, in.gen <= in.q,
         NEW sell \in Int, sell >= in.q - in.gen
  PROVE  AtReference(in, 0, sell, feeRate)
           = Foresight(in, feeRate) + (sell - (in.q - in.gen)) * (in.ref + in.imbSell - feeRate)
  <1> DEFINE needed == in.q - in.gen
             rest   == sell - needed
  <1>1. /\ needed \in Int /\ rest \in Int /\ in.ref \in Int /\ in.imbSell \in Int
        /\ rest >= 0 /\ sell = needed + rest /\ Imbalance(in, 0, sell) = rest
    BY DEF Imbalance, InputsType
  <1>2. ImbalanceCash(in, Imbalance(in, 0, sell)) = rest * in.imbSell
    BY <1>1 DEF ImbalanceCash, ImbalancePrice
  <1>3. AtReference(in, 0, sell, feeRate)
          = ((sell - 0) * in.ref + rest * in.imbSell - feeRate * (0 + sell)) - NoActionCash(in)
    BY <1>2 DEF AtReference, Incremental, TotalCash
  <1>4. Foresight(in, feeRate) = needed * in.ref - feeRate * needed - NoActionCash(in)
    BY ForesightClosesImbalance
  <1>5. NoActionCash(in) \in Int
    BY PriceType DEF NoActionCash, ImbalanceCash, Imbalance, InputsType
  <1> HIDE DEF needed, rest
  <1>6. /\ (sell - 0) * in.ref = needed * in.ref + rest * in.ref
        /\ feeRate * (0 + sell) = feeRate * needed + feeRate * rest
    BY <1>1
  <1>7. rest * (in.ref + in.imbSell - feeRate) = rest * in.ref + rest * in.imbSell - feeRate * rest
    BY <1>1
  <1>8. AtReference(in, 0, sell, feeRate)
          = Foresight(in, feeRate) + rest * (in.ref + in.imbSell - feeRate)
    BY <1>1, <1>3, <1>4, <1>5, <1>6, <1>7
  <1> QED
    BY <1>8 DEF rest, needed

----------------------------------------------------------------------------
(***************************************************************************)
(* The walk of the order book: what a recursion over its levels computes.  *)
(***************************************************************************)
\* What holds of 0 and is handed on from each number to the next holds up to n.
LEMMA UpTo ==
  ASSUME NEW n \in Nat, NEW S, 0 \in S, \A k \in 1..n : k - 1 \in S => k \in S
  PROVE  \A k \in 0..n : k \in S
<1> DEFINE Bad == {k \in 0..n : k \notin S}
<1>1. SUFFICES ASSUME Bad # {} PROVE FALSE
  BY DEF Bad
<1>2. Bad \in SUBSET Nat
  OBVIOUS
<1>3. \E x \in Bad : \A y \in Bad : ~(<<y, x>> \in OpToRel(<, Nat))
  <2> HIDE DEF Bad
  <2> QED BY <1>1, <1>2, NatLessThanWellFounded, WFMin
<1>4. PICK x \in Bad : \A y \in Bad : ~(y < x)
  BY <1>2, <1>3 DEF OpToRel
<1>5. x \in 1..n /\ x - 1 \in 0..n /\ x - 1 < x
  BY <1>4
<1>6. x - 1 \in S
  BY <1>4, <1>5
<1>7. QED
  BY <1>4, <1>5, <1>6

\* f is what a recursion over 0..n computes: it starts at base and goes on with step.
Computes(f, A, base, n, step) ==
  f \in [0..n -> A] /\ f[0] = base /\ \A k \in 1..n : f[k] = step[k][f[k - 1]]
Steps(n, A) == [1..n -> [A -> A]]

\* A recursion over 0..n whose steps stay in A computes a function into A.
LEMMA Recursion ==
  ASSUME NEW A, NEW base \in A, NEW n \in Nat, NEW step \in Steps(n, A)
  PROVE  \E f : Computes(f, A, base, n, step)
<1> DEFINE S == {m \in 0..n : \E f \in [0..m -> A] :
                   f[0] = base /\ \A k \in 1..m : f[k] = step[k][f[k - 1]]}
<1>0. step \in [1..n -> [A -> A]]
  BY DEF Steps
<1>1. 0 \in S
  <2>1. PICK f : f = [k \in 0..0 |-> base]
    OBVIOUS
  <2>2. f \in [0..0 -> A] /\ f[0] = base
    BY <2>1
  <2>3. \A k \in 1..0 : f[k] = step[k][f[k - 1]]
    OBVIOUS
  <2>4. QED
    BY <2>2, <2>3
<1>2. ASSUME NEW m \in 1..n, m - 1 \in S PROVE m \in S
  <2>1. PICK f \in [0..(m - 1) -> A] :
          f[0] = base /\ \A k \in 1..(m - 1) : f[k] = step[k][f[k - 1]]
    BY <1>2
  <2>2. m \in Nat /\ m - 1 \in 0..(m - 1) /\ f[m - 1] \in A
    OBVIOUS
  <2>3. step[m][f[m - 1]] \in A
    BY <1>0, <2>2
  <2>4. PICK g : g = [k \in 0..m |-> IF k = m THEN step[m][f[m - 1]] ELSE f[k]]
    OBVIOUS
  <2>5. g \in [0..m -> A] /\ g[m] = step[m][f[m - 1]] /\ \A k \in 0..(m - 1) : g[k] = f[k]
    BY <2>2, <2>3, <2>4
  <2>6. ASSUME NEW k \in 1..m PROVE g[k] = step[k][g[k - 1]]
    <3>1. k - 1 \in 0..(m - 1) /\ g[k - 1] = f[k - 1]
      BY <2>2, <2>5
    <3>2. CASE k = m
      BY <2>5, <3>1, <3>2
    <3>3. CASE k # m
      <4>1. k \in 1..(m - 1) /\ k \in 0..(m - 1)
        BY <2>2, <3>3
      <4>2. QED
        BY <2>1, <2>5, <3>1, <4>1
    <3>4. QED
      BY <3>2, <3>3
  <2>7. g[0] = base
    BY <2>1, <2>2, <2>5
  <2>8. QED
    BY <2>5, <2>6, <2>7
<1>3. n \in S
  <2>1. \A k \in 0..n : k \in S
    <3> HIDE DEF S
    <3> QED BY <1>1, <1>2, UpTo
  <2>2. QED
    BY <2>1
<1>4. QED
  BY <1>3 DEF Computes

\* The elements of a sequence.
LEMMA ElementsOf ==
  ASSUME NEW S, NEW s \in Seq(S)
  PROVE  Len(s) \in Nat /\ \A k \in 1..Len(s) : s[k] \in S
  OBVIOUS

\* The first element of a sequence.
LEMMA HeadOf ==
  ASSUME NEW S, NEW s \in Seq(S), s # <<>>
  PROVE  Head(s) \in S
  OBVIOUS

\* The depth of a side of the book, level by level.
LEMMA DepthByLevel ==
  ASSUME NEW levels \in OrderBook
  PROVE  \E f \in [0..Len(levels) -> Nat] :
           /\ f[0] = 0
           /\ \A k \in 1..Len(levels) : f[k] = f[k - 1] + levels[k].volume
           /\ Depth(levels) = f[Len(levels)]
<1> DEFINE N == Len(levels)
           step == [k \in 1..N |-> [sum \in Nat |-> sum + levels[k].volume]]
           upTo[n \in 0..N] == IF n = 0 THEN 0 ELSE upTo[n - 1] + levels[n].volume
<1> HIDE DEF upTo
<1>1. N \in Nat /\ \A k \in 1..N : levels[k].volume \in Nat
  <2>1. levels \in Seq([price : Int, volume : Nat])
    BY DEF OrderBook
  <2>2. N \in Nat /\ \A k \in 1..N : levels[k] \in [price : Int, volume : Nat]
    BY <2>1, ElementsOf
  <2>3. QED
    BY <2>2
<1>2. step \in [1..N -> [Nat -> Nat]]
  BY <1>1
<1>2a. PICK f : Computes(f, Nat, 0, N, step)
  <2> HIDE DEF step, N
  <2>1. 0 \in Nat /\ step \in Steps(N, Nat)
    BY <1>2 DEF Steps
  <2>2. QED
    BY <1>1, <2>1, Recursion, Zenon
<1>3. f \in [0..N -> Nat] /\ f[0] = 0 /\ \A k \in 1..N : f[k] = step[k][f[k - 1]]
  BY <1>2a DEF Computes
<1>4. ASSUME NEW k \in 1..N PROVE f[k] = f[k - 1] + levels[k].volume
  <2>1. k - 1 \in 0..N
    BY <1>1
  <2>2. f[k - 1] \in Nat
    <3> HIDE DEF step
    <3> QED BY <1>3, <2>1
  <2>3. QED
    BY <1>3, <2>2
<1>5. f = [n \in 0..N |-> IF n = 0 THEN 0 ELSE f[n - 1] + levels[n].volume]
  <2>1. ASSUME NEW n \in 0..N PROVE f[n] = IF n = 0 THEN 0 ELSE f[n - 1] + levels[n].volume
    BY <1>1, <1>3, <1>4
  <2>2. QED
    BY <1>3, <2>1
<1>6. upTo = [n \in 0..N |-> IF n = 0 THEN 0 ELSE upTo[n - 1] + levels[n].volume]
  <2>1. \E g : g = [n \in 0..N |-> IF n = 0 THEN 0 ELSE g[n - 1] + levels[n].volume]
    BY <1>5
  <2>2. QED
    BY <2>1, Zenon DEF upTo
<1>7. Depth(levels) = upTo[N]
  BY DEF Depth, upTo
<1> HIDE DEF step
<1>8. \A k \in 0..N : upTo[k] = f[k]
  <2> DEFINE S == {k \in 0..N : upTo[k] = f[k]}
  <2>1. 0 \in S
    BY <1>1, <1>3, <1>6
  <2>2. ASSUME NEW k \in 1..N, k - 1 \in S PROVE k \in S
    <3>1. k \in 0..N /\ k - 1 \in 0..N /\ k # 0
      BY <1>1
    <3>2. upTo[k] = upTo[k - 1] + levels[k].volume
      BY <1>6, <3>1
    <3>3. QED
      BY <1>4, <2>2, <3>1, <3>2
  <2>3. \A k \in 0..N : k \in S
    <3> HIDE DEF S, N
    <3> QED BY <1>1, <2>1, <2>2, UpTo
  <2>4. QED
    BY <2>3
<1>9. QED
  BY <1>1, <1>3, <1>4, <1>7, <1>8

SoFar == [left : Int, filled : Int, notional : Int]

\* A mode offers no more of a level than is visible.
LEMMA OfferedBound ==
  ASSUME NEW level \in [price : Int, volume : Nat], NEW side,
         NEW mode \in {"IDEAL", "REALISTIC", "STRESS"}
  PROVE  /\ Offered(level, side, mode).volume \in 0..level.volume
         /\ Offered(level, side, mode).price \in Int
<1> DEFINE h == DepthHaircut[mode]
           x == level.volume * (10 - h)
<1>1. h \in {0, 1, 4} /\ AdversePrice[mode] \in Int
  BY DEF DepthHaircut, AdversePrice
<1>2. level.volume \in Nat /\ level.price \in Int
  OBVIOUS
<1>3. x \in Nat /\ x <= 10 * level.volume
  BY <1>1, <1>2
<1>4. Offered(level, side, mode).volume = x \div 10
  BY DEF Offered
<1>5. Offered(level, side, mode).price \in Int
  BY <1>1, <1>2 DEF Offered
<1> HIDE DEF x
<1>6. x \div 10 \in 0..level.volume
  BY <1>2, <1>3
<1>7. QED
  BY <1>4, <1>5, <1>6

\* From s to t, a level gives part of its volume, and of what is left of the order.
Gives(level, s, t) ==
  \E v \in 1..level.volume : v <= s.left /\ t.left = s.left - v /\ t.filled = s.filled + v

\* What one level adds: nothing, or a part of what is left of the order, which the level holds.
LEMMA SweepStep ==
  ASSUME NEW so_far \in SoFar, NEW level \in [price : Int, volume : Nat], NEW side,
         NEW mode \in {"IDEAL", "REALISTIC", "STRESS"}
  PROVE  LET next == Sweep(so_far, level, side, mode) IN
         /\ next \in SoFar
         /\ next = so_far \/ Gives(level, so_far, next)
<1> DEFINE offered == Offered(level, side, mode)
           v == Least(so_far.left, offered.volume)
<1>1. offered.volume \in 0..level.volume /\ offered.price \in Int /\ level.volume \in Nat
  BY OfferedBound
<1>2. so_far.left \in Int /\ so_far.filled \in Int /\ so_far.notional \in Int
  BY DEF SoFar
<1>3. CASE so_far.left <= Tolerance \/ offered.volume <= Tolerance
  BY <1>3 DEF Sweep
<1>4. CASE ~(so_far.left <= Tolerance \/ offered.volume <= Tolerance)
  <2>1. v \in 1..level.volume /\ v <= so_far.left
    <3> HIDE DEF offered
    <3> QED BY <1>1, <1>2, <1>4 DEF Least, Tolerance
  <2>2. Sweep(so_far, level, side, mode) = Take(so_far, v, offered.price)
    BY <1>4 DEF Sweep
  <2> HIDE DEF v, offered
  <2>3. v * offered.price \in Int
    BY <1>1, <2>1
  <2>4. Take(so_far, v, offered.price) \in SoFar
    BY <1>2, <2>1, <2>3 DEF Take, SoFar
  <2>5. /\ Take(so_far, v, offered.price).left = so_far.left - v
        /\ Take(so_far, v, offered.price).filled = so_far.filled + v
    BY DEF Take
  <2>6. QED
    BY <2>1, <2>2, <2>4, <2>5 DEF Gives
<1>5. QED
  BY <1>3, <1>4

\* f is the course of a walk through the book, level by level.
Course(f, levels, side, volume, mode) ==
  /\ f \in [0..Len(levels) -> SoFar]
  /\ f[0] = Untouched(volume)
  /\ \A k \in 1..Len(levels) : f[k] = Sweep(f[k - 1], levels[k], side, mode)

\* A walk of the book ends where its course does.
LEMMA WalkByLevel ==
  ASSUME NEW levels \in OrderBook, NEW side, NEW volume \in Nat,
         NEW mode \in {"IDEAL", "REALISTIC", "STRESS"}
  PROVE  \E f : /\ Course(f, levels, side, volume, mode)
                /\ Walk(levels, side, volume, mode) = f[Len(levels)]
<1> DEFINE N == Len(levels)
           step == [k \in 1..N |-> [s \in SoFar |-> Sweep(s, levels[k], side, mode)]]
           after[n \in 0..N] ==
             IF n = 0 THEN Untouched(volume) ELSE Sweep(after[n - 1], levels[n], side, mode)
<1> HIDE DEF after
<1>1. N \in Nat /\ \A k \in 1..N : levels[k] \in [price : Int, volume : Nat]
  BY ElementsOf DEF OrderBook
<1>2. step \in [1..N -> [SoFar -> SoFar]]
  <2>1. ASSUME NEW k \in 1..N, NEW s \in SoFar PROVE Sweep(s, levels[k], side, mode) \in SoFar
    BY <1>1, SweepStep
  <2>2. QED
    BY <2>1
<1>3. Untouched(volume) \in SoFar
  BY DEF Untouched, SoFar
<1>4. PICK f : Computes(f, SoFar, Untouched(volume), N, step)
  <2> HIDE DEF step, N
  <2>1. step \in Steps(N, SoFar)
    BY <1>2 DEF Steps
  <2>2. QED
    BY <1>1, <1>3, <2>1, Recursion, Zenon
<1>5. /\ f \in [0..N -> SoFar] /\ f[0] = Untouched(volume)
      /\ \A k \in 1..N : f[k] = step[k][f[k - 1]]
  BY <1>4 DEF Computes
<1>6. ASSUME NEW k \in 1..N PROVE f[k] = Sweep(f[k - 1], levels[k], side, mode)
  <2>1. k - 1 \in 0..N
    BY <1>1
  <2>2. f[k - 1] \in SoFar
    <3> HIDE DEF step
    <3> QED BY <1>5, <2>1
  <2>3. QED
    BY <1>5, <2>2
<1> HIDE DEF step
<1>7. f = [n \in 0..N |-> IF n = 0 THEN Untouched(volume)
                         ELSE Sweep(f[n - 1], levels[n], side, mode)]
  <2>1. ASSUME NEW n \in 0..N
        PROVE  f[n] = IF n = 0 THEN Untouched(volume) ELSE Sweep(f[n - 1], levels[n], side, mode)
    BY <1>1, <1>5, <1>6
  <2>2. QED
    BY <1>5, <2>1
<1>8. after = [n \in 0..N |->
                IF n = 0 THEN Untouched(volume) ELSE Sweep(after[n - 1], levels[n], side, mode)]
  <2>1. \E g : g = [n \in 0..N |->
                     IF n = 0 THEN Untouched(volume) ELSE Sweep(g[n - 1], levels[n], side, mode)]
    BY <1>7
  <2>2. QED
    BY <2>1, Zenon DEF after
<1>9. Walk(levels, side, volume, mode) = after[N]
  BY DEF Walk, after
<1>10. \A k \in 0..N : after[k] = f[k]
  <2> DEFINE S == {k \in 0..N : after[k] = f[k]}
  <2>1. 0 \in S
    BY <1>1, <1>5, <1>8
  <2>2. ASSUME NEW k \in 1..N, k - 1 \in S PROVE k \in S
    <3>1. k \in 0..N /\ k - 1 \in 0..N /\ k # 0
      BY <1>1
    <3>2. after[k] = Sweep(after[k - 1], levels[k], side, mode)
      BY <1>8, <3>1
    <3>3. QED
      BY <1>6, <2>2, <3>1, <3>2
  <2>3. \A k \in 0..N : k \in S
    <3> HIDE DEF S, N
    <3> QED BY <1>1, <2>1, <2>2, UpTo
  <2>4. QED
    BY <2>3
<1>11. QED
  BY <1>1, <1>5, <1>6, <1>9, <1>10 DEF Course

\* What a walk takes is at most the order and at most the book, and no money moves without it.
LEMMA WalkBounds ==
  ASSUME NEW levels \in OrderBook, NEW side, NEW volume \in Nat,
         NEW mode \in {"IDEAL", "REALISTIC", "STRESS"}
  PROVE  LET done == Walk(levels, side, volume, mode) IN
         /\ done \in SoFar
         /\ done.filled \in 0..volume /\ done.filled <= Depth(levels)
         /\ done.filled = 0 => done.notional = 0
<1> DEFINE N == Len(levels)
<1>1. N \in Nat /\ \A k \in 1..N : levels[k] \in [price : Int, volume : Nat]
  BY ElementsOf DEF OrderBook
<1>1a. PICK f : Course(f, levels, side, volume, mode) /\ Walk(levels, side, volume, mode) = f[N]
  BY WalkByLevel
<1>2. /\ f \in [0..N -> SoFar] /\ f[0] = Untouched(volume)
      /\ \A k \in 1..N : f[k] = Sweep(f[k - 1], levels[k], side, mode)
  BY <1>1a DEF Course
<1>3. PICK g \in [0..N -> Nat] :
        /\ g[0] = 0 /\ \A k \in 1..N : g[k] = g[k - 1] + levels[k].volume
        /\ Depth(levels) = g[N]
  BY DepthByLevel
<1> DEFINE Within(s, depth) == /\ s.left = volume - s.filled /\ s.filled \in 0..volume
                               /\ s.filled <= depth /\ (s.filled = 0 => s.notional = 0)
           S == {k \in 0..N : Within(f[k], g[k])}
<1>4. 0 \in S
  BY <1>1, <1>2, <1>3 DEF Untouched
<1>5. ASSUME NEW k \in 1..N, k - 1 \in S PROVE k \in S
  <2>1. k - 1 \in 0..N /\ k \in 0..N
    BY <1>1
  <2>2. /\ f[k - 1] \in SoFar /\ g[k - 1] \in Nat /\ levels[k].volume \in Nat
        /\ f[k - 1].filled \in Int /\ f[k - 1].left \in Int
    <3>1. f[k - 1] \in SoFar /\ g[k - 1] \in Nat
      BY <1>2, <1>3, <2>1
    <3>2. levels[k].volume \in Nat
      BY <1>1
    <3>3. QED
      BY <3>1, <3>2 DEF SoFar
  <2>3. Within(f[k - 1], g[k - 1])
    BY <1>5
  <2>4. g[k] = g[k - 1] + levels[k].volume /\ f[k] = Sweep(f[k - 1], levels[k], side, mode)
    BY <1>2, <1>3
  <2>5. f[k] = f[k - 1] \/ Gives(levels[k], f[k - 1], f[k])
    <3>1. levels[k] \in [price : Int, volume : Nat] /\ f[k - 1] \in SoFar
      BY <1>1, <2>2
    <3>2. QED
      BY <2>4, <3>1, SweepStep
  <2>6. Within(f[k], g[k])
    <3>1. CASE f[k] = f[k - 1]
      BY <2>2, <2>3, <2>4, <3>1
    <3>2. ASSUME NEW v \in 1..levels[k].volume, v <= f[k - 1].left,
                 f[k].left = f[k - 1].left - v, f[k].filled = f[k - 1].filled + v
          PROVE  Within(f[k], g[k])
      <4>1. /\ f[k].left = volume - f[k].filled
            /\ f[k].filled = f[k - 1].filled + v /\ v <= f[k - 1].left
        BY <2>2, <2>3, <3>2
      <4>2. /\ f[k - 1].filled \in 0..volume /\ f[k - 1].left = volume - f[k - 1].filled
            /\ f[k - 1].filled <= g[k - 1] /\ v \in Nat /\ 1 <= v /\ v <= levels[k].volume
        BY <2>2, <2>3
      <4>3. f[k].filled \in 1..volume /\ f[k].filled <= g[k]
        <5>1. \A x, y, d, w \in Nat : 1 <= y /\ y <= volume - x /\ x <= d /\ y <= w =>
                x + y \in 1..volume /\ x + y <= d + w
          OBVIOUS
        <5>2. f[k - 1].filled \in Nat
          BY <2>2, <4>2
        <5>3. QED
          BY <2>2, <2>4, <4>1, <4>2, <5>1, <5>2
      <4>4. QED
        BY <4>1, <4>3
    <3>3. QED
      BY <2>5, <3>1, <3>2 DEF Gives
  <2>7. QED
    BY <2>1, <2>6
<1>6. \A k \in 0..N : k \in S
  <2> HIDE DEF S, N
  <2> QED BY <1>1, <1>4, <1>5, UpTo
<1>7. Within(f[N], g[N]) /\ f[N] \in SoFar
  BY <1>1, <1>2, <1>6
<1>8. QED
  BY <1>1a, <1>3, <1>7

\* The depth of a book is a volume.
LEMMA DepthType ==
  ASSUME NEW levels \in OrderBook
  PROVE  Depth(levels) \in Nat
<1>1. Len(levels) \in Nat
  BY ElementsOf DEF OrderBook
<1>2. QED
  BY <1>1, DepthByLevel

\* What the simulator reports: no more than was ordered, no more than the book holds unless it is
\* IDEAL, and no money for nothing.
LEMMA SimulateBounds ==
  ASSUME NEW levels \in OrderBook, NEW side, NEW volume \in Nat,
         NEW mode \in {"IDEAL", "REALISTIC", "STRESS"}
  PROVE  LET result == Simulate(levels, side, volume, mode) IN
         /\ result.filled \in 0..volume
         /\ mode # "IDEAL" => result.filled <= Depth(levels)
         /\ result.unfilled = volume - result.filled
         /\ result.cash \in Int /\ result.fees \in Int
         /\ result.filled = 0 => result.cash = 0 /\ result.fees = 0
         /\ result.status = StatusOf(volume, result.filled)
<1> DEFINE done == IF levels = <<>> THEN Untouched(volume)
                   ELSE IF mode = "IDEAL" THEN Take(Untouched(volume), volume, Head(levels).price)
                   ELSE Walk(levels, side, volume, mode)
<1>1. /\ done.filled \in 0..volume /\ done.notional \in Int
      /\ mode # "IDEAL" => done.filled <= Depth(levels)
      /\ done.filled = 0 => done.notional = 0
  <2>1. CASE levels = <<>>
    BY <2>1, DepthType DEF Untouched
  <2>2. CASE levels # <<>> /\ mode = "IDEAL"
    <3>1. levels \in Seq([price : Int, volume : Nat])
      BY DEF OrderBook
    <3>3. Head(levels) \in [price : Int, volume : Nat]
      <4> HIDE DEF done
      <4> QED BY <2>2, <3>1, HeadOf
    <3>4. done = Take(Untouched(volume), volume, Head(levels).price)
      BY <2>2
    <3>5. Head(levels).price \in Int
      BY <3>3
    <3>6. volume * Head(levels).price \in Int /\ (volume = 0 => volume * Head(levels).price = 0)
      BY <3>5
    <3>7. done.filled = volume /\ done.notional = volume * Head(levels).price
      BY <3>4, <3>6 DEF Take, Untouched
    <3> HIDE DEF done
    <3>8. QED
      BY <2>2, <3>6, <3>7
  <2>3. CASE levels # <<>> /\ mode # "IDEAL"
    <3>1. done = Walk(levels, side, volume, mode)
      BY <2>3
    <3> HIDE DEF done
    <3>2. QED
      BY <3>1, WalkBounds DEF SoFar
  <2>4. QED
    BY <2>1, <2>2, <2>3
<1>2. Simulate(levels, side, volume, mode) =
        [filled   |-> done.filled,
         unfilled |-> NotBelow(volume - done.filled),
         cash     |-> IF side = "BUY" THEN -done.notional ELSE done.notional,
         fees     |-> FeeRate * done.filled,
         status   |-> StatusOf(volume, done.filled)]
  BY DEF Simulate
<1> HIDE DEF done
<1>3. NotBelow(volume - done.filled) = volume - done.filled
  BY <1>1 DEF NotBelow
<1>4. FeeRate * done.filled \in Int /\ (done.filled = 0 => FeeRate * done.filled = 0)
  BY <1>1 DEF FeeRate
<1>5. QED
  BY <1>1, <1>2, <1>3, <1>4

----------------------------------------------------------------------------
(***************************************************************************)
(* One episode: what its decision, order, assessments and outcome say of   *)
(* one another.  r is the run.                                             *)
(***************************************************************************)
LogRecord == [seq : Nat, from : Statuses \cup {"NONE"}, to : Statuses]

DecisionType ==
  [status : Statuses \cup {"ABSENT"}, gate : Int,
   rec : [buy : Nat, sell : Nat, limit : Nat], batch : {NoBatch},
   instr : [action : TraderActions \cup {"NONE"}, buy : Nat, sell : Nat, limit : Nat, until : Nat],
   exec : [status : ExecutionStatuses \cup {"NONE"}, requested : Nat, buy : Nat, sell : Nat,
           unfilled : Nat],
   settlement : [delivered : BOOLEAN, position : Int, settled : BOOLEAN, pnl : Int],
   evaluated : BOOLEAN, log : Seq(LogRecord)]

EpisodeType ==
  [decision : DecisionType,
   order : [at : Int, side : {"BUY", "SELL", "NONE"}, volume : Nat, filled : Nat, cash : Int,
            fees : Int],
   assessments : [0..PeriodCount -> [verdict : Verdicts \cup {"NONE"}, volume : Nat]],
   verdict : Verdicts \cup {"NONE"},
   outcome : [at : Int, position : Int, pnl : Int, attributed : Int,
              benchmarks : [NO_ACTION : Int, MODEL_RECOMMENDATION : Int,
                            TRADER_INSTRUCTION : Int, PERFECT_FORESIGHT : Int]],
   skipped : BOOLEAN]

\* the recommendation of the dataset for a period
Advice(r, p) == [buy |-> r.data[p].buy, sell |-> r.data[p].sell, limit |-> NoLimit]

\* what it says of one side
Advised(r, p, side) == IF side = "BUY" THEN Advice(r, p).buy ELSE Advice(r, p).sell

BookDepth(r, p, side) == Depth(Levels(r.data[p], side))

\* the log is a path of the state graph that ends in the status
LogOK(d) ==
  /\ (d.log = <<>>) <=> (d.status = "ABSENT")
  /\ d.log # <<>> => d.log[Len(d.log)].to = d.status
  /\ \A i \in 2..Len(d.log) :
       /\ d.log[i].from = d.log[i - 1].to
       /\ d.log[i].to \in AllowedTransitions(d.log[i].from)

\* between two calls a decision has one of these; the first five were never submitted
Unsent == {"ABSENT", "PROPOSED", "ACCEPTED", "MODIFIED", "REJECTED"}
Sent   == {"PARTIALLY_FILLED", "FILLED", "EXPIRED"}

StageOK(e) ==
  /\ e.decision.status \in Unsent \cup Sent \cup {"EVALUATED"}
  /\ e.decision.status \in Unsent => e.order = NoOrder /\ e.decision.exec = NoExecution
  /\ (e.outcome = NoOutcome) <=> (e.decision.status # "EVALUATED")
  /\ StagePayloadOK(e.decision, NoDecision)

\* order and decision agree on what was executed, which alone moves money
MoneyOK(e) ==
  /\ e.order.filled = e.decision.exec.buy + e.decision.exec.sell
  /\ e.order.filled = 0 => e.order.cash = 0 /\ e.order.fees = 0

\* an assessment to hedge is of the whole recommendation, or of what the book covers
AssessmentOK(r, a, p) ==
  LET advice == Advice(r, p) IN
  /\ a.verdict = "HEDGE_NOW" => a.volume = Required(advice) /\ Required(advice) > Tolerance
  /\ a.verdict = "PARTIAL_HEDGE_NOW" =>
       /\ Required(advice) > Tolerance
       /\ a.volume <= Required(advice) /\ a.volume <= BookDepth(r, p, SideOf(advice))

\* an order of this side and volume is what the recommendation and the assessments allow
Allowed(r, e, p, side, volume) ==
  /\ volume <= Advised(r, p, side)
  /\ e.verdict = "PARTIAL_HEDGE_NOW" => volume <= BookDepth(r, p, side) + Tolerance
  /\ r.policy = "TIMING_POLICY" =>
       /\ e.verdict \in {"HEDGE_NOW", "PARTIAL_HEDGE_NOW"}
       /\ \E s \in 0..PeriodCount : /\ e.assessments[s].verdict = e.verdict
                                    /\ volume - e.assessments[s].volume \in 0..Tolerance

OrderOK(r, e, p) ==
  Submitted(e) =>
    /\ Allowed(r, e, p, e.order.side, e.order.volume)
    /\ e.order.filled <= e.order.volume
    /\ r.mode # "IDEAL" => e.order.filled <= BookDepth(r, p, e.order.side)

\* the figures of an outcome agree with one another and with what was executed
OutcomeOK(r, e, p) ==
  LET o == e.outcome IN
  o # NoOutcome =>
    /\ o.pnl = o.attributed
    /\ o.pnl = o.benchmarks.TRADER_INSTRUCTION
    /\ o.benchmarks.NO_ACTION = 0
    /\ e.order.filled = 0 => o.pnl = 0
    /\ o.position = r.data[p].q + e.decision.exec.buy - e.decision.exec.sell

EpisodeOK(r, e, p) ==
  /\ e \in EpisodeType
  /\ LogOK(e.decision) /\ StageOK(e) /\ MoneyOK(e)
  /\ e.decision.status # "ABSENT" => e.decision.rec = Advice(r, p) /\ OneSided(Advice(r, p))
  /\ \A s \in 0..PeriodCount : AssessmentOK(r, e.assessments[s], p)
  /\ OrderOK(r, e, p)
  /\ OutcomeOK(r, e, p)

RunOK(r) ==
  /\ r.data \in [Periods -> Offers] /\ r.first \in Periods
  /\ r.policy \in Policies /\ r.mode \in Modes

\* What the dataset may hold for a period.
LEMMA OfferOfPeriod ==
  ASSUME NEW r, RunOK(r), NEW p \in Periods
  PROVE  /\ r.data[p] \in OfferType
         /\ r.mode \in {"IDEAL", "REALISTIC", "STRESS"}
         /\ r.policy \in {"NO_ACTION", "MODEL_FOLLOW", "TIMING_POLICY"}
  BY ReplayAssumption DEF RunOK

\* The hedge of a recommendation: its larger side, less the other one.
LEMMA HedgeOfAdvice ==
  ASSUME NEW r, RunOK(r), NEW p \in Periods
  PROVE  LET advice == Advice(r, p) IN
         /\ advice.buy \in Nat /\ advice.sell \in Nat /\ advice.limit \in Nat
         /\ Required(advice) \in Nat
         /\ SideOf(advice) \in {"BUY", "SELL", "NONE"}
         /\ SideOf(advice) = "BUY"  => /\ advice.buy > advice.sell + Tolerance
                                      /\ Required(advice) = advice.buy - advice.sell
         /\ SideOf(advice) = "SELL" => /\ advice.sell > advice.buy + Tolerance
                                      /\ Required(advice) = advice.sell - advice.buy
         /\ SideOf(advice) = "NONE" => Required(advice) = 0
<1>1. r.data[p].buy \in Nat /\ r.data[p].sell \in Nat
  BY OfferOfPeriod DEF OfferType
<1> DEFINE b == r.data[p].buy
           s == r.data[p].sell
<1> HIDE DEF b, s
<1>2. b \in Nat /\ s \in Nat
  BY <1>1 DEF b, s
<1>3. Advice(r, p) = [buy |-> b, sell |-> s, limit |-> NoLimit]
  BY DEF Advice, b, s
<1>4. QED
  BY <1>2, <1>3 DEF SideOf, Required, Magnitude, Tolerance, NoLimit

\* Either side of a book is one.
LEMMA BookOfSide ==
  ASSUME NEW r, RunOK(r), NEW p \in Periods, NEW side
  PROVE  Levels(r.data[p], side) \in OrderBook /\ BookDepth(r, p, side) \in Nat
<1>1. Levels(r.data[p], side) \in OrderBook
  BY OfferOfPeriod DEF OfferType, Levels
<1>2. QED
  BY <1>1, DepthType DEF BookDepth

----------------------------------------------------------------------------
\* Advancing appends one edge of the graph to the log and keeps the stage records.
LEMMA AdvanceOK ==
  ASSUME NEW d \in DecisionType, LogOK(d), d.status # "ABSENT",
         NEW u \in DecisionType, u.status = d.status, u.log = d.log,
         NEW t \in Statuses, t \in AllowedTransitions(d.status)
  PROVE  /\ Advance(u, t) \in DecisionType /\ LogOK(Advance(u, t))
         /\ Advance(u, t).status = t
         /\ Advance(u, t).rec = u.rec /\ Advance(u, t).instr = u.instr
         /\ Advance(u, t).exec = u.exec /\ Advance(u, t).settlement = u.settlement
         /\ Advance(u, t).evaluated = u.evaluated
<1> DEFINE e == Advance(u, t)
           n == Len(d.log)
           new == [seq |-> CurrentSequence(u) + 1, from |-> u.status, to |-> t]
<1>1. d.log \in Seq(LogRecord) /\ d.log # <<>> /\ u.log \in Seq(LogRecord)
  BY DEF LogOK, DecisionType
<1>2. n \in Nat /\ n >= 1 /\ d.log[n].to = d.status
  BY <1>1 DEF LogOK
<1>3. d.log[n] \in LogRecord
  BY <1>1, <1>2, ElementsOf
<1>4. new \in LogRecord /\ new.from = d.status /\ new.to = t
  <2>1. CurrentSequence(u) \in Nat
    BY <1>1, <1>2, <1>3 DEF CurrentSequence, LogRecord
  <2>2. u.status \in Statuses
    BY DEF DecisionType
  <2>3. QED
    BY <2>1, <2>2 DEF LogRecord
<1>5. e = [u EXCEPT !.status = t, !.log = Append(d.log, new)]
  BY DEF Advance
<1> HIDE DEF e, new
<1>6. /\ Append(d.log, new) \in Seq(LogRecord) /\ Len(Append(d.log, new)) = n + 1
      /\ Append(d.log, new)[n + 1] = new
      /\ \A i \in 1..n : Append(d.log, new)[i] = d.log[i]
  <2> HIDE DEF LogRecord
  <2> QED BY <1>1, <1>4
<1>7. /\ e.status = t /\ e.log = Append(d.log, new)
      /\ e.rec = u.rec /\ e.instr = u.instr /\ e.exec = u.exec /\ e.settlement = u.settlement
      /\ e.evaluated = u.evaluated
  BY <1>5 DEF DecisionType
<1>8. e \in DecisionType
  BY <1>5, <1>6 DEF DecisionType
<1>9. LogOK(e)
  <2>1. e.log # <<>> /\ e.status # "ABSENT" /\ e.log[Len(e.log)].to = e.status
    <3>1. e.log # <<>>
      BY <1>2, <1>6, <1>7
    <3>2. t # "ABSENT"
      BY DEF Statuses
    <3>3. QED
      BY <1>4, <1>6, <1>7, <3>1, <3>2
  <2>2. ASSUME NEW i \in 2..Len(e.log)
        PROVE  e.log[i].from = e.log[i - 1].to /\ e.log[i].to \in AllowedTransitions(e.log[i].from)
    <3>1. CASE i = n + 1
      <4>1. e.log[i] = new /\ e.log[i - 1] = d.log[n]
        BY <1>2, <1>6, <1>7, <3>1
      <4>2. QED
        BY <1>2, <1>4, <4>1
    <3>2. CASE i # n + 1
      <4>1. i \in 2..n /\ i \in 1..n /\ i - 1 \in 1..n
        BY <1>2, <1>6, <1>7, <3>2
      <4>2. e.log[i] = d.log[i] /\ e.log[i - 1] = d.log[i - 1]
        BY <1>6, <1>7, <4>1
      <4>3. QED
        BY <4>1, <4>2 DEF LogOK
    <3>3. QED
      BY <3>1, <3>2
  <2>3. QED
    BY <2>1, <2>2 DEF LogOK
<1>10. QED
  BY <1>7, <1>8, <1>9 DEF e

\* f is e with another decision.
Redecided(e, f, d) ==
  /\ f.decision = d /\ f.order = e.order /\ f.assessments = e.assessments
  /\ f.verdict = e.verdict /\ f.outcome = e.outcome

\* the decision with what the trader says of it
Said(e, t, buy, sell) ==
  Move(e, t, [e.decision EXCEPT !.instr = Instruction(ExpectedAction(t), buy, sell, NoLimit, 0)])

\* What the trader says of a decision that was not submitted yet.
LEMMA TraderMoveOK ==
  ASSUME NEW r, NEW e, NEW p, EpisodeOK(r, e, p), NEW buy \in Nat, NEW sell \in Nat,
         NEW t \in {"ACCEPTED", "MODIFIED", "REJECTED"},
         e.decision.status \in {"PROPOSED", "ACCEPTED", "MODIFIED"},
         t \in AllowedTransitions(e.decision.status)
  PROVE  LET f == Said(e, t, buy, sell) IN
         /\ EpisodeOK(r, f, p) /\ Redecided(e, f, f.decision) /\ f.decision.status = t
         /\ f.decision.instr = Instruction(ExpectedAction(t), buy, sell, NoLimit, 0)
<1> DEFINE said == Instruction(ExpectedAction(t), buy, sell, NoLimit, 0)
           u == [e.decision EXCEPT !.instr = said]
           d == Advance(u, t)
           f == [e EXCEPT !.decision = d]
<1>1. e \in EpisodeType /\ e.decision \in DecisionType /\ LogOK(e.decision)
  BY DEF EpisodeOK, EpisodeType
<1>2. said \in [action : TraderActions \cup {"NONE"}, buy : Nat, sell : Nat, limit : Nat,
                until : Nat]
  BY DEF Instruction, ExpectedAction, TraderActions, NoLimit
<1> HIDE DEF said
<1>3. u \in DecisionType
  BY <1>1, <1>2 DEF DecisionType
<1>4. /\ u.status = e.decision.status /\ u.log = e.decision.log /\ u.rec = e.decision.rec
      /\ u.exec = e.decision.exec /\ u.instr = said
  BY <1>1 DEF DecisionType
<1> HIDE DEF u
<1>5. t \in Statuses /\ e.decision.status # "ABSENT"
  BY DEF Statuses
<1>6. /\ d \in DecisionType /\ LogOK(d) /\ d.status = t
      /\ d.rec = e.decision.rec /\ d.instr = said /\ d.exec = e.decision.exec
  BY <1>1, <1>3, <1>4, <1>5, AdvanceOK
<1> HIDE DEF d
<1>7. f \in EpisodeType /\ Redecided(e, f, d)
  BY <1>1, <1>6 DEF EpisodeType, Redecided
<1> HIDE DEF f
<1>8. StageOK(f)
  <2>1. e.order = NoOrder /\ e.decision.exec = NoExecution /\ e.outcome = NoOutcome
    BY DEF EpisodeOK, StageOK, Unsent
  <2>2. StagePayloadOK(d, NoDecision)
    <3>1. said.action = ExpectedAction(t)
      BY DEF said, Instruction
    <3>2. QED
      BY <1>6, <3>1 DEF StagePayloadOK, ExpectedAction
  <2>3. QED
    BY <1>6, <1>7, <2>1, <2>2 DEF StageOK, Redecided, Unsent
<1>9. MoneyOK(f) /\ OrderOK(r, f, p) /\ OutcomeOK(r, f, p)
  <2>1. Submitted(f) <=> Submitted(e)
    BY <1>7 DEF Redecided, Submitted
  <2>2. \A side, volume : Allowed(r, f, p, side, volume) <=> Allowed(r, e, p, side, volume)
    BY <1>7 DEF Redecided, Allowed
  <2>3. QED
    BY <1>6, <1>7, <2>1, <2>2 DEF EpisodeOK, MoneyOK, OrderOK, OutcomeOK, Redecided
<1>10. EpisodeOK(r, f, p)
  BY <1>5, <1>6, <1>7, <1>8, <1>9 DEF EpisodeOK, Redecided
<1>11. f = Said(e, t, buy, sell)
  BY DEF f, d, u, said, Move, Said
<1>12. QED
  BY <1>6, <1>7, <1>10, <1>11 DEF said, Redecided

\* Accepting takes the recommendation as it is.
LEMMA AcceptOK ==
  ASSUME NEW r, RunOK(r), NEW p \in Periods, NEW e, EpisodeOK(r, e, p),
         e.decision.status = "PROPOSED"
  PROVE  /\ EpisodeOK(r, Accept(e), p) /\ Redecided(e, Accept(e), Accept(e).decision)
         /\ Accept(e).decision.status = "ACCEPTED"
         /\ Accept(e).decision.instr.buy = Advice(r, p).buy
         /\ Accept(e).decision.instr.sell = Advice(r, p).sell
<1> DEFINE b == Advice(r, p).buy
           s == Advice(r, p).sell
<1>1. b \in Nat /\ s \in Nat
  BY HedgeOfAdvice
<1>2. e.decision.rec.buy = b /\ e.decision.rec.sell = s
  BY DEF EpisodeOK
<1> HIDE DEF b, s
<1>3. "ACCEPTED" \in AllowedTransitions(e.decision.status) /\ ExpectedAction("ACCEPTED") = "ACCEPT"
  BY DEF AllowedTransitions, ExpectedAction
<1>4. Accept(e) = Said(e, "ACCEPTED", b, s)
  BY <1>2, <1>3 DEF Accept, Said
<1>5. /\ EpisodeOK(r, Accept(e), p) /\ Redecided(e, Accept(e), Accept(e).decision)
      /\ Accept(e).decision.status = "ACCEPTED"
      /\ Accept(e).decision.instr = Instruction(ExpectedAction("ACCEPTED"), b, s, NoLimit, 0)
  BY <1>1, <1>3, <1>4, TraderMoveOK
<1>6. QED
  BY <1>5 DEF Instruction, b, s

\* Modifying takes the given volumes.
LEMMA ModifyOK ==
  ASSUME NEW r, NEW p, NEW e, EpisodeOK(r, e, p), e.decision.status = "PROPOSED",
         NEW b \in Nat, NEW s \in Nat
  PROVE  /\ EpisodeOK(r, Modify(e, b, s), p)
         /\ Redecided(e, Modify(e, b, s), Modify(e, b, s).decision)
         /\ Modify(e, b, s).decision.status = "MODIFIED"
         /\ Modify(e, b, s).decision.instr.buy = b
         /\ Modify(e, b, s).decision.instr.sell = s
<1>1. "MODIFIED" \in AllowedTransitions(e.decision.status) /\ ExpectedAction("MODIFIED") = "MODIFY"
  BY DEF AllowedTransitions, ExpectedAction
<1>2. Modify(e, b, s) = Said(e, "MODIFIED", b, s)
  BY <1>1 DEF Modify, Said
<1>3. /\ EpisodeOK(r, Modify(e, b, s), p)
      /\ Redecided(e, Modify(e, b, s), Modify(e, b, s).decision)
      /\ Modify(e, b, s).decision.status = "MODIFIED"
      /\ Modify(e, b, s).decision.instr = Instruction(ExpectedAction("MODIFIED"), b, s, NoLimit, 0)
  BY <1>1, <1>2, TraderMoveOK
<1>4. QED
  BY <1>3 DEF Instruction

\* Rejecting is for decisions that were not submitted.
LEMMA RejectOK ==
  ASSUME NEW r, NEW p, NEW e, EpisodeOK(r, e, p),
         e.decision.status \in {"PROPOSED", "ACCEPTED", "MODIFIED"}
  PROVE  /\ EpisodeOK(r, Reject(e), p) /\ Redecided(e, Reject(e), Reject(e).decision)
         /\ Reject(e).decision.status = "REJECTED"
<1>1. "REJECTED" \in AllowedTransitions(e.decision.status) /\ ExpectedAction("REJECTED") = "REJECT"
  BY DEF AllowedTransitions, ExpectedAction
<1>2. Reject(e) = Said(e, "REJECTED", 0, 0)
  BY <1>1 DEF Reject, Said
<1>3. QED
  BY <1>1, <1>2, TraderMoveOK

----------------------------------------------------------------------------
\* the side and the volume that an instruction orders
OrderedSide(i)   == IF i.buy > Tolerance THEN "BUY" ELSE "SELL"
OrderedVolume(i) == IF i.buy > Tolerance THEN i.buy ELSE i.sell

\* The record of an order that was just sent.
SentRecord(volume) == [NoExecution EXCEPT !.status = "SUBMITTED", !.requested = volume]

\* It is a record of an execution.
LEMMA ExecutionSent ==
  ASSUME NEW volume \in Nat
  PROVE  SentRecord(volume) \in [status : ExecutionStatuses \cup {"NONE"}, requested : Nat,
                                buy : Nat, sell : Nat, unfilled : Nat]
BY DEF NoExecution, SentRecord, ExecutionStatuses

\* An execution keeps the episode consistent when the advice allows what it orders.
LEMMA ExecutedOK ==
  ASSUME RunOK(run), NEW p \in Periods, NEW t \in Nat, NEW e, EpisodeOK(run, e, p),
         e.decision.status \in {"ACCEPTED", "MODIFIED"},
         Allowed(run, e, p, OrderedSide(e.decision.instr), OrderedVolume(e.decision.instr))
  PROVE  /\ EpisodeOK(run, Executed(e, p, t), p)
         /\ Executed(e, p, t).decision.status \in Sent
         /\ Executed(e, p, t).assessments = e.assessments
<1> DEFINE dec    == e.decision
           side   == OrderedSide(dec.instr)
           volume == OrderedVolume(dec.instr)
           result == Simulate(Levels(run.data[p], side), side, volume, run.mode)
           sent   == [NoExecution EXCEPT !.status = "SUBMITTED", !.requested = volume]
           filled == [sent EXCEPT !.status = result.status, !.unfilled = result.unfilled,
                                  !.buy  = IF side = "BUY" THEN result.filled ELSE 0,
                                  !.sell = IF side = "SELL" THEN result.filled ELSE 0]
           first  == [dec EXCEPT !.exec = sent]
           onBook == Advance(first, "SUBMITTED")
           second == [onBook EXCEPT !.exec = filled]
           done   == Advance(second, result.status)
           order  == [at |-> t, side |-> side, volume |-> volume,
                      filled |-> result.filled, cash |-> result.cash, fees |-> result.fees]
           f      == [e EXCEPT !.decision = done, !.order = order]
<1>1. e \in EpisodeType /\ dec \in DecisionType /\ LogOK(dec) /\ dec.status # "ABSENT"
  BY DEF EpisodeOK, EpisodeType
<1>2. volume \in Nat /\ side \in {"BUY", "SELL"}
  BY <1>1 DEF DecisionType, OrderedVolume, OrderedSide
<1>3. Allowed(run, e, p, side, volume)
  OBVIOUS
<1> HIDE DEF side, volume
<1>4. /\ result.filled \in 0..volume /\ result.unfilled = volume - result.filled
      /\ run.mode # "IDEAL" => result.filled <= BookDepth(run, p, side)
      /\ result.cash \in Int /\ result.fees \in Int
      /\ result.filled = 0 => result.cash = 0 /\ result.fees = 0
      /\ result.status = StatusOf(volume, result.filled)
  BY <1>2, BookOfSide, OfferOfPeriod, SimulateBounds DEF BookDepth
<1> HIDE DEF result
<1>5. /\ result.status \in Sent
      /\ result.status = "FILLED" => result.unfilled <= FillTolerance
      /\ result.status = "PARTIALLY_FILLED" => result.unfilled > FillTolerance
  BY <1>2, <1>4 DEF StatusOf, Tolerance, FillTolerance, Sent
<1> DEFINE Exec == [status : ExecutionStatuses \cup {"NONE"}, requested : Nat,
                    buy : Nat, sell : Nat, unfilled : Nat]
<1>6. sent \in Exec
  <2>1. sent = SentRecord(volume)
    BY DEF SentRecord
  <2> HIDE DEF sent
  <2>2. QED
    BY <1>2, <2>1, ExecutionSent
<1> HIDE DEF sent
<1>7. /\ filled \in Exec /\ filled.status = result.status
      /\ filled.unfilled = result.unfilled
      /\ filled.buy + filled.sell = result.filled
  <2>1. PICK b, s : /\ b = IF side = "BUY" THEN result.filled ELSE 0
                    /\ s = IF side = "SELL" THEN result.filled ELSE 0
    OBVIOUS
  <2>2. filled = [sent EXCEPT !.status = result.status, !.unfilled = result.unfilled,
                              !.buy = b, !.sell = s]
    BY <2>1
  <2>3. /\ b \in Nat /\ s \in Nat /\ b + s = result.filled /\ result.unfilled \in Nat
        /\ result.status \in ExecutionStatuses
    BY <1>2, <1>4, <1>5, <2>1 DEF ExecutionStatuses, Sent
  <2> HIDE DEF filled
  <2>4. filled \in Exec /\ filled.status = result.status /\ filled.unfilled = result.unfilled
    BY <1>6, <2>2, <2>3
  <2>5. filled.buy = b /\ filled.sell = s
    BY <1>6, <2>2, <2>3
  <2>6. QED
    BY <2>3, <2>4, <2>5
<1> HIDE DEF filled
<1>8. /\ first \in DecisionType /\ first.status = dec.status /\ first.log = dec.log
      /\ first.rec = dec.rec /\ first.instr = dec.instr
  BY <1>1, <1>6 DEF DecisionType
<1> HIDE DEF first
<1>9. "SUBMITTED" \in Statuses /\ "SUBMITTED" \in AllowedTransitions(dec.status)
  BY DEF Statuses, AllowedTransitions
<1>10. /\ onBook \in DecisionType /\ LogOK(onBook) /\ onBook.status = "SUBMITTED"
       /\ onBook.rec = dec.rec /\ onBook.instr = dec.instr
  BY <1>1, <1>8, <1>9, AdvanceOK
<1> HIDE DEF onBook
<1>11. /\ second \in DecisionType /\ second.status = onBook.status /\ second.log = onBook.log
       /\ second.rec = dec.rec /\ second.instr = dec.instr /\ second.exec = filled
  BY <1>7, <1>10 DEF DecisionType
<1> HIDE DEF second
<1>12. result.status \in Statuses /\ result.status \in AllowedTransitions(onBook.status)
  BY <1>5, <1>10 DEF Statuses, AllowedTransitions, Sent
<1>13. /\ done \in DecisionType /\ LogOK(done) /\ done.status = result.status
       /\ done.rec = dec.rec /\ done.instr = dec.instr /\ done.exec = filled
  BY <1>10, <1>11, <1>12, AdvanceOK
<1> HIDE DEF done
<1>14. order \in [at : Int, side : {"BUY", "SELL", "NONE"}, volume : Nat, filled : Nat, cash : Int,
                  fees : Int]
  BY <1>2, <1>4
<1>15. order.at # -1 /\ NoOrder.at = -1 /\ NoOrder # order
  BY DEF NoOrder, Never
<1>16. /\ order.side = side /\ order.volume = volume /\ order.filled = result.filled
       /\ order.cash = result.cash /\ order.fees = result.fees
  OBVIOUS
<1> HIDE DEF order
<1>17. /\ f \in EpisodeType /\ f.decision = done /\ f.order = order
       /\ f.assessments = e.assessments /\ f.verdict = e.verdict /\ f.outcome = e.outcome
  BY <1>1, <1>13, <1>14 DEF EpisodeType
<1>18. f = Executed(e, p, t)
  BY DEF f, Executed, done, second, onBook, first, sent, filled, order, result, side, volume,
         OrderedSide, OrderedVolume
<1> HIDE DEF f
<1>19. StageOK(f)
  <2>1. e.outcome = NoOutcome
    BY DEF EpisodeOK, StageOK
  <2>2. StagePayloadOK(done, NoDecision)
    BY <1>5, <1>7, <1>13 DEF StagePayloadOK, Sent
  <2>3. QED
    BY <1>5, <1>13, <1>17, <2>1, <2>2 DEF StageOK, Sent, Unsent
<1>20. MoneyOK(f)
  BY <1>4, <1>7, <1>13, <1>16, <1>17 DEF MoneyOK
<1>21. OrderOK(run, f, p)
  <2>1. Allowed(run, f, p, side, volume)
    BY <1>3, <1>17 DEF Allowed
  <2>2. QED
    BY <1>4, <1>16, <1>17, <2>1 DEF OrderOK
<1>22. OutcomeOK(run, f, p)
  BY <1>17 DEF EpisodeOK, StageOK, OutcomeOK
<1>23. EpisodeOK(run, f, p)
  BY <1>13, <1>17, <1>19, <1>20, <1>21, <1>22 DEF EpisodeOK
<1>24. QED
  BY <1>5, <1>13, <1>17, <1>18, <1>23

\* g is what submitting f at p leaves, when nothing is refused that the advice allows.
SubmittedOK(g, f, p) ==
  /\ EpisodeOK(run, g, p)
  /\ g.decision.status # "PROPOSED"
  /\ g.assessments = f.assessments

\* Submitting keeps the episode consistent: a refused submission changes nothing.
LEMMA SubmitOK ==
  ASSUME RunOK(run), NEW p \in Periods, NEW t \in Nat, NEW f, EpisodeOK(run, f, p),
         f.decision.status \in {"ACCEPTED", "MODIFIED"},
         OrderedVolume(f.decision.instr) > Tolerance =>
           Allowed(run, f, p, OrderedSide(f.decision.instr), OrderedVolume(f.decision.instr))
  PROVE  SubmittedOK(Submit(f, p, t), f, p)
<1>1. CASE Submittable(f, p, t)
  <2>1. OrderedVolume(f.decision.instr) > Tolerance
    BY <1>1 DEF Submittable, OrderedVolume
  <2>2. /\ EpisodeOK(run, Executed(f, p, t), p)
        /\ Executed(f, p, t).decision.status \in Sent
        /\ Executed(f, p, t).assessments = f.assessments
    BY <2>1, ExecutedOK
  <2>3. Submit(f, p, t) = Executed(f, p, t)
    BY <1>1 DEF Submit
  <2>4. QED
    BY <2>2, <2>3 DEF SubmittedOK, Sent
<1>2. CASE ~Submittable(f, p, t)
  BY <1>2 DEF Submit, SubmittedOK
<1>3. QED
  BY <1>1, <1>2

\* the whole recommendation may be ordered, on whichever side it is
WholeAllowed(e, p) ==
  \A side \in {"BUY", "SELL"} :
    Advised(run, p, side) > Tolerance => Allowed(run, e, p, side, Advised(run, p, side))

\* Accepting and submitting keeps the episode consistent when the whole recommendation may be
\* ordered.
LEMMA AcceptAndSubmitOK ==
  ASSUME RunOK(run), NEW p \in Periods, NEW t \in Nat, NEW e, EpisodeOK(run, e, p),
         e.decision.status = "PROPOSED", WholeAllowed(e, p)
  PROVE  /\ SubmittedOK(Submit(Accept(e), p, t), e, p)
         /\ AcceptAndSubmit(e, p, t) = Submit(Accept(e), p, t)
<1> DEFINE f == Accept(e)
           i == f.decision.instr
           side == OrderedSide(i)
<1>1. /\ EpisodeOK(run, f, p) /\ Redecided(e, f, f.decision) /\ f.decision.status = "ACCEPTED"
      /\ i.buy = Advice(run, p).buy /\ i.sell = Advice(run, p).sell
  BY AcceptOK
<1>2. AcceptAndSubmit(e, p, t) = Submit(f, p, t)
  BY DEF AcceptAndSubmit
<1> HIDE DEF f
<1>3. side \in {"BUY", "SELL"} /\ OrderedVolume(i) = Advised(run, p, side)
  BY <1>1 DEF OrderedVolume, OrderedSide, Advised
<1> HIDE DEF side, i
<1>4. OrderedVolume(i) > Tolerance => Allowed(run, f, p, side, OrderedVolume(i))
  BY <1>1, <1>3 DEF WholeAllowed, Allowed, Redecided
<1>5. SubmittedOK(Submit(f, p, t), f, p)
  BY <1>1, <1>4, SubmitOK DEF i, side
<1>6. QED
  BY <1>1, <1>2, <1>5 DEF SubmittedOK, Redecided, f

\* So does hedging a part, when the part was assessed.
LEMMA ModifyAndSubmitOK ==
  ASSUME RunOK(run), NEW p \in Periods, NEW t \in Nat, NEW e, EpisodeOK(run, e, p),
         e.decision.status = "PROPOSED", e.verdict = "PARTIAL_HEDGE_NOW",
         NEW s \in 0..PeriodCount, e.assessments[s].verdict = "PARTIAL_HEDGE_NOW",
         e.assessments[s].volume > Tolerance
  PROVE  SubmittedOK(ModifyAndSubmit(e, p, t, e.assessments[s].volume), e, p)
<1> DEFINE v == e.assessments[s].volume
           advice == Advice(run, p)
           side == SideOf(advice)
           b == IF side = "BUY" THEN v ELSE 0
           c == IF side = "SELL" THEN v ELSE 0
           depth == BookDepth(run, p, side)
<1>1. AssessmentOK(run, e.assessments[s], p) /\ e \in EpisodeType
  BY DEF EpisodeOK
<1>2. /\ v \in Nat /\ v > Tolerance /\ v <= Required(advice) /\ v <= depth
      /\ Required(advice) > Tolerance
  BY <1>1 DEF EpisodeType, AssessmentOK
<1>3. depth \in Nat
  BY BookOfSide
<1>4. /\ advice.buy \in Nat /\ advice.sell \in Nat
      /\ Required(advice) \in Nat
      /\ side \in {"BUY", "SELL", "NONE"}
      /\ side = "BUY"  => /\ advice.buy > advice.sell + Tolerance
                         /\ Required(advice) = advice.buy - advice.sell
      /\ side = "SELL" => /\ advice.sell > advice.buy + Tolerance
                         /\ Required(advice) = advice.sell - advice.buy
      /\ side = "NONE" => Required(advice) = 0
  BY HedgeOfAdvice
<1>5. e.decision.rec = advice /\ ~(advice.buy > Tolerance /\ advice.sell > Tolerance)
  BY DEF EpisodeOK, OneSided
<1>5a. \A z : Advised(run, p, z) = IF z = "BUY" THEN advice.buy ELSE advice.sell
  BY DEF Advised
<1> HIDE DEF advice, depth, v
<1>6. /\ side \in {"BUY", "SELL"} /\ v <= Advised(run, p, side)
      /\ \A z \in {"BUY", "SELL"} : Advised(run, p, z) > Tolerance => z = side
  BY <1>2, <1>4, <1>5, <1>5a DEF Tolerance
<1>7. ModifyAndSubmit(e, p, t, v) =
        IF Magnitude(b - advice.buy) <= Tolerance /\ Magnitude(c - advice.sell) <= Tolerance
        THEN Submit(Accept(e), p, t) ELSE Submit(Modify(e, b, c), p, t)
  BY <1>5 DEF ModifyAndSubmit
<1>8. ASSUME NEW volume \in Nat, volume <= Advised(run, p, side), volume - v \in 0..Tolerance
      PROVE  Allowed(run, e, p, side, volume)
  <2>1. volume <= depth + Tolerance
    BY <1>2, <1>3, <1>8 DEF Tolerance
  <2>2. e.assessments[s].verdict = e.verdict /\ volume - e.assessments[s].volume \in 0..Tolerance
    BY <1>8 DEF v
  <2>3. QED
    BY <1>8, <2>1, <2>2 DEF Allowed, advice, depth
<1>9. CASE Magnitude(b - advice.buy) <= Tolerance /\ Magnitude(c - advice.sell) <= Tolerance
  <2>1. Advised(run, p, side) \in Nat /\ Advised(run, p, side) - v \in 0..Tolerance
    BY <1>2, <1>4, <1>5a, <1>6, <1>9 DEF Magnitude, Tolerance
  <2>2. Allowed(run, e, p, side, Advised(run, p, side))
    BY <1>8, <2>1
  <2>3. WholeAllowed(e, p)
    BY <1>6, <2>2 DEF WholeAllowed
  <2>4. SubmittedOK(Submit(Accept(e), p, t), e, p)
    BY <2>3, AcceptAndSubmitOK
  <2>5. QED
    BY <1>7, <1>9, <2>4 DEF v
<1>10. CASE ~(Magnitude(b - advice.buy) <= Tolerance /\ Magnitude(c - advice.sell) <= Tolerance)
  <2> DEFINE f == Modify(e, b, c)
             i == f.decision.instr
  <2>1. b \in Nat /\ c \in Nat
    BY <1>2
  <2>2. /\ EpisodeOK(run, f, p) /\ Redecided(e, f, f.decision) /\ f.decision.status = "MODIFIED"
        /\ i.buy = b /\ i.sell = c
    BY <2>1, ModifyOK
  <2>3. ModifyAndSubmit(e, p, t, v) = Submit(f, p, t)
    BY <1>7, <1>10
  <2> HIDE DEF f
  <2>4. OrderedVolume(i) = v /\ OrderedSide(i) = side
    BY <1>2, <1>6, <2>2 DEF OrderedVolume, OrderedSide, Tolerance
  <2>5. Allowed(run, e, p, side, v)
    BY <1>2, <1>6, <1>8 DEF Tolerance
  <2>6. Allowed(run, f, p, side, v)
    BY <2>2, <2>5 DEF Allowed, Redecided
  <2> HIDE DEF i, side
  <2>7. SubmittedOK(Submit(f, p, t), f, p)
    BY <2>2, <2>4, <2>6, SubmitOK DEF i
  <2>8. QED
    BY <2>2, <2>3, <2>7 DEF SubmittedOK, Redecided, v
<1>11. QED
  BY <1>9, <1>10

----------------------------------------------------------------------------
\* A verdict to hedge is of a volume beyond the tolerance.
LEMMA VerdictToHedge ==
  ASSUME NEW trusted, NEW exposure, NEW required \in Nat, NEW market, NEW untilGate
  PROVE  LET v == Verdict(trusted, exposure, required, market, untilGate) IN
         /\ v \in Verdicts
         /\ v \in {"HEDGE_NOW", "PARTIAL_HEDGE_NOW"} => required > Tolerance
<1>1. CASE required <= Tolerance
  BY <1>1 DEF Verdict, Verdicts
<1>2. CASE ~(required <= Tolerance)
  BY <1>2 DEF Verdict, Verdicts, Tolerance
<1>3. QED
  BY <1>1, <1>2

\* What the timing service makes of a decision of the recommendation.
LEMMA CandidateOK ==
  ASSUME RunOK(run), NEW p \in Periods, NEW t, NEW e, e.decision.rec = Advice(run, p)
  PROVE  LET a == Candidate(e, p, t) IN
         /\ a \in [verdict : Verdicts, volume : Nat]
         /\ AssessmentOK(run, a, p)
<1> DEFINE offer   == run.data[p]
           advice  == Advice(run, p)
           market  == MarketView(offer, advice)
           verdict == Verdict(offer.trusted, offer.exposure, Required(advice), market, Gate(p) - t)
           depth   == BookDepth(run, p, SideOf(advice))
           volume  == NowVolume(verdict, Required(advice), market)
<1>1. Candidate(e, p, t) = [verdict |-> verdict, volume |-> volume]
  BY DEF Candidate
<1>2. Required(advice) \in Nat /\ (SideOf(advice) = "NONE" => Required(advice) = 0)
  BY HedgeOfAdvice
<1>3. depth \in Nat
  BY BookOfSide
<1>4. market.executable = IF SideOf(advice) = "NONE" THEN 0
                          ELSE Executable(Levels(offer, SideOf(advice)), Required(advice))
  BY DEF MarketView
<1>5. Executable(Levels(offer, SideOf(advice)), Required(advice)) = Least(Required(advice), depth)
  BY DEF Executable, BookDepth
<1> HIDE DEF advice, market, depth
<1>6. /\ market.executable \in Nat /\ market.executable <= Required(advice)
      /\ market.executable <= depth
  BY <1>2, <1>3, <1>4, <1>5 DEF Least
<1>7. /\ verdict \in Verdicts
      /\ verdict \in {"HEDGE_NOW", "PARTIAL_HEDGE_NOW"} => Required(advice) > Tolerance
  BY <1>2, VerdictToHedge
<1> HIDE DEF verdict
<1>8. /\ volume \in Nat
      /\ verdict = "HEDGE_NOW" => volume = Required(advice)
      /\ verdict = "PARTIAL_HEDGE_NOW" => volume = market.executable
  BY <1>2, <1>6, <1>7 DEF NowVolume, Least, Verdicts
<1> HIDE DEF volume
<1>9. AssessmentOK(run, [verdict |-> verdict, volume |-> volume], p)
  BY <1>6, <1>7, <1>8 DEF AssessmentOK, advice, depth
<1>10. QED
  BY <1>1, <1>7, <1>8, <1>9

\* There is a snapshot for every instant.
LEMMA SnapshotType ==
  ASSUME NEW t
  PROVE  Snapshot(t) \in 0..PeriodCount
<1>1. CASE Active(t) = {}
  BY <1>1, ReplayAssumption DEF Snapshot
<1>2. CASE Active(t) # {}
  <2>1. Active(t) \subseteq Periods /\ Active(t) \in SUBSET Nat
    BY ReplayAssumption DEF Active, Periods
  <2>2. Min(Active(t)) \in Periods
    BY <1>2, <2>1, MinIsMember
  <2>3. QED
    BY <1>2, <2>2, ReplayAssumption DEF Snapshot, Periods
<1>3. QED
  BY <1>1, <1>2

\* the episode with the assessment a under the snapshot s
Known(e, s, a) == [e EXCEPT !.assessments[s] = a, !.verdict = a.verdict]

\* Storing a consistent assessment keeps a waiting episode consistent.
LEMMA KnownOK ==
  ASSUME RunOK(run), NEW p \in Periods, NEW e, EpisodeOK(run, e, p),
         e.decision.status = "PROPOSED", NEW s \in 0..PeriodCount,
         NEW a \in [verdict : Verdicts \cup {"NONE"}, volume : Nat], AssessmentOK(run, a, p)
  PROVE  /\ EpisodeOK(run, Known(e, s, a), p)
         /\ Known(e, s, a).decision = e.decision
         /\ Known(e, s, a).assessments[s] = a
         /\ Known(e, s, a).verdict = a.verdict
<1> DEFINE g == Known(e, s, a)
<1>1. e \in EpisodeType /\ ~Submitted(e)
  BY DEF EpisodeOK, StageOK, Submitted, Unsent
<1>2. PICK as : as = [e.assessments EXCEPT ![s] = a]
  OBVIOUS
<1>3. g = [e EXCEPT !.assessments = as, !.verdict = a.verdict]
  BY <1>2 DEF Known
<1> DEFINE Assessments == [0..PeriodCount -> [verdict : Verdicts \cup {"NONE"}, volume : Nat]]
<1>4. as \in Assessments /\ as[s] = a /\ \A z \in 0..PeriodCount : z # s => as[z] = e.assessments[z]
  <2>1. e.assessments \in Assessments
    BY <1>1 DEF EpisodeType
  <2>2. QED
    BY <1>2, <2>1
<1>5. a.verdict \in Verdicts \cup {"NONE"}
  OBVIOUS
<1> HIDE DEF g
<1>6. /\ g \in EpisodeType /\ g.assessments = as /\ g.verdict = a.verdict
      /\ g.decision = e.decision /\ g.order = e.order /\ g.outcome = e.outcome
  BY <1>1, <1>3, <1>4, <1>5 DEF EpisodeType
<1>7. \A z \in 0..PeriodCount : AssessmentOK(run, g.assessments[z], p)
  BY <1>4, <1>6 DEF EpisodeOK
<1>8. StageOK(g) /\ MoneyOK(g) /\ OutcomeOK(run, g, p)
  BY <1>6 DEF EpisodeOK, StageOK, MoneyOK, OutcomeOK
<1>9. OrderOK(run, g, p)
  BY <1>1, <1>6 DEF OrderOK, Submitted
<1>10. EpisodeOK(run, g, p)
  BY <1>6, <1>7, <1>8, <1>9 DEF EpisodeOK
<1>11. QED
  BY <1>4, <1>6, <1>10 DEF g

\* g is consistent, and when it still waits it was assessed at t.
WaitsAssessed(g, p, t) ==
  /\ EpisodeOK(run, g, p)
  /\ g.decision.status = "PROPOSED" => g.assessments[Snapshot(t)] # NoAssessment

\* Acting on the timing verdict keeps the episode consistent: what is sent is what was assessed.
LEMMA TimingActionOK ==
  ASSUME RunOK(run), NEW p \in Periods, NEW t \in Nat, NEW e, EpisodeOK(run, e, p),
         e.decision.status = "PROPOSED"
  PROVE  WaitsAssessed(TimingAction(e, p, t), p, t)
<1> DEFINE s == Snapshot(t)
           a == Assessed(e, p, t)
           k == Known(e, s, a)
<1>1. s \in 0..PeriodCount
  BY SnapshotType
<1>2. /\ a \in [verdict : Verdicts \cup {"NONE"}, volume : Nat] /\ a # NoAssessment
      /\ AssessmentOK(run, a, p)
  <2>1. CASE e.assessments[s] # NoAssessment
    <3>1. a = e.assessments[s]
      BY <2>1 DEF Assessed
    <3>2. e.assessments \in [0..PeriodCount -> [verdict : Verdicts \cup {"NONE"}, volume : Nat]]
      BY DEF EpisodeOK, EpisodeType
    <3> HIDE DEF a, s
    <3>3. QED
      BY <1>1, <2>1, <3>1, <3>2 DEF EpisodeOK
  <2>2. CASE e.assessments[s] = NoAssessment
    <3>1. a = Candidate(e, p, t)
      BY <2>2 DEF Assessed
    <3>2. e.decision.rec = Advice(run, p)
      BY DEF EpisodeOK
    <3> HIDE DEF a
    <3>3. a \in [verdict : Verdicts, volume : Nat] /\ AssessmentOK(run, a, p)
      BY <3>1, <3>2, CandidateOK
    <3>4. QED
      BY <3>3 DEF NoAssessment, Verdicts
  <2>3. QED
    BY <2>1, <2>2
<1>3. TimingAction(e, p, t) =
        CASE a.verdict = "HEDGE_NOW" -> AcceptAndSubmit(k, p, t)
          [] a.verdict = "PARTIAL_HEDGE_NOW" ->
               IF a.volume > Tolerance THEN ModifyAndSubmit(k, p, t, a.volume) ELSE k
          [] a.verdict = "WAIT" -> k
          [] OTHER -> Reject(k)
  BY DEF TimingAction, Known
<1> HIDE DEF a, k, s
<1>4. /\ EpisodeOK(run, k, p) /\ k.decision = e.decision /\ k.assessments[s] = a
      /\ k.verdict = a.verdict
  BY <1>1, <1>2, KnownOK DEF k
<1>5. WaitsAssessed(k, p, t)
  BY <1>2, <1>4 DEF WaitsAssessed, s
<1>6. CASE a.verdict = "HEDGE_NOW"
  <2>1. a.volume = Required(Advice(run, p)) /\ Required(Advice(run, p)) > Tolerance
    BY <1>2, <1>6 DEF AssessmentOK
  <2>2. WholeAllowed(k, p)
    <3>1. SUFFICES ASSUME NEW side \in {"BUY", "SELL"}, Advised(run, p, side) > Tolerance
                   PROVE  Allowed(run, k, p, side, Advised(run, p, side))
      BY DEF WholeAllowed
    <3> DEFINE advice == Advice(run, p)
               whole  == Advised(run, p, side)
    <3>2. ~(advice.buy > Tolerance /\ advice.sell > Tolerance)
      BY <1>4 DEF EpisodeOK, OneSided
    <3>3. whole = IF side = "BUY" THEN advice.buy ELSE advice.sell
      BY DEF Advised
    <3>4. /\ advice.buy \in Nat /\ advice.sell \in Nat
          /\ SideOf(advice) \in {"BUY", "SELL", "NONE"}
          /\ SideOf(advice) = "BUY"  => /\ advice.buy > advice.sell + Tolerance
                                       /\ Required(advice) = advice.buy - advice.sell
          /\ SideOf(advice) = "SELL" => /\ advice.sell > advice.buy + Tolerance
                                       /\ Required(advice) = advice.sell - advice.buy
          /\ SideOf(advice) = "NONE" => Required(advice) = 0
      BY HedgeOfAdvice
    <3> HIDE DEF advice, whole
    <3>5. a.volume = Required(advice) /\ Required(advice) > Tolerance
      BY <2>1 DEF advice
    <3>6. whole \in Nat /\ whole - a.volume \in 0..Tolerance
      BY <3>1, <3>2, <3>3, <3>4, <3>5 DEF Tolerance, whole
    <3>7. QED
      BY <1>1, <1>4, <1>6, <3>6 DEF Allowed, whole
  <2>3. SubmittedOK(AcceptAndSubmit(k, p, t), k, p)
    BY <1>4, <2>2, AcceptAndSubmitOK
  <2>4. QED
    BY <1>3, <1>6, <2>3 DEF SubmittedOK, WaitsAssessed
<1>7. CASE a.verdict = "PARTIAL_HEDGE_NOW" /\ a.volume > Tolerance
  <2>1. SubmittedOK(ModifyAndSubmit(k, p, t, k.assessments[s].volume), k, p)
    BY <1>1, <1>4, <1>7, ModifyAndSubmitOK
  <2>2. QED
    BY <1>3, <1>4, <1>7, <2>1 DEF SubmittedOK, WaitsAssessed
<1>8. CASE a.verdict = "WAIT" \/ (a.verdict = "PARTIAL_HEDGE_NOW" /\ ~(a.volume > Tolerance))
  BY <1>3, <1>5, <1>8
<1>9. CASE a.verdict \notin {"HEDGE_NOW", "PARTIAL_HEDGE_NOW", "WAIT"}
  BY <1>3, <1>4, <1>9, RejectOK DEF WaitsAssessed
<1>10. QED
  BY <1>6, <1>7, <1>8, <1>9

\* The identifier that names no decision.
LEMMA NoDecisionOK ==
  /\ NoDecision \in DecisionType /\ NoDecision.status = "ABSENT" /\ NoDecision.log = <<>>
  /\ NoDecision.exec = NoExecution
<1>1. /\ NoExecution \in [status : ExecutionStatuses \cup {"NONE"}, requested : Nat, buy : Nat,
                          sell : Nat, unfilled : Nat]
      /\ NoInstruction \in [action : TraderActions \cup {"NONE"}, buy : Nat, sell : Nat,
                            limit : Nat, until : Nat]
      /\ NoSettlement \in [delivered : BOOLEAN, position : Int, settled : BOOLEAN, pnl : Int]
  BY DEF NoExecution, NoInstruction, NoSettlement, NoLimit
<1>2. <<>> \in Seq(LogRecord) /\ NoGate \in Int /\ NoLimit \in Nat
  BY DEF NoGate, NoLimit
<1>3. QED
  BY <1>1, <1>2 DEF NoDecision, DecisionType

\* A decision that the orchestrator creates: it is proposed, and its log says so.
LEMMA ProposedOK ==
  ASSUME NEW gate \in Int, NEW rec \in [buy : Nat, sell : Nat, limit : Nat]
  PROVE  LET d == Proposed(gate, rec, NoBatch) IN
         /\ d \in DecisionType /\ LogOK(d)
         /\ d.status = "PROPOSED" /\ d.rec = rec /\ d.exec = NoExecution
<1> DEFINE first == [seq |-> 1, from |-> "NONE", to |-> "PROPOSED"]
           d == Proposed(gate, rec, NoBatch)
<1>1. first \in LogRecord /\ first.to = "PROPOSED"
  BY DEF LogRecord, Statuses
<1>2. PICK log : log = <<first>>
  OBVIOUS
<1> HIDE DEF first
<1>3. log \in Seq(LogRecord) /\ Len(log) = 1 /\ log[1].to = "PROPOSED" /\ log # <<>>
  BY <1>1, <1>2
<1>4. PICK n : n = NoDecision
  OBVIOUS
<1>5. d = [n EXCEPT !.status = "PROPOSED", !.gate = gate, !.rec = rec, !.batch = NoBatch,
                    !.log = log]
  BY <1>2, <1>4 DEF Proposed, first
<1>6. n \in DecisionType /\ n.exec = NoExecution
  BY <1>4, NoDecisionOK
<1> HIDE DEF d
<1>7. /\ d \in DecisionType /\ d.status = "PROPOSED" /\ d.rec = rec /\ d.exec = NoExecution
      /\ d.log = log
  BY <1>3, <1>5, <1>6 DEF DecisionType, Statuses
<1>8. LogOK(d)
  <2>1. d.log[Len(d.log)].to = d.status /\ d.log # <<>> /\ d.status # "ABSENT"
    BY <1>3, <1>7
  <2>2. \A i \in 2..Len(d.log) : FALSE
    <3>1. Len(d.log) = 1
      BY <1>3, <1>7
    <3>2. \A i \in 2..1 : FALSE
      OBVIOUS
    <3>3. QED
      BY <3>1, <3>2
  <2>3. QED
    BY <2>1, <2>2 DEF LogOK
<1>9. QED
  BY <1>7, <1>8 DEF d

\* An episode before anything happened, given the types of its parts.
LEMMA NewEpisodeType ==
  ASSUME NoDecision \in DecisionType,
         NoOrder \in [at : Int, side : {"BUY", "SELL", "NONE"}, volume : Nat, filled : Nat,
                     cash : Int, fees : Int],
         NoOutcome \in [at : Int, position : Int, pnl : Int, attributed : Int,
                       benchmarks : [NO_ACTION : Int, MODEL_RECOMMENDATION : Int,
                                     TRADER_INSTRUCTION : Int, PERFECT_FORESIGHT : Int]],
         NEW a \in [0..PeriodCount -> [verdict : Verdicts \cup {"NONE"}, volume : Nat]],
         NEW e, e = [decision |-> NoDecision, order |-> NoOrder, assessments |-> a,
                     verdict |-> "NONE", outcome |-> NoOutcome, skipped |-> FALSE]
  PROVE  e \in EpisodeType
BY DEF EpisodeType

\* An episode before anything happened.
LEMMA NewEpisodeOK ==
  ASSUME NEW e, e = NewEpisode
  PROVE  /\ e \in EpisodeType /\ e.order = NoOrder /\ e.outcome = NoOutcome
         /\ \A s \in 0..PeriodCount : e.assessments[s] = NoAssessment
<1>1. NoOrder \in [at : Int, side : {"BUY", "SELL", "NONE"}, volume : Nat, filled : Nat, cash : Int,
                   fees : Int]
  BY DEF NoOrder, Never
<1>2. NoOutcome \in [at : Int, position : Int, pnl : Int, attributed : Int,
                     benchmarks : [NO_ACTION : Int, MODEL_RECOMMENDATION : Int,
                                   TRADER_INSTRUCTION : Int, PERFECT_FORESIGHT : Int]]
  BY DEF NoOutcome, Never
<1>3. NoAssessment \in [verdict : Verdicts \cup {"NONE"}, volume : Nat]
  BY DEF NoAssessment
<1>4. PICK as : as = [s \in 0..PeriodCount |-> NoAssessment]
  OBVIOUS
<1>5. as \in [0..PeriodCount -> [verdict : Verdicts \cup {"NONE"}, volume : Nat]]
  BY <1>3, <1>4
<1>6. e = [decision |-> NoDecision, order |-> NoOrder, assessments |-> as, verdict |-> "NONE",
           outcome |-> NoOutcome, skipped |-> FALSE]
  BY <1>4 DEF NewEpisode
<1>7. NoDecision \in DecisionType
  BY NoDecisionOK
<1>8. e \in EpisodeType
  BY <1>1, <1>2, <1>5, <1>6, <1>7, NewEpisodeType
<1>9. QED
  BY <1>4, <1>6, <1>8

\* An episode in which at most a decision was created.
LEMMA CreatedOK ==
  ASSUME NEW p \in Periods, NEW f \in EpisodeType, LogOK(f.decision),
         \/ f.decision.status = "ABSENT"
         \/ /\ f.decision.status = "PROPOSED"
            /\ f.decision.rec = Advice(run, p) /\ OneSided(Advice(run, p)),
         f.decision.exec = NoExecution, f.order = NoOrder, f.outcome = NoOutcome,
         \A s \in 0..PeriodCount : f.assessments[s] = NoAssessment
  PROVE  EpisodeOK(run, f, p)
<1>1. StageOK(f)
  BY DEF StageOK, Unsent, StagePayloadOK, NoDecision
<1>2. MoneyOK(f)
  <2>1. NoOrder.filled = 0 /\ NoOrder.cash = 0 /\ NoOrder.fees = 0
    BY DEF NoOrder
  <2>2. NoExecution.buy = 0 /\ NoExecution.sell = 0
    BY DEF NoExecution
  <2>3. QED
    BY <2>1, <2>2 DEF MoneyOK
<1>3. \A s \in 0..PeriodCount : AssessmentOK(run, f.assessments[s], p)
  BY DEF AssessmentOK, NoAssessment
<1>4. OrderOK(run, f, p) /\ OutcomeOK(run, f, p)
  BY DEF OrderOK, OutcomeOK, Submitted
<1>5. QED
  BY <1>1, <1>2, <1>3, <1>4 DEF EpisodeOK

\* what a pass of the trader leaves of an episode
ActedOK(g, p, t) ==
  /\ EpisodeOK(run, g, p)
  /\ run.policy = "TIMING_POLICY" /\ p \in Window /\ t < Gate(p) => WaitsAssessed(g, p, t)

\* The first pass creates the decisions and lets the policy act on them.
LEMMA CreateAndActOK ==
  ASSUME RunOK(run), NEW p \in Periods, NEW t \in Nat, NEW e, e = NewEpisode
  PROVE  ActedOK(CreateAndAct(e, p, t), p, t)
<1> DEFINE rec     == [buy |-> run.data[p].buy, sell |-> run.data[p].sell, limit |-> NoLimit]
           d       == Proposed(Gate(p), rec, NoBatch)
           created == [e EXCEPT !.decision = d]
           skipped == [e EXCEPT !.skipped = p \in Window]
<1>1. /\ e \in EpisodeType /\ e.order = NoOrder /\ e.outcome = NoOutcome
      /\ \A s \in 0..PeriodCount : e.assessments[s] = NoAssessment
  BY NewEpisodeOK
<1>2. e.decision = NoDecision /\ e.verdict = "NONE"
  BY DEF NewEpisode
<1>3. Gate(p) \in Int
  BY ReplayAssumption DEF Periods, Gate, Start
<1>4. rec \in [buy : Nat, sell : Nat, limit : Nat] /\ rec = Advice(run, p)
  BY OfferOfPeriod DEF OfferType, Advice, NoLimit
<1>5. CreateAndAct(e, p, t) = IF run.data[p].material /\ OneSided(rec)
                             THEN IF p \in Window THEN ApplyPolicy(created, p, t) ELSE created
                             ELSE skipped
  BY DEF CreateAndAct, OneSided
<1> HIDE DEF rec
<1>6. /\ d \in DecisionType /\ LogOK(d) /\ d.status = "PROPOSED" /\ d.rec = rec
      /\ d.exec = NoExecution
  BY <1>3, <1>4, ProposedOK
<1> HIDE DEF d
<1>7. /\ created \in EpisodeType /\ created.decision = d /\ created.order = NoOrder
      /\ created.outcome = NoOutcome /\ created.assessments = e.assessments
      /\ created.verdict = "NONE"
  BY <1>1, <1>2, <1>6 DEF EpisodeType
<1> HIDE DEF created
<1>8. OneSided(rec) => EpisodeOK(run, created, p)
  BY <1>1, <1>4, <1>6, <1>7, CreatedOK
<1>9. skipped \in EpisodeType /\ skipped.decision = NoDecision /\ skipped.order = NoOrder
      /\ skipped.outcome = NoOutcome /\ skipped.assessments = e.assessments
  <2>1. PICK z \in BOOLEAN : z <=> p \in Window
    <3>1. (p \in Window) \in BOOLEAN
      OBVIOUS
    <3>2. QED
      BY <3>1
  <2>2. skipped = [e EXCEPT !.skipped = z]
    BY <2>1
  <2> HIDE DEF skipped
  <2>3. QED
    BY <1>1, <1>2, <2>2 DEF EpisodeType
<1> HIDE DEF skipped
<1>10. EpisodeOK(run, skipped, p)
  <2>1. LogOK(NoDecision)
    BY NoDecisionOK DEF LogOK
  <2>2. QED
    BY <1>1, <1>9, <2>1, NoDecisionOK, CreatedOK
<1>11. ActedOK(skipped, p, t)
  BY <1>9, <1>10, NoDecisionOK DEF ActedOK, WaitsAssessed
<1>12. CASE run.data[p].material /\ OneSided(rec) /\ p \in Window /\ run.policy = "NO_ACTION"
  <2>1. EpisodeOK(run, Reject(created), p) /\ run.policy # "TIMING_POLICY"
    BY <1>6, <1>7, <1>8, <1>12, RejectOK
  <2>2. QED
    BY <1>5, <1>12, <2>1 DEF ActedOK, ApplyPolicy
<1>13. CASE run.data[p].material /\ OneSided(rec) /\ p \in Window /\ run.policy = "MODEL_FOLLOW"
  <2>1. WholeAllowed(created, p)
    <3>1. Advice(run, p).buy \in Nat /\ Advice(run, p).sell \in Nat
      BY HedgeOfAdvice
    <3>2. QED
      BY <1>7, <1>13, <3>1 DEF WholeAllowed, Allowed, Advised
  <2>2. EpisodeOK(run, AcceptAndSubmit(created, p, t), p)
    BY <1>6, <1>7, <1>8, <1>13, <2>1, AcceptAndSubmitOK DEF SubmittedOK
  <2>3. QED
    BY <1>5, <1>8, <1>13, <2>2 DEF ActedOK, ApplyPolicy
<1>14. CASE run.data[p].material /\ OneSided(rec) /\ p \in Window /\ run.policy = "TIMING_POLICY"
  <2>1. WaitsAssessed(TimingAction(created, p, t), p, t)
    BY <1>6, <1>7, <1>8, <1>14, TimingActionOK
  <2>2. ApplyPolicy(created, p, t) = TimingAction(created, p, t)
    BY <1>14 DEF ApplyPolicy
  <2>3. QED
    BY <1>5, <1>14, <2>1, <2>2 DEF ActedOK, WaitsAssessed
<1>15. CASE run.data[p].material /\ OneSided(rec) /\ p \notin Window
  BY <1>5, <1>8, <1>15 DEF ActedOK
<1>16. run.policy \in {"NO_ACTION", "MODEL_FOLLOW", "TIMING_POLICY"}
  BY OfferOfPeriod
<1>17. QED
  BY <1>5, <1>11, <1>12, <1>13, <1>14, <1>15, <1>16

\* The later passes look again at what waits.
LEMMA ReassessOK ==
  ASSUME RunOK(run), NEW p \in Periods, NEW t \in Nat, NEW e, EpisodeOK(run, e, p)
  PROVE  ActedOK(Reassess(e, p, t), p, t)
<1>1. CASE e.decision.status = "PROPOSED" /\ Reassess(e, p, t) = TimingAction(e, p, t)
  BY <1>1, TimingActionOK DEF ActedOK, WaitsAssessed
<1>2. CASE /\ Reassess(e, p, t) = e
           /\ e.decision.status = "PROPOSED" =>
                ~(run.policy = "TIMING_POLICY" /\ p \in Window /\ t < Gate(p))
  BY <1>2 DEF ActedOK, WaitsAssessed
<1>3. e.decision.status = "PROPOSED" => Has(e) /\ ~Submitted(e)
  BY DEF Has, EpisodeOK, StageOK, Submitted, Unsent
<1>4. QED
  BY <1>1, <1>2, <1>3 DEF Reassess

\* After its gate no decision of the window waits to be sent; the gate changes nothing else.
LEMMA EnforceGateOK ==
  ASSUME RunOK(run), NEW p \in Periods, NEW t \in Nat, NEW e, EpisodeOK(run, e, p)
  PROVE  LET g == EnforceGate(e, p, t) IN
         /\ EpisodeOK(run, g, p)
         /\ g.assessments = e.assessments
         /\ g.decision.status = "PROPOSED" => e.decision.status = "PROPOSED"
         /\ p \in Window /\ t >= Gate(p) =>
              g.decision.status \in {"ABSENT", "EVALUATED"} \cup Deliverable
<1>1. /\ e.decision.status \in Unsent \cup Sent \cup {"EVALUATED"}
      /\ e.decision.status \in Unsent => ~Submitted(e)
  BY DEF EpisodeOK, StageOK, Submitted
<1>2. CASE /\ p \in Window /\ t >= Gate(p)
           /\ e.decision.status \in {"PROPOSED", "ACCEPTED", "MODIFIED"}
  <2>1. EnforceGate(e, p, t) = Reject(e)
    BY <1>1, <1>2 DEF EnforceGate, Unsent
  <2>2. /\ EpisodeOK(run, Reject(e), p) /\ Reject(e).assessments = e.assessments
        /\ Reject(e).decision.status = "REJECTED"
    BY <1>2, RejectOK DEF Redecided
  <2>3. QED
    BY <2>1, <2>2 DEF Deliverable
<1>3. CASE ~(/\ p \in Window /\ t >= Gate(p)
             /\ e.decision.status \in {"PROPOSED", "ACCEPTED", "MODIFIED"})
  <2>1. EnforceGate(e, p, t) = e
    BY <1>3 DEF EnforceGate
  <2>2. p \in Window /\ t >= Gate(p) =>
          e.decision.status \in {"ABSENT", "EVALUATED"} \cup Deliverable
    BY <1>1, <1>3 DEF Unsent, Sent, Deliverable
  <2>3. QED
    BY <2>1, <2>2
<1>4. QED
  BY <1>2, <1>3

----------------------------------------------------------------------------
\* What a hedge earns is a number, and no hedge earns nothing.
LEMMA MoneyType ==
  ASSUME NEW in \in InputsType
  PROVE  /\ \A buy, sell, cash, fees \in Int : Incremental(in, buy, sell, cash, fees) \in Int
         /\ Incremental(in, 0, 0, 0, 0) = 0
<1>1. NoActionCash(in) \in Int
  BY PriceType DEF NoActionCash, ImbalanceCash, Imbalance, InputsType
<1>2. ASSUME NEW buy \in Int, NEW sell \in Int, NEW cash \in Int, NEW fees \in Int
      PROVE  Incremental(in, buy, sell, cash, fees) \in Int
  <2>1. Imbalance(in, buy, sell) \in Int
    BY DEF Imbalance, InputsType
  <2>2. ImbalancePrice(in, Imbalance(in, buy, sell)) \in Int
    BY <2>1, PriceType
  <2>3. ImbalanceCash(in, Imbalance(in, buy, sell)) \in Int
    BY <2>1, <2>2 DEF ImbalanceCash
  <2>4. QED
    BY <1>1, <2>3 DEF Incremental, TotalCash
<1>3. Incremental(in, 0, 0, 0, 0) = (0 + NoActionCash(in) - 0) - NoActionCash(in)
  BY DEF Incremental, TotalCash, NoActionCash
<1>4. QED
  BY <1>1, <1>2, <1>3

\* The benchmarks are numbers; doing nothing is the one that the others are compared with.
LEMMA BenchmarksOK ==
  ASSUME NEW in \in InputsType, NEW buy \in Nat, NEW sell \in Nat
  PROVE  LET b == Benchmarks(in, buy, sell, FeeRate) IN
         /\ b \in [NO_ACTION : Int, MODEL_RECOMMENDATION : Int, TRADER_INSTRUCTION : Int,
                   PERFECT_FORESIGHT : Int]
         /\ b.NO_ACTION = 0 /\ b.TRADER_INSTRUCTION = Settled(in)
<1>1. \A x, y \in Int : AtReference(in, x, y, FeeRate) \in Int
  <2>1. \A x, y \in Int : (y - x) * in.ref \in Int /\ FeeRate * (x + y) \in Int
    BY DEF InputsType, FeeRate
  <2>2. QED
    BY <2>1, MoneyType DEF AtReference
<1>2. Foresight(in, FeeRate) \in Int
  <2>1. in.gen - in.q \in Int /\ -(in.gen - in.q) \in Int
    BY DEF InputsType
  <2>2. QED
    BY <1>1, <2>1 DEF Foresight
<1>3. Settled(in) \in Int
  BY MoneyType DEF Settled, InputsType
<1>4. Settled(in) = Incremental(in, in.buy, in.sell, in.cash, in.fees)
  BY DEF Settled
<1>5. AtReference(in, buy, sell, FeeRate) \in Int
  BY <1>1
<1>6. QED
  BY <1>2, <1>3, <1>4, <1>5, MoneyType DEF Benchmarks

\* What is delivered and settled is booked with what the order executed.
LEMMA InputsOK ==
  ASSUME RunOK(run), NEW p \in Periods, NEW e, EpisodeOK(run, e, p)
  PROVE  LET in == Inputs(e, p) IN
         /\ in \in InputsType
         /\ e.order.filled = 0 => Settled(in) = 0
         /\ in.q = run.data[p].q
         /\ in.buy = e.decision.exec.buy /\ in.sell = e.decision.exec.sell
<1> DEFINE in == Inputs(e, p)
<1>1. run.data[p] \in OfferType
  BY OfferOfPeriod
<1>2. /\ e.decision.exec.buy \in Nat /\ e.decision.exec.sell \in Nat
      /\ e.order.cash \in Int /\ e.order.fees \in Int /\ e.order.filled \in Nat
  BY DEF EpisodeOK, EpisodeType, DecisionType
<1>3. /\ run.data[p].gen \in Int /\ run.data[p].q \in Int /\ run.data[p].ref \in Int
      /\ run.data[p].imbBuy \in Int /\ run.data[p].imbSell \in Int
  BY <1>1 DEF OfferType
<1>4. in \in InputsType
  BY <1>2, <1>3 DEF Inputs, InputsType
<1>5. /\ in.q = run.data[p].q
      /\ in.buy = e.decision.exec.buy /\ in.sell = e.decision.exec.sell
      /\ in.cash = e.order.cash /\ in.fees = e.order.fees
  BY DEF Inputs
<1> HIDE DEF in
<1>6. ASSUME e.order.filled = 0
      PROVE  Settled(in) = 0
  <2>0. MoneyOK(e)
    BY DEF EpisodeOK
  <2>1. in.buy = 0 /\ in.sell = 0 /\ in.cash = 0 /\ in.fees = 0
    BY <1>2, <1>5, <1>6, <2>0 DEF MoneyOK
  <2>2. Settled(in) = Incremental(in, 0, 0, 0, 0)
    BY <2>1 DEF Settled
  <2>3. QED
    BY <1>4, <2>2, MoneyType
<1>7. QED
  BY <1>4, <1>5, <1>6 DEF in

\* Delivering, settling and evaluating are three edges of the graph, and the figures agree.
LEMMA SettleOK ==
  ASSUME RunOK(run), NEW p \in Periods, NEW t \in Nat, NEW e, EpisodeOK(run, e, p),
         e.outcome = NoOutcome, e.decision.status \in Deliverable
  PROVE  EpisodeOK(run, Outcome(e, p, t), p) /\ Outcome(e, p, t).decision.status = "EVALUATED"
<1> DEFINE in        == Inputs(e, p)
           dec       == e.decision
           position  == in.q + in.buy - in.sell
           first     == [dec EXCEPT !.settlement = Delivered(position)]
           delivered == Advance(first, "DELIVERED")
           second    == [delivered EXCEPT !.settlement.settled = TRUE,
                                          !.settlement.pnl = Settled(in)]
           settled   == Advance(second, "SETTLED")
           third     == [settled EXCEPT !.evaluated = TRUE]
           done      == Advance(third, "EVALUATED")
           o         == [at |-> t, position |-> position, pnl |-> settled.settlement.pnl,
                         attributed |-> AttributedTotal(in),
                         benchmarks |-> Benchmarks(in, dec.rec.buy, dec.rec.sell, FeeRate)]
           f         == [e EXCEPT !.decision = done, !.outcome = o]
           Settlement == [delivered : BOOLEAN, position : Int, settled : BOOLEAN, pnl : Int]
<1>1. /\ e \in EpisodeType /\ dec \in DecisionType /\ LogOK(dec) /\ dec.status # "ABSENT"
      /\ dec.rec = Advice(run, p) /\ dec.rec.buy \in Nat /\ dec.rec.sell \in Nat
  BY DEF EpisodeOK, EpisodeType, DecisionType, Deliverable
<1>2. /\ in \in InputsType /\ in.q = run.data[p].q
      /\ in.buy = dec.exec.buy /\ in.sell = dec.exec.sell
      /\ e.order.filled = 0 => Settled(in) = 0
  BY InputsOK
<1>3. position \in Int /\ position = run.data[p].q + dec.exec.buy - dec.exec.sell
  BY <1>2 DEF InputsType
<1>4. Settled(in) \in Int /\ AttributedTotal(in) = Settled(in)
  BY <1>2, MoneyType, AttributionReconciles DEF Settled, InputsType
<1>5. LET b == Benchmarks(in, dec.rec.buy, dec.rec.sell, FeeRate) IN
      /\ b \in [NO_ACTION : Int, MODEL_RECOMMENDATION : Int, TRADER_INSTRUCTION : Int,
                PERFECT_FORESIGHT : Int]
      /\ b.NO_ACTION = 0 /\ b.TRADER_INSTRUCTION = Settled(in)
  BY <1>1, <1>2, BenchmarksOK
<1>6. Outcome(e, p, t) = f
  BY DEF Outcome
<1> HIDE DEF in, position
<1>7. Delivered(position) \in Settlement /\ Delivered(position).delivered = TRUE
  BY <1>3 DEF Delivered
<1>8. /\ first \in DecisionType /\ first.status = dec.status /\ first.log = dec.log
      /\ first.rec = dec.rec /\ first.exec = dec.exec
      /\ first.settlement = Delivered(position)
  BY <1>1, <1>7 DEF DecisionType
<1> HIDE DEF first
<1>9. "DELIVERED" \in Statuses /\ "DELIVERED" \in AllowedTransitions(dec.status)
  BY DEF Statuses, AllowedTransitions, Deliverable
<1>10. /\ delivered \in DecisionType /\ LogOK(delivered) /\ delivered.status = "DELIVERED"
       /\ delivered.rec = dec.rec /\ delivered.exec = dec.exec
       /\ delivered.settlement = Delivered(position)
  BY <1>1, <1>8, <1>9, AdvanceOK
<1> HIDE DEF delivered
<1>11. /\ second \in DecisionType /\ second.status = "DELIVERED" /\ second.log = delivered.log
       /\ second.rec = dec.rec /\ second.exec = dec.exec
       /\ second.settlement.pnl = Settled(in)
  <2>1. PICK s : s = [delivered.settlement EXCEPT !.settled = TRUE, !.pnl = Settled(in)]
    OBVIOUS
  <2>2. second = [delivered EXCEPT !.settlement = s]
    BY <1>10, <2>1 DEF DecisionType
  <2>3. s \in Settlement /\ s.pnl = Settled(in)
    BY <1>4, <1>7, <1>10, <2>1
  <2> HIDE DEF second
  <2>4. QED
    BY <1>10, <2>2, <2>3 DEF DecisionType
<1> HIDE DEF second
<1>12. "SETTLED" \in Statuses /\ "SETTLED" \in AllowedTransitions("DELIVERED")
  BY DEF Statuses, AllowedTransitions
<1>13. /\ settled \in DecisionType /\ LogOK(settled) /\ settled.status = "SETTLED"
       /\ settled.rec = dec.rec /\ settled.exec = dec.exec
       /\ settled.settlement.pnl = Settled(in)
  BY <1>10, <1>11, <1>12, AdvanceOK
<1> HIDE DEF settled
<1>14. /\ third \in DecisionType /\ third.status = "SETTLED" /\ third.log = settled.log
       /\ third.rec = dec.rec /\ third.exec = dec.exec /\ third.evaluated = TRUE
  BY <1>13 DEF DecisionType
<1> HIDE DEF third
<1>15. "EVALUATED" \in Statuses /\ "EVALUATED" \in AllowedTransitions("SETTLED")
  BY DEF Statuses, AllowedTransitions
<1>16. /\ done \in DecisionType /\ LogOK(done) /\ done.status = "EVALUATED"
       /\ done.rec = dec.rec /\ done.exec = dec.exec /\ done.evaluated = TRUE
  BY <1>13, <1>14, <1>15, AdvanceOK
<1> HIDE DEF done
<1>17. /\ o \in [at : Int, position : Int, pnl : Int, attributed : Int,
                 benchmarks : [NO_ACTION : Int, MODEL_RECOMMENDATION : Int,
                               TRADER_INSTRUCTION : Int, PERFECT_FORESIGHT : Int]]
       /\ o.at = t /\ o.position = position /\ o.pnl = Settled(in)
       /\ o.attributed = Settled(in) /\ o.benchmarks.NO_ACTION = 0
       /\ o.benchmarks.TRADER_INSTRUCTION = Settled(in)
  <2> DEFINE b == Benchmarks(in, dec.rec.buy, dec.rec.sell, FeeRate)
  <2>1. o = [at |-> t, position |-> position, pnl |-> Settled(in), attributed |-> Settled(in),
             benchmarks |-> b]
    BY <1>4, <1>13
  <2> HIDE DEF b, o
  <2>2. QED
    BY <1>3, <1>4, <1>5, <2>1 DEF b
<1> HIDE DEF o
<1>18. /\ f \in EpisodeType /\ f.decision = done /\ f.outcome = o /\ f.order = e.order
       /\ f.assessments = e.assessments /\ f.verdict = e.verdict
  BY <1>1, <1>16, <1>17 DEF EpisodeType
<1> HIDE DEF f
<1>19. StageOK(f)
  <2>1. o # NoOutcome
    BY <1>17 DEF NoOutcome, Never
  <2>2. StagePayloadOK(done, NoDecision)
    BY <1>16 DEF StagePayloadOK
  <2>3. QED
    BY <1>16, <1>18, <2>1, <2>2 DEF StageOK, Unsent
<1>20. MoneyOK(f) /\ OrderOK(run, f, p)
  <2>1. \A side, volume : Allowed(run, f, p, side, volume) <=> Allowed(run, e, p, side, volume)
    BY <1>18 DEF Allowed
  <2>2. QED
    BY <1>16, <1>18, <2>1 DEF EpisodeOK, MoneyOK, OrderOK, Submitted
<1>21. OutcomeOK(run, f, p)
  BY <1>2, <1>3, <1>16, <1>17, <1>18 DEF OutcomeOK
<1>22. EpisodeOK(run, f, p)
  BY <1>1, <1>16, <1>18, <1>19, <1>20, <1>21 DEF EpisodeOK
<1>23. QED
  BY <1>6, <1>16, <1>18, <1>22

\* The last pass settles what is over and has its figures; what has none yet is left as it was.
LEMMA DeliverSettleEvaluateOK ==
  ASSUME RunOK(run), NEW p \in Periods, NEW t \in Nat, NEW e, EpisodeOK(run, e, p)
  PROVE  LET g == DeliverSettleEvaluate(e, p, t) IN
         /\ EpisodeOK(run, g, p)
         /\ g.outcome # NoOutcome => e.outcome # NoOutcome \/ Realised(p, t)
         /\ IF Due(e, p, t) /\ Realised(p, t) THEN g.decision.status = "EVALUATED"
                                              ELSE g.decision = e.decision
<1>1. CASE Due(e, p, t) /\ Realised(p, t)
  <2>1. EpisodeOK(run, Outcome(e, p, t), p) /\ Outcome(e, p, t).decision.status = "EVALUATED"
    BY <1>1, SettleOK DEF Due
  <2>2. DeliverSettleEvaluate(e, p, t) = Outcome(e, p, t)
    BY <1>1 DEF DeliverSettleEvaluate
  <2>3. QED
    BY <1>1, <2>1, <2>2
<1>2. CASE Due(e, p, t) /\ ~Realised(p, t)
  <2> DEFINE f == [e EXCEPT !.skipped = TRUE]
  <2>1. DeliverSettleEvaluate(e, p, t) = f
    BY <1>2 DEF DeliverSettleEvaluate
  <2>2. /\ f \in EpisodeType /\ f.decision = e.decision /\ f.order = e.order
        /\ f.assessments = e.assessments /\ f.verdict = e.verdict /\ f.outcome = e.outcome
    BY DEF EpisodeOK, EpisodeType
  <2> HIDE DEF f
  <2>3. StageOK(f) /\ MoneyOK(f) /\ OutcomeOK(run, f, p)
    BY <2>2 DEF EpisodeOK, StageOK, MoneyOK, OutcomeOK
  <2>4. OrderOK(run, f, p)
    <3>1. \A side, volume : Allowed(run, f, p, side, volume) <=> Allowed(run, e, p, side, volume)
      BY <2>2 DEF Allowed
    <3>2. QED
      BY <2>2, <3>1 DEF EpisodeOK, OrderOK, Submitted
  <2>5. EpisodeOK(run, f, p)
    BY <2>2, <2>3, <2>4 DEF EpisodeOK
  <2>6. QED
    BY <1>2, <2>1, <2>2, <2>5
<1>3. CASE ~Due(e, p, t)
  BY <1>3 DEF DeliverSettleEvaluate
<1>4. QED
  BY <1>1, <1>2, <1>3

----------------------------------------------------------------------------
(***************************************************************************)
(* The whole run: every episode is consistent, and what the passes have    *)
(* done up to the clock.                                                   *)
(***************************************************************************)
\* nothing has happened before the first pass
Fresh ==
  pass = "act" /\ clock = DecisionTime => \A p \in Periods : episodes[p] = NewEpisode

\* the figures of a settled period are there
OutcomesDue == \A p \in Periods : episodes[p].outcome # NoOutcome => Realised(p, clock)

\* after its gate no decision of the window waits
GatesClosed ==
  pass \in {"outcome", "done"} =>
    \A p \in Window :
      clock >= Gate(p) =>
        episodes[p].decision.status \in {"ABSENT", "EVALUATED"} \cup Deliverable

\* at the end only a period without figures is not evaluated, and it was refused at least once
Finished ==
  pass = "done" =>
    \A p \in Window :
      /\ episodes[p].decision.status \in {"ABSENT", "EVALUATED"} \cup Deliverable
      /\ episodes[p].decision.status \in Deliverable => ~Realised(p, clock) /\ violations # 0

ReplayInv ==
  /\ TimesOK /\ RunOK(run) /\ violations \in Nat
  /\ pass \in {"act", "gate", "outcome", "done"}
  /\ \A p \in Periods : EpisodeOK(run, episodes[p], p)
  /\ Fresh /\ OutcomesDue /\ WaitingIsReassessed /\ GatesClosed /\ Finished

\* The run starts with nothing done.
LEMMA ReplayStarts == Init => ReplayInv
<1> SUFFICES ASSUME Init PROVE ReplayInv
  OBVIOUS
<1>1. TimesOK /\ pass = "act" /\ violations \in Nat
  BY TimesInit DEF Init
<1>2. RunOK(run)
  BY DEF Init, RunOK
<1>3. \A p \in Periods : episodes[p] = NewEpisode
  BY DEF Init
<1>4. \A p \in Periods : EpisodeOK(run, episodes[p], p) /\ episodes[p].outcome = NoOutcome
  <2>1. SUFFICES ASSUME NEW p \in Periods
                 PROVE  EpisodeOK(run, episodes[p], p) /\ episodes[p].outcome = NoOutcome
    OBVIOUS
  <2>2. PICK e : e = episodes[p]
    OBVIOUS
  <2>3. e = NewEpisode
    BY <1>3, <2>2
  <2>4. /\ e \in EpisodeType /\ e.order = NoOrder /\ e.outcome = NoOutcome
        /\ \A s \in 0..PeriodCount : e.assessments[s] = NoAssessment
    BY <2>3, NewEpisodeOK
  <2>5. e.decision = NoDecision
    BY <2>3 DEF NewEpisode
  <2>6. LogOK(NoDecision)
    BY NoDecisionOK DEF LogOK
  <2>7. QED
    BY <2>2, <2>4, <2>5, <2>6, NoDecisionOK, CreatedOK
<1>5. QED
  BY <1>1, <1>2, <1>3, <1>4
  DEF ReplayInv, Fresh, OutcomesDue, WaitingIsReassessed, GatesClosed, Finished

\* The trader's pass.
LEMMA ActPassKeeps ==
  ASSUME ReplayInv, ActPass, TimesOK'
  PROVE  ReplayInv'
<1>1. RunOK(run)' /\ violations' \in Nat /\ pass' = "gate" /\ clock' = clock /\ run' = run
  BY DEF ReplayInv, ActPass
<1>2. ASSUME NEW p \in Periods
      PROVE  ActedOK(episodes'[p], p, clock) /\ episodes'[p].outcome = episodes[p].outcome
  <2>1. clock \in Nat /\ EpisodeOK(run, episodes[p], p) /\ RunOK(run)
    BY DEF ReplayInv, TimesOK
  <2>2. DOMAIN episodes[p] = Fields
    BY DEF ReplayInv, TimesOK, InTime
  <2>3. CASE clock = DecisionTime
    <3>1. pass = "act"
      BY DEF ActPass
    <3>2. episodes[p] = NewEpisode
      BY <2>3, <3>1 DEF ReplayInv, Fresh
    <3>3. episodes'[p] = CreateAndAct(episodes[p], p, clock)
      BY <2>3 DEF ActPass, ForAll
    <3>4. ActedOK(CreateAndAct(episodes[p], p, clock), p, clock)
      BY <2>1, <3>2, CreateAndActOK
    <3>5. OrderStep(episodes[p], CreateAndAct(episodes[p], p, clock), p, clock)
      BY <2>2, CreationIsOrderStep
    <3>6. QED
      BY <3>3, <3>4, <3>5 DEF OrderStep
  <2>4. CASE clock # DecisionTime
    <3>1. episodes'[p] = Reassess(episodes[p], p, clock)
      BY <2>4 DEF ActPass, ForAll
    <3>2. ActedOK(Reassess(episodes[p], p, clock), p, clock)
      BY <2>1, ReassessOK
    <3>3. OrderStep(episodes[p], Reassess(episodes[p], p, clock), p, clock)
      BY <2>2, PassesAreSteps
    <3>4. QED
      BY <3>1, <3>2, <3>3 DEF OrderStep
  <2>5. QED
    BY <2>3, <2>4
<1>3. \A p \in Periods : EpisodeOK(run, episodes'[p], p)
  BY <1>2 DEF ActedOK
<1>4. (\A p \in Periods : EpisodeOK(run, episodes[p], p))'
  BY <1>1, <1>3
<1>5. OutcomesDue'
  BY <1>1, <1>2 DEF ReplayInv, OutcomesDue, Realised
<1>6. WaitingIsReassessed'
  <2>1. ASSUME run.policy = "TIMING_POLICY", NEW p \in Window, clock < Gate(p),
               episodes'[p].decision.status = "PROPOSED"
        PROVE  episodes'[p].assessments[Snapshot(clock)] # NoAssessment
    <3>1. p \in Periods
      BY ReplayAssumption DEF Window, Periods, ReplayInv, RunOK
    <3>2. QED
      BY <1>2, <2>1, <3>1 DEF ActedOK, WaitsAssessed
  <2>2. QED
    BY <1>1, <2>1 DEF WaitingIsReassessed, Window
<1>7. Fresh' /\ GatesClosed' /\ Finished'
  BY <1>1 DEF Fresh, GatesClosed, Finished
<1>8. QED
  BY <1>1, <1>4, <1>5, <1>6, <1>7 DEF ReplayInv

\* The pass over the gates.
LEMMA GatePassKeeps ==
  ASSUME ReplayInv, GatePass, TimesOK'
  PROVE  ReplayInv'
<1>1. RunOK(run)' /\ violations' \in Nat /\ pass' = "outcome" /\ clock' = clock /\ run' = run
  BY DEF ReplayInv, GatePass
<1>2. ASSUME NEW p \in Periods
      PROVE  /\ EpisodeOK(run, episodes'[p], p)
             /\ episodes'[p].outcome = episodes[p].outcome
             /\ episodes'[p].assessments = episodes[p].assessments
             /\ episodes'[p].decision.status = "PROPOSED" =>
                  episodes[p].decision.status = "PROPOSED"
             /\ p \in Window /\ clock >= Gate(p) =>
                  episodes'[p].decision.status \in {"ABSENT", "EVALUATED"} \cup Deliverable
  <2>1. clock \in Nat /\ EpisodeOK(run, episodes[p], p) /\ RunOK(run)
    BY DEF ReplayInv, TimesOK
  <2>2. DOMAIN episodes[p] = Fields
    BY DEF ReplayInv, TimesOK, InTime
  <2>3. episodes'[p] = EnforceGate(episodes[p], p, clock)
    BY DEF GatePass, ForAll
  <2>4. Same(episodes[p], EnforceGate(episodes[p], p, clock))
    BY <2>2, PassesAreSteps
  <2>5. QED
    BY <2>1, <2>3, <2>4, EnforceGateOK DEF Same
<1>3. \A p \in Window : p \in Periods
  BY ReplayAssumption DEF Window, Periods, ReplayInv, RunOK
<1>4. (\A p \in Periods : EpisodeOK(run, episodes[p], p))'
  BY <1>1, <1>2
<1>5. OutcomesDue'
  BY <1>1, <1>2 DEF ReplayInv, OutcomesDue, Realised
<1>6. WaitingIsReassessed'
  <2>1. pass = "gate"
    BY DEF GatePass
  <2>2. ASSUME run.policy = "TIMING_POLICY", NEW p \in Window, clock < Gate(p),
               episodes'[p].decision.status = "PROPOSED"
        PROVE  episodes'[p].assessments[Snapshot(clock)] # NoAssessment
    BY <1>2, <1>3, <2>1, <2>2 DEF ReplayInv, WaitingIsReassessed
  <2>3. QED
    BY <1>1, <2>2 DEF WaitingIsReassessed, Window
<1>7. GatesClosed'
  BY <1>1, <1>2, <1>3 DEF GatesClosed, Window
<1>8. Fresh' /\ Finished'
  BY <1>1 DEF Fresh, Finished
<1>9. QED
  BY <1>1, <1>4, <1>5, <1>6, <1>7, <1>8 DEF ReplayInv

\* Counting the refused reads of a pass: none is only counted when there is none.
LEMMA RefusalsCount ==
  ASSUME NEW early, early \subseteq Periods
  PROVE  Cardinality(early) \in Nat /\ (early # {} => Cardinality(early) # 0)
<1>1. IsFiniteSet(Periods)
  BY ReplayAssumption, FS_Interval DEF Periods
<1>2. IsFiniteSet(early)
  BY <1>1, FS_Subset
<1>3. QED
  BY <1>2, FS_CardinalityType, FS_EmptySet

\* The pass that settles, after which the clock moves on or the run is over.
LEMMA OutcomePassKeeps ==
  ASSUME ReplayInv, OutcomePass, TimesOK'
  PROVE  ReplayInv'
<1> DEFINE later == {t \in Events : t > clock}
           early == {p \in Periods : Due(episodes[p], p, clock) /\ ~Realised(p, clock)}
<1>1. /\ pass = "outcome" /\ run' = run /\ violations' = violations + Cardinality(early)
      /\ IF later = {} THEN pass' = "done" /\ clock' = clock
         ELSE pass' = "act" /\ clock' = Min(later)
  BY DEF OutcomePass
<1>2. Cardinality(early) \in Nat /\ (early # {} => Cardinality(early) # 0)
  BY RefusalsCount
<1>3. violations \in Nat /\ violations' \in Nat /\ (early # {} => violations' # 0)
  <2> HIDE DEF early
  <2>1. violations \in Nat
    BY DEF ReplayInv
  <2>2. QED
    BY <1>1, <1>2, <2>1
<1>4. /\ clock \in Nat /\ DecisionTime <= clock /\ RunOK(run)
      /\ \A p \in Window : p \in Periods /\ p \in Nat /\ 1 <= p
  BY ReplayAssumption DEF ReplayInv, TimesOK, RunOK, Window, Periods
<1>5. /\ clock' \in Nat /\ clock <= clock'
      /\ pass' = "act" => clock < clock'
  <2>1. CASE later = {}
    BY <1>1, <1>4, <2>1
  <2>2. CASE later # {}
    <3>1. later \in SUBSET Nat
      BY EventsAreLate DEF ReplayInv, RunOK
    <3>2. clock' \in later
      BY <1>1, <2>2, <3>1, MinIsMember
    <3>3. QED
      BY <1>4, <3>1, <3>2
  <2>3. QED
    BY <2>1, <2>2
<1>6. ASSUME NEW p \in Periods
      PROVE  LET e == episodes[p]
                 g == episodes'[p]
             IN /\ EpisodeOK(run, g, p)
                /\ g.outcome # NoOutcome => e.outcome # NoOutcome \/ Realised(p, clock)
                /\ IF Due(e, p, clock) /\ Realised(p, clock) THEN g.decision.status = "EVALUATED"
                                                             ELSE g.decision = e.decision
  <2>1. EpisodeOK(run, episodes[p], p)
    BY DEF ReplayInv
  <2>2. episodes'[p] = DeliverSettleEvaluate(episodes[p], p, clock)
    BY DEF OutcomePass, ForAll
  <2>3. QED
    BY <1>4, <2>1, <2>2, DeliverSettleEvaluateOK
<1>7. (\A p \in Periods : EpisodeOK(run, episodes[p], p))'
  BY <1>1, <1>6
<1>8. OutcomesDue'
  <2>1. ASSUME NEW p \in Periods, Realised(p, clock)
        PROVE  Realised(p, clock)'
    <3>1. run.data[p].lag \in Int
      BY <1>4, OfferOfPeriod DEF OfferType
    <3>2. End(p) \in Int
      BY ReplayAssumption DEF Periods, End, Start
    <3>3. QED
      BY <1>1, <1>4, <1>5, <2>1, <3>1, <3>2 DEF Realised
  <2>2. QED
    BY <1>6, <2>1 DEF ReplayInv, OutcomesDue
<1>9. Fresh'
  BY <1>4, <1>5 DEF Fresh, DecisionTime
<1>10. WaitingIsReassessed'
  BY <1>1 DEF WaitingIsReassessed
<1>11. ASSUME pass' = "done", NEW p \in Window
       PROVE  LET status == episodes'[p].decision.status IN
              /\ status \in {"ABSENT", "EVALUATED"} \cup Deliverable
              /\ status \in Deliverable => ~Realised(p, clock) /\ violations' # 0
  <2> DEFINE e == episodes[p]
  <2>1. later = {} /\ clock' = clock
    BY <1>1, <1>11
  <2>2. End(p) \in Events
    BY DEF Events
  <2>3. End(p) \in Nat /\ Gate(p) \in Nat /\ Gate(p) < End(p)
    BY <1>4 DEF End, Gate, Start
  <2>4. clock >= End(p) /\ clock >= Gate(p)
    BY <1>4, <2>1, <2>2, <2>3
  <2>5. e.decision.status \in {"ABSENT", "EVALUATED"} \cup Deliverable
    BY <1>1, <2>4 DEF ReplayInv, GatesClosed
  <2>6. e.decision.status \in Deliverable => Due(e, p, clock)
    <3>1. StageOK(e)
      BY <1>4 DEF ReplayInv, EpisodeOK
    <3>2. QED
      BY <2>4, <3>1 DEF StageOK, Due, Deliverable
  <2>7. CASE Due(e, p, clock) /\ Realised(p, clock)
    BY <1>4, <1>6, <2>7 DEF Deliverable
  <2>8. CASE ~(Due(e, p, clock) /\ Realised(p, clock))
    <3>1. episodes'[p].decision = e.decision
      BY <1>4, <1>6, <2>8
    <3>2. e.decision.status \in Deliverable => ~Realised(p, clock) /\ p \in early
      BY <1>4, <2>6, <2>8
    <3>3. QED
      BY <1>3, <2>5, <3>1, <3>2
  <2>9. QED
    BY <2>7, <2>8
<1>12. Finished'
  <2>1. Window' = Window
    BY <1>1 DEF Window
  <2>2. \A p \in Periods : pass' = "done" => (Realised(p, clock)' <=> Realised(p, clock))
    BY <1>1 DEF Realised
  <2>3. QED
    BY <1>4, <1>11, <2>1, <2>2 DEF Finished
<1>13. GatesClosed'
  BY <1>1, <1>11 DEF GatesClosed, Window
<1>14. RunOK(run)' /\ pass' \in {"act", "gate", "outcome", "done"}
  BY <1>1, <1>4
<1>15. QED
  BY <1>3, <1>7, <1>8, <1>9, <1>10, <1>12, <1>13, <1>14 DEF ReplayInv

\* A step of the run keeps the invariant.
LEMMA ReplayStep == ReplayInv /\ [Next]_vars => ReplayInv'
<1> SUFFICES ASSUME ReplayInv, [Next]_vars PROVE ReplayInv'
  OBVIOUS
<1>1. TimesOK'
  BY TimesNext DEF ReplayInv
<1>2. CASE UNCHANGED vars
  <2>1. /\ run' = run /\ clock' = clock /\ pass' = pass /\ episodes' = episodes
        /\ violations' = violations
    BY <1>2 DEF vars
  <2>2. /\ Fresh' /\ OutcomesDue' /\ WaitingIsReassessed' /\ GatesClosed' /\ Finished'
    BY <2>1 DEF ReplayInv, Fresh, OutcomesDue, WaitingIsReassessed, GatesClosed, Finished, Realised,
                Window
  <2>3. QED
    BY <1>1, <2>1, <2>2 DEF ReplayInv
<1>3. QED
  BY <1>1, <1>2, ActPassKeeps, GatePassKeeps, OutcomePassKeeps DEF Next

\* So the invariant always holds.
LEMMA ReplayInvariant == Spec => []ReplayInv
  BY ReplayStarts, ReplayStep, PTL DEF Spec

----------------------------------------------------------------------------
\* replay_engine._create_and_act, _enforce_gate and the services they call: whatever the policy
\* does and whatever the order book leaves of an order, every move of a decision is an edge of the
\* state machine's graph with the record its status requires, so the engine is never refused one.
THEOREM EveryMoveLegalHolds == Spec => []EveryMoveLegal
<1>1. ReplayInv => EveryMoveLegal
  BY DEF ReplayInv, EpisodeOK, LogOK, StageOK, EveryMoveLegal
<1>2. QED
  BY <1>1, ReplayInvariant, PTL

\* replay_engine.run_replay: when the events are used up, no decision of the window is left behind.
THEOREM AllResolvedHolds == Spec => []AllResolved
<1>1. ReplayInv => AllResolved
  <2> SUFFICES ASSUME ReplayInv, pass = "done", NEW p \in Window, Has(episodes[p])
               PROVE  LET status == episodes[p].decision.status IN
                      /\ IF Realised(p, clock) THEN status = "EVALUATED" ELSE status \in Deliverable
                      /\ violations = 0 => status = "EVALUATED"
    BY DEF AllResolved
  <2>1. p \in Periods
    BY ReplayAssumption DEF Window, Periods, ReplayInv, RunOK
  <2>2. /\ episodes[p].decision.status \in {"EVALUATED"} \cup Deliverable
        /\ episodes[p].decision.status \in Deliverable => ~Realised(p, clock) /\ violations # 0
    BY DEF ReplayInv, Finished, Has
  <2>3. episodes[p].decision.status = "EVALUATED" => Realised(p, clock)
    BY <2>1 DEF ReplayInv, OutcomesDue, EpisodeOK, StageOK
  <2>4. QED
    BY <2>2, <2>3
<1>2. QED
  BY <1>1, ReplayInvariant, PTL

\* execution_simulator.simulate with the policies of replay_engine: an order is bounded by the
\* recommendation and a partial one by the book, and what is executed by both, for every dataset.
THEOREM HedgeWithinAdviceHolds == Spec => []HedgeWithinAdvice
<1>1. ReplayInv => HedgeWithinAdvice
  <2> SUFFICES ASSUME ReplayInv, NEW p \in Periods, Submitted(episodes[p])
               PROVE  LET e     == episodes[p]
                          rec   == e.decision.rec
                          depth == Depth(Levels(run.data[p], e.order.side))
                      IN /\ e.order.volume <= IF e.order.side = "BUY" THEN rec.buy ELSE rec.sell
                         /\ e.verdict = "PARTIAL_HEDGE_NOW" => e.order.volume <= depth + Tolerance
                         /\ e.order.filled <= e.order.volume
                         /\ run.mode # "IDEAL" => e.order.filled <= depth
                         /\ e.order.filled = e.decision.exec.buy + e.decision.exec.sell
    BY DEF HedgeWithinAdvice
  <2> DEFINE e == episodes[p]
  <2>1. EpisodeOK(run, e, p)
    BY DEF ReplayInv
  <2>2. e.decision.rec = Advice(run, p)
    BY <2>1 DEF EpisodeOK, StageOK, Submitted, Unsent
  <2>3. QED
    BY <2>1, <2>2 DEF EpisodeOK, OrderOK, Allowed, Advised, MoneyOK, BookDepth
<1>2. QED
  BY <1>1, ReplayInvariant, PTL

\* replay_engine._timing_action: only a verdict to hedge sends an order, of what was assessed,
\* and a decision that waited to the end traded and earned nothing.
THEOREM OrdersFollowVerdictsHold == Spec => []OrdersFollowVerdicts
<1>1. ReplayInv => OrdersFollowVerdicts
  <2> SUFFICES ASSUME ReplayInv, run.policy = "TIMING_POLICY", NEW p \in Window
               PROVE  LET e == episodes[p] IN
                      /\ Submitted(e) =>
                           /\ e.verdict \in {"HEDGE_NOW", "PARTIAL_HEDGE_NOW"}
                           /\ \E s \in 0..PeriodCount :
                                /\ e.assessments[s].verdict = e.verdict
                                /\ e.order.volume - e.assessments[s].volume \in 0..Tolerance
                      /\ pass = "done" /\ e.verdict = "WAIT" => e.outcome.pnl = 0 /\ ~Submitted(e)
    BY DEF OrdersFollowVerdicts
  <2> DEFINE e == episodes[p]
  <2>1. p \in Periods
    BY ReplayAssumption DEF Window, Periods, ReplayInv, RunOK
  <2>2. EpisodeOK(run, e, p)
    BY <2>1 DEF ReplayInv
  <2>3. Submitted(e) =>
          /\ e.verdict \in {"HEDGE_NOW", "PARTIAL_HEDGE_NOW"}
          /\ \E s \in 0..PeriodCount : /\ e.assessments[s].verdict = e.verdict
                                       /\ e.order.volume - e.assessments[s].volume \in 0..Tolerance
    BY <2>2 DEF EpisodeOK, OrderOK, Allowed
  <2>4. ~Submitted(e) => e.outcome.pnl = 0
    <3>1. NoOrder.filled = 0 /\ NoOutcome.pnl = 0
      BY DEF NoOrder, NoOutcome
    <3>2. QED
      BY <2>2, <3>1 DEF EpisodeOK, OutcomeOK, Submitted
  <2>5. QED
    BY <2>3, <2>4
<1>2. QED
  BY <1>1, ReplayInvariant, PTL

\* replay_engine._reassess: between its creation and its gate, a decision that waits was assessed
\* under the market snapshot of the clock.
THEOREM WaitingIsReassessedHolds == Spec => []WaitingIsReassessed
<1>1. ReplayInv => WaitingIsReassessed
  BY DEF ReplayInv
<1>2. QED
  BY <1>1, ReplayInvariant, PTL

\* settlement_service, evaluation_service and benchmarks in a replay: the settled P&L, the sum of
\* its attribution and the trader's benchmark are one figure, zero when nothing was executed.
THEOREM ReportsAgreeHolds == Spec => []ReportsAgree
<1>1. ReplayInv => ReportsAgree
  BY DEF ReplayInv, EpisodeOK, OutcomeOK, ReportsAgree
<1>2. QED
  BY <1>1, ReplayInvariant, PTL
================================================================================
