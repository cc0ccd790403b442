----------------------------- MODULE DispatchProofs -----------------------------
(***************************************************************************)
(* Proofs that in the default horizon a refresh finds a plan, that the     *)
(* actions in force are followed, and that the SoC reaches its target by   *)
(* the end of every horizon, for every battery and every calendar.         *)
(*                                                                         *)
(* The argument: what is left of a plan is a plan (TailPlan), staying at a *)
(* SoC at the target is one (IdlePlan), and of the run in force the booked *)
(* periods are always the first ones, never the last (Booked), so that     *)
(* what a refresh carries over is a point of the run's own path            *)
(* (CarriedValue).                                                         *)
(*                                                                         *)
(* The last part is about the standard paths of Battery: which of them     *)
(* keep the reserves, and what becomes of one that starts outside them.    *)
(***************************************************************************)
EXTENDS Dispatch, TLAPS

----------------------------------------------------------------------------
\* The inductive invariant

ValidLive(l) ==
  /\ l.mode \in HorizonModes
  /\ l.from \in Nat /\ l.to \in Nat /\ l.from < l.to
  /\ l.soc \in SoC

ValidRun(r) ==
  /\ r.mode \in HorizonModes
  /\ r.from \in Nat /\ r.to \in Nat /\ r.from < r.to
  /\ r.soc \in Plans(r.from, r.to, r.soc[r.from])

DispatchTypes ==
  /\ clock \in Start..MaxClock
  /\ offset \in 0..MaxAdvances
  /\ mode \in HorizonModes
  /\ soc \in SoC
  /\ applied \subseteq Nat
  /\ ValidLive(live)
  /\ ValidRun(run)
  /\ intact \in BOOLEAN

\* of a run the booked periods are the first ones, and never all
Booked(r, done) ==
  /\ \A p \in done, q \in r.from..(r.to - 1) : q <= p => q \in done
  /\ (r.to - 1) \notin done

\* the run in force was made from the live state, which is the state of the environment
Intact ==
  /\ live.mode = mode /\ live.soc = soc
  /\ live.from <= AsOf + 1
  /\ mode = "next_auction" => live.from <= AsOf /\ live.to = NextOf(Auctions, live.from)
  /\ run.mode = mode /\ run.from = live.from /\ run.to = live.to
  /\ run.soc[run.from] = soc

DispatchInv ==
  /\ DispatchTypes
  /\ \A p \in applied : p < AsOf /\ p < live.from
  /\ Booked(run, applied)
  /\ intact => Intact
  /\ ActionsFollowed

----------------------------------------------------------------------------
\* The calendar

\* Every instant the model reaches has a next auction and a next midnight.
LEMMA NextOfType ==
  ASSUME NEW S \in {Auctions, Midnights}, NEW t \in 0..Latest
  PROVE  /\ NextOf(S, t) \in S /\ NextOf(S, t) \in Nat
         /\ NextOf(S, t) > t
         /\ \A q \in S : q > t => NextOf(S, t) <= q
<1>1. \E p \in S : p > t /\ \A q \in S : q > t => p <= q
  BY DispatchAssumption
<1>2. S \subseteq Nat
  BY DispatchAssumption
<1> QED BY <1>1, <1>2 DEF NextOf

\* The next auction stays the next one until it comes.
LEMMA NextAuctionStays ==
  ASSUME NEW a \in 0..Latest, NEW b \in 0..Latest, a <= b, b < NextOf(Auctions, a)
  PROVE  NextOf(Auctions, b) = NextOf(Auctions, a)
<1>1. /\ NextOf(Auctions, a) \in Auctions /\ NextOf(Auctions, a) \in Nat
      /\ \A q \in Auctions : q > a => NextOf(Auctions, a) <= q
  BY NextOfType
<1>2. /\ NextOf(Auctions, b) \in Auctions /\ NextOf(Auctions, b) \in Nat /\ NextOf(Auctions, b) > b
      /\ \A q \in Auctions : q > b => NextOf(Auctions, b) <= q
  BY NextOfType
<1> QED BY <1>1, <1>2

\* Up to the bounds every instant has a past auction.
LEMMA LastAuctionType ==
  ASSUME NEW t \in Start..MaxClock
  PROVE  LastAuction(t) \in Nat /\ LastAuction(t) <= t
<1>1. t \in Start..Latest
  BY DispatchAssumption DEF Latest
<1>2. \E p \in Auctions : p <= t /\ \A q \in Auctions : q <= t => q <= p
  BY <1>1, DispatchAssumption
<1> QED BY <1>2, DispatchAssumption DEF LastAuction

\* Every horizon has a period, and starts with the one in progress or the next one.
LEMMA LiveType ==
  ASSUME NEW at \in 0..(Latest - 1), NEW m \in HorizonModes, NEW s \in SoC
  PROVE  /\ ValidLive(Live(at, m, s))
         /\ Live(at, m, s).mode = m /\ Live(at, m, s).soc = s
         /\ at <= Live(at, m, s).from /\ Live(at, m, s).from <= at + 1
         /\ m = "next_auction" => /\ Live(at, m, s).from = at
                                  /\ Live(at, m, s).to = NextOf(Auctions, at)
<1>1. Latest \in Nat
  BY DispatchAssumption DEF Latest
<1>2. at \in 0..Latest /\ at + 1 \in 0..Latest /\ at \in Nat
  BY <1>1
<1>3. NextOf(Auctions, at) \in Nat /\ NextOf(Auctions, at) > at
  BY <1>2, NextOfType
<1>4. NextOf(Midnights, at + 1) \in Nat /\ NextOf(Midnights, at + 1) > at + 1
  BY <1>2, NextOfType
<1>5. First(at, m) \in Nat /\ at <= First(at, m) /\ First(at, m) <= at + 1
  BY <1>2 DEF First
<1>6. End(at, m) \in Nat /\ First(at, m) < End(at, m)
  BY <1>2, <1>3, <1>4, DispatchAssumption DEF First, End, HorizonModes
<1>7. m = "next_auction" => First(at, m) = at /\ End(at, m) = NextOf(Auctions, at)
  BY DEF First, End
<1> QED BY <1>5, <1>6, <1>7 DEF ValidLive, Live

----------------------------------------------------------------------------
\* Plans

\* A battery may stay where it is.
LEMMA Staying ==
  ASSUME NEW s \in SoC
  PROVE  OneAction(s, s)
<1>1. s \in Int
  BY BatteryAssumption DEF SoC
<1>2. NextSoc(s, 0, 0) = s
  BY <1>1, BatteryAssumption DEF NextSoc
<1>3. 0 \in 0..ChargeMax
  BY BatteryAssumption
<1> QED BY <1>2, <1>3 DEF OneAction

\* What the optimiser returns is a run over the horizon it was given, from the SoC it was given.
LEMMA RunsValid ==
  ASSUME NEW l, ValidLive(l), NEW r \in Runs(l)
  PROVE  /\ ValidRun(r)
         /\ r.mode = l.mode /\ r.from = l.from /\ r.to = l.to
         /\ r.soc[r.from] = l.soc
<1>1. PICK plan \in Plans(l.from, l.to, l.soc) : r = Run(l.mode, l.from, l.to, plan)
  BY DEF Runs
<1>2. plan[l.from] = l.soc
  BY DEF Plans
<1> QED BY <1>1, <1>2 DEF ValidRun, ValidLive, Run

\* From a SoC at the target, staying there is a plan.
LEMMA IdlePlan ==
  ASSUME NEW l, ValidLive(l), l.soc >= Target
  PROVE  Runs(l) # {}
<1> DEFINE idle == [p \in l.from..l.to |-> l.soc]
<1>1. idle \in Plans(l.from, l.to, l.soc)
  BY Staying DEF Plans, ValidLive
<1> QED BY <1>1 DEF Runs

\* What is left of a plan is a plan.
LEMMA TailPlan ==
  ASSUME NEW r, ValidRun(r), NEW p \in r.from..r.to
  PROVE  [q \in p..r.to |-> r.soc[q]] \in Plans(p, r.to, r.soc[p])
<1> DEFINE tail == [q \in p..r.to |-> r.soc[q]]
<1>1. /\ r.from \in Int /\ r.to \in Int /\ p \in Int
      /\ r.soc \in [r.from..r.to -> SoC]
      /\ r.soc[r.to] >= Target
      /\ \A q \in r.from..(r.to - 1) : OneAction(r.soc[q], r.soc[q + 1])
  BY DEF ValidRun, Plans
<1>2. \A q \in p..r.to : q \in r.from..r.to /\ tail[q] = r.soc[q]
  BY <1>1
<1>3. tail \in [p..r.to -> SoC]
  BY <1>1, <1>2
<1>4. p \in p..r.to /\ r.to \in p..r.to
  BY <1>1
<1>5. ASSUME NEW q \in p..(r.to - 1)
      PROVE  OneAction(tail[q], tail[q + 1])
  <2>1. q \in r.from..(r.to - 1) /\ q \in p..r.to /\ q + 1 \in p..r.to
    BY <1>1
  <2> QED BY <1>1, <1>2, <2>1
<1> HIDE DEF tail
<1>6. tail[p] = r.soc[p] /\ tail[r.to] >= Target
  BY <1>1, <1>2, <1>4
<1>7. tail \in Plans(p, r.to, r.soc[p])
  BY <1>3, <1>5, <1>6 DEF Plans
<1> QED BY <1>7 DEF tail

\* Every point of a run's path is within the envelope, and the last one is at the target.
LEMMA RunSoC ==
  ASSUME NEW r, ValidRun(r)
  PROVE  /\ \A p \in r.from..r.to : r.soc[p] \in SoC
         /\ r.soc[r.to] >= Target
  BY DEF ValidRun, Plans

----------------------------------------------------------------------------
\* What a reconciliation carries over

\* Nothing is pending, and the SoC stays, or the SoC becomes the run's own at that instant or at its
\* end.
LEMMA CarriedValue ==
  ASSUME NEW r, ValidRun(r), NEW done, Booked(r, done), NEW s, NEW at \in Nat
  PROVE  \/ Pending(r, done, at) = {} /\ Carried(r, done, s, at) = s
         \/ /\ Pending(r, done, at) # {} /\ r.from < at
            /\ Carried(r, done, s, at) = r.soc[IF at < r.to THEN at ELSE r.to]
<1> DEFINE over == Pending(r, done, at)
           last == IF at < r.to THEN at - 1 ELSE r.to - 1
<1>0. r.from \in Nat /\ r.to \in Nat /\ r.from < r.to
  BY DEF ValidRun
<1>1. CASE over = {}
  BY <1>1 DEF Carried
<1>2. CASE over # {}
  <2>1. PICK p \in over : TRUE
    BY <1>2
  <2>2. p \in r.from..(r.to - 1) /\ p < at /\ p \notin done
    BY <2>1 DEF Pending
  <2>3. last \in r.from..(r.to - 1) /\ last < at /\ p <= last
    BY <1>0, <2>2
  <2>4. last \notin done
    BY <2>2, <2>3 DEF Booked
  <2>5. last \in over
    BY <2>3, <2>4 DEF Pending
  <2>6. \A q \in over : q \in Nat /\ q <= last
    BY <1>0 DEF Pending
  <2>7. (CHOOSE q \in over : \A o \in over : o <= q) = last
    <3> HIDE DEF over, last
    <3> DEFINE biggest == CHOOSE q \in over : \A o \in over : o <= q
    <3>1. biggest \in over /\ \A o \in over : o <= biggest
      BY <2>5, <2>6
    <3>2. biggest <= last /\ last <= biggest /\ biggest \in Nat /\ last \in Nat
      BY <2>5, <2>6, <3>1
    <3> QED BY <3>2
  <2>8. Carried(r, done, s, at) = r.soc[last + 1]
    BY <1>2, <2>7 DEF Carried
  <2>9. r.from < at /\ last + 1 = IF at < r.to THEN at ELSE r.to
    BY <1>0, <2>2
  <2> QED BY <1>2, <2>8, <2>9
<1> QED BY <1>1, <1>2

\* The SoC that is carried over is within the envelope.
LEMMA CarriedType ==
  ASSUME NEW r, ValidRun(r), NEW done, Booked(r, done), NEW s \in SoC, NEW at \in Nat
  PROVE  Carried(r, done, s, at) \in SoC
<1>1. r.from \in Nat /\ r.to \in Nat /\ r.from < r.to
  BY DEF ValidRun
<1>2. r.from < at => (IF at < r.to THEN at ELSE r.to) \in r.from..r.to
  BY <1>1
<1> QED BY <1>2, CarriedValue, RunSoC

\* After the end of the run it is at the target.
LEMMA CarriedAtEnd ==
  ASSUME NEW r, ValidRun(r), NEW done, Booked(r, done), NEW s, NEW at \in Nat, at >= r.to
  PROVE  Carried(r, done, s, at) >= Target
<1>1. r.from \in Nat /\ r.to \in Nat /\ r.from < r.to
  BY DEF ValidRun
<1>2. r.to - 1 \in Pending(r, done, at)
  BY <1>1 DEF Pending, Booked
<1>3. Carried(r, done, s, at) = r.soc[r.to]
  BY <1>1, <1>2, CarriedValue
<1> QED BY <1>3, RunSoC

----------------------------------------------------------------------------
\* The steps

\* A run is in force after the optimiser was asked, and if it found a plan it is that.
LEMMA OptimiseStep ==
  ASSUME NEW state, ValidLive(state), NEW inForce, NEW done \in SUBSET Nat,
         \A p \in done : p < state.from,
         Runs(state) = {} => \A r \in inForce : ValidRun(r) /\ Booked(r, done),
         Optimise(state, inForce)
  PROVE  /\ live' = state
         /\ ValidRun(run') /\ Booked(run', done)
         /\ intact' \in BOOLEAN
         /\ intact' => /\ run'.mode = state.mode /\ run'.from = state.from /\ run'.to = state.to
                       /\ run'.soc[run'.from] = state.soc
<1>1. CASE Runs(state) = {} /\ run' \in inForce /\ intact' = FALSE
  BY <1>1 DEF Optimise
<1>2. CASE run' \in Runs(state) /\ intact' = TRUE
  <2>1. /\ ValidRun(run')
        /\ run'.mode = state.mode /\ run'.from = state.from /\ run'.to = state.to
        /\ run'.soc[run'.from] = state.soc
    BY <1>2, RunsValid
  <2>2. Booked(run', done)
    BY <2>1 DEF Booked, ValidLive
  <2> QED BY <1>2, <2>1, <2>2 DEF Optimise
<1> QED BY <1>1, <1>2 DEF Optimise

\* An operation that renews the state re-establishes the invariant, if what it leaves in force when
\* the optimiser raises is in order and it accounts for what it carried over.
LEMMA Renewal ==
  ASSUME NEW at \in 0..(Latest - 1), NEW m \in HorizonModes, NEW s \in SoC, NEW inForce,
         AsOf' = at, clock' \in Start..MaxClock, offset' \in 0..MaxAdvances,
         mode' = m, soc' = s,
         applied' \subseteq Nat, \A p \in applied' : p < at,
         Runs(Live(at, m, s)) = {} => \A r \in inForce : ValidRun(r) /\ Booked(r, applied'),
         Optimise(Live(at, m, s), inForce),
         expected' = s \/ expected' = Carried(run', applied', soc', AsOf')
  PROVE  DispatchInv'
<1> DEFINE state == Live(at, m, s)
<1>1. /\ ValidLive(state)
      /\ state.mode = m /\ state.soc = s
      /\ at <= state.from /\ state.from <= at + 1
      /\ m = "next_auction" => state.from = at /\ state.to = NextOf(Auctions, at)
  BY LiveType
<1>2. at \in Nat /\ state.from \in Nat /\ state.to \in Nat
  BY <1>1, DispatchAssumption DEF ValidLive, Latest
<1>3. \A p \in applied' : p < state.from
  BY <1>1, <1>2
<1>4. /\ live' = state
      /\ ValidRun(run') /\ Booked(run', applied')
      /\ intact' \in BOOLEAN
      /\ intact' => /\ run'.mode = state.mode /\ run'.from = state.from /\ run'.to = state.to
                    /\ run'.soc[run'.from] = state.soc
  <2> HIDE DEF state
  <2>1. Optimise(state, inForce)
    BY DEF state
  <2>2. Runs(state) = {} => \A r \in inForce : ValidRun(r) /\ Booked(r, applied')
    BY DEF state
  <2> QED BY <1>1, <1>3, <2>1, <2>2, OptimiseStep
<1> HIDE DEF state
<1>5. DispatchTypes'
  BY <1>1, <1>4 DEF DispatchTypes
<1>6. (\A p \in applied : p < AsOf /\ p < live.from)'
  BY <1>3, <1>4
<1>7. (intact => Intact)'
  <2> SUFFICES ASSUME intact' PROVE Intact'
    OBVIOUS
  <2>1. live'.from <= AsOf' + 1
    BY <1>1, <1>4
  <2>2. mode' = "next_auction" => live'.from <= AsOf' /\ live'.to = NextOf(Auctions, live'.from)
    BY <1>1, <1>2, <1>4
  <2> QED BY <1>1, <1>4, <2>1, <2>2 DEF Intact
<1>8. ActionsFollowed'
  <2> SUFFICES ASSUME intact' PROVE Carried(run', applied', soc', AsOf') = expected'
    BY DEF ActionsFollowed
  <2>1. Pending(run', applied', at) = {}
    BY <1>1, <1>2, <1>4 DEF Pending
  <2>2. Carried(run', applied', soc', AsOf') = s
    BY <2>1 DEF Carried
  <2> QED BY <2>2
<1> QED BY <1>4, <1>5, <1>6, <1>7, <1>8 DEF DispatchInv

\* The clock stays within its bounds.
LEMMA AsOfType ==
  ASSUME DispatchTypes
  PROVE  /\ clock \in Nat /\ offset \in Nat /\ AsOf \in 0..(Latest - 1) /\ AsOf \in Nat
         /\ clock < MaxClock => AsOf + 1 \in 0..(Latest - 1)
         /\ offset < MaxAdvances => AsOf + 1 \in 0..(Latest - 1)
  BY DispatchAssumption DEF DispatchTypes, AsOf, Latest

\* While no operation failed, the SoC that would be carried over at an instant is the run's own.
LEMMA CarriedIntact ==
  ASSUME DispatchInv, intact, NEW at \in Nat
  PROVE  Carried(run, applied, soc, at) =
           IF at <= run.from THEN soc ELSE run.soc[IF at < run.to THEN at ELSE run.to]
<1>1. /\ ValidRun(run) /\ Booked(run, applied)
      /\ run.from \in Nat /\ run.to \in Nat /\ run.from < run.to
      /\ \A p \in applied : p \in Nat /\ p < run.from
  BY DEF DispatchInv, DispatchTypes, ValidRun, Intact
<1>2. CASE at <= run.from
  <2>1. Pending(run, applied, at) = {}
    BY <1>1, <1>2 DEF Pending
  <2> QED BY <1>2, <2>1 DEF Carried
<1>3. CASE at > run.from
  <2>1. run.from \in Pending(run, applied, at)
    BY <1>1, <1>3 DEF Pending
  <2> QED BY <1>1, <1>3, <2>1, CarriedValue
<1> QED BY <1>1, <1>2, <1>3

\* A made-up history is a path within the envelope.
LEMMA HistoryType ==
  ASSUME NEW t \in Start..MaxClock, NEW h \in Histories(LastAuction(t), t)
  PROVE  \A p \in LastAuction(t)..t : h[p] \in SoC
  BY DEF Histories

\* The startup establishes the invariant.
LEMMA InitInv == DispatchInit => DispatchInv
<1> SUFFICES ASSUME DispatchInit PROVE DispatchInv
  OBVIOUS
<1>1. Start \in Start..MaxClock /\ Start \in 0..(Latest - 1) /\ Start \in Nat
  BY DispatchAssumption DEF Latest
<1>2. soc \in SoC
  <2>1. PICK h \in Histories(LastAuction(Start), Start) : soc = h[Start]
    BY DEF DispatchInit
  <2>2. Start \in LastAuction(Start)..Start
    BY <1>1, LastAuctionType
  <2> QED BY <1>1, <2>1, <2>2, HistoryType
<1>3. /\ clock = Start /\ offset = 0 /\ AsOf = Start /\ mode = "next_auction"
      /\ applied = {} /\ live = Live(Start, "next_auction", soc) /\ run \in Runs(live)
      /\ intact = TRUE /\ expected = soc
  BY <1>1 DEF DispatchInit, AsOf
<1>4. /\ ValidLive(live)
      /\ live.mode = mode /\ live.soc = soc
      /\ live.from = Start /\ live.to = NextOf(Auctions, Start)
  BY <1>1, <1>2, <1>3, LiveType DEF HorizonModes
<1>5. /\ ValidRun(run) /\ run.mode = mode /\ run.from = Start /\ run.to = live.to
      /\ run.soc[run.from] = soc
  BY <1>3, <1>4, RunsValid
<1>6. DispatchTypes
  BY <1>1, <1>2, <1>3, <1>4, <1>5, DispatchAssumption DEF DispatchTypes, HorizonModes
<1>7. Booked(run, applied)
  BY <1>3 DEF Booked
<1>8. Intact
  BY <1>1, <1>3, <1>4, <1>5 DEF Intact
<1>9. ActionsFollowed
  <2>1. Pending(run, applied, AsOf) = {}
    BY <1>1, <1>3, <1>5 DEF Pending
  <2> QED BY <1>3, <2>1 DEF ActionsFollowed, Carried
<1> QED BY <1>3, <1>6, <1>7, <1>8, <1>9 DEF DispatchInv

\* The clock moves on.
LEMMA TickInv == ASSUME DispatchInv, Tick PROVE DispatchInv'
<1>1. /\ clock < MaxClock /\ clock' = clock + 1
      /\ expected' = expected + InForce(AsOf)
      /\ offset' = offset /\ mode' = mode /\ soc' = soc /\ applied' = applied /\ live' = live
      /\ run' = run /\ intact' = intact
  BY DEF Tick
<1>2. AsOf \in Nat /\ AsOf' = AsOf + 1 /\ clock' \in Start..MaxClock
  BY <1>1, AsOfType, DispatchAssumption DEF DispatchInv, DispatchTypes, AsOf
<1>3. DispatchTypes'
  BY <1>1, <1>2 DEF DispatchInv, DispatchTypes
<1>4. (\A p \in applied : p < AsOf /\ p < live.from)'
  BY <1>1, <1>2 DEF DispatchInv, DispatchTypes
<1>5. Booked(run, applied)'
  BY <1>1 DEF DispatchInv
<1>6. (intact => Intact)'
  <2> SUFFICES ASSUME intact PROVE Intact'
    BY <1>1
  <2>1. Intact /\ live.from \in Nat
    BY DEF DispatchInv, DispatchTypes, ValidLive
  <2> QED BY <1>1, <1>2, <2>1 DEF Intact
<1>7. ActionsFollowed'
  <2> SUFFICES ASSUME intact PROVE Carried(run, applied, soc, AsOf + 1) = expected + InForce(AsOf)
    BY <1>1, <1>2 DEF ActionsFollowed
  <2>1. Carried(run, applied, soc, AsOf) = expected
    BY DEF DispatchInv, ActionsFollowed
  <2>2. /\ run.from \in Nat /\ run.to \in Nat /\ run.from < run.to
        /\ ValidRun(run) /\ soc = run.soc[run.from]
    BY DEF DispatchInv, DispatchTypes, ValidRun, Intact
  <2>3. \A p \in run.from..run.to : run.soc[p] \in Int
    BY <2>2, RunSoC, BatteryAssumption DEF SoC
  <2>4. /\ expected = IF AsOf <= run.from THEN soc
                      ELSE run.soc[IF AsOf < run.to THEN AsOf ELSE run.to]
        /\ Carried(run, applied, soc, AsOf + 1) =
             IF AsOf + 1 <= run.from THEN soc
             ELSE run.soc[IF AsOf + 1 < run.to THEN AsOf + 1 ELSE run.to]
    BY <1>2, <2>1, CarriedIntact
  <2>5. CASE AsOf < run.from
    BY <1>2, <2>2, <2>3, <2>4, <2>5 DEF InForce
  <2>6. CASE AsOf \in run.from..(run.to - 1)
    <3>1. /\ expected = run.soc[AsOf]
          /\ Carried(run, applied, soc, AsOf + 1) = run.soc[AsOf + 1]
      BY <1>2, <2>2, <2>4, <2>6
    <3>2. run.soc[AsOf] \in Int /\ run.soc[AsOf + 1] \in Int
      BY <2>2, <2>3, <2>6
    <3>3. InForce(AsOf) = run.soc[AsOf + 1] - run.soc[AsOf]
      BY <2>6 DEF InForce
    <3> QED BY <3>1, <3>2, <3>3
  <2>7. CASE AsOf >= run.to
    <3>1. InForce(AsOf) = 0
      BY <1>2, <2>2, <2>7 DEF InForce
    <3>2. expected = run.soc[run.to] /\ Carried(run, applied, soc, AsOf + 1) = run.soc[run.to]
      BY <1>2, <2>2, <2>4, <2>7
    <3>3. run.soc[run.to] \in Int
      BY <2>2, <2>3
    <3> QED BY <3>1, <3>2, <3>3
  <2> QED BY <1>2, <2>2, <2>5, <2>6, <2>7
<1> QED BY <1>3, <1>4, <1>5, <1>6, <1>7 DEF DispatchInv

\* A refresh: if the horizon of the run in force is over the optimiser does not raise, so a run that
\* stays in force has a period to go.
LEMMA RefreshInv ==
  ASSUME DispatchInv, NEW ticks \in 0..1, Refresh(ticks)
  PROVE  DispatchInv'
<1> DEFINE s == Carried(run, applied, soc, AsOf)
           at == AsOf + ticks
<1>1. /\ clock + ticks <= MaxClock /\ clock' = clock + ticks
      /\ soc' = s
      /\ applied' = applied \cup Pending(run, applied, AsOf)
      /\ offset' = offset /\ mode' = mode
      /\ Optimise(Live(at, mode, soc'), {run})
      /\ Account(ticks = 0, expected)
  BY DEF Refresh
<1>2. /\ DispatchTypes /\ AsOf \in Nat /\ ValidRun(run) /\ Booked(run, applied)
      /\ run.from \in Nat /\ run.to \in Nat /\ run.from < run.to
      /\ applied \subseteq Nat /\ \A p \in applied : p < AsOf
  BY AsOfType DEF DispatchInv, DispatchTypes, ValidRun
<1>3. /\ at \in 0..(Latest - 1) /\ AsOf' = at
      /\ clock' \in Start..MaxClock /\ offset' \in 0..MaxAdvances /\ mode \in HorizonModes
  BY <1>1, <1>2, DispatchAssumption DEF DispatchTypes, AsOf, Latest
<1>4. s \in SoC
  BY <1>2, CarriedType DEF DispatchTypes
<1>5. applied' \subseteq Nat /\ \A p \in applied' : p < at
  <2>1. \A p \in Pending(run, applied, AsOf) : p \in Nat /\ p < AsOf
    BY <1>2 DEF Pending
  <2>2. AsOf <= at /\ at \in Nat
    BY <1>2
  <2>3. \A p \in applied' : p \in Nat /\ p < AsOf
    BY <1>1, <1>2, <2>1
  <2> HIDE DEF at
  <2> QED BY <1>2, <2>2, <2>3
<1>6. Runs(Live(at, mode, s)) = {} => \A r \in {run} : ValidRun(r) /\ Booked(r, applied')
  <2> SUFFICES ASSUME Runs(Live(at, mode, s)) = {} PROVE Booked(run, applied')
    BY <1>2
  <2>1. ~(AsOf >= run.to)
    <3> SUFFICES ASSUME AsOf >= run.to PROVE FALSE
      OBVIOUS
    <3>1. s >= Target
      BY <1>2, CarriedAtEnd
    <3>2. ValidLive(Live(at, mode, s)) /\ Live(at, mode, s).soc = s
      BY <1>3, <1>4, LiveType
    <3> QED BY <3>1, <3>2, IdlePlan
  <2>2. (run.to - 1) \notin applied'
    BY <1>1, <1>2, <2>1 DEF Pending, Booked
  <2>3. ASSUME NEW p \in applied', NEW q \in run.from..(run.to - 1), q <= p
        PROVE  q \in applied'
    <3>1. CASE p \in applied
      BY <1>1, <1>2, <2>3, <3>1 DEF Booked
    <3>2. CASE p \in Pending(run, applied, AsOf)
      BY <1>1, <1>2, <2>3, <3>2 DEF Pending
    <3> QED BY <1>1, <2>3, <3>1, <3>2
  <2> QED BY <2>2, <2>3 DEF Booked
<1>7. expected' = s \/ expected' = Carried(run', applied', soc', AsOf')
  <2>1. CASE intact /\ ticks = 0
    BY <1>1, <2>1 DEF Account, DispatchInv, ActionsFollowed
  <2>2. CASE ~(intact /\ ticks = 0)
    BY <1>1, <2>2 DEF Account, AsOf
  <2> QED BY <2>1, <2>2
<1> HIDE DEF s, at
<1> QED BY <1>1, <1>3, <1>4, <1>5, <1>6, <1>7, Renewal

\* An operation that renews the state and books nothing.
LEMMA RenewInv ==
  ASSUME DispatchInv, NEW m \in HorizonModes, Renew(m)
  PROVE  DispatchInv'
<1>1. /\ mode' = m /\ clock' = clock /\ offset' = offset /\ soc' = soc /\ applied' = applied
      /\ Optimise(Live(AsOf, m, soc), {run})
      /\ Account(Pending(run, applied, AsOf) = {} \/ run' = run, expected)
  BY DEF Renew
<1>2. /\ AsOf \in 0..(Latest - 1) /\ AsOf \in Nat /\ AsOf' = AsOf
      /\ clock' \in Start..MaxClock /\ offset' \in 0..MaxAdvances
      /\ soc \in SoC /\ applied' \subseteq Nat /\ \A p \in applied' : p < AsOf
      /\ ValidRun(run) /\ Booked(run, applied')
  BY <1>1, AsOfType DEF DispatchInv, DispatchTypes, AsOf
<1>3. expected' = soc \/ expected' = Carried(run', applied', soc', AsOf')
  <2>1. CASE intact /\ Pending(run, applied, AsOf) = {}
    <3>1. Carried(run, applied, soc, AsOf) = soc
      BY <2>1 DEF Carried
    <3>2. expected = soc
      BY <2>1, <3>1 DEF DispatchInv, ActionsFollowed
    <3> QED BY <1>1, <2>1, <3>2 DEF Account
  <2>2. CASE intact /\ run' = run
    BY <1>1, <1>2, <2>2 DEF Account, DispatchInv, ActionsFollowed
  <2>3. CASE ~(intact /\ (Pending(run, applied, AsOf) = {} \/ run' = run))
    BY <1>1, <2>3 DEF Account, AsOf
  <2> QED BY <2>1, <2>2, <2>3
<1> QED BY <1>1, <1>2, <1>3, Renewal

\* The legacy advance: the first action of the run in force is taken, a half hour ahead.
LEMMA AdvanceInv == ASSUME DispatchInv, Advance PROVE DispatchInv'
<1> DEFINE s == run.soc[run.from + 1]
           at == AsOf + 1
<1>1. /\ offset < MaxAdvances /\ offset' = offset + 1 /\ soc' = s
      /\ clock' = clock /\ mode' = mode /\ applied' = applied
      /\ Optimise(Live(at, mode, soc'), {run})
      /\ Account(run.from = AsOf, expected + InForce(AsOf))
  BY DEF Advance
<1>2. /\ ValidRun(run) /\ Booked(run, applied)
      /\ run.from \in Nat /\ run.to \in Nat /\ run.from < run.to
      /\ AsOf \in Nat /\ applied \subseteq Nat /\ \A p \in applied : p < AsOf
  BY AsOfType DEF DispatchInv, DispatchTypes, ValidRun
<1>3. s \in SoC
  <2>1. run.from + 1 \in run.from..run.to
    BY <1>2
  <2> QED BY <1>2, <2>1, RunSoC
<1>4. /\ at \in 0..(Latest - 1) /\ AsOf' = at
      /\ clock' \in Start..MaxClock /\ offset' \in 0..MaxAdvances /\ mode \in HorizonModes
  BY <1>1, AsOfType, DispatchAssumption DEF DispatchInv, DispatchTypes, AsOf
<1>5. applied' \subseteq Nat /\ \A p \in applied' : p < at
  BY <1>1, <1>2
<1>6. expected' = s \/ expected' = Carried(run', applied', soc', AsOf')
  <2>1. CASE intact /\ run.from = AsOf
    <3>1. expected = soc /\ soc = run.soc[run.from]
      BY <1>2, <2>1, CarriedIntact DEF DispatchInv, ActionsFollowed, Intact
    <3>2. InForce(AsOf) = s - soc
      BY <1>2, <2>1, <3>1 DEF InForce
    <3>3. expected' = expected + InForce(AsOf)
      BY <1>1, <2>1 DEF Account
    <3>4. s \in Int /\ soc \in Int
      BY <1>3, BatteryAssumption DEF DispatchInv, DispatchTypes, SoC
    <3> HIDE DEF s
    <3> QED BY <3>1, <3>2, <3>3, <3>4
  <2>2. CASE ~(intact /\ run.from = AsOf)
    BY <1>1, <2>2 DEF Account, AsOf
  <2> QED BY <2>1, <2>2
<1>7. \A r \in {run} : ValidRun(r) /\ Booked(r, applied')
  BY <1>1, <1>2
<1> HIDE DEF s, at
<1> QED BY <1>1, <1>3, <1>4, <1>5, <1>6, <1>7, Renewal

\* A run that is asked for itself covers the periods of the one before it.
LEMMA RunAgainInv == ASSUME DispatchInv, RunAgain PROVE DispatchInv'
<1>1. /\ run' \in Runs(live) \/ run' = run
      /\ clock' = clock /\ offset' = offset /\ mode' = mode /\ soc' = soc /\ applied' = applied
      /\ live' = live /\ intact' = intact
      /\ Account(Pending(run, applied, AsOf) = {} \/ run' = run, expected)
  BY DEF RunAgain
<1>2. /\ DispatchTypes /\ ValidLive(live) /\ ValidRun(run) /\ Booked(run, applied)
      /\ \A p \in applied : p < AsOf /\ p < live.from
      /\ applied \subseteq Nat
      /\ live.from \in Nat /\ live.to \in Nat /\ live.from < live.to
  BY DEF DispatchInv, DispatchTypes, ValidLive
<1>3. CASE run' = run
  <2>1. AsOf' = AsOf
    BY <1>1 DEF AsOf
  <2>2. DispatchTypes'
    BY <1>1, <1>2, <1>3 DEF DispatchTypes
  <2>3. (intact => Intact)'
    BY <1>1, <1>3, <2>1 DEF DispatchInv, Intact
  <2>4. ActionsFollowed'
    BY <1>1, <1>3, <2>1 DEF Account, DispatchInv, ActionsFollowed, AsOf
  <2> QED BY <1>1, <1>2, <1>3, <2>1, <2>2, <2>3, <2>4 DEF DispatchInv
<1>4. CASE run' \in Runs(live)
  <2>1. /\ ValidRun(run')
        /\ run'.mode = live.mode /\ run'.from = live.from /\ run'.to = live.to
        /\ run'.soc[run'.from] = live.soc
    BY <1>2, <1>4, RunsValid
  <2>2. AsOf' = AsOf
    BY <1>1 DEF AsOf
  <2>3. DispatchTypes'
    BY <1>1, <1>2, <2>1 DEF DispatchTypes
  <2>4. Booked(run', applied')
    BY <1>1, <1>2, <2>1 DEF Booked
  <2>5. (intact => Intact)'
    BY <1>1, <2>1, <2>2 DEF DispatchInv, Intact
  <2>6. ActionsFollowed'
    <3>1. CASE intact /\ Pending(run, applied, AsOf) = {}
      <4>1. run.from = run'.from /\ run.to = run'.to
        BY <2>1, <3>1 DEF DispatchInv, Intact
      <4>2. Pending(run', applied', AsOf') = {}
        BY <1>1, <2>2, <3>1, <4>1 DEF Pending
      <4>3. Carried(run, applied, soc, AsOf) = soc /\ Carried(run', applied', soc', AsOf') = soc
        BY <1>1, <3>1, <4>2 DEF Carried
      <4>4. expected = soc /\ expected' = expected
        BY <1>1, <3>1, <4>3 DEF DispatchInv, ActionsFollowed, Account
      <4> QED BY <4>3, <4>4 DEF ActionsFollowed
    <3>2. CASE run' = run
      BY <1>1, <2>2, <3>2 DEF Account, DispatchInv, ActionsFollowed, AsOf
    <3>3. CASE ~(intact /\ (Pending(run, applied, AsOf) = {} \/ run' = run))
      BY <1>1, <3>3 DEF Account, AsOf, ActionsFollowed
    <3> QED BY <3>1, <3>2, <3>3
  <2> QED BY <1>1, <1>2, <2>2, <2>3, <2>4, <2>5, <2>6 DEF DispatchInv
<1> QED BY <1>1, <1>3, <1>4

\* A bootstrapped run is a run.
LEMMA NewestType ==
  ASSUME NEW t \in Start..MaxClock, t # LastAuction(t),
         NEW h \in Histories(LastAuction(t), t), NEW r \in Newest(h, LastAuction(t), t)
  PROVE  ValidRun(r)
<1> DEFINE first == LastAuction(t)
           p == first + Cadence * ((t - 1 - first) \div Cadence)
<1>1. /\ first \in Nat /\ t \in Nat /\ first < t /\ t <= Latest /\ Latest \in Nat
      /\ Cadence \in Nat \ {0}
  BY LastAuctionType, DispatchAssumption DEF Latest
<1>2. /\ p \in Nat /\ p >= first /\ p < t
  <2> DEFINE x == t - 1 - first
             y == x \div Cadence
  <2>1. x \in Nat
    BY <1>1
  <2>2. y \in Nat /\ Cadence * y <= x
    BY <1>1, <2>1
  <2>3. Cadence * y \in Nat
    BY <1>1, <2>2
  <2> HIDE DEF y
  <2>4. p = first + Cadence * y
    BY DEF y
  <2> HIDE DEF p, first
  <2> QED BY <1>1, <2>1, <2>2, <2>3, <2>4
<1>3. NextOf(Auctions, p) \in Nat /\ p < NextOf(Auctions, p)
  <2> HIDE DEF p, first
  <2>1. p \in 0..Latest
    BY <1>1, <1>2
  <2> QED BY <2>1, NextOfType
<1>4. PICK plan \in Plans(p, NextOf(Auctions, p), h[p]) :
        r = Run("next_auction", p, NextOf(Auctions, p), plan)
  BY DEF Newest
<1> HIDE DEF p
<1>5. plan[p] = h[p]
  BY <1>4 DEF Plans
<1> QED BY <1>2, <1>3, <1>4, <1>5 DEF ValidRun, Run, HorizonModes

\* A reset makes up a history and starts from its end.
LEMMA ResetInv ==
  ASSUME DispatchInv, NEW ticks \in 0..1, Reset(ticks)
  PROVE  DispatchInv'
<1> DEFINE first == LastAuction(clock)
<1>1. PICK h \in Histories(first, clock) :
        /\ soc' = h[clock]
        /\ Optimise(Live(clock + ticks, mode, soc'),
                    IF clock = first THEN {run} ELSE Newest(h, first, clock))
  BY DEF Reset
<1>2. /\ clock + ticks <= MaxClock /\ clock' = clock + ticks /\ offset' = 0 /\ applied' = {}
      /\ mode' = mode /\ Account(FALSE, soc')
  BY DEF Reset
<1>3. clock \in Start..MaxClock /\ clock \in Nat /\ mode \in HorizonModes /\ ValidRun(run)
  BY AsOfType DEF DispatchInv, DispatchTypes
<1>4. /\ clock + ticks \in 0..(Latest - 1) /\ AsOf' = clock + ticks
      /\ clock' \in Start..MaxClock /\ offset' \in 0..MaxAdvances
  BY <1>2, <1>3, DispatchAssumption DEF AsOf, Latest
<1>5. soc' \in SoC
  BY <1>1, <1>3, LastAuctionType, HistoryType
<1>6. \A r \in IF clock = first THEN {run} ELSE Newest(h, first, clock) :
        ValidRun(r) /\ Booked(r, applied')
  <2> SUFFICES ASSUME NEW r \in IF clock = first THEN {run} ELSE Newest(h, first, clock)
               PROVE  ValidRun(r)
    BY <1>2 DEF Booked
  <2>1. CASE clock = first
    BY <1>3, <2>1
  <2>2. CASE clock # first
    BY <1>1, <1>3, <2>2, NewestType
  <2> QED BY <2>1, <2>2
<1>7. expected' = Carried(run', applied', soc', AsOf')
  BY <1>2 DEF Account, AsOf
<1> HIDE DEF first
<1> QED BY <1>1, <1>2, <1>3, <1>4, <1>5, <1>6, <1>7, Renewal

\* A reset that raises leaves the run in force and nothing booked.
LEMMA ResetFailsInv == ASSUME DispatchInv, ResetFails PROVE DispatchInv'
<1>1. /\ offset' = 0 /\ soc' = Initial /\ applied' = {} /\ intact' = FALSE
      /\ clock' = clock /\ mode' = mode /\ live' = live /\ run' = run
  BY DEF ResetFails
<1>2. DispatchTypes'
  <2>1. Initial \in SoC /\ 0 \in 0..MaxAdvances
    BY DispatchAssumption
  <2> QED BY <1>1, <2>1 DEF DispatchInv, DispatchTypes
<1>3. Booked(run, applied)'
  BY <1>1 DEF Booked
<1> QED BY <1>1, <1>2, <1>3 DEF DispatchInv, ActionsFollowed

\* Every step preserves the invariant.
LEMMA StepInv == DispatchInv /\ [DispatchNext]_dispatchVars => DispatchInv'
<1> SUFFICES ASSUME DispatchInv, [DispatchNext]_dispatchVars PROVE DispatchInv'
  OBVIOUS
<1>1. CASE Tick
  BY <1>1, TickInv
<1>2. CASE SetRegime
  BY <1>2, RenewInv DEF SetRegime, DispatchInv, DispatchTypes
<1>3. CASE Advance
  BY <1>3, AdvanceInv
<1>4. CASE RunAgain
  BY <1>4, RunAgainInv
<1>5. CASE ResetFails
  BY <1>5, ResetFailsInv
<1>6. ASSUME NEW ticks \in 0..1, Refresh(ticks) PROVE DispatchInv'
  BY <1>6, RefreshInv
<1>7. ASSUME NEW ticks \in 0..1, Reset(ticks) PROVE DispatchInv'
  BY <1>7, ResetInv
<1>8. ASSUME NEW m \in Modes, SetHorizonMode(m) PROVE DispatchInv'
  BY <1>8, RenewInv, DispatchAssumption DEF SetHorizonMode
<1>9. CASE UNCHANGED dispatchVars
  BY <1>9 DEF dispatchVars, DispatchInv, DispatchTypes, Intact, ActionsFollowed, AsOf
<1> QED BY <1>1, <1>2, <1>3, <1>4, <1>5, <1>6, <1>7, <1>8, <1>9 DEF DispatchNext

\* The dispatch keeps the invariant throughout.
LEMMA Invariance == DispatchSpec => []DispatchInv
<1> QED BY InitInv, StepInv, PTL DEF DispatchSpec

----------------------------------------------------------------------------
\* The theorems

\* The SoC follows the actions in force at the end of each half hour.
THEOREM DispatchActionsFollowed == DispatchSpec => []ActionsFollowed
<1>1. DispatchInv => ActionsFollowed
  BY DEF DispatchInv
<1> QED BY <1>1, Invariance, PTL

\* When the horizon of the run in force is over, the SoC is at its target.
THEOREM DispatchTargetReached == DispatchSpec => []TargetAtHorizonEnd
<1>1. DispatchInv => TargetAtHorizonEnd
  BY AsOfType, CarriedAtEnd DEF DispatchInv, DispatchTypes, TargetAtHorizonEnd
<1> QED BY <1>1, Invariance, PTL

\* In the default horizon a refresh finds a plan, whenever it comes.
THEOREM DispatchRefreshSucceeds == DispatchSpec => []RefreshSucceeds
<1>1. DispatchInv => RefreshSucceeds
  <2> SUFFICES ASSUME DispatchInv, intact, mode = "next_auction"
               PROVE  Runs(Live(AsOf, mode, Carried(run, applied, soc, AsOf))) # {}
    BY DEF RefreshSucceeds
  <2> DEFINE s == Carried(run, applied, soc, AsOf)
             state == Live(AsOf, mode, s)
  <2>1. /\ AsOf \in 0..(Latest - 1) /\ AsOf \in Nat /\ mode \in HorizonModes /\ Latest \in Nat
        /\ ValidRun(run) /\ Booked(run, applied)
        /\ run.from \in Nat /\ run.to \in Nat /\ run.from < run.to
        /\ run.from <= AsOf /\ run.to = NextOf(Auctions, run.from) /\ soc = run.soc[run.from]
    BY AsOfType, DispatchAssumption DEF DispatchInv, DispatchTypes, ValidRun, Intact, Latest
  <2>2. s \in SoC
    BY <2>1, CarriedType DEF DispatchInv, DispatchTypes
  <2>3. ValidLive(state) /\ state.soc = s
        /\ state.from = AsOf /\ state.to = NextOf(Auctions, AsOf)
    BY <2>1, <2>2, LiveType
  <2>4. CASE AsOf >= run.to
    <3>1. s >= Target
      BY <2>1, <2>4, CarriedAtEnd
    <3> HIDE DEF s, state
    <3> QED BY <2>3, <3>1, IdlePlan DEF s, state
  <2>5. CASE AsOf < run.to
    <3>1. s = run.soc[AsOf]
      BY <2>1, <2>5, CarriedIntact
    <3>2. NextOf(Auctions, AsOf) = run.to
      <4>1. run.from \in 0..Latest /\ AsOf \in 0..Latest
        BY <2>1
      <4> QED BY <2>1, <2>5, <4>1, NextAuctionStays
    <3>3. AsOf \in run.from..run.to
      BY <2>1, <2>5
    <3>4. Plans(AsOf, run.to, run.soc[AsOf]) # {}
      BY <2>1, <3>3, TailPlan
    <3> QED BY <2>3, <3>1, <3>2, <3>4 DEF Runs
  <2> QED BY <2>1, <2>4, <2>5
<1> QED BY <1>1, Invariance, PTL

----------------------------------------------------------------------------
(***************************************************************************)
(* The standard candidate paths, for every battery.  What these theorems   *)
(* say of the end of a period is what they need of the start of the next.  *)
(***************************************************************************)
\* Multiplication with a natural number is monotone.
LEMMA Monotone ==
  ASSUME NEW g \in Nat, NEW a \in Int, NEW b \in Int, a <= b
  PROVE  g * a <= g * b
  OBVIOUS

\* Division rounds down.
LEMMA Rounded ==
  ASSUME NEW g \in Nat \ {0}, NEW x \in Nat
  PROVE  /\ x \div g \in Nat
         /\ g * (x \div g) <= x
  OBVIOUS

\* The reserve envelope consists of integers.
LEMMA EnvelopeType == ReserveFloor \in Int /\ ReserveCeiling \in Int
  BY BatteryAssumption DEF ReserveFloor, ReserveCeiling

\* A preserved share of a power is at most that power.
LEMMA ShareBound ==
  ASSUME NEW kind, NEW power \in Nat
  PROVE  Share(kind, power) \in Nat /\ Share(kind, power) <= power
  BY DEF Share

\* What calculate_feasibility leaves for charging is within the power that is not reserved, and
\* fits under the reserve ceiling.
LEMMA ChargeBound ==
  ASSUME NEW held \in Int, CanSustain(held)
  PROVE  /\ MaxCharge(held) \in Nat
         /\ MaxCharge(held) <= ChargeMax - DownReserved
         /\ Gain * MaxCharge(held) <= ReserveCeiling - held
<1> DEFINE space == ReserveCeiling - held
           power == ChargeMax - DownReserved
<1>1. power \in Nat /\ space \in Nat
  BY BatteryAssumption, EnvelopeType DEF CanSustain
<1>2. space \div Gain \in Nat /\ Gain * (space \div Gain) <= space
  BY <1>1, BatteryAssumption, Rounded
<1>3. MaxCharge(held) = Lesser(power, space \div Gain)
  BY DEF MaxCharge
<1>4. /\ MaxCharge(held) \in Nat
      /\ MaxCharge(held) <= power /\ MaxCharge(held) <= space \div Gain
  <2> HIDE DEF power, space
  <2> QED BY <1>1, <1>2, <1>3 DEF Lesser
<1>5. Gain * MaxCharge(held) <= Gain * (space \div Gain)
  BY <1>2, <1>4, BatteryAssumption, Monotone
<1>6. Gain * MaxCharge(held) \in Int /\ Gain * (space \div Gain) \in Int
  BY <1>2, <1>4, BatteryAssumption
<1> HIDE DEF space
<1>7. Gain * MaxCharge(held) <= space
  BY <1>1, <1>2, <1>5, <1>6
<1> QED BY <1>4, <1>7 DEF space

\* The same for discharging, above the reserve floor.
LEMMA DischargeBound ==
  ASSUME NEW held \in Int, CanSustain(held)
  PROVE  /\ MaxDischarge(held) \in Nat
         /\ MaxDischarge(held) <= DischargeMax - UpReserved
         /\ Loss * MaxDischarge(held) <= held - ReserveFloor
<1> DEFINE stored == held - ReserveFloor
           power == DischargeMax - UpReserved
<1>1. power \in Nat /\ stored \in Nat
  BY BatteryAssumption, EnvelopeType DEF CanSustain
<1>2. stored \div Loss \in Nat /\ Loss * (stored \div Loss) <= stored
  BY <1>1, BatteryAssumption, Rounded
<1>3. MaxDischarge(held) = Lesser(power, stored \div Loss)
  BY DEF MaxDischarge
<1>4. /\ MaxDischarge(held) \in Nat
      /\ MaxDischarge(held) <= power /\ MaxDischarge(held) <= stored \div Loss
  <2> HIDE DEF power, stored
  <2> QED BY <1>1, <1>2, <1>3 DEF Lesser
<1>5. Loss * MaxDischarge(held) <= Loss * (stored \div Loss)
  BY <1>2, <1>4, BatteryAssumption, Monotone
<1>6. Loss * MaxDischarge(held) \in Int /\ Loss * (stored \div Loss) \in Int
  BY <1>2, <1>4, BatteryAssumption
<1> HIDE DEF stored
<1>7. Loss * MaxDischarge(held) <= stored
  BY <1>1, <1>2, <1>5, <1>6
<1> QED BY <1>4, <1>7 DEF stored

\* A standard action of a battery inside its reserve envelope charges or discharges within what is
\* left free, never both.
LEMMA ActionBound ==
  ASSUME NEW kind \in PathKinds, NEW held \in Int, NEW p50 \in Int, CanSustain(held)
  PROVE  LET action == StandardAction(kind, held, p50) IN
         /\ action.charge \in 0..MaxCharge(held)
         /\ action.discharge \in 0..MaxDischarge(held)
         /\ action.charge = 0 \/ action.discharge = 0
<1>1. MaxCharge(held) \in Nat /\ MaxDischarge(held) \in Nat
  BY ChargeBound, DischargeBound
<1>2. CASE p50 > 0
  <2>1. Lesser(p50, MaxCharge(held)) \in 0..MaxCharge(held)
    BY <1>1, <1>2 DEF Lesser
  <2>2. Share(kind, Lesser(p50, MaxCharge(held))) \in 0..MaxCharge(held)
    BY <1>1, <2>1, ShareBound
  <2> QED BY <1>1, <1>2, <2>2 DEF StandardAction
<1>3. CASE p50 < 0
  <2>1. Lesser(-p50, MaxDischarge(held)) \in 0..MaxDischarge(held)
    BY <1>1, <1>3 DEF Lesser
  <2>2. Share(kind, Lesser(-p50, MaxDischarge(held))) \in 0..MaxDischarge(held)
    BY <1>1, <2>1, ShareBound
  <2> QED BY <1>1, <1>3, <2>2 DEF StandardAction
<1>4. CASE p50 = 0
  BY <1>1, <1>4 DEF StandardAction
<1> QED BY <1>2, <1>3, <1>4

\* From inside the reserve envelope every standard path (no action, covering the P50 exposure,
\* preserving flexibility) stays inside it, and simulate_battery_path flags none of its periods.
THEOREM StandardPathsFeasible ==
  ASSUME NEW kind \in PathKinds, NEW held \in Int, NEW p50 \in Int, CanSustain(held)
  PROVE  LET action == StandardAction(kind, held, p50) IN
         /\ CanSustain(After(held, action))
         /\ Violations(action, After(held, action)) = {}
<1> DEFINE action == StandardAction(kind, held, p50)
           c == action.charge
           d == action.discharge
           ending == After(held, action)
<1>1. c \in 0..MaxCharge(held) /\ d \in 0..MaxDischarge(held) /\ (c = 0 \/ d = 0)
  BY ActionBound
<1>2. /\ MaxCharge(held) \in Nat /\ MaxCharge(held) <= ChargeMax - DownReserved
      /\ Gain * MaxCharge(held) <= ReserveCeiling - held
  BY ChargeBound
<1>3. /\ MaxDischarge(held) \in Nat /\ MaxDischarge(held) <= DischargeMax - UpReserved
      /\ Loss * MaxDischarge(held) <= held - ReserveFloor
  BY DischargeBound
<1>4. ending = held + Gain * c - Loss * d
  BY DEF After, NextSoc
<1> HIDE DEF action, ending
<1>5. Gain * c \in Nat /\ Gain * c <= Gain * MaxCharge(held)
  BY <1>1, <1>2, BatteryAssumption, Monotone
<1>6. Loss * d \in Nat /\ Loss * d <= Loss * MaxDischarge(held)
  BY <1>1, <1>3, BatteryAssumption, Monotone
<1>7. Gain * MaxCharge(held) \in Int /\ Loss * MaxDischarge(held) \in Int
  BY <1>2, <1>3, BatteryAssumption
<1>8. ending \in Int /\ ReserveFloor <= ending /\ ending <= ReserveCeiling
  <2>1. CASE d = 0
    <3>1. Loss * d = 0
      BY <2>1, BatteryAssumption
    <3> QED BY <1>2, <1>4, <1>5, <1>7, <3>1, EnvelopeType DEF CanSustain
  <2>2. CASE c = 0
    <3>1. Gain * c = 0
      BY <2>2, BatteryAssumption
    <3> QED BY <1>3, <1>4, <1>6, <1>7, <3>1, EnvelopeType DEF CanSustain
  <2> QED BY <1>1, <2>1, <2>2
<1>9. EMin <= ReserveFloor /\ ReserveCeiling <= EMax
  BY BatteryAssumption DEF ReserveFloor, ReserveCeiling
<1>10. CanSustain(ending)
  BY <1>8, <1>9, BatteryAssumption, EnvelopeType DEF CanSustain
<1>11. ASSUME NEW code \in Codes, Violated(code, action, ending)
       PROVE  FALSE
  <2>1. /\ c >= 0 /\ d >= 0 /\ (c = 0 \/ d = 0)
        /\ c <= ChargeMax - DownReserved /\ d <= DischargeMax - UpReserved
        /\ c \in Int /\ d \in Int
    BY <1>1, <1>2, <1>3, BatteryAssumption
  <2>2. NetExport(action) = d - c
    BY DEF NetExport
  <2> QED BY <1>8, <1>10, <1>11, <2>1, <2>2, BatteryAssumption, EnvelopeType
          DEF Violated, CanSustain
<1> QED BY <1>10, <1>11 DEF Violations, action, ending

\* A battery outside its reserve envelope stays where it is on every standard path: none brings it
\* back, and each of their periods is flagged.
THEOREM StandardPathsDoNotRecover ==
  ASSUME NEW kind \in PathKinds, NEW held \in Int, NEW p50 \in Int, ~CanSustain(held)
  PROVE  LET action == StandardAction(kind, held, p50) IN
         /\ After(held, action) = held
         /\ Violations(action, held) # {}
<1> DEFINE action == StandardAction(kind, held, p50)
<1>1. MaxCharge(held) = 0 /\ MaxDischarge(held) = 0
  BY DEF MaxCharge, MaxDischarge
<1>2. action.charge = 0 /\ action.discharge = 0
  BY <1>1 DEF StandardAction, Share, Lesser
<1>3. After(held, action) = held
  BY <1>2, BatteryAssumption DEF After, NextSoc
<1>4. NetExport(action) = 0
  BY <1>2 DEF NetExport
<1>5. \E code \in Codes : Violated(code, action, held)
  <2> HIDE DEF action
  <2>1. \/ Violated("SOC_BELOW_MINIMUM", action, held)
        \/ Violated("SOC_ABOVE_MAXIMUM", action, held)
        \/ Violated("UPWARD_POWER_RESERVATION", action, held)
        \/ Violated("DOWNWARD_POWER_RESERVATION", action, held)
        \/ Violated("UPWARD_ENERGY_DURATION", action, held)
        \/ Violated("DOWNWARD_ENERGY_DURATION", action, held)
    BY <1>4, BatteryAssumption, EnvelopeType DEF Violated, CanSustain
  <2> QED BY <2>1 DEF Codes
<1> QED BY <1>3, <1>5 DEF Violations
================================================================================
