-------------------------------- MODULE Dispatch --------------------------------
(***************************************************************************)
(* The battery under the rolling optimisation: each operation of the       *)
(* RollingService renews the environment, plans the SoC to the end of the  *)
(* horizon and replaces the run in force; a refresh first books the        *)
(* actions of the run in force that are over.                              *)
(*                                                                         *)
(* The operations hold the service's lock, so each is one step here, but   *)
(* the clock goes on meanwhile: refresh() and reset() read it twice.  The  *)
(* steps of an operation, which requests without the lock come between,    *)
(* and the positions that the actions leave are RollingState's.            *)
(*                                                                         *)
(* Instant k lies in delivery period k, a half hour.  Auctions and         *)
(* midnights are local, so that days differ in length.                     *)
(***************************************************************************)
EXTENDS Battery, FiniteSets

CONSTANTS
  Auctions, Midnights,  \* the first periods of auctions and of settlement days
  Modes,                \* horizon modes that clients choose
  Lookahead,            \* SimulatedEnvironment.horizon
  Initial,              \* initial_soc_mwh
  Target,               \* minimum_terminal_soc_mwh
  Cadence,              \* cadence_periods of the bootstrapped history
  Start,                \* the instant of the startup
  MaxClock, MaxAdvances \* bounds: the backend clock; the debug offset

HorizonModes == {"next_auction", "next_8_periods", "end_of_day"}

Latest == MaxClock + MaxAdvances + 1

ASSUME DispatchAssumption ==
  /\ Modes \subseteq HorizonModes
  /\ Auctions \subseteq Nat /\ Midnights \subseteq Nat
  /\ Lookahead \in Nat \ {0} /\ Cadence \in Nat \ {0}
  /\ Initial \in SoC /\ Target \in SoC
  /\ Start \in Nat /\ MaxClock \in Nat /\ Start <= MaxClock /\ MaxAdvances \in Nat
  /\ \A boundaries \in {Auctions, Midnights}, t \in 0..Latest :
       \E p \in boundaries : p > t /\ \A q \in boundaries : q > t => p <= q
  /\ \A t \in Start..Latest : \E p \in Auctions : p <= t /\ \A q \in Auctions : q <= t => q <= p

VARIABLES
  clock,    \* the backend clock
  offset,   \* debug_time_offset
  mode,     \* horizon_mode
  soc,      \* current_soc_mwh
  applied,  \* applied_delivery_periods
  live,     \* the live state and the period inputs that are published: mode, periods and SoC
  run,      \* current_run: mode, periods from..to - 1, and the SoC at the start of each and at the end
  intact,   \* history: no operation that renews the state has raised since one last succeeded
  expected  \* history: the SoC that follows from the actions in force at the end of each half hour

dispatchVars == <<clock, offset, mode, soc, applied, live, run, intact, expected>>

AsOf == clock + offset

----------------------------------------------------------------------------
\* The horizon

NextOf(boundaries, t) ==
  CHOOSE p \in boundaries : p > t /\ \A q \in boundaries : q > t => p <= q

LastAuction(t) == CHOOSE p \in Auctions : p <= t /\ \A q \in Auctions : q <= t => q <= p

\* Mutant: the period in progress is left out
FirstUpcoming(at, m) == at + 1

\* _horizon_periods: the default starts with the period in progress, the others with the next one
First(at, m) == IF m = "next_auction" THEN at ELSE at + 1

End(at, m) ==
  CASE m = "next_auction"   -> NextOf(Auctions, at)
    [] m = "next_8_periods" -> at + 1 + Lookahead
    [] m = "end_of_day"     -> NextOf(Midnights, at + 1)

----------------------------------------------------------------------------
\* The optimiser

\* charging and discharging exclude one another
OneAction(s, next) ==
  \/ \E charge \in 0..ChargeMax : next = NextSoc(s, charge, 0)
  \/ \E discharge \in 0..DischargeMax : next = NextSoc(s, 0, discharge)

\* Mutant: no minimum at the end of the horizon
PlansWithoutTarget(from, to, s) ==
  {plan \in [from..to -> SoC] :
     plan[from] = s /\ \A p \in from..(to - 1) : OneAction(plan[p], plan[p + 1])}

\* The SoC paths the MILP may choose.  Its other constraints (ramps, cycles, reserves and trades)
\* only narrow the choice: charging at one even rate satisfies them all, so they leave a path
\* wherever these do.
Plans(from, to, s) ==
  {plan \in [from..to -> SoC] :
     /\ plan[from] = s
     /\ plan[to] >= Target
     /\ \A p \in from..(to - 1) : OneAction(plan[p], plan[p + 1])}

Run(m, from, to, plan) == [mode |-> m, from |-> from, to |-> to, soc |-> plan]

Runs(state) == {Run(state.mode, state.from, state.to, plan) :
                  plan \in Plans(state.from, state.to, state.soc)}

Live(at, m, s) == [mode |-> m, from |-> First(at, m), to |-> End(at, m), soc |-> s]

----------------------------------------------------------------------------
\* The run in force

\* Mutant: an action counts as completed when its delivery starts
PendingEarly(r, done, at) == {p \in r.from..(r.to - 1) : p <= at /\ p \notin done}

\* the periods whose actions are over and not yet booked
Pending(r, done, at) == {p \in r.from..(r.to - 1) : p < at /\ p \notin done}

\* reconcile_previous_run: the SoC is set to what the last of them projected
Carried(r, done, s, at) ==
  LET over == Pending(r, done, at)
  IN IF over = {} THEN s ELSE r.soc[(CHOOSE p \in over : \A q \in over : q <= p) + 1]

\* what the action in force for period p does to the SoC
InForce(p) == IF p \in run.from..(run.to - 1) THEN run.soc[p + 1] - run.soc[p] ELSE 0

\* run(), for the state just published: the run in force is replaced, or the optimiser raises and
\* the run that was in force stays
Optimise(state, inForce) ==
  /\ live' = state
  /\ \/ Runs(state) = {} /\ run' \in inForce /\ intact' = FALSE
     \/ run' \in Runs(state) /\ intact' = TRUE

\* history: what the operation has to account for; it starts afresh where actions were lost
Account(keeps, sum) ==
  expected' = IF intact /\ keeps THEN sum ELSE Carried(run', applied', soc', (clock + offset)')

----------------------------------------------------------------------------
\* The history that a reset makes up: from the last auction on, every Cadence periods a run is
\* made and its first action followed, and the SoC held in between.

Fresh(p, first) == (p - first) % Cadence = 0

\* the first action of some plan
Begins(p, s, next) == OneAction(s, next) /\ Plans(p + 1, NextOf(Auctions, p), next) # {}

Histories(first, at) ==
  {h \in [first..at -> SoC] :
     /\ h[first] = Initial
     /\ \A p \in first..(at - 1) :
          IF Fresh(p, first) THEN Begins(p, h[p], h[p + 1]) ELSE h[p + 1] = h[p]}

\* some decision on the way has no plan
CanFail(first, at) ==
  \E p \in first..(at - 1) :
    Fresh(p, first) /\ \E h \in Histories(first, p) : Plans(p, NextOf(Auctions, p), h[p]) = {}

\* the newest of the bootstrapped runs, the run in force until the new state is optimised
Newest(h, first, at) ==
  LET p == first + Cadence * ((at - 1 - first) \div Cadence)
  IN {Run("next_auction", p, NextOf(Auctions, p), plan) :
        plan \in {s \in Plans(p, NextOf(Auctions, p), h[p]) : s[p + 1] = h[p + 1]}}

----------------------------------------------------------------------------
\* Operations

\* the startup: a reset that succeeds
DispatchInit ==
  /\ clock = Start /\ offset = 0
  /\ mode = "next_auction"
  /\ applied = {}
  /\ \E h \in Histories(LastAuction(Start), Start) : soc = h[Start]
  /\ live = Live(Start, "next_auction", soc)
  /\ run \in Runs(live)
  /\ intact = TRUE
  /\ expected = soc

Tick ==
  /\ clock < MaxClock
  /\ clock' = clock + 1
  /\ expected' = expected + InForce(AsOf)
  /\ UNCHANGED <<offset, mode, soc, applied, live, run, intact>>

\* the clock may move on between the reconciliation and the renewal
Refresh(ticks) ==
  /\ clock + ticks <= MaxClock
  /\ clock' = clock + ticks
  /\ soc' = Carried(run, applied, soc, AsOf)
  /\ applied' = applied \cup Pending(run, applied, AsOf)
  /\ UNCHANGED <<offset, mode>>
  /\ Optimise(Live(AsOf + ticks, mode, soc'), {run})
  /\ Account(ticks = 0, expected)

\* the operations that renew the state without a reconciliation
Renew(m) ==
  /\ mode' = m
  /\ UNCHANGED <<clock, offset, soc, applied>>
  /\ Optimise(Live(AsOf, m, soc), {run})
  /\ Account(Pending(run, applied, AsOf) = {} \/ run' = run, expected)

SetRegime == Renew(mode)

SetHorizonMode(m) == Renew(m)

\* the first action of the run in force, and a half hour on
Advance ==
  /\ offset < MaxAdvances
  /\ soc' = run.soc[run.from + 1]
  /\ offset' = offset + 1
  /\ UNCHANGED <<clock, mode, applied>>
  /\ Optimise(Live(AsOf + 1, mode, soc'), {run})
  /\ Account(run.from = AsOf, expected + InForce(AsOf))

\* run() asked for itself: from the state that was published, whatever the time is now
RunAgain ==
  /\ run' \in Runs(live) \/ (Runs(live) = {} /\ run' = run)
  /\ UNCHANGED <<clock, offset, mode, soc, applied, live, intact>>
  /\ Account(Pending(run, applied, AsOf) = {} \/ run' = run, expected)

Reset(ticks) ==
  LET first == LastAuction(clock) IN
  /\ clock + ticks <= MaxClock
  /\ clock' = clock + ticks
  /\ offset' = 0
  /\ applied' = {}
  /\ UNCHANGED mode
  /\ \E h \in Histories(first, clock) :
       /\ soc' = h[clock]
       /\ Optimise(Live(clock + ticks, mode, soc'),
                   IF clock = first THEN {run} ELSE Newest(h, first, clock))
  /\ Account(FALSE, soc')

\* the history cannot be made up: the environment is cleared, the run in force stays
ResetFails ==
  /\ CanFail(LastAuction(clock), clock)
  /\ offset' = 0
  /\ soc' = Initial
  /\ applied' = {}
  /\ intact' = FALSE
  /\ UNCHANGED <<clock, mode, live, run>>
  /\ Account(FALSE, soc')

DispatchNext ==
  \/ Tick \/ SetRegime \/ Advance \/ RunAgain \/ ResetFails
  \/ \E ticks \in 0..1 : Refresh(ticks) \/ Reset(ticks)
  \/ \E m \in Modes : SetHorizonMode(m)

DispatchSpec == DispatchInit /\ [][DispatchNext]_dispatchVars

----------------------------------------------------------------------------
(***************************************************************************)
(* Properties                                                              *)
(***************************************************************************)

\* In the default horizon a refresh finds a plan, however long it is put off and across auctions,
\* unless an operation before it failed: what is left of the run in force is a plan, and after its
\* end the SoC is at its target.
RefreshSucceeds ==
  (intact /\ mode = "next_auction") =>
    Runs(Live(AsOf, mode, Carried(run, applied, soc, AsOf))) # {}

\* The SoC with what a refresh would book now is the SoC that the actions in force at the end of
\* each half hour lead to: none is lost, counted twice or taken early, except where an operation
\* failed, replaced a run with actions still to be booked, or was overtaken by the clock.
ActionsFollowed == intact => Carried(run, applied, soc, AsOf) = expected

\* docs/rolling-optimisation.md, minimum terminal SoC: when the horizon of the run in force is
\* over, the SoC is at its target, whatever was lost, failed or reset on the way.
TargetAtHorizonEnd == AsOf >= run.to => Carried(run, applied, soc, AsOf) >= Target
================================================================================
