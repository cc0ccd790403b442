------------------------------ MODULE RollingState ------------------------------
(***************************************************************************)
(* RollingService and the SimulatedEnvironment behind it: the current      *)
(* snapshot of the market, its periods, the optimisation run made from     *)
(* them, and the positions that the completed actions of a run leave.      *)
(*                                                                         *)
(* The operations hold the service's RLock from their first step to their  *)
(* last.  ensure_published does not take it: the middleware and every read *)
(* of the live state may republish between any two of those steps, and a   *)
(* diagnostic feed refresh replaces the pipeline's snapshot at any time.   *)
(*                                                                         *)
(* Time is counted in half hours: instant k lies in delivery period k, and *)
(* the settlement period number of period p is p % Day.  Within a half     *)
(* hour instants are told apart by the publication they fall after.        *)
(***************************************************************************)
EXTENDS Integers, SequencesExt

CONSTANTS
  Workers,        \* threads of the API's pool
  NoWorker,       \* nobody holds the lock
  RollingOps,     \* operations that clients call
  Regimes, Normal,
  Day, Auction,   \* periods in a market day; the number of the first period of an auction
  MaxVintages,    \* ForecastVintageStore.max_vintages
  MaxClock,       \* bound: the backend clock stops there
  MaxPublications \* bound: refreshes of the environment in the life of the model

Operations == {"refresh", "set_regime", "reset", "advance", "run"}

ASSUME RollingAssumption ==
  /\ NoWorker \notin Workers
  /\ RollingOps \subseteq Operations
  /\ Normal \in Regimes
  /\ Day \in Nat \ {0} /\ Auction \in 0..(Day - 1)
  /\ MaxVintages \in Nat /\ MaxVintages >= 2
  /\ MaxClock \in Nat /\ MaxPublications \in Nat

VARIABLES
  clock,      \* the backend clock
  env,        \* the environment: base time, debug offset, refresh sequence, regime, the times an
              \* action was booked into the position of its period, applied periods, vintages
  inputs,     \* period_inputs, and the publication they were built for
  shown,      \* the pipeline's current snapshot: a publication, or FeedSnapshot
  run,        \* current_run: the publication it names, and the inputs it was given
  lock,       \* who holds RollingService._lock
  calls,      \* what each worker is doing
  intact      \* history: since the positions last started afresh, every operation that renewed
              \* the state has got its run, from the periods of that state

rollingVars == <<clock, env, inputs, shown, run, lock, calls, intact>>

FeedSnapshot == 0

----------------------------------------------------------------------------
\* Delivery periods

Periods == 0..(MaxClock + MaxPublications + Day)

\* the first period of the next daily auction
NextAuction(at) == CHOOSE p \in (at + 1)..(at + Day) : p % Day = Auction

\* _horizon_periods: the periods that have not ended and start before the next auction
Horizon(at) == {p \in Periods : p >= at /\ p < NextAuction(at)}

----------------------------------------------------------------------------
\* The environment

\* published_at, and the order of two of them
Instant(at, publication) == [at |-> at, publication |-> publication]
NotAfter(a, b) == a.at < b.at \/ (a.at = b.at /\ a.publication <= b.publication)

Vintage(step, seq, regime, published) ==
  [id |-> [step |-> step, seq |-> seq, regime |-> regime], published |-> published]

FirstVintage(at, publication) == Vintage(0, 1, Normal, Instant(at, publication))

\* Mutant: the newest vintage is dropped
RetainOldest(store, vintage) ==
  IF Len(store) < MaxVintages THEN Append(store, vintage) ELSE store

\* Mutant: one vintage more than the capacity is kept
RetainOneMore(store, vintage) ==
  LET all == Append(store, vintage)
  IN IF Len(all) <= MaxVintages + 1 THEN all ELSE Tail(all)

\* retain(): beyond capacity the vintage published first is dropped
Oldest(all) ==
  CHOOSE i \in 1..Len(all) : \A j \in 1..Len(all) : NotAfter(all[i].published, all[j].published)

Retain(store, vintage) ==
  LET all == Append(store, vintage)
  IN IF Len(all) <= MaxVintages THEN all ELSE RemoveAt(all, Oldest(all))

NoneBooked == [p \in Periods |-> 0]

RollingInit ==
  LET opening == Horizon(0)
  IN /\ clock = 0
     /\ env = [base |-> 0, offset |-> 0, seq |-> 1, regime |-> Normal, booked |-> NoneBooked,
               applied |-> {}, vintages |-> <<FirstVintage(0, 1)>>, live |-> Instant(0, 1)]
     /\ inputs = [of |-> 1, periods |-> opening]
     /\ shown = 1
     /\ run = [of |-> 1, inputs |-> 1, periods |-> opening]
     /\ lock = NoWorker
     /\ calls = [w \in Workers |-> [pc |-> "idle", op |-> "none", inputs |-> inputs, snap |-> 1,
                                    after |-> "idle"]]
     /\ intact = TRUE

AsOf == clock + env.offset

\* Mutant: actions that were applied are not remembered
ReconciledAgain(e, at) ==
  LET done == {p \in run.periods : p < at}
  IN [e EXCEPT !.booked = [p \in Periods |-> IF p \in done THEN @[p] + 1 ELSE @[p]]]

\* reconcile_previous_run: the actions of the current run whose delivery is over
Reconciled(e, at) ==
  LET done == {p \in run.periods \ e.applied : p < at}
  IN [e EXCEPT !.booked  = [p \in Periods |-> IF p \in done THEN @[p] + 1 ELSE @[p]],
               !.applied = @ \cup done]

\* Mutant: the clock is not moved on
AdvancedInPlace(e) ==
  LET first == CHOOSE p \in run.periods : \A q \in run.periods : p <= q
  IN [e EXCEPT !.booked[first] = @ + 1, !.seq = 0]

\* advance_from_action: the first action of the current run, one period ahead of the clock
Advanced(e) ==
  LET first == CHOOSE p \in run.periods : \A q \in run.periods : p <= q
  IN [e EXCEPT !.booked[first] = @ + 1, !.offset = @ + 1, !.seq = 0]

\* reset(), before it refreshes
Fresh(e) == [e EXCEPT !.base = clock, !.offset = 0, !.seq = 0, !.regime = Normal,
                      !.booked = NoneBooked, !.applied = {}, !.vintages = <<>>]

----------------------------------------------------------------------------
\* The world around the service

Tick == /\ clock < MaxClock
        /\ clock' = clock + 1
        /\ UNCHANGED <<env, inputs, shown, run, lock, calls, intact>>

\* pipeline.refresh of a diagnostic feed rebuilds the pipeline's snapshot
FeedRefresh == /\ shown' = FeedSnapshot
               /\ UNCHANGED <<clock, env, inputs, run, lock, calls, intact>>

----------------------------------------------------------------------------
\* Operations, under the lock

At(w, pc) == calls[w].pc = pc
Goto(w, pc) == calls' = [calls EXCEPT ![w].pc = pc]

Enter(w, op) ==
  /\ At(w, "idle") /\ lock = NoWorker
  /\ op # "run" => env.live.publication < MaxPublications
  /\ op = "advance" => run.periods # {}
  /\ lock' = w
  /\ calls' = [calls EXCEPT ![w].pc = IF op = "run" THEN "ensure" ELSE "apply", ![w].op = op]
  /\ UNCHANGED <<clock, env, inputs, shown, run, intact>>

\* what the operation does to the environment before it refreshes it
Apply(w) ==
  LET op == calls[w].op IN
  /\ At(w, "apply")
  /\ \/ op = "refresh"    /\ env' = Reconciled(env, AsOf)
     \/ op = "set_regime" /\ \E regime \in Regimes : env' = [env EXCEPT !.regime = regime]
     \/ op = "advance"    /\ env' = Advanced(env)
     \/ op = "reset"      /\ env' = Fresh(env)
  /\ Goto(w, "renew")
  /\ UNCHANGED <<clock, inputs, shown, run, lock, intact>>

\* the periods of the current auction's window that are over: reset() bootstraps runs for them
Over(at) == {p \in Periods : p < at /\ NextAuction(p) = NextAuction(at)}

\* reset() raises when the optimisation of a bootstrapped run does: the environment is cleared
\* and not refreshed
ResetFails(w) ==
  /\ At(w, "renew") /\ calls[w].op = "reset"
  /\ Over(AsOf) # {}
  /\ Goto(w, "idle")
  /\ lock' = NoWorker
  /\ intact' = FALSE
  /\ UNCHANGED <<clock, env, inputs, shown, run>>

\* SimulatedEnvironment.refresh: the clock is read again.  After a reset the newest of the
\* bootstrapped runs, which starts with a period that is over, becomes the current one.
Renew(w) ==
  LET at   == AsOf
      live == Instant(at, env.live.publication + 1)
      new  == Vintage(at - env.base, env.seq + 1, env.regime, live)
  IN /\ At(w, "renew")
     /\ env' = [env EXCEPT !.seq = @ + 1, !.live = live, !.vintages = Retain(@, new)]
     /\ calls' = [calls EXCEPT ![w].pc = "publish", ![w].after = "ensure",
                               ![w].snap = live.publication,
                               ![w].inputs = [of |-> live.publication, periods |-> Horizon(at)]]
     /\ IF calls[w].op = "reset" /\ Over(at) # {}
        THEN \E h \in Over(at) :
               run' = [of |-> FeedSnapshot, inputs |-> FeedSnapshot,
                       periods |-> {p \in Periods : p >= h /\ p < NextAuction(h)}]
        ELSE UNCHANGED run
     /\ UNCHANGED <<clock, inputs, shown, lock, intact>>

----------------------------------------------------------------------------
\* _publish: the periods, then the snapshot.  An unlocked restore goes the same way.

PublishInputs(w) ==
  /\ At(w, "publish")
  /\ inputs' = calls[w].inputs
  /\ Goto(w, "show")
  /\ UNCHANGED <<clock, env, shown, run, lock, intact>>

PublishSnapshot(w) ==
  /\ At(w, "show")
  /\ shown' = calls[w].snap
  /\ lock' = IF lock = w /\ calls[w].after = "idle" THEN NoWorker ELSE lock
  /\ Goto(w, calls[w].after)
  /\ UNCHANGED <<clock, env, inputs, run, intact>>

\* ensure_published finds another snapshot than the environment's and starts to republish: from
\* a request that holds no lock ("idle"), at the start of run() ("ensure"), or for the answer of
\* an operation that has run the optimiser ("answer")
Restore(w) ==
  /\ shown # env.live.publication
  /\ \E next \in {<<"idle", "idle">>, <<"ensure", "optimise">>, <<"answer", "idle">>} :
       /\ At(w, next[1])
       /\ calls' = [calls EXCEPT ![w].pc = "publish", ![w].after = next[2],
                                 ![w].inputs = inputs, ![w].snap = env.live.publication]
  /\ UNCHANGED <<clock, env, inputs, shown, run, lock, intact>>

\* ensure_published under the lock, with nothing to restore
Ensured(w) ==
  /\ shown = env.live.publication
  /\ \/ At(w, "ensure") /\ Goto(w, "optimise") /\ UNCHANGED lock
     \/ At(w, "answer") /\ Goto(w, "idle") /\ lock' = NoWorker
  /\ UNCHANGED <<clock, env, inputs, shown, run, intact>>

\* run(): the optimiser gets the published periods and the live state; when it raises, the
\* current run stays what it was.  A run that was asked for itself does not read the state again.
Optimise(w) ==
  LET Release == Goto(w, "idle") /\ lock' = NoWorker IN
  /\ At(w, "optimise")
  /\ \/ /\ run' = [of |-> env.live.publication, inputs |-> inputs.of,
                   periods |-> inputs.periods]
        /\ IF calls[w].op = "run" THEN Release ELSE Goto(w, "answer") /\ UNCHANGED lock
        /\ intact' = (inputs.of = env.live.publication /\ (intact \/ calls[w].op = "reset"))
     \/ /\ Release
        /\ intact' = (intact /\ calls[w].op = "run")
        /\ UNCHANGED run
  /\ UNCHANGED <<clock, env, inputs, shown>>

Work(w) ==
  \/ Apply(w) \/ Renew(w) \/ ResetFails(w)
  \/ PublishInputs(w) \/ PublishSnapshot(w) \/ Ensured(w) \/ Optimise(w)

RollingNext ==
  \/ Tick \/ FeedRefresh
  \/ \E w \in Workers : \/ \E op \in RollingOps : Enter(w, op)
                        \/ Restore(w)
                        \/ Work(w)

RollingSpec == RollingInit /\ [][RollingNext]_rollingVars

----------------------------------------------------------------------------
(***************************************************************************)
(* Properties                                                              *)
(***************************************************************************)
InputsType == [of : Nat, periods : SUBSET Periods]

InstantType == [at : Nat, publication : Nat]

ProgramCounters ==
  {"idle", "apply", "renew", "publish", "show", "ensure", "optimise", "answer"}

\* where a worker goes on when it has published
ReturnPoints == {"idle", "ensure", "optimise"}

VintageType ==
  [id : [step : Int, seq : Nat, regime : Regimes], published : InstantType]

\* The state of the rolling service has the shape the code gives it, and the vintage store is
\* within its capacity.
RollingTypeOK ==
  /\ clock \in Nat
  /\ env \in [base : Nat, offset : Nat, seq : Nat, regime : Regimes, booked : [Periods -> Nat],
              applied : SUBSET Periods, vintages : Seq(VintageType), live : InstantType]
  /\ Len(env.vintages) <= MaxVintages
  /\ inputs \in InputsType
  /\ shown \in Nat
  /\ run \in [of : Nat, inputs : Nat, periods : SUBSET Periods]
  /\ lock \in Workers \cup {NoWorker}
  /\ calls \in [Workers -> [pc : ProgramCounters, op : Operations \cup {"none"},
                            inputs : InputsType, snap : Nat, after : ReturnPoints]]
  /\ intact \in BOOLEAN

\* A refresh books the action of a completed period into its position once, however often the
\* operations are repeated, fail or get old periods: what is booked besides was booked by an
\* advance.  And unless an operation failed or got old periods since the positions started
\* afresh, advances and refreshes together book no action twice either.
ActionsAppliedOnce ==
  \A p \in Periods :
    /\ env.booked[p] <= env.offset + (IF p \in env.applied THEN 1 ELSE 0)
    /\ intact => env.booked[p] <= 1

\* The vintage store holds the newest publications in their order, the current one last, and
\* all since the last reset or advance that its capacity allows: the predecessor that the next
\* revision is measured against is never the one dropped.
NewestVintagesRetained ==
  LET n == Len(env.vintages) IN
    /\ \A i \in 1..n : env.vintages[i].published.publication = env.live.publication - (n - i)
    /\ n >= env.seq \/ n = MaxVintages

\* No two vintages of the store have one id: revisions and decisions are named after them.  The
\* sequence number starts again with an advance, which the step must make up for.
VintageIdsDistinct ==
  \A i, j \in 1..Len(env.vintages) : env.vintages[i].id = env.vintages[j].id => i = j
================================================================================
