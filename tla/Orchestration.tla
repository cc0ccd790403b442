------------------------------ MODULE Orchestration ------------------------------
(***************************************************************************)
(* DecisionOrchestrator over the rolling service: POST /decisions/refresh  *)
(* turns the difference between the two newest forecast vintages into one  *)
(* decision per material settlement period.                                *)
(*                                                                         *)
(* build_rolling_snapshot takes no lock.  It reads the live state, the     *)
(* optimisation run, the published periods and the vintages one after the  *)
(* other, process then reads the decisions that exist and, last, creates a *)
(* batch; every other thread may run between any two of these reads.       *)
(***************************************************************************)
EXTENDS RollingState

CONSTANTS
  Refreshers,   \* threads that serve POST /decisions/refresh
  MaxMaterial   \* bound: revisions of a refresh that are material

VARIABLES
  batches,   \* the decision batches that were created, in their order
  jobs,      \* what each refresher has read
  resets     \* history: the publications that were current when the environment was reset

orchestrationVars == <<batches, jobs, resets>>

NoInputs == [of |-> FeedSnapshot, periods |-> {}]

Idle == [pc |-> "idle", live |-> Instant(0, 0), run |-> NoInputs, inputs |-> NoInputs,
         vintages |-> <<>>, duplicates |-> {}, chosen |-> {}]

OrchestrationInit ==
  /\ RollingInit
  /\ batches = <<>>
  /\ jobs = [r \in Refreshers |-> Idle]
  /\ resets = {}

----------------------------------------------------------------------------
\* What is computed from the reads, and touches nothing shared

\* Mutant: a vintage is eligible whenever it was published
EligibleAlways(store, live) == DOMAIN store

\* the vintages published on or before the time of the live state
Eligible(store, live) == {i \in DOMAIN store : NotAfter(store[i].published, live)}

Newest(store, eligible) ==
  CHOOSE i \in eligible : \A j \in eligible : NotAfter(store[j].published, store[i].published)

\* sorted by publication, the last two: the previous and the latest
Selected(store, live) ==
  LET eligible == Eligible(store, live)
      latest   == Newest(store, eligible)
      earlier  == eligible \ {latest}
  IN IF eligible = {} \/ earlier = {} THEN <<>>
     ELSE <<store[Newest(store, earlier)], store[latest]>>

\* a vintage covers the periods that were listed when it was published; the service looks
\* periods up by settlement period number
Covered(vintage) == Horizon(vintage.published.at)
Number(p) == p % Day

\* Mutant: the contracted position is looked up by the latest point's label
PositionKnownLatest(j, before, now) == now \in j.inputs.periods

\* the points of one number are grouped: Q is looked up by the label of the first, the older one
PositionKnown(j, before, now) == before \in j.inputs.periods

\* the revisions of a refresh: both vintages have a point of that number, and its position is known
Revisions(j) ==
  LET previous == j.vintages[1]
      latest   == j.vintages[2]
  IN IF Len(j.vintages) < 2 THEN {}
     ELSE {d \in [latest : {latest}, previous : {previous}, period : Covered(latest),
                  compared : Covered(previous), live : {j.live}, inputs : {j.inputs.of}] :
             /\ Number(d.compared) = Number(d.period)
             /\ PositionKnown(j, d.compared, d.period)}

KeyOf(d) == <<d.latest.id, d.previous.id, Number(d.period)>>

\* the revisions that became decisions
Created == {c.revision : c \in UNION {batches[i] : i \in DOMAIN batches}}

\* Mutant: the newest vintage alone makes the key
KnownByLatest(d) == \E c \in Created : c.latest.id = d.latest.id

\* Mutant: only the batch of the last refresh is looked at
KnownInLastBatch(d) ==
  batches # <<>> /\ \E c \in Last(batches) : KeyOf(c.revision) = KeyOf(d)

\* a decision with this key exists
Known(d) == \E c \in Created : KeyOf(c) = KeyOf(d)

\* the decisions on some revisions: the run has an action for that number, and the gate, known
\* only of a period among the inputs, is not over
Decisions(j, revisions) ==
  {d \in [revision : revisions, advised : j.run.periods, run : {j.run.of}] :
     /\ Number(d.advised) = Number(d.revision.period)
     /\ d.revision.period \in j.inputs.periods => d.revision.period > j.live.at}

----------------------------------------------------------------------------
\* One refresh

Reading(r, pc) == jobs[r].pc = pc
Read(r, job) == jobs' = [jobs EXCEPT ![r] = job] /\ UNCHANGED <<rollingVars, batches, resets>>

\* live_state() has made sure that the environment's snapshot is shown; had it to republish, that
\* was the Restore of a worker
Begin(r) ==
  /\ Reading(r, "idle")
  /\ shown = env.live.publication
  /\ Read(r, [Idle EXCEPT !.pc = "live"])

ReadLive(r) == Reading(r, "live") /\ Read(r, [jobs[r] EXCEPT !.pc = "run", !.live = env.live])

\* current_optimisation()
ReadRun(r) ==
  /\ Reading(r, "run")
  /\ Read(r, [jobs[r] EXCEPT !.pc = "inputs", !.run = [of |-> run.inputs, periods |-> run.periods]])

ReadInputs(r) ==
  Reading(r, "inputs") /\ Read(r, [jobs[r] EXCEPT !.pc = "vintages", !.inputs = inputs])

ReadVintages(r) ==
  /\ Reading(r, "vintages")
  /\ Read(r, [jobs[r] EXCEPT !.pc = "decide",
                !.vintages = Selected(env.vintages, jobs[r].live)])

\* process(): the decisions that exist are read once, and duplicates are set aside before the run
\* and the gate are looked at; which revisions are material, and which gates within the half hour
\* are over, is a choice
Decide(r) ==
  LET revisions == Revisions(jobs[r]) IN
  /\ Reading(r, "decide")
  /\ \E material \in {m \in SUBSET revisions : Cardinality(m) <= MaxMaterial} :
       LET known == {d \in material : Known(d)}
       IN Read(r, [Idle EXCEPT !.pc = "create", !.duplicates = known,
                               !.chosen = Decisions(jobs[r], material \ known)])

\* create_batch(), when there is a decision to create
CreateBatch(r) ==
  /\ Reading(r, "create")
  /\ batches' = IF jobs[r].chosen = {} THEN batches ELSE Append(batches, jobs[r].chosen)
  /\ jobs' = [jobs EXCEPT ![r] = Idle]
  /\ UNCHANGED <<rollingVars, resets>>

Refresh(r) ==
  \/ Begin(r) \/ ReadLive(r) \/ ReadRun(r) \/ ReadInputs(r) \/ ReadVintages(r)
  \/ Decide(r) \/ CreateBatch(r)

\* the rolling service goes on
Rolling ==
  /\ RollingNext
  /\ resets' = IF env'.vintages = <<>> THEN resets \cup {env.live.publication} ELSE resets
  /\ UNCHANGED <<batches, jobs>>

OrchestrationNext == Rolling \/ \E r \in Refreshers : Refresh(r)

OrchestrationSpec ==
  OrchestrationInit /\ [][OrchestrationNext]_<<rollingVars, orchestrationVars>>

----------------------------------------------------------------------------
(***************************************************************************)
(* Properties                                                              *)
(***************************************************************************)
\* A revision becomes at most one decision in the whole life of the process: no two refreshes
\* create decisions with one key.
OneDecisionPerRevision ==
  \A i, j \in DOMAIN batches : \A c \in batches[i], d \in batches[j] :
    KeyOf(c.revision) = KeyOf(d.revision) => i = j

\* A decision measures the vintage of the live state it names against the publication right
\* before it, whatever was published or dropped between the reads.  Only a reset, which may put
\* the clock back, lets it compare two later publications.
ConsecutiveVintages ==
  \A d \in Created :
    /\ d.previous.published.publication = d.latest.published.publication - 1
    /\ d.latest.published = d.live \/ \E p \in resets : d.live.publication <= p

\* the environment was reset between the publications of two vintages
ResetBetween(v, w) ==
  \E p \in resets : \/ v.published.publication <= p /\ p < w.published.publication
                    \/ w.published.publication <= p /\ p < v.published.publication

\* A revision is reported as a duplicate only of a decision about the same publication, unless
\* the environment was reset in between (vintage ids then start again).
DuplicateIsGenuine ==
  \A r \in Refreshers : \A d \in jobs[r].duplicates : \E c \in Created :
    /\ KeyOf(c) = KeyOf(d)
    /\ c.latest = d.latest \/ ResetBetween(c.latest, d.latest)

\* When the periods that a refresh read are those of the live state it read, the decision compares
\* two forecasts of one delivery period; when the run and the vintage are, it recommends what the
\* optimiser found for that period.  All three are matched by settlement period number only.
CoherentReadsMatchPeriods ==
  \A i \in DOMAIN batches : \A c \in batches[i] : LET d == c.revision IN
    /\ d.inputs = d.live.publication => d.compared = d.period
    /\ c.run = d.live.publication /\ d.latest.published = d.live => c.advised = d.period
================================================================================
