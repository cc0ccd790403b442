------------------------------ MODULE DataPipeline ------------------------------
(***************************************************************************)
(* DataFlowPipeline: feeds are refreshed one at a time, every refresh      *)
(* rebuilds the cockpit snapshot, and the lineage index resolves each      *)
(* value that was ever shown.                                              *)
(*                                                                         *)
(* A refresh is a coroutine of the event loop.  It holds an asyncio lock   *)
(* across the await of the provider.  The read endpoints and the rolling   *)
(* service run in threads: they read the current snapshot, replace it and  *)
(* write to the lineage index without that lock, between any two steps of  *)
(* a refresh, also while it iterates over the index.                       *)
(*                                                                         *)
(* The values of one refresh share their checks, their quality and their   *)
(* fate: they are one point, as are the values of a rolling publication    *)
(* and what a read endpoint derives from one snapshot.  A point is an      *)
(* object: the index, the current points and a rolling snapshot hold the   *)
(* same one; a feed snapshot holds copies.                                 *)
(***************************************************************************)
EXTENDS FeedAdapters, Sequences, FiniteSets

CONSTANTS
  Feeds,        \* the feeds of this pipeline
  Overrides,    \* Overrides[f]: what requests say of the inclusion of f; "none" leaves it as it is.
                \* Nobody asks for a feed without any
  Clients,      \* requests for a refresh that may be under way at once
  Main,         \* the coroutine of the startup
  TickSeconds,  \* seconds in a tick of the clock
  MaxClock, MaxRequests, MaxPublications,  \* bounds: ticks, refreshes, rolling publications
  MaxDerived    \* bound: snapshots from which a read endpoint has derived values

ASSUME PipelineAssumption ==
  /\ Feeds \subseteq DOMAIN Adapter
  /\ Main \notin Clients
  /\ Overrides \in [Feeds -> SUBSET {"none", "in", "out"}]
  /\ TickSeconds \in Nat \ {0}
  /\ MaxClock \in Nat /\ MaxRequests \in Nat /\ MaxPublications \in Nat
  /\ MaxDerived \in Nat

VARIABLES
  clock,
  boot,       \* how far bootstrap() has come in its list of feeds
  queue,      \* the asyncio lock: who holds it, and who waits for it, first come first served
  calls,      \* what each coroutine is doing
  publishing, \* the rolling snapshot whose values a thread has still to put into the index, or none
  attempts,   \* the log of refreshes
  health,     \* feed_health
  include,    \* include_by_default of each adapter
  points,     \* current_points: the newest point of each feed
  index,      \* lineage_index, and with it the point objects
  snapshots,  \* every snapshot built, by its number
  current,    \* current_snapshot: its number, or none
  rolling,    \* the snapshot of the rolling environment: its number, or none
  torn        \* history: the newest build raised while it iterated over the index

lineageVars == <<points, index, snapshots, current, rolling>>
pipelineVars ==
  <<clock, boot, queue, calls, publishing, attempts, health, include, lineageVars, torn>>

Coroutines == Clients \cup {Main}

None == 0

\* last_successful_refresh is None
Never == -1

Idle == [pc |-> "idle", feed |-> "none", override |-> "none", at |-> 0, attempt |-> 0, size |-> 0]

PipelineInit ==
  /\ clock = 0
  /\ boot = 0
  /\ queue = <<>>
  /\ calls = [c \in Coroutines |-> Idle]
  /\ publishing = None
  /\ attempts = <<>>
  /\ health = [f \in Feeds |-> [quality |-> "MISSING", last |-> Never, included |-> FALSE]]
  /\ include = [f \in Feeds |-> Adapter[f].include]
  /\ points = [f \in Feeds |-> {}]
  /\ index = [id \in {} |-> None]
  /\ snapshots = <<>>
  /\ current = None
  /\ rolling = None
  /\ torn = FALSE

----------------------------------------------------------------------------
\* Points

\* the values of a feed are named after the attempt that retrieved them, rolling and derived ones
\* after their snapshot.  Nothing here tells when the latter were retrieved.
PointId(kind, n) == [kind |-> kind, n |-> n]

RollingPoint(s) ==
  [passed |-> TRUE, quality |-> "FRESH", mode |-> "SAMPLE", retrieved |-> Never,
   included |-> TRUE, snap |-> s]

\* every read layer stamps what it derives with the snapshot it read, which may be an old one (its
\* quality, the worst of its inputs, is not told apart here)
DerivedPoint(s) == RollingPoint(s)

Indexed(id, point) ==
  [i \in DOMAIN index \cup {id} |-> IF i = id THEN point ELSE index[i]]

NewPoint(c, outcome) ==
  [passed |-> outcome = "valid", quality |-> IF outcome = "valid" THEN "FRESH" ELSE "INVALID",
   mode |-> Adapter[calls[c].feed].mode, retrieved |-> calls[c].at,
   included |-> FALSE, snap |-> None]

----------------------------------------------------------------------------
\* A refresh

Goto(c, pc) == calls' = [calls EXCEPT ![c].pc = pc]

Enqueue(c, f, override) ==
  /\ calls[c].pc = "idle"
  /\ calls' = [calls EXCEPT ![c] = [Idle EXCEPT !.pc = "waiting", !.feed = f,
                                                !.override = override]]
  /\ queue' = Append(queue, c)

\* what bootstrap() has still to refresh, of the feeds of this pipeline
ToLoad == {i \in 1..Len(BootstrapFeeds) : i > boot /\ BootstrapFeeds[i] \in Feeds}

\* bootstrap(), before the API serves anything
Bootstrap ==
  \E i \in ToLoad :
    /\ \A j \in ToLoad : i <= j
    /\ Enqueue(Main, BootstrapFeeds[i], "none")
    /\ boot' = i
    /\ UNCHANGED <<clock, publishing, attempts, health, include, lineageVars, torn>>

Booted == ToLoad = {} /\ calls[Main].pc = "idle"
Serving == rolling # None

Waiting == {c \in Coroutines : calls[c].pc = "waiting"}

Request(c, f, override) ==
  /\ Serving
  /\ Len(attempts) + Cardinality(Waiting) < MaxRequests
  /\ Enqueue(c, f, override)
  /\ UNCHANGED <<clock, boot, publishing, attempts, health, include, lineageVars, torn>>

\* Mutant: the lock is not taken
BeginUnlocked(c) ==
  /\ calls[c].pc = "waiting"
  /\ attempts' = Append(attempts, [feed |-> calls[c].feed, status |-> "RUNNING"])
  /\ calls' = [calls EXCEPT ![c].pc = "fetching", ![c].at = clock,
                            ![c].attempt = Len(attempts) + 1]
  /\ UNCHANGED <<clock, boot, queue, publishing, health, include, lineageVars, torn>>

\* the lock is acquired and the attempt logged; the provider is awaited from here on
Begin(c) ==
  /\ calls[c].pc = "waiting" /\ Head(queue) = c
  /\ attempts' = Append(attempts, [feed |-> calls[c].feed, status |-> "RUNNING"])
  /\ calls' = [calls EXCEPT ![c].pc = "fetching", ![c].at = clock,
                            ![c].attempt = Len(attempts) + 1]
  /\ UNCHANGED <<clock, boot, queue, publishing, health, include, lineageVars, torn>>

\* where both outcomes end: the override applies, and _build_snapshot() starts to iterate
Settle(c, status) ==
  /\ attempts' = [attempts EXCEPT ![calls[c].attempt].status = status]
  /\ include' = IF calls[c].override = "none" THEN include
                ELSE [include EXCEPT ![calls[c].feed] = calls[c].override = "in"]
  /\ calls' = [calls EXCEPT ![c].pc = "clearing", ![c].size = Cardinality(DOMAIN index')]
  /\ UNCHANGED <<clock, boot, queue, publishing, snapshots, current, rolling, torn>>

\* the provider answered: a value that fails a check makes the whole feed invalid
Fetched(c, outcome) ==
  LET f  == calls[c].feed
      id == PointId(f, calls[c].attempt)
  IN /\ calls[c].pc = "fetching"
     /\ outcome \in Adapter[f].outcomes \ {"failed"}
     /\ index' = Indexed(id, NewPoint(c, outcome))
     /\ points' = [points EXCEPT ![f] = {id}]
     /\ health' = [health EXCEPT ![f].quality = NewPoint(c, outcome).quality,
                                 ![f].last = calls[c].at]
     /\ Settle(c, "SUCCEEDED")

\* what a failed refresh leaves of the feed's points: whatever they were, they are stale now
MarkStale(f) ==
  [id \in DOMAIN index |->
     IF id \in points[f] THEN [index[id] EXCEPT !.quality = "STALE", !.mode = "LATEST_AVAILABLE"]
     ELSE index[id]]

\* fetch or normalise raised
FetchFails(c) ==
  LET f == calls[c].feed
  IN /\ calls[c].pc = "fetching"
     /\ "failed" \in Adapter[f].outcomes
     /\ index' = MarkStale(f)
     /\ health' = [health EXCEPT ![f].quality = IF points[f] # {} THEN "STALE" ELSE "MISSING"]
     /\ UNCHANGED points
     /\ Settle(c, "FAILED")

\* Mutant: a coroutine that raises keeps the lock
LeaveOpen(c) ==
  /\ calls' = [calls EXCEPT ![c] = Idle]
  /\ queue' = IF torn' THEN queue ELSE Tail(queue)

\* the lock goes to the next in the queue
Leave(c) ==
  /\ calls' = [calls EXCEPT ![c] = Idle]
  /\ queue' = Tail(queue)

\* Mutant: only the newest points of each feed are looked at
UnmarkedNewest(ids) ==
  [id \in DOMAIN index |->
     IF id \in ids \cap UNION {points[f] : f \in Feeds}
     THEN [index[id] EXCEPT !.included = FALSE, !.snap = None] ELSE index[id]]

Unmarked(ids) ==
  [id \in DOMAIN index |->
     IF id \in ids THEN [index[id] EXCEPT !.included = FALSE, !.snap = None] ELSE index[id]]

\* _build_snapshot() takes every indexed point out of the current snapshot.  A thread that adds
\* an entry meanwhile breaks the iteration: the points of the first attempts are cleared, those
\* that threads added may be, and the refresh raises.
ClearFlags(c) ==
  LET OfFeeds == {id \in DOMAIN index : id.kind \in Feeds}
      grown == Cardinality(DOMAIN index) # calls[c].size
  IN /\ calls[c].pc = "clearing"
     /\ \/ /\ ~grown
           /\ index' = Unmarked(DOMAIN index)
           /\ Goto(c, "assembling")
           /\ UNCHANGED <<queue, torn>>
        \/ /\ grown
           /\ \E last \in 0..Len(attempts), others \in SUBSET (DOMAIN index \ OfFeeds) :
                index' = Unmarked({id \in OfFeeds : id.n <= last} \cup others)
           /\ torn' = TRUE
           /\ Leave(c)
     /\ UNCHANGED <<clock, boot, publishing, attempts, health, include, points, snapshots, current,
                    rolling>>

----------------------------------------------------------------------------
\* The snapshot of a refresh

\* Mutant: freshness is not a matter of age
AssessedByOutcome(f) == health[f].quality

\* health_for: the freshness of a feed now
Assessed(f) ==
  LET overdue == /\ health[f].last # Never
                 /\ (clock - health[f].last) * TickSeconds > Adapter[f].sla
  IN IF overdue /\ health[f].quality \notin {"INVALID", "MISSING"} THEN "STALE"
     ELSE health[f].quality

Usable(f) == {id \in points[f] : index[id].quality # "INVALID"}

Used == {f \in Feeds : Usable(f) # {} /\ include[f]}

StaleFeeds == {f \in Feeds : Assessed(f) = "STALE"}

\* no copies: the snapshot shares the points of the index, as a rolling one does
\* (mutant: a feed snapshot does, too)
Shared(n) == [id \in {} |-> None]

\* the snapshot's values are deep copies of the points, as fresh as their feed is now
Copies(n) ==
  [id \in UNION {Usable(f) : f \in Used} |->
     LET f     == id.kind
         shown == [index[id] EXCEPT !.included = TRUE, !.snap = n]
     IN IF f \notin StaleFeeds THEN shown
        ELSE [shown EXCEPT !.quality = "STALE",
                           !.mode = IF Adapter[f].mode = "LIVE" THEN "LATEST_AVAILABLE" ELSE @]]

SnapshotStatus ==
  IF \E f \in Feeds \ Used : Adapter[f].forSnapshot THEN "BLOCKED"
  ELSE IF StaleFeeds # {} \/ \E f \in Feeds \ Used : Adapter[f].forOptimiser THEN "DEGRADED"
  ELSE "READY"

OptimiserStatus ==
  IF \/ SnapshotStatus = "BLOCKED" \/ \E f \in Feeds \ Used : Adapter[f].forOptimiser
  THEN "BLOCKED"
  ELSE IF StaleFeeds # {} THEN "DEGRADED" ELSE "READY"

\* the rest of _build_snapshot(): the values, their marks in the index, the snapshot
Assemble(c) ==
  LET n    == Len(snapshots) + 1
      used == UNION {Usable(f) : f \in Used}
  IN /\ calls[c].pc = "assembling"
     /\ index' = [id \in DOMAIN index |->
                    IF id \in used THEN [index[id] EXCEPT !.included = TRUE, !.snap = n]
                    ELSE index[id]]
     /\ snapshots' = Append(snapshots,
                        [by |-> "feeds", asOf |-> clock, values |-> used, copies |-> Copies(n),
                         status |-> SnapshotStatus, optimiser |-> OptimiserStatus])
     /\ current' = n
     /\ health' = [f \in Feeds |-> [health[f] EXCEPT !.included = f \in Used]]
     /\ torn' = FALSE
     /\ Leave(c)
     /\ UNCHANGED <<clock, boot, publishing, attempts, include, points, rolling>>

----------------------------------------------------------------------------
\* The threads beside it

\* the values of a rolling snapshot are the objects of the index
RollingSnapshot(n) ==
  [by |-> "rolling", asOf |-> clock, values |-> {PointId("rolling", n)}, copies |-> Shared(n),
   status |-> "DEGRADED", optimiser |-> "DEGRADED"]

\* _publish into the index: an object that is there already is put there again
WithRolling(s) ==
  LET id == PointId("rolling", s)
  IN IF id \in DOMAIN index THEN index ELSE Indexed(id, RollingPoint(s))

Published == {s \in DOMAIN snapshots : snapshots[s].by = "rolling"}

\* ROLLING.initialise(), the end of the startup
Initialise ==
  LET n == Len(snapshots) + 1 IN
  /\ Booted /\ rolling = None
  /\ snapshots' = Append(snapshots, RollingSnapshot(n))
  /\ index' = WithRolling(n)
  /\ current' = n /\ rolling' = n
  /\ UNCHANGED <<clock, boot, queue, calls, publishing, attempts, health, include, points, torn>>

\* an operation of the rolling service publishes the environment it has renewed: the snapshot,
\* and then its values
PublishSnapshot ==
  LET n == Len(snapshots) + 1 IN
  /\ Serving /\ publishing = None
  /\ Cardinality(Published) < MaxPublications
  /\ snapshots' = Append(snapshots, RollingSnapshot(n))
  /\ current' = n /\ rolling' = n /\ publishing' = n
  /\ UNCHANGED <<clock, boot, queue, calls, attempts, health, include, points, index, torn>>

PublishValues ==
  /\ publishing # None
  /\ index' = WithRolling(publishing)
  /\ publishing' = None
  /\ UNCHANGED <<clock, boot, queue, calls, attempts, health, include, points, snapshots, current,
                 rolling, torn>>

\* ensure_published finds another snapshot than the environment's, and publishes that again
Restore ==
  /\ Serving /\ current # rolling
  /\ current' = rolling
  /\ index' = WithRolling(rolling)
  /\ UNCHANGED <<clock, boot, queue, calls, publishing, attempts, health, include, points,
                 snapshots, rolling, torn>>

Derived == {s \in DOMAIN snapshots : PointId("derived", s) \in DOMAIN index}

\* a read endpoint derives values from the snapshot it took, current then or asked for by its id,
\* and so does an optimisation run.  uuid5: what is derived twice from one snapshot has one id.
Derive(s) ==
  /\ Serving /\ s \in DOMAIN snapshots
  /\ Cardinality({s} \cup Derived) <= MaxDerived
  /\ index' = Indexed(PointId("derived", s), DerivedPoint(s))
  /\ UNCHANGED <<clock, boot, queue, calls, publishing, attempts, health, include, points,
                 snapshots, current, rolling, torn>>

Tick ==
  /\ clock < MaxClock
  /\ clock' = clock + 1
  /\ UNCHANGED <<boot, queue, calls, publishing, attempts, health, include, lineageVars, torn>>

----------------------------------------------------------------------------
Refresh(c) ==
  \/ Begin(c) \/ FetchFails(c) \/ ClearFlags(c) \/ Assemble(c)
  \/ \E outcome \in Outcomes : Fetched(c, outcome)

PipelineNext ==
  \/ Tick \/ Bootstrap \/ Initialise
  \/ \E c \in Clients, f \in Feeds : \E override \in Overrides[f] : Request(c, f, override)
  \/ \E c \in Coroutines : Refresh(c)
  \/ PublishSnapshot \/ PublishValues \/ Restore
  \/ \E s \in DOMAIN snapshots : Derive(s)

\* the event loop runs what it has, the providers answer or time out within 15 seconds; nobody has
\* to ask for anything
PipelineSpec ==
  /\ PipelineInit /\ [][PipelineNext]_pipelineVars
  /\ \A c \in Coroutines : WF_pipelineVars(Refresh(c))

----------------------------------------------------------------------------
(***************************************************************************)
(* Properties                                                              *)
(***************************************************************************)
FeedSnapshots == {s \in DOMAIN snapshots : snapshots[s].by = "feeds"}

Building == \E c \in Coroutines : calls[c].pc \in {"clearing", "assembling"}

\* What a snapshot built from the feeds shows is what it says: a value shown fresh passed its
\* checks and was within the freshness of its feed when the snapshot was built, a value shown
\* live is fresh, one shown as the latest available is not, and no value is shown as invalid.
ShownHonestly ==
  \A s \in FeedSnapshots : \A id \in DOMAIN snapshots[s].copies :
    LET p == snapshots[s].copies[id] IN
      /\ p.quality = "FRESH" =>
           /\ p.passed
           /\ (snapshots[s].asOf - p.retrieved) * TickSeconds <= Adapter[id.kind].sla
      /\ p.mode = "LIVE" => p.quality = "FRESH"
      /\ p.mode = "LATEST_AVAILABLE" => p.quality = "STALE"
      /\ p.quality # "INVALID"

\* The refreshes exclude one another, also while a provider is awaited: at most one attempt is
\* logged as running, the newest, and every other one has an outcome.
OneAttemptRuns ==
  \A i \in 1..Len(attempts) :
    attempts[i].status = "RUNNING" =>
      /\ i = Len(attempts)
      /\ \E c \in Coroutines : calls[c].pc = "fetching" /\ calls[c].attempt = i /\ Head(queue) = c

\* A snapshot built from the feeds never changes once it is shown, whatever later refreshes,
\* failures and builds do to the points it was built from.
ShownValue(s, id) ==
  IF id \in DOMAIN snapshots[s].copies THEN snapshots[s].copies[id] ELSE index[id]
FeedSnapshotsFrozen ==
  [][\A s \in FeedSnapshots : \A id \in snapshots[s].values :
       ShownValue(s, id)' = ShownValue(s, id)]_pipelineVars

\* Between two builds and publications, unless the last build was broken off, every value of the
\* newest snapshot resolves in the lineage index under that snapshot's id, and of the values of
\* the feeds exactly those of the newest snapshot built from the feeds do.
NewestSnapshotResolves ==
  (FeedSnapshots # {} /\ publishing = None /\ ~Building /\ ~torn) =>
    LET newest  == Len(snapshots)
        ofFeeds == CHOOSE s \in FeedSnapshots : \A other \in FeedSnapshots : other <= s
    IN /\ \A id \in snapshots[newest].values :
            id \in DOMAIN index /\ index[id].included /\ index[id].snap = newest
       /\ \A id \in DOMAIN index : id.kind \in Feeds =>
            /\ index[id].included = (id \in snapshots[ofFeeds].values)
            /\ index[id].included => index[id].snap = ofFeeds

\* A refresh that was asked for comes to its end, also behind one whose provider does not answer
\* or whose build raises.
RefreshReturns == \A c \in Coroutines : calls[c].pc = "waiting" ~> calls[c].pc = "idle"
================================================================================
