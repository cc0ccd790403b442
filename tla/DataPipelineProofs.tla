--------------------------- MODULE DataPipelineProofs ---------------------------
(***************************************************************************)
(* The refreshes of the data pipeline exclude one another, and the         *)
(* snapshots built from the feeds never change, show only what they say,   *)
(* and resolve, for every set of feeds, clients and overrides and every    *)
(* bound.                                                                  *)
(*                                                                         *)
(* The argument: the queue of the lock holds exactly the coroutines that   *)
(* are not idle, each once (QueueOfBusy), and one that is past the lock is *)
(* its head (HolderLeads), so that the next one to begin finds none that   *)
(* fetches (NewestRuns).  A feed snapshot has a copy of each of its values *)
(* (Copied), and the list of snapshots only grows.                         *)
(*                                                                         *)
(* A build takes every mark off before it puts its own on, and only the    *)
(* holder of the lock builds: threads put in entries of publications and   *)
(* derived values beside it, which are no feed's (FeedMarks), and what     *)
(* they put in stands until the next build (RollingMarks).  The newest     *)
(* point of a feed and the feed's health are written together              *)
(* (PointsTellHealth), which is what makes the age of the one the age of   *)
(* the other.                                                              *)
(***************************************************************************)
EXTENDS DataPipeline, WellFoundedInduction, TLAPS

----------------------------------------------------------------------------
\* The inductive invariant of the lock

Holding == {"fetching", "clearing", "assembling"}

Steps == Holding \cup {"idle", "waiting"}

\* V holds the values that calls and attempts carry along
CallType(V) == [pc : Steps, feed : V, override : V, at : V, attempt : Nat, size : V]

AttemptType(V) == [feed : V, status : {"RUNNING", "SUCCEEDED", "FAILED"}]

Typed(V) ==
  /\ queue \in Seq(Coroutines)
  /\ calls \in [Coroutines -> CallType(V)]
  /\ attempts \in Seq(AttemptType(V))

QueueOfBusy ==
  /\ \A i, j \in 1..Len(queue) : queue[i] = queue[j] => i = j
  /\ \A i \in 1..Len(queue) : calls[queue[i]].pc # "idle"
  /\ \A c \in Coroutines : calls[c].pc # "idle" => \E i \in 1..Len(queue) : queue[i] = c

HolderLeads ==
  \A c \in Coroutines : calls[c].pc \in Holding => queue # <<>> /\ queue[1] = c

NewestRuns ==
  /\ \A c \in Coroutines : calls[c].pc = "fetching" =>
       calls[c].attempt = Len(attempts) /\ Len(attempts) > 0
  /\ \A i \in 1..Len(attempts) : attempts[i].status = "RUNNING" =>
       i = Len(attempts) /\ \E c \in Coroutines : calls[c].pc = "fetching"

LockInv(V) == Typed(V) /\ QueueOfBusy /\ HolderLeads /\ NewestRuns

LockKept == \E V : LockInv(V)

\* A sequence over a set is one over every larger set.
LEMMA SeqOfMore ==
  ASSUME NEW A, NEW B, A \subseteq B, NEW s \in Seq(A)
  PROVE  s \in Seq(B)
OBVIOUS

\* The values may be more.
LEMMA Widened ==
  ASSUME NEW V, LockInv(V), NEW more
  PROVE  \E W : V \subseteq W /\ more \subseteq W /\ LockInv(W)
<1>1. PICK W : W = V \cup more
  OBVIOUS
<1>2. V \subseteq W /\ more \subseteq W
  BY <1>1
<1>3. CallType(V) \subseteq CallType(W) /\ AttemptType(V) \subseteq AttemptType(W)
  BY <1>2 DEF CallType, AttemptType
<1>4. attempts \in Seq(AttemptType(W))
  BY <1>3, SeqOfMore DEF LockInv, Typed
<1>5. Typed(W)
  BY <1>3, <1>4 DEF LockInv, Typed
<1>6. QED
  BY <1>2, <1>5 DEF LockInv

----------------------------------------------------------------------------
\* What an action does to the calls: coroutine c is at p now, the others where they were.
Moves(c, p) ==
  /\ calls'[c].pc = p
  /\ \A d \in Coroutines : d # c => calls'[d] = calls[d]

\* A coroutine that asks for the lock is the last in the queue.
LEMMA EnqueueKeeps ==
  ASSUME NEW V, LockInv(V), NEW c \in Coroutines, NEW f \in V, NEW override \in V, 0 \in V,
         Enqueue(c, f, override), UNCHANGED attempts
  PROVE  LockKept'
<1>1. PICK new : new = [Idle EXCEPT !.pc = "waiting", !.feed = f, !.override = override]
  OBVIOUS
<1>2. new \in CallType(V) /\ new.pc = "waiting"
  BY <1>1 DEF Idle, CallType, Steps
<1>3. calls' = [calls EXCEPT ![c] = new]
  BY <1>1 DEF Enqueue
<1>4. Typed(V)' /\ Moves(c, "waiting")
  BY <1>2, <1>3 DEF Enqueue, LockInv, Typed, Moves
<1>5. /\ Len(queue') = Len(queue) + 1 /\ Len(queue) \in Nat
      /\ \A i \in 1..Len(queue) : queue'[i] = queue[i] /\ queue[i] \in Coroutines
      /\ queue'[Len(queue) + 1] = c
  BY DEF Enqueue, LockInv, Typed
<1>6. \A i \in 1..Len(queue) : queue[i] # c
  BY DEF LockInv, QueueOfBusy, Enqueue
<1>7. QueueOfBusy'
  <2>1. \A i \in 1..Len(queue') : i = Len(queue) + 1 \/ i \in 1..Len(queue)
    BY <1>5
  <2>2. \A i, j \in 1..Len(queue') : queue'[i] = queue'[j] => i = j
    BY <1>5, <1>6, <2>1 DEF LockInv, QueueOfBusy
  <2>3. \A i \in 1..Len(queue') : calls'[queue'[i]].pc # "idle"
    BY <1>4, <1>5, <1>6, <2>1 DEF LockInv, QueueOfBusy, Moves
  <2>4. ASSUME NEW d \in Coroutines, calls'[d].pc # "idle"
        PROVE  \E i \in 1..Len(queue') : queue'[i] = d
    <3>1. CASE d = c
      BY <1>5, <3>1
    <3>2. CASE d # c
      BY <1>4, <1>5, <2>4, <3>2 DEF LockInv, QueueOfBusy, Moves
    <3>3. QED
      BY <3>1, <3>2
  <2>5. QED
    BY <2>2, <2>3, <2>4 DEF QueueOfBusy
<1>8. HolderLeads'
  <2>1. ASSUME NEW d \in Coroutines, calls'[d].pc \in Holding
        PROVE  queue' # <<>> /\ queue'[1] = d
    <3>1. d # c /\ calls[d].pc \in Holding
      BY <1>4, <2>1 DEF Moves, Holding
    <3>2. queue # <<>> /\ queue[1] = d
      BY <3>1 DEF LockInv, HolderLeads
    <3>3. 1 \in 1..Len(queue)
      BY <3>2 DEF LockInv, Typed
    <3>4. QED
      BY <1>5, <3>2, <3>3
  <2>2. QED
    BY <2>1 DEF HolderLeads
<1>9. NewestRuns'
  <2>1. calls[c].pc = "idle"
    BY DEF Enqueue
  <2>2. QED
    BY <1>4, <2>1 DEF LockInv, NewestRuns, Moves
<1>10. QED
  BY <1>4, <1>7, <1>8, <1>9 DEF LockKept, LockInv

----------------------------------------------------------------------------
\* A step of the coroutine that leads the queue, which leaves the queue alone.
LEMMA StaysInQueue ==
  ASSUME NEW V, LockInv(V), NEW c \in Coroutines, NEW p \in Holding, Moves(c, p),
         queue # <<>>, queue[1] = c, UNCHANGED queue
  PROVE  QueueOfBusy' /\ HolderLeads'
<1>1. /\ Len(queue) \in Nat /\ 1 \in 1..Len(queue)
      /\ \A i \in 1..Len(queue) : queue[i] \in Coroutines
  BY DEF LockInv, Typed
<1>2. p # "idle"
  BY DEF Holding
<1>3. QueueOfBusy'
  <2>1. \A i \in 1..Len(queue) : calls'[queue[i]].pc # "idle"
    BY <1>1, <1>2 DEF LockInv, QueueOfBusy, Moves
  <2>2. \A d \in Coroutines : calls'[d].pc # "idle" => \E i \in 1..Len(queue) : queue[i] = d
    BY <1>1 DEF LockInv, QueueOfBusy, Moves
  <2>3. QED
    BY <2>1, <2>2 DEF LockInv, QueueOfBusy
<1>4. HolderLeads'
  BY DEF LockInv, HolderLeads, Moves
<1>5. QED
  BY <1>3, <1>4

\* Nobody but the head of the queue is past the lock.
LEMMA OthersWait ==
  ASSUME NEW V, LockInv(V), NEW c \in Coroutines, queue[1] = c, NEW d \in Coroutines, d # c
  PROVE  calls[d].pc \notin Holding
BY DEF LockInv, HolderLeads

\* The lock is acquired: the newest attempt runs, and it is the only one.
LEMMA BeginKeeps ==
  ASSUME NEW V, LockInv(V), NEW c \in Coroutines, clock \in V, Begin(c)
  PROVE  LockKept'
<1>1. /\ calls[c].pc = "waiting" /\ queue \in Seq(Coroutines) /\ attempts' # attempts
      /\ UNCHANGED queue
  BY DEF Begin, LockInv, Typed
<1>2. queue # <<>> /\ queue[1] = c
  BY <1>1 DEF Begin, LockInv, QueueOfBusy
<1>3. PICK new : new = [calls[c] EXCEPT !.pc = "fetching", !.at = clock,
                                        !.attempt = Len(attempts) + 1]
  OBVIOUS
<1>4. Len(attempts) \in Nat /\ calls[c] \in CallType(V)
  BY DEF LockInv, Typed
<1>5. /\ calls' \in [Coroutines -> CallType(V)]
      /\ Moves(c, "fetching") /\ calls'[c].attempt = Len(attempts) + 1
  <2>1. new \in CallType(V) /\ new.pc = "fetching" /\ new.attempt = Len(attempts) + 1
    <3>1. PICK one : one = [calls[c] EXCEPT !.pc = "fetching"]
      OBVIOUS
    <3>2. one \in CallType(V) /\ one.pc = "fetching"
      BY <1>4, <3>1 DEF CallType, Steps, Holding
    <3>3. PICK two : two = [one EXCEPT !.at = clock]
      OBVIOUS
    <3>4. two \in CallType(V) /\ two.pc = "fetching"
      BY <3>2, <3>3 DEF CallType
    <3>5. new = [two EXCEPT !.attempt = Len(attempts) + 1]
      BY <1>3, <3>1, <3>3
    <3>6. QED
      BY <1>4, <3>4, <3>5 DEF CallType
  <2>2. calls' = [calls EXCEPT ![c] = new]
    BY <1>3, <1>4 DEF Begin, LockInv, Typed, CallType
  <2>3. QED
    BY <2>1, <2>2 DEF LockInv, Typed, Moves
<1>6. /\ attempts' \in Seq(AttemptType(V))
      /\ Len(attempts') = Len(attempts) + 1
      /\ \A i \in 1..Len(attempts) : attempts'[i] = attempts[i]
  <2>1. [feed |-> calls[c].feed, status |-> "RUNNING"] \in AttemptType(V)
    BY <1>4 DEF AttemptType, CallType
  <2>2. QED
    BY <2>1 DEF Begin, LockInv, Typed
<1>7. QueueOfBusy' /\ HolderLeads'
  BY <1>1, <1>2, <1>5, StaysInQueue DEF Holding
<1>8. NewestRuns'
  <2>1. \A d \in Coroutines : calls[d].pc # "fetching"
    BY <1>1, <1>2, OthersWait DEF Holding
  <2>2. \A i \in 1..Len(attempts) : attempts'[i].status # "RUNNING"
    BY <1>6, <2>1 DEF LockInv, NewestRuns
  <2>3. \A i \in 1..Len(attempts') : attempts'[i].status = "RUNNING" => i = Len(attempts')
    BY <1>4, <1>6, <2>2
  <2>4. \A d \in Coroutines : calls'[d].pc = "fetching" => d = c
    BY <1>5, <2>1 DEF Moves
  <2>5. QED
    BY <1>4, <1>5, <1>6, <2>3, <2>4 DEF NewestRuns, Moves
<1>9. QED
  BY <1>1, <1>5, <1>6, <1>7, <1>8 DEF LockKept, LockInv, Typed

\* The provider answered or failed: the attempt that ran has its outcome.
LEMMA SettleKeeps ==
  ASSUME NEW V, LockInv(V), NEW c \in Coroutines, NEW status \in {"SUCCEEDED", "FAILED"},
         Cardinality(DOMAIN index') \in V, calls[c].pc = "fetching", Settle(c, status)
  PROVE  LockKept'
<1>1. queue # <<>> /\ queue[1] = c /\ UNCHANGED queue
  BY DEF LockInv, HolderLeads, Holding, Settle
<1>2. PICK new : new = [calls[c] EXCEPT !.pc = "clearing", !.size = Cardinality(DOMAIN index')]
  OBVIOUS
<1>3. calls' \in [Coroutines -> CallType(V)] /\ Moves(c, "clearing")
  <2>1. calls[c] \in CallType(V)
    BY DEF LockInv, Typed
  <2>2. new \in CallType(V) /\ new.pc = "clearing"
    BY <1>2, <2>1 DEF CallType, Steps, Holding
  <2>3. calls' = [calls EXCEPT ![c] = new]
    BY <1>2, <2>1 DEF Settle, LockInv, Typed, CallType
  <2>4. QED
    BY <2>2, <2>3 DEF LockInv, Typed, Moves
<1>4. calls[c].attempt = Len(attempts) /\ Len(attempts) \in Nat /\ Len(attempts) > 0
  BY DEF LockInv, Typed, NewestRuns
<1>5. /\ attempts' \in Seq(AttemptType(V))
      /\ Len(attempts') = Len(attempts)
      /\ attempts'[Len(attempts)].status = status
      /\ \A i \in 1..Len(attempts) : i # Len(attempts) => attempts'[i] = attempts[i]
  <2>1. PICK done : done = [attempts[Len(attempts)] EXCEPT !.status = status]
    OBVIOUS
  <2>2. attempts' = [attempts EXCEPT ![Len(attempts)] = done]
    BY <1>4, <2>1 DEF Settle
  <2>3. attempts \in Seq(AttemptType(V)) /\ attempts[Len(attempts)] \in AttemptType(V)
    BY <1>4 DEF LockInv, Typed
  <2>4. done \in AttemptType(V) /\ done.status = status
    BY <2>1, <2>3 DEF AttemptType
  <2>5. QED
    BY <1>4, <2>2, <2>3, <2>4
<1>6. QueueOfBusy' /\ HolderLeads'
  BY <1>1, <1>3, StaysInQueue DEF Holding
<1>7. NewestRuns'
  <2>1. \A d \in Coroutines : calls'[d].pc # "fetching"
    BY <1>1, <1>3, OthersWait DEF Moves, Holding
  <2>2. \A i \in 1..Len(attempts') : attempts'[i].status # "RUNNING"
    BY <1>4, <1>5 DEF LockInv, NewestRuns
  <2>3. QED
    BY <2>1, <2>2 DEF NewestRuns
<1>8. QED
  BY <1>1, <1>3, <1>5, <1>6, <1>7 DEF LockKept, LockInv, Typed

\* The flags are cleared, and the snapshot is next.
LEMMA ClearedKeeps ==
  ASSUME NEW V, LockInv(V), NEW c \in Coroutines, calls[c].pc = "clearing",
         Goto(c, "assembling"), UNCHANGED <<queue, attempts>>
  PROVE  LockKept'
<1>1. queue # <<>> /\ queue[1] = c
  BY DEF LockInv, HolderLeads, Holding
<1>2. calls' \in [Coroutines -> CallType(V)] /\ Moves(c, "assembling")
  BY DEF Goto, LockInv, Typed, CallType, Steps, Holding, Moves
<1>3. QueueOfBusy' /\ HolderLeads'
  BY <1>1, <1>2, StaysInQueue DEF Holding
<1>4. NewestRuns'
  BY <1>2 DEF LockInv, NewestRuns, Moves
<1>5. QED
  BY <1>2, <1>3, <1>4 DEF LockKept, LockInv, Typed

\* The coroutine that leads the queue leaves it, and the lock is the next one's.
LEMMA LeaveKeeps ==
  ASSUME NEW V, LockInv(V), NEW c \in Coroutines, {"none", 0} \subseteq V,
         calls[c].pc \in {"clearing", "assembling"}, Leave(c), UNCHANGED attempts
  PROVE  LockKept'
<1>1. queue # <<>> /\ queue[1] = c
  BY DEF LockInv, HolderLeads, Holding
<1>2. Idle \in CallType(V) /\ Idle.pc = "idle"
  BY DEF Idle, CallType, Steps
<1>3. calls' \in [Coroutines -> CallType(V)] /\ Moves(c, "idle")
  BY <1>2 DEF Leave, LockInv, Typed, Moves
<1>4. attempts' \in Seq(AttemptType(V))
  BY DEF LockInv, Typed
<1>5. /\ queue' \in Seq(Coroutines) /\ Len(queue') = Len(queue) - 1 /\ Len(queue) \in Nat
      /\ \A i \in 1..Len(queue') : queue'[i] = queue[i + 1] /\ i + 1 \in 1..Len(queue)
      /\ \A i \in 1..Len(queue) : queue[i] \in Coroutines
  BY <1>1 DEF Leave, LockInv, Typed
<1>6. QueueOfBusy'
  <2>1. \A i, j \in 1..Len(queue') : queue'[i] = queue'[j] => i = j
    BY <1>5 DEF LockInv, QueueOfBusy
  <2>2. ASSUME NEW i \in 1..Len(queue') PROVE calls'[queue'[i]].pc # "idle"
    <3>1. queue[i + 1] # c
      BY <1>1, <1>5 DEF LockInv, QueueOfBusy
    <3>2. QED
      BY <1>3, <1>5, <3>1 DEF LockInv, QueueOfBusy, Moves
  <2>3. ASSUME NEW d \in Coroutines, calls'[d].pc # "idle"
        PROVE  \E i \in 1..Len(queue') : queue'[i] = d
    <3>1. d # c /\ calls[d].pc # "idle"
      BY <1>3, <2>3 DEF Moves
    <3>2. PICK i \in 1..Len(queue) : queue[i] = d
      BY <3>1 DEF LockInv, QueueOfBusy
    <3>3. i # 1
      BY <1>1, <3>1, <3>2
    <3>4. i - 1 \in 1..Len(queue') /\ (i - 1) + 1 = i
      BY <1>5, <3>3
    <3>5. QED
      BY <1>5, <3>2, <3>4
  <2>4. QED
    BY <2>1, <2>2, <2>3 DEF QueueOfBusy
<1>7. \A d \in Coroutines : calls'[d].pc \notin Holding
  BY <1>1, <1>3, OthersWait DEF Moves, Holding
<1>8. NewestRuns'
  <2>1. \A d \in Coroutines : calls[d].pc # "fetching"
    BY <1>1, OthersWait DEF Holding
  <2>2. QED
    BY <1>7, <2>1 DEF LockInv, NewestRuns, Holding
<1>9. QED
  BY <1>3, <1>4, <1>5, <1>6, <1>7, <1>8 DEF LockKept, LockInv, Typed, HolderLeads

----------------------------------------------------------------------------
\* No step of a coroutine or of a thread breaks the order at the lock.
LEMMA LockStep ==
  ASSUME LockKept, [PipelineNext]_pipelineVars
  PROVE  LockKept'
<1>1. PICK V0 : LockInv(V0)
  BY DEF LockKept
<1>a. PICK more : more = Feeds \cup {"none", "in", "out", 0, clock, Cardinality(DOMAIN index')}
  OBVIOUS
<1>b. PICK V : LockInv(V) /\ more \subseteq V
  BY <1>1, Widened
<1>0. /\ LockInv(V) /\ Feeds \subseteq V /\ {"none", "in", "out", 0} \subseteq V
      /\ clock \in V /\ Cardinality(DOMAIN index') \in V
  BY <1>a, <1>b
<1>2. CASE UNCHANGED <<queue, calls, attempts>>
  <2>1. LockInv(V)'
    BY <1>0, <1>2 DEF LockInv, Typed, QueueOfBusy, HolderLeads, NewestRuns
  <2>2. QED
    BY <2>1 DEF LockKept
<1>3. CASE Bootstrap
  <2>1. Main \in Coroutines
    BY DEF Coroutines
  <2>2. PICK i \in ToLoad : Enqueue(Main, BootstrapFeeds[i], "none") /\ UNCHANGED attempts
    BY <1>3 DEF Bootstrap
  <2>3. BootstrapFeeds[i] \in Feeds
    BY DEF ToLoad
  <2>4. QED
    BY <1>0, <2>1, <2>2, <2>3, EnqueueKeeps
<1>4. ASSUME NEW c \in Clients, NEW f \in Feeds, NEW override \in Overrides[f],
             Request(c, f, override)
      PROVE  LockKept'
  <2>1. c \in Coroutines /\ override \in {"none", "in", "out"}
    BY PipelineAssumption DEF Coroutines
  <2>2. QED
    BY <1>0, <1>4, <2>1, EnqueueKeeps DEF Request
<1>5. ASSUME NEW c \in Coroutines, Refresh(c)
      PROVE  LockKept'
  <2>1. CASE Begin(c)
    BY <1>0, <2>1, BeginKeeps
  <2>2. ASSUME NEW outcome \in Outcomes, Fetched(c, outcome)
        PROVE  LockKept'
    BY <1>0, <2>2, SettleKeeps DEF Fetched
  <2>3. CASE FetchFails(c)
    BY <1>0, <2>3, SettleKeeps DEF FetchFails
  <2>4. CASE ClearFlags(c)
    BY <1>0, <2>4, ClearedKeeps, LeaveKeeps DEF ClearFlags
  <2>5. CASE Assemble(c)
    BY <1>0, <2>5, LeaveKeeps DEF Assemble
  <2>6. QED
    BY <1>5, <2>1, <2>2, <2>3, <2>4, <2>5 DEF Refresh
<1>6. QED
  BY <1>2, <1>3, <1>4, <1>5 DEF PipelineNext, pipelineVars, lineageVars, Tick, Initialise,
     PublishSnapshot, PublishValues, Restore, Derive

\* At the start nobody waits for the lock.
LEMMA LockStarts == PipelineInit => LockKept
<1> SUFFICES ASSUME PipelineInit PROVE LockInv({"none", 0})
  BY DEF LockKept
<1>1. /\ queue = <<>> /\ attempts = <<>>
      /\ calls = [c \in Coroutines |-> [pc |-> "idle", feed |-> "none", override |-> "none",
                                        at |-> 0, attempt |-> 0, size |-> 0]]
  BY DEF PipelineInit, Idle
<1>2. QED
  BY <1>1 DEF LockInv, Typed, QueueOfBusy, HolderLeads, NewestRuns, CallType, Steps, Holding

\* The refreshes exclude one another, also while a provider is awaited: at most one attempt is
\* logged as running, the newest, and its coroutine holds the lock.
THEOREM OneAttemptRunsHolds == PipelineSpec => []OneAttemptRuns
<1>1. LockKept => OneAttemptRuns
  <2> SUFFICES ASSUME LockKept, NEW i \in 1..Len(attempts), attempts[i].status = "RUNNING"
               PROVE  /\ i = Len(attempts)
                      /\ \E c \in Coroutines : /\ calls[c].pc = "fetching"
                                               /\ calls[c].attempt = i /\ Head(queue) = c
    BY DEF OneAttemptRuns
  <2>1. PICK V : LockInv(V)
    BY DEF LockKept
  <2>2. PICK c \in Coroutines : calls[c].pc = "fetching"
    BY <2>1 DEF LockInv, NewestRuns
  <2>3. i = Len(attempts) /\ calls[c].attempt = i
    BY <2>1, <2>2 DEF LockInv, NewestRuns
  <2>4. queue # <<>> /\ queue[1] = c /\ queue \in Seq(Coroutines)
    BY <2>1, <2>2 DEF LockInv, HolderLeads, Holding, Typed
  <2>5. QED
    BY <2>2, <2>3, <2>4
<1>2. QED
  BY <1>1, LockStarts, LockStep, PTL DEF PipelineSpec

----------------------------------------------------------------------------
\* The snapshots

Copied ==
  /\ \E S : snapshots \in Seq(S)
  /\ \A s \in FeedSnapshots : snapshots[s].values \subseteq DOMAIN snapshots[s].copies

\* Snapshots are added at the end.
LEMMA Grows ==
  ASSUME Copied, NEW e, snapshots' = Append(snapshots, e)
  PROVE  /\ Len(snapshots) \in Nat /\ DOMAIN snapshots = 1..Len(snapshots)
         /\ DOMAIN snapshots' = 1..(Len(snapshots) + 1)
         /\ \A s \in DOMAIN snapshots : snapshots'[s] = snapshots[s]
         /\ snapshots'[Len(snapshots) + 1] = e
         /\ \E S : snapshots' \in Seq(S)
<1>1. PICK S : snapshots \in Seq(S)
  BY DEF Copied
<1>2. PICK T : T = S \cup {e}
  OBVIOUS
<1>3. snapshots \in Seq(T) /\ e \in T
  BY <1>1, <1>2
<1>4. QED
  BY <1>3

\* What a step does to the snapshots: nothing, or one more, which if it is built from the feeds
\* has a copy of each value.
LEMMA OneMoreOrNone ==
  ASSUME [PipelineNext]_pipelineVars
  PROVE  \/ snapshots' = snapshots
         \/ \E e : /\ snapshots' = Append(snapshots, e)
                   /\ e.by = "feeds" => e.values \subseteq DOMAIN e.copies
<1>1. ASSUME NEW n PROVE RollingSnapshot(n).by # "feeds"
  BY DEF RollingSnapshot
<1>2. CASE Initialise
  BY <1>1, <1>2 DEF Initialise
<1>3. CASE PublishSnapshot
  BY <1>1, <1>3 DEF PublishSnapshot
<1>4. ASSUME NEW c \in Coroutines, Assemble(c)
      PROVE  \E e : /\ snapshots' = Append(snapshots, e)
                    /\ e.by = "feeds" => e.values \subseteq DOMAIN e.copies
  <2> DEFINE n == Len(snapshots) + 1
             used == UNION {Usable(f) : f \in Used}
             e == [by |-> "feeds", asOf |-> clock, values |-> used, copies |-> Copies(n),
                   status |-> SnapshotStatus, optimiser |-> OptimiserStatus]
  <2>1. snapshots' = Append(snapshots, e)
    BY <1>4 DEF Assemble
  <2>2. DOMAIN Copies(n) = used
    BY DEF Copies
  <2>3. e.values \subseteq DOMAIN e.copies
    BY <2>2
  <2>4. QED
    BY <2>1, <2>3
<1>5. ASSUME NEW c \in Coroutines, Refresh(c), ~Assemble(c)
      PROVE  snapshots' = snapshots
  <2>1. Begin(c) \/ FetchFails(c) \/ ClearFlags(c) => snapshots' = snapshots
    BY DEF Begin, FetchFails, ClearFlags, Settle, lineageVars
  <2>2. ASSUME NEW outcome \in Outcomes, Fetched(c, outcome)
        PROVE  snapshots' = snapshots
    BY <2>2 DEF Fetched, Settle
  <2>3. QED
    BY <1>5, <2>1, <2>2 DEF Refresh
<1>6. QED
  BY <1>2, <1>3, <1>4, <1>5 DEF PipelineNext, pipelineVars, lineageVars, Tick, Bootstrap, Request,
     PublishValues, Restore, Derive

\* A snapshot is built with its copies, and no step takes one of them away.
LEMMA CopiedStep ==
  ASSUME Copied, [PipelineNext]_pipelineVars
  PROVE  Copied'
<1>1. CASE snapshots' = snapshots
  BY <1>1 DEF Copied, FeedSnapshots
<1>2. ASSUME NEW e, snapshots' = Append(snapshots, e),
             e.by = "feeds" => e.values \subseteq DOMAIN e.copies
      PROVE  Copied'
  <2>1. \A s \in DOMAIN snapshots' : s \in DOMAIN snapshots \/ s = Len(snapshots) + 1
    BY <1>2, Grows
  <2>2. \A s \in FeedSnapshots' : snapshots'[s].values \subseteq DOMAIN snapshots'[s].copies
    BY <1>2, <2>1, Grows DEF Copied, FeedSnapshots
  <2>3. QED
    BY <1>2, <2>2, Grows DEF Copied
<1>3. QED
  BY <1>1, <1>2, OneMoreOrNone

\* A snapshot built from the feeds never changes once it is shown: it lives on its own copies.
THEOREM FeedSnapshotsFrozenHolds == PipelineSpec => FeedSnapshotsFrozen
<1>1. PipelineInit => Copied
  BY DEF PipelineInit, Copied, FeedSnapshots
<1>2. Copied /\ [PipelineNext]_pipelineVars => Copied'
  BY CopiedStep
<1>3. Copied /\ [PipelineNext]_pipelineVars =>
        [\A s \in FeedSnapshots : \A id \in snapshots[s].values :
           ShownValue(s, id)' = ShownValue(s, id)]_pipelineVars
  <2> SUFFICES ASSUME Copied, [PipelineNext]_pipelineVars, NEW s \in FeedSnapshots,
                      NEW id \in snapshots[s].values
               PROVE  ShownValue(s, id)' = ShownValue(s, id)
    OBVIOUS
  <2>1. s \in DOMAIN snapshots /\ id \in DOMAIN snapshots[s].copies
    BY DEF Copied, FeedSnapshots
  <2>2. snapshots'[s] = snapshots[s]
    BY <2>1, OneMoreOrNone, Grows
  <2>3. QED
    BY <2>1, <2>2 DEF ShownValue
<1>4. QED
  BY <1>1, <1>2, <1>3, PTL DEF PipelineSpec, FeedSnapshotsFrozen

----------------------------------------------------------------------------
\* The marks of the lineage index

Unsettled == \E c \in Coroutines : calls[c].pc = "assembling"

CarriesFeed ==
  \A c \in Coroutines :
    /\ calls[c].pc # "idle" => calls[c].feed \in Feeds
    /\ calls[c].pc = "fetching" => calls[c].at \in Nat

PointFields == {"passed", "quality", "mode", "retrieved", "included", "snap"}

\* What names a point or a snapshot names one that is there.
PointsListed ==
  /\ \A id \in DOMAIN index : DOMAIN index[id] = PointFields
  /\ \A f \in Feeds : \A id \in points[f] : id \in DOMAIN index /\ id.kind = f
  /\ \A id \in DOMAIN index : id.kind = "rolling" => id.n \in DOMAIN snapshots
  /\ rolling \in {None} \cup DOMAIN snapshots
  /\ publishing \in {None} \cup DOMAIN snapshots
  /\ \A s \in DOMAIN snapshots : snapshots[s].by \in {"feeds", "rolling"}
  /\ \A s \in FeedSnapshots : \A id \in snapshots[s].values :
       id \in DOMAIN index /\ id.kind \in Feeds
  /\ \A s \in Published : snapshots[s].values = {PointId("rolling", s)}

\* While a snapshot is assembled no feed's point is marked; once it is built, exactly its own are.
FeedMarks ==
  \A id \in DOMAIN index : id.kind \in Feeds =>
    /\ Unsettled => index[id].included = FALSE
    /\ ~Building /\ ~torn =>
         \A s \in FeedSnapshots : (\A other \in FeedSnapshots : other <= s) =>
           /\ index[id].included = (id \in snapshots[s].values)
           /\ index[id].included => index[id].snap = s

\* The values of a publication that is the newest snapshot are there, or about to be put there.
RollingMarks ==
  Len(snapshots) \in Published =>
    LET id == PointId("rolling", Len(snapshots)) IN
      /\ id \notin DOMAIN index => publishing = Len(snapshots)
      /\ id \in DOMAIN index /\ ~torn /\ ~Unsettled =>
           index[id].included /\ index[id].snap = Len(snapshots)

MarksOK == CarriesFeed /\ PointsListed /\ FeedMarks /\ RollingMarks

HealthType ==
  [quality : {"FRESH", "STALE", "INVALID", "MISSING"}, last : Int, included : BOOLEAN]

\* What a point tells of its feed is what the health of the feed tells.
PointsTellHealth ==
  /\ clock \in Nat /\ DOMAIN points = Feeds
  /\ health \in [Feeds -> HealthType]
  /\ \A f \in Feeds : \A id \in points[f] :
       /\ health[f].last \in Nat
       /\ index[id].retrieved = health[f].last
       /\ index[id].quality = health[f].quality
       /\ index[id].quality \in {"FRESH", "INVALID", "STALE"}
       /\ index[id].quality = "FRESH" => index[id].passed
       /\ index[id].mode = "LATEST_AVAILABLE" => index[id].quality = "STALE"
       /\ index[id].mode = "LIVE" => index[id].quality # "STALE"
       /\ index[id].mode \in {Adapter[f].mode, "LATEST_AVAILABLE"}

\* What the adapters say of themselves: a source is never one that was good once, and no feed has
\* the name of a publication or of a derived value.
LEMMA AdapterFacts ==
  ASSUME NEW f \in Feeds
  PROVE  Adapter[f].mode # "LATEST_AVAILABLE" /\ f # "rolling" /\ f # "derived"
<1>1. f \in DOMAIN Adapter
  BY PipelineAssumption
<1>2. \/ f = "elexon_system" \/ f = "neso_system" \/ f = "forecast_sample"
      \/ f = "portfolio_position_sample" \/ f = "battery_telemetry_sample"
      \/ f = "battery_config_sample" \/ f = "market_intraday" \/ f = "market_order_book_sample"
      \/ f = "service_commitments_sample" \/ f = "optionality_assumptions_sample"
      \/ f = "synthetic_demo"
  BY <1>1 DEF Adapter
<1>3. Adapter[f].mode \in {"LIVE", "SAMPLE", "ERROR", "SYNTHETIC"}
  <2>1. ASSUME NEW mode, NEW sla, NEW outcomes
        PROVE  /\ Feed(mode, sla, outcomes).mode = mode
               /\ Optional(Feed(mode, sla, outcomes)).mode = mode
               /\ Required(Feed(mode, sla, outcomes)).mode = mode
               /\ Optional(ForOptimiser(Feed(mode, sla, outcomes))).mode = mode
    BY DEF Feed, Optional, Required, ForOptimiser
  <2>2. QED
    BY <1>2, <2>1 DEF Adapter, ElexonSystem, NesoSystem, SampleForecast, SamplePosition,
       SampleBattery, SampleLimits, SampleServices, SampleOptionality, SampleOrderBook,
       UnconfiguredMarket, ExplicitSynthetic
<1>4. QED
  BY <1>2, <1>3

----------------------------------------------------------------------------
\* Nobody else is past the lock.
LEMMA Alone ==
  ASSUME LockKept, NEW c \in Coroutines, calls[c].pc \in Holding,
         NEW d \in Coroutines, d # c
  PROVE  calls[d].pc \notin Holding
<1>1. PICK V : LockInv(V)
  BY DEF LockKept
<1>2. queue[1] = c
  BY <1>1 DEF LockInv, HolderLeads
<1>3. QED
  BY <1>1, <1>2, OthersWait

\* A step of a coroutine that neither comes to the build nor leaves it changes no mark.
LEMMA QuietMarks ==
  ASSUME MarksOK, CarriesFeed', UNCHANGED <<lineageVars, publishing, torn>>,
         \A d \in Coroutines : \A pc \in {"clearing", "assembling"} :
           calls'[d].pc = pc <=> calls[d].pc = pc
  PROVE  MarksOK'
<1>1. Building' = Building /\ Unsettled' = Unsettled
  BY DEF Building, Unsettled
<1>2. PointsListed' /\ FeedMarks' /\ RollingMarks'
  BY <1>1 DEF MarksOK, PointsListed, FeedMarks, RollingMarks, lineageVars, FeedSnapshots, Published
<1>3. QED
  BY <1>2 DEF MarksOK

\* A coroutine asks for the lock.
LEMMA EnqueueMarks ==
  ASSUME LockKept, MarksOK, NEW c \in Coroutines, NEW f \in Feeds, NEW override,
         Enqueue(c, f, override), UNCHANGED <<lineageVars, publishing, torn>>
  PROVE  MarksOK'
<1>1. PICK V : LockInv(V)
  BY DEF LockKept
<1>2. PICK new : new = [Idle EXCEPT !.pc = "waiting", !.feed = f, !.override = override]
  OBVIOUS
<1>3. new.pc = "waiting" /\ new.feed = f
  BY <1>2 DEF Idle
<1>4. calls' = [calls EXCEPT ![c] = new]
  BY <1>2 DEF Enqueue
<1>5. calls'[c] = new /\ \A d \in Coroutines : d # c => calls'[d] = calls[d]
  BY <1>1, <1>4 DEF LockInv, Typed
<1>6. CarriesFeed'
  BY <1>3, <1>5 DEF MarksOK, CarriesFeed
<1>7. \A d \in Coroutines : \A pc \in {"clearing", "assembling"} :
        calls'[d].pc = pc <=> calls[d].pc = pc
  BY <1>3, <1>5 DEF Enqueue
<1>8. QED
  BY <1>6, <1>7, QuietMarks

\* The lock is acquired, at the clock's time.
LEMMA BeginMarks ==
  ASSUME LockKept, MarksOK, clock \in Nat, NEW c \in Coroutines, Begin(c)
  PROVE  MarksOK'
<1>1. PICK V : LockInv(V)
  BY DEF LockKept
<1>2. calls[c] \in CallType(V) /\ calls[c].pc = "waiting"
  BY <1>1 DEF LockInv, Typed, Begin
<1>3. PICK new : new = [calls[c] EXCEPT !.pc = "fetching", !.at = clock,
                                        !.attempt = Len(attempts) + 1]
  OBVIOUS
<1>4. new.pc = "fetching" /\ new.at = clock /\ new.feed = calls[c].feed
  BY <1>2, <1>3 DEF CallType
<1>5. calls' = [calls EXCEPT ![c] = new]
  BY <1>1, <1>3 DEF Begin, LockInv, Typed, CallType
<1>6. calls'[c] = new /\ \A d \in Coroutines : d # c => calls'[d] = calls[d]
  BY <1>1, <1>5 DEF LockInv, Typed
<1>7. CarriesFeed'
  BY <1>2, <1>4, <1>6 DEF MarksOK, CarriesFeed
<1>8. \A d \in Coroutines : \A pc \in {"clearing", "assembling"} :
        calls'[d].pc = pc <=> calls[d].pc = pc
  BY <1>2, <1>4, <1>6
<1>9. QED
  BY <1>7, <1>8, QuietMarks DEF Begin

\* The provider has answered or failed, and the build begins: what is left to see is that the
\* entries of publications are the same and that the newest points of the feed are listed.
LEMMA SettleMarks ==
  ASSUME LockKept, MarksOK, NEW c \in Coroutines, calls[c].pc = "fetching",
         NEW status, Settle(c, status),
         DOMAIN index \subseteq DOMAIN index',
         \A id \in DOMAIN index' : DOMAIN index'[id] = PointFields,
         \A id \in DOMAIN index' : id.kind \notin Feeds =>
           /\ id \in DOMAIN index
           /\ index'[id].included = index[id].included /\ index'[id].snap = index[id].snap,
         \A f \in Feeds : \A id \in points'[f] : id \in DOMAIN index' /\ id.kind = f
  PROVE  MarksOK'
<1>1. PICK V : LockInv(V)
  BY DEF LockKept
<1>2. PICK new : new = [calls[c] EXCEPT !.pc = "clearing", !.size = Cardinality(DOMAIN index')]
  OBVIOUS
<1>3. calls[c] \in CallType(V)
  BY <1>1 DEF LockInv, Typed
<1>4. new.pc = "clearing" /\ new.feed = calls[c].feed
  BY <1>2, <1>3 DEF CallType
<1>5. calls' = [calls EXCEPT ![c] = new]
  BY <1>1, <1>2 DEF Settle, LockInv, Typed, CallType
<1>6. calls'[c] = new /\ \A d \in Coroutines : d # c => calls'[d] = calls[d]
  BY <1>1, <1>5 DEF LockInv, Typed
<1>7. CarriesFeed'
  BY <1>4, <1>6 DEF MarksOK, CarriesFeed
<1>8. Building' /\ ~Unsettled' /\ ~Unsettled
  <2>1. \A d \in Coroutines : d # c => calls[d].pc \notin Holding
    BY Alone DEF Holding
  <2>2. QED
    BY <1>4, <1>6, <2>1 DEF Building, Unsettled, Holding
<1>9. /\ UNCHANGED <<snapshots, rolling, publishing, torn>>
      /\ FeedSnapshots' = FeedSnapshots /\ Published' = Published
  BY DEF Settle, FeedSnapshots, Published
<1>10. \A id \in DOMAIN index' : id.kind = "rolling" => id \in DOMAIN index
  BY AdapterFacts
<1>11. PointsListed'
  BY <1>9, <1>10 DEF MarksOK, PointsListed
<1>12. FeedMarks'
  BY <1>8 DEF FeedMarks
<1>13. RollingMarks'
  <2> SUFFICES ASSUME Len(snapshots) \in Published
               PROVE  LET id == PointId("rolling", Len(snapshots)) IN
                        /\ id \notin DOMAIN index' => publishing = Len(snapshots)
                        /\ id \in DOMAIN index' /\ ~torn =>
                             index'[id].included /\ index'[id].snap = Len(snapshots)
    BY <1>9 DEF RollingMarks
  <2>1. PICK id : id = PointId("rolling", Len(snapshots))
    OBVIOUS
  <2>2. id.kind = "rolling" /\ "rolling" \notin Feeds
    BY <2>1, AdapterFacts DEF PointId
  <2>3. /\ id \notin DOMAIN index => publishing = Len(snapshots)
        /\ id \in DOMAIN index /\ ~torn =>
             index[id].included /\ index[id].snap = Len(snapshots)
    BY <1>8, <2>1 DEF MarksOK, RollingMarks
  <2>4. QED
    BY <2>1, <2>2, <2>3
<1>14. QED
  BY <1>7, <1>11, <1>12, <1>13 DEF MarksOK

\* The provider answered: a new point is listed.
LEMMA FetchedMarks ==
  ASSUME LockKept, MarksOK, NEW c \in Coroutines, NEW outcome, Fetched(c, outcome)
  PROVE  MarksOK'
<1>1. PICK f, id, point : /\ f = calls[c].feed /\ id = PointId(f, calls[c].attempt)
                          /\ point = NewPoint(c, outcome)
  OBVIOUS
<1>2. f \in Feeds /\ id.kind = f
  BY <1>1 DEF Fetched, MarksOK, CarriesFeed, PointId
<1>3. index' = Indexed(id, point) /\ points' = [points EXCEPT ![f] = {id}]
  BY <1>1 DEF Fetched
<1>4. /\ DOMAIN index' = DOMAIN index \cup {id}
      /\ \A i \in DOMAIN index : i # id => index'[i] = index[i]
  BY <1>3 DEF Indexed
<1>5. \A g \in Feeds : \A i \in points'[g] : i \in DOMAIN index' /\ i.kind = g
  <2>1. ASSUME NEW g \in Feeds, NEW i \in points'[g]
        PROVE  i \in DOMAIN index' /\ i.kind = g
    <3>1. CASE f \notin DOMAIN points \/ g # f
      BY <1>3, <1>4, <2>1, <3>1 DEF MarksOK, PointsListed
    <3>2. CASE f \in DOMAIN points /\ g = f
      BY <1>2, <1>3, <1>4, <2>1, <3>2
    <3>3. QED
      BY <3>1, <3>2
  <2>2. QED
    BY <2>1
<1>6. \A i \in DOMAIN index' : i.kind \notin Feeds => i \in DOMAIN index /\ index'[i] = index[i]
  BY <1>2, <1>4
<1>7. \A i \in DOMAIN index' : DOMAIN index'[i] = PointFields
  <2>1. DOMAIN point = PointFields
    BY <1>1 DEF NewPoint, PointFields
  <2>2. index'[id] = point
    BY <1>3 DEF Indexed
  <2>3. QED
    BY <1>4, <2>1, <2>2 DEF MarksOK, PointsListed
<1>8. QED
  BY <1>4, <1>5, <1>6, <1>7, SettleMarks DEF Fetched

\* The provider failed: the newest points of the feed are stale now.
LEMMA FailedMarks ==
  ASSUME LockKept, MarksOK, NEW c \in Coroutines, FetchFails(c)
  PROVE  MarksOK'
<1>1. PICK f : f = calls[c].feed
  OBVIOUS
<1>2. f \in Feeds
  BY <1>1 DEF FetchFails, MarksOK, CarriesFeed
<1>3. index' = MarkStale(f) /\ UNCHANGED points
  BY <1>1 DEF FetchFails
<1>4. /\ DOMAIN index' = DOMAIN index
      /\ \A i \in DOMAIN index : i \notin points[f] => index'[i] = index[i]
  BY <1>3 DEF MarkStale
<1>5. \A g \in Feeds : \A i \in points'[g] : i \in DOMAIN index' /\ i.kind = g
  BY <1>3, <1>4 DEF MarksOK, PointsListed
<1>6. \A i \in DOMAIN index' : i.kind \notin Feeds => i \in DOMAIN index /\ index'[i] = index[i]
  BY <1>2, <1>4 DEF MarksOK, PointsListed
<1>7. \A i \in DOMAIN index' : DOMAIN index'[i] = PointFields
  BY <1>3 DEF MarkStale, MarksOK, PointsListed
<1>8. QED
  BY <1>4, <1>5, <1>6, <1>7, SettleMarks DEF FetchFails

\* The marks are taken off every entry, or the build is broken off.
LEMMA ClearMarks ==
  ASSUME LockKept, MarksOK, NEW c \in Coroutines, ClearFlags(c)
  PROVE  MarksOK'
<1>1. PICK V : LockInv(V)
  BY DEF LockKept
<1>2. PICK ids : index' = Unmarked(ids) /\ (Goto(c, "assembling") => ids = DOMAIN index)
  <2>1. CASE Goto(c, "assembling") /\ index' = Unmarked(DOMAIN index)
    BY <2>1
  <2>2. CASE Leave(c) /\ \E ids : index' = Unmarked(ids)
    <3>1. ~Goto(c, "assembling")
      BY <1>1, <2>2 DEF Goto, Leave, Idle, LockInv, Typed, CallType
    <3>2. QED
      BY <2>2, <3>1
  <2>3. QED
    BY <2>1, <2>2 DEF ClearFlags
<1>3. /\ DOMAIN index' = DOMAIN index
      /\ \A id \in DOMAIN index : DOMAIN index'[id] = PointFields
      /\ \A id \in ids \cap DOMAIN index : index'[id].included = FALSE
  BY <1>2 DEF Unmarked, MarksOK, PointsListed, PointFields
<1>4. calls[c] \in CallType(V) /\ calls[c].pc = "clearing"
  BY <1>1 DEF LockInv, Typed, ClearFlags
<1>5. PICK new : /\ calls' = [calls EXCEPT ![c] = new]
                 /\ \/ new.pc = "idle" /\ torn' = TRUE
                    \/ new.pc = "assembling" /\ new.feed = calls[c].feed /\ Goto(c, "assembling")
  <2>1. CASE Goto(c, "assembling")
    <3>1. PICK new : new = [calls[c] EXCEPT !.pc = "assembling"]
      OBVIOUS
    <3>2. new.pc = "assembling" /\ new.feed = calls[c].feed
      BY <1>4, <3>1 DEF CallType
    <3>3. calls' = [calls EXCEPT ![c] = new]
      BY <2>1, <3>1 DEF Goto
    <3>4. QED
      BY <2>1, <3>2, <3>3
  <2>2. CASE Leave(c) /\ torn' = TRUE
    <3>1. Idle.pc = "idle"
      BY DEF Idle
    <3>2. calls' = [calls EXCEPT ![c] = Idle]
      BY <2>2 DEF Leave
    <3>3. QED
      BY <2>2, <3>1, <3>2
  <2>3. QED
    BY <2>1, <2>2 DEF ClearFlags
<1>6. calls'[c] = new /\ \A d \in Coroutines : d # c => calls'[d] = calls[d]
  BY <1>1, <1>5 DEF LockInv, Typed
<1>7. CarriesFeed'
  BY <1>4, <1>5, <1>6 DEF MarksOK, CarriesFeed
<1>8. UNCHANGED <<snapshots, rolling, publishing, points>>
  BY DEF ClearFlags
<1>9. FeedSnapshots' = FeedSnapshots /\ Published' = Published
  BY <1>8 DEF FeedSnapshots, Published
<1>10. PointsListed'
  BY <1>3, <1>8, <1>9 DEF MarksOK, PointsListed
<1>11. Unsettled' => ids = DOMAIN index
  <2>1. \A d \in Coroutines : d # c => calls[d].pc \notin Holding
    BY <1>4, Alone DEF Holding
  <2>2. QED
    BY <1>2, <1>5, <1>6, <2>1 DEF Unsettled, Holding
<1>12. torn' \/ (Building' /\ Unsettled')
  BY <1>5, <1>6 DEF Building, Unsettled
<1>13. FeedMarks'
  BY <1>3, <1>11, <1>12 DEF FeedMarks
<1>14. RollingMarks'
  BY <1>3, <1>8, <1>9, <1>12 DEF MarksOK, RollingMarks
<1>15. QED
  BY <1>7, <1>10, <1>13, <1>14 DEF MarksOK

\* The snapshot is built: its points are marked, and no other of a feed is.
LEMMA AssembleMarks ==
  ASSUME LockKept, Copied, MarksOK, NEW c \in Coroutines, Assemble(c)
  PROVE  MarksOK'
<1>1. PICK V : LockInv(V)
  BY DEF LockKept
<1>2. PICK n, used : n = Len(snapshots) + 1 /\ used = UNION {Usable(f) : f \in Used}
  OBVIOUS
<1>3. index' = [id \in DOMAIN index |->
                  IF id \in used THEN [index[id] EXCEPT !.included = TRUE, !.snap = n]
                  ELSE index[id]]
  BY <1>2 DEF Assemble
<1>4. \A id \in used : id \in DOMAIN index /\ id.kind \in Feeds
  BY <1>2 DEF Used, Usable, MarksOK, PointsListed
<1>5. /\ DOMAIN index' = DOMAIN index
      /\ \A id \in DOMAIN index : id \notin used => index'[id] = index[id]
      /\ \A id \in used : /\ DOMAIN index'[id] = PointFields
                          /\ index'[id].included = TRUE /\ index'[id].snap = n
  <2>1. ASSUME NEW id \in used
        PROVE  /\ DOMAIN index'[id] = PointFields
               /\ index'[id].included = TRUE /\ index'[id].snap = n
    <3>1. PICK marked : marked = [index[id] EXCEPT !.included = TRUE]
      OBVIOUS
    <3>2. DOMAIN index[id] = PointFields
      BY <1>4, <2>1 DEF MarksOK, PointsListed
    <3>3. DOMAIN marked = PointFields /\ marked.included = TRUE
      BY <3>1, <3>2 DEF PointFields
    <3>4. index'[id] = [marked EXCEPT !.snap = n]
      BY <1>3, <1>4, <2>1, <3>1
    <3>5. QED
      BY <3>3, <3>4 DEF PointFields
  <2>2. QED
    BY <1>3, <1>4, <2>1
<1>6. PICK e : /\ snapshots' = Append(snapshots, e)
               /\ e.by = "feeds" /\ e.values = used
  <2>1. PICK e : e = [by |-> "feeds", asOf |-> clock, values |-> used, copies |-> Copies(n),
                      status |-> SnapshotStatus, optimiser |-> OptimiserStatus]
    OBVIOUS
  <2>2. snapshots' = Append(snapshots, e)
    BY <1>2, <2>1 DEF Assemble
  <2>3. QED
    BY <2>1, <2>2
<1>7. /\ Len(snapshots) \in Nat /\ DOMAIN snapshots = 1..Len(snapshots)
      /\ DOMAIN snapshots' = 1..n
      /\ \A s \in DOMAIN snapshots : snapshots'[s] = snapshots[s]
      /\ snapshots'[n] = e /\ Len(snapshots') = n
  <2>1. PICK S : snapshots \in Seq(S)
    BY DEF Copied
  <2>2. Len(snapshots') = Len(snapshots) + 1
    BY <1>6, <2>1
  <2>3. QED
    BY <1>2, <1>6, <2>2, Grows
<1>8. /\ \A s \in DOMAIN snapshots' : s \in DOMAIN snapshots \/ s = n
      /\ \A s \in DOMAIN snapshots : s \in DOMAIN snapshots' /\ s < n
      /\ n \in DOMAIN snapshots'
  BY <1>2, <1>7
<1>9. /\ FeedSnapshots' = FeedSnapshots \cup {n}
      /\ Published' = Published /\ n \notin Published'
  BY <1>6, <1>7, <1>8 DEF FeedSnapshots, Published
<1>10. calls[c].pc = "assembling" /\ Unsettled
  BY DEF Assemble, Unsettled
<1>11. calls'[c] = Idle /\ \A d \in Coroutines : d # c => calls'[d] = calls[d]
  BY <1>1 DEF Assemble, Leave, LockInv, Typed
<1>12. ~Building' /\ ~Unsettled'
  <2>1. \A d \in Coroutines : d # c => calls[d].pc \notin Holding
    BY <1>10, Alone DEF Holding
  <2>2. Idle.pc = "idle"
    BY DEF Idle
  <2>3. QED
    BY <1>11, <2>1, <2>2 DEF Building, Unsettled, Holding
<1>13. CarriesFeed'
  BY <1>11 DEF MarksOK, CarriesFeed, Idle
<1>14. PointsListed'
  <2>1. UNCHANGED <<points, rolling, publishing>>
    BY DEF Assemble
  <2>2. \A id \in DOMAIN index' : DOMAIN index'[id] = PointFields
    BY <1>5 DEF MarksOK, PointsListed
  <2>3. \A s \in FeedSnapshots' : \A id \in snapshots'[s].values :
          id \in DOMAIN index' /\ id.kind \in Feeds
    BY <1>4, <1>5, <1>6, <1>7, <1>9 DEF MarksOK, PointsListed, FeedSnapshots
  <2>4. \A s \in Published' : snapshots'[s].values = {PointId("rolling", s)}
    BY <1>7, <1>9 DEF MarksOK, PointsListed, Published
  <2>5. \A s \in DOMAIN snapshots' : snapshots'[s].by \in {"feeds", "rolling"}
    BY <1>6, <1>7, <1>8 DEF MarksOK, PointsListed
  <2>6. QED
    BY <1>5, <1>8, <2>1, <2>2, <2>3, <2>4, <2>5 DEF MarksOK, PointsListed
<1>15. FeedMarks'
  <2> SUFFICES ASSUME NEW id \in DOMAIN index', id.kind \in Feeds, NEW s \in FeedSnapshots',
                      \A other \in FeedSnapshots' : other <= s
               PROVE  /\ index'[id].included = (id \in snapshots'[s].values)
                      /\ index'[id].included => index'[id].snap = s
    BY <1>12 DEF FeedMarks
  <2>1. s = n
    <3>1. n <= s /\ (s \in DOMAIN snapshots \/ s = n)
      BY <1>8, <1>9 DEF FeedSnapshots
    <3>2. QED
      BY <1>7, <1>8, <3>1
  <2>2. snapshots'[s].values = used
    BY <1>6, <1>7, <2>1
  <2>3. CASE id \in used
    BY <1>5, <2>1, <2>2, <2>3
  <2>4. CASE id \notin used
    <3>1. index[id].included = FALSE
      BY <1>5, <1>10 DEF MarksOK, FeedMarks
    <3>2. index'[id].included = FALSE
      BY <1>5, <2>4, <3>1
    <3>3. (id \in snapshots'[s].values) = FALSE
      BY <2>2, <2>4
    <3>4. QED
      BY <3>2, <3>3
  <2>5. QED
    BY <2>3, <2>4
<1>16. RollingMarks'
  BY <1>7, <1>9 DEF RollingMarks
<1>17. QED
  BY <1>13, <1>14, <1>15, <1>16 DEF MarksOK

\* The values of a publication are put into the index: one that is there is put there again.
LEMMA WithRollingFacts ==
  ASSUME PointsListed, NEW s, index' = WithRolling(s)
  PROVE  /\ DOMAIN index' = DOMAIN index \cup {PointId("rolling", s)}
         /\ \A id \in DOMAIN index : index'[id] = index[id]
         /\ \A id \in DOMAIN index' : DOMAIN index'[id] = PointFields
         /\ PointId("rolling", s) \notin DOMAIN index =>
              /\ index'[PointId("rolling", s)].included
              /\ index'[PointId("rolling", s)].snap = s
<1>1. PICK id, point : id = PointId("rolling", s) /\ point = RollingPoint(s)
  OBVIOUS
<1>2. DOMAIN point = PointFields /\ point.included /\ point.snap = s
  BY <1>1 DEF RollingPoint, PointFields
<1>3. CASE id \in DOMAIN index
  BY <1>1, <1>3 DEF WithRolling, PointsListed
<1>4. CASE id \notin DOMAIN index
  <2>1. index' = Indexed(id, point)
    BY <1>1, <1>4 DEF WithRolling
  <2>2. /\ DOMAIN index' = DOMAIN index \cup {id} /\ index'[id] = point
        /\ \A i \in DOMAIN index : index'[i] = index[i]
    BY <1>4, <2>1 DEF Indexed
  <2>3. QED
    BY <1>1, <1>2, <2>2 DEF PointsListed
<1>5. QED
  BY <1>3, <1>4

\* A thread that leaves the points of the feeds and the snapshots built from them alone keeps
\* their marks.
LEMMA ThreadMarks ==
  ASSUME MarksOK, UNCHANGED <<calls, torn, points>>, FeedSnapshots' = FeedSnapshots,
         \A s \in FeedSnapshots : snapshots'[s] = snapshots[s],
         \A id \in DOMAIN index' : id.kind \in Feeds =>
           id \in DOMAIN index /\ index'[id] = index[id]
  PROVE  CarriesFeed' /\ FeedMarks'
<1>1. Building' = Building /\ Unsettled' = Unsettled
  BY DEF Building, Unsettled
<1>2. CarriesFeed'
  BY DEF MarksOK, CarriesFeed
<1>3. FeedMarks'
  BY <1>1 DEF MarksOK, FeedMarks
<1>4. QED
  BY <1>2, <1>3

\* A publication is one more snapshot, and not one that is built from the feeds.
LEMMA OneMorePublished ==
  ASSUME Copied, NEW n, n = Len(snapshots) + 1,
         snapshots' = Append(snapshots, RollingSnapshot(n))
  PROVE  /\ n \in Nat /\ n # None /\ n \notin DOMAIN snapshots /\ n \in DOMAIN snapshots'
         /\ Len(snapshots') = n
         /\ DOMAIN snapshots' = DOMAIN snapshots \cup {n}
         /\ \A s \in DOMAIN snapshots : snapshots'[s] = snapshots[s]
         /\ snapshots'[n].by = "rolling" /\ snapshots'[n].values = {PointId("rolling", n)}
         /\ FeedSnapshots' = FeedSnapshots /\ Published' = Published \cup {n}
<1>1. PICK e : e = RollingSnapshot(n)
  OBVIOUS
<1>2. e.by = "rolling" /\ e.values = {PointId("rolling", n)}
  BY <1>1 DEF RollingSnapshot
<1>3. PICK S : snapshots \in Seq(S)
  BY DEF Copied
<1>4. Len(snapshots') = n
  BY <1>1, <1>3
<1>5. /\ Len(snapshots) \in Nat /\ DOMAIN snapshots = 1..Len(snapshots)
      /\ DOMAIN snapshots' = 1..n
      /\ \A s \in DOMAIN snapshots : snapshots'[s] = snapshots[s]
      /\ snapshots'[n] = e
  BY <1>1, Grows
<1>6. /\ n \in Nat /\ n # None /\ n \notin DOMAIN snapshots /\ n \in DOMAIN snapshots'
      /\ DOMAIN snapshots' = DOMAIN snapshots \cup {n}
  BY <1>5 DEF None
<1>7. FeedSnapshots' = FeedSnapshots /\ Published' = Published \cup {n}
  BY <1>2, <1>5, <1>6 DEF FeedSnapshots, Published
<1>8. QED
  BY <1>2, <1>4, <1>5, <1>6, <1>7

\* An operation publishes its snapshot, and the end of the startup its values as well.
LEMMA PublishMarks ==
  ASSUME Copied, MarksOK, NEW n, n = Len(snapshots) + 1,
         snapshots' = Append(snapshots, RollingSnapshot(n)), rolling' = n,
         \/ publishing' = n /\ index' = index
         \/ publishing' = publishing /\ index' = WithRolling(n),
         UNCHANGED <<calls, torn, points>>
  PROVE  MarksOK'
<1>1. PICK id : id = PointId("rolling", n)
  OBVIOUS
<1>2. id.kind = "rolling" /\ id.n = n
  BY <1>1 DEF PointId
<1>3. id \notin DOMAIN index
  BY <1>2, OneMorePublished DEF MarksOK, PointsListed
<1>4. /\ DOMAIN index \subseteq DOMAIN index'
      /\ \A i \in DOMAIN index' : DOMAIN index'[i] = PointFields
      /\ \A i \in DOMAIN index' : i # id => i \in DOMAIN index
      /\ \A i \in DOMAIN index : index'[i] = index[i]
      /\ id \notin DOMAIN index' => publishing' = n
      /\ id \in DOMAIN index' => index'[id].included /\ index'[id].snap = n
  <2>1. CASE publishing' = n /\ index' = index
    BY <1>3, <2>1 DEF MarksOK, PointsListed
  <2>2. CASE publishing' = publishing /\ index' = WithRolling(n)
    <3>1. /\ DOMAIN index' = DOMAIN index \cup {id}
          /\ \A i \in DOMAIN index : index'[i] = index[i]
          /\ \A i \in DOMAIN index' : DOMAIN index'[i] = PointFields
          /\ index'[id].included /\ index'[id].snap = n
      BY <1>1, <1>3, <2>2, WithRollingFacts DEF MarksOK
    <3>2. QED
      BY <3>1
  <2>3. QED
    BY <2>1, <2>2
<1>5. CarriesFeed' /\ FeedMarks'
  <2>1. \A s \in FeedSnapshots : snapshots'[s] = snapshots[s]
    BY OneMorePublished DEF FeedSnapshots
  <2>2. \A i \in DOMAIN index' : i.kind \in Feeds => i \in DOMAIN index /\ index'[i] = index[i]
    BY <1>2, <1>4, AdapterFacts
  <2>3. QED
    BY <2>1, <2>2, OneMorePublished, ThreadMarks
<1>6. PointsListed'
  <2>1. \A f \in Feeds : \A i \in points'[f] : i \in DOMAIN index' /\ i.kind = f
    BY <1>4 DEF MarksOK, PointsListed
  <2>2. \A i \in DOMAIN index' : i.kind = "rolling" => i.n \in DOMAIN snapshots'
    BY <1>2, <1>4, OneMorePublished DEF MarksOK, PointsListed
  <2>3. /\ rolling' \in {None} \cup DOMAIN snapshots'
        /\ publishing' \in {None} \cup DOMAIN snapshots'
    BY OneMorePublished DEF MarksOK, PointsListed
  <2>4. \A s \in DOMAIN snapshots' : snapshots'[s].by \in {"feeds", "rolling"}
    BY OneMorePublished DEF MarksOK, PointsListed
  <2>5. \A s \in FeedSnapshots' : \A i \in snapshots'[s].values :
          i \in DOMAIN index' /\ i.kind \in Feeds
    BY <1>4, OneMorePublished DEF MarksOK, PointsListed, FeedSnapshots
  <2>6. \A s \in Published' : snapshots'[s].values = {PointId("rolling", s)}
    BY OneMorePublished DEF MarksOK, PointsListed, Published
  <2>7. QED
    BY <1>4, <2>1, <2>2, <2>3, <2>4, <2>5, <2>6 DEF PointsListed
<1>7. RollingMarks'
  BY <1>1, <1>4, OneMorePublished DEF RollingMarks
<1>8. QED
  BY <1>5, <1>6, <1>7 DEF MarksOK

\* The values of a snapshot are put into the index, the first time or again.
LEMMA ValuesMarks ==
  ASSUME MarksOK, NEW s \in DOMAIN snapshots, index' = WithRolling(s),
         \/ publishing = s /\ publishing' = None
         \/ publishing' = publishing,
         UNCHANGED <<calls, torn, points, snapshots, rolling>>
  PROVE  MarksOK'
<1>1. PICK id : id = PointId("rolling", s)
  OBVIOUS
<1>2. id.kind = "rolling" /\ id.n = s
  BY <1>1 DEF PointId
<1>3. /\ DOMAIN index' = DOMAIN index \cup {id}
      /\ \A i \in DOMAIN index : index'[i] = index[i]
      /\ \A i \in DOMAIN index' : DOMAIN index'[i] = PointFields
      /\ id \notin DOMAIN index => index'[id].included /\ index'[id].snap = s
  BY <1>1, WithRollingFacts DEF MarksOK
<1>4. FeedSnapshots' = FeedSnapshots /\ Published' = Published
  BY DEF FeedSnapshots, Published
<1>5. CarriesFeed' /\ FeedMarks'
  <2>1. \A i \in DOMAIN index' : i.kind \in Feeds => i \in DOMAIN index /\ index'[i] = index[i]
    BY <1>2, <1>3, AdapterFacts
  <2>2. QED
    BY <1>4, <2>1, ThreadMarks
<1>6. PointsListed'
  BY <1>2, <1>3, <1>4 DEF MarksOK, PointsListed
<1>7. RollingMarks'
  <2> SUFFICES ASSUME Len(snapshots) \in Published
               PROVE  LET newest == PointId("rolling", Len(snapshots)) IN
                        /\ newest \notin DOMAIN index' => publishing' = Len(snapshots)
                        /\ newest \in DOMAIN index' /\ ~torn /\ ~Unsettled =>
                             index'[newest].included /\ index'[newest].snap = Len(snapshots)
    BY <1>4 DEF RollingMarks, Unsettled
  <2>1. PICK newest : newest = PointId("rolling", Len(snapshots))
    OBVIOUS
  <2>2. newest.n = Len(snapshots)
    BY <2>1 DEF PointId
  <2>3. /\ newest \notin DOMAIN index => publishing = Len(snapshots)
        /\ newest \in DOMAIN index /\ ~torn /\ ~Unsettled =>
             index[newest].included /\ index[newest].snap = Len(snapshots)
    BY <2>1 DEF MarksOK, RollingMarks
  <2>4. newest \notin DOMAIN index' => publishing' = Len(snapshots)
    BY <1>1, <1>3, <2>1, <2>3
  <2>5. newest \in DOMAIN index' /\ ~torn /\ ~Unsettled =>
          index'[newest].included /\ index'[newest].snap = Len(snapshots)
    BY <1>2, <1>3, <2>2, <2>3
  <2>6. QED
    BY <2>1, <2>4, <2>5
<1>8. QED
  BY <1>5, <1>6, <1>7 DEF MarksOK

\* A read endpoint adds what it derives.
LEMMA DeriveMarks ==
  ASSUME MarksOK, NEW s \in DOMAIN snapshots, Derive(s)
  PROVE  MarksOK'
<1>1. PICK id, point : id = PointId("derived", s) /\ point = DerivedPoint(s)
  OBVIOUS
<1>2. /\ id.kind = "derived" /\ DOMAIN point = PointFields
      /\ index' = Indexed(id, point)
  BY <1>1 DEF PointId, DerivedPoint, RollingPoint, PointFields, Derive
<1>3. /\ DOMAIN index' = DOMAIN index \cup {id} /\ index'[id] = point
      /\ \A i \in DOMAIN index : i # id => index'[i] = index[i]
  BY <1>2 DEF Indexed
<1>4. /\ UNCHANGED <<calls, torn, points, snapshots, rolling, publishing>>
      /\ FeedSnapshots' = FeedSnapshots /\ Published' = Published
  BY DEF Derive, FeedSnapshots, Published
<1>5. CarriesFeed' /\ FeedMarks'
  <2>1. \A i \in DOMAIN index' : i.kind \in Feeds => i \in DOMAIN index /\ index'[i] = index[i]
    BY <1>2, <1>3, AdapterFacts
  <2>2. QED
    BY <1>4, <2>1, ThreadMarks
<1>6. PointsListed'
  BY <1>2, <1>3, <1>4, AdapterFacts DEF MarksOK, PointsListed
<1>7. RollingMarks'
  <2>1. PICK newest : newest = PointId("rolling", Len(snapshots))
    OBVIOUS
  <2>2. newest # id
    BY <1>2, <2>1 DEF PointId
  <2>3. (newest \in DOMAIN index' <=> newest \in DOMAIN index) /\ Unsettled' = Unsettled
    BY <1>3, <1>4, <2>2 DEF Unsettled
  <2>4. QED
    BY <1>3, <1>4, <2>1, <2>2, <2>3 DEF MarksOK, RollingMarks
<1>8. QED
  BY <1>5, <1>6, <1>7 DEF MarksOK

\* No step breaks what is known of the marks, the index and the rolling snapshot.
LEMMA MarksStep ==
  ASSUME LockKept, Copied, MarksOK, clock \in Nat, [PipelineNext]_pipelineVars
  PROVE  MarksOK'
<1>1. CASE UNCHANGED <<calls, lineageVars, publishing, torn>>
  <2>1. CarriesFeed'
    BY <1>1 DEF MarksOK, CarriesFeed
  <2>2. QED
    BY <1>1, <2>1, QuietMarks
<1>2. CASE Bootstrap
  <2>1. PICK i \in ToLoad : Enqueue(Main, BootstrapFeeds[i], "none")
    BY <1>2 DEF Bootstrap
  <2>2. BootstrapFeeds[i] \in Feeds /\ Main \in Coroutines
    BY DEF ToLoad, Coroutines
  <2>3. UNCHANGED <<lineageVars, publishing, torn>>
    BY <1>2 DEF Bootstrap
  <2>4. QED
    BY <2>1, <2>2, <2>3, EnqueueMarks
<1>3. CASE Initialise
  BY <1>3, PublishMarks DEF Initialise
<1>4. ASSUME NEW c \in Clients, NEW f \in Feeds, NEW override \in Overrides[f],
             Request(c, f, override)
      PROVE  MarksOK'
  <2>1. c \in Coroutines
    BY DEF Coroutines
  <2>2. QED
    BY <1>4, <2>1, EnqueueMarks DEF Request
<1>5. ASSUME NEW c \in Coroutines, Refresh(c)
      PROVE  MarksOK'
  BY <1>5, BeginMarks, FetchedMarks, FailedMarks, ClearMarks, AssembleMarks DEF Refresh
<1>6. CASE PublishSnapshot
  BY <1>6, PublishMarks DEF PublishSnapshot
<1>7. CASE PublishValues
  <2>1. publishing \in DOMAIN snapshots
    BY <1>7 DEF PublishValues, MarksOK, PointsListed
  <2>2. QED
    BY <1>7, <2>1, ValuesMarks DEF PublishValues
<1>8. CASE Restore
  <2>1. rolling \in DOMAIN snapshots
    BY <1>8 DEF Restore, Serving, MarksOK, PointsListed
  <2>2. QED
    BY <1>8, <2>1, ValuesMarks DEF Restore
<1>9. ASSUME NEW s \in DOMAIN snapshots, Derive(s)
      PROVE  MarksOK'
  BY <1>9, DeriveMarks
<1>10. QED
  BY <1>1, <1>2, <1>3, <1>4, <1>5, <1>6, <1>7, <1>8, <1>9 DEF PipelineNext, pipelineVars, Tick

----------------------------------------------------------------------------
\* Points and health

\* The points that are the newest of their feed tell the same as before, and the feed is as well.
LEMMA SameHealth ==
  ASSUME PointsListed, PointsTellHealth, clock' \in Nat, UNCHANGED points,
         health' \in [Feeds -> HealthType],
         \A f \in Feeds : health'[f].quality = health[f].quality
                          /\ health'[f].last = health[f].last,
         \A id \in DOMAIN index : id.kind \in Feeds =>
           \A field \in {"passed", "quality", "mode", "retrieved"} :
             index'[id][field] = index[id][field]
  PROVE  PointsTellHealth'
<1>1. ASSUME NEW f \in Feeds, NEW id \in points[f]
      PROVE  /\ index'[id].passed = index[id].passed
             /\ index'[id].quality = index[id].quality
             /\ index'[id].mode = index[id].mode
             /\ index'[id].retrieved = index[id].retrieved
  BY DEF PointsListed
<1>2. QED
  BY <1>1 DEF PointsTellHealth

\* The provider answered: the feed and its newest point tell of this attempt.
LEMMA FetchedHealth ==
  ASSUME MarksOK, PointsTellHealth, NEW c \in Coroutines, NEW outcome, Fetched(c, outcome)
  PROVE  PointsTellHealth'
<1>1. PICK f, id, point : /\ f = calls[c].feed /\ id = PointId(f, calls[c].attempt)
                          /\ point = NewPoint(c, outcome)
  OBVIOUS
<1>2. f \in Feeds /\ id.kind = f /\ calls[c].at \in Nat
  BY <1>1 DEF Fetched, MarksOK, CarriesFeed, PointId
<1>3. /\ index' = Indexed(id, point) /\ points' = [points EXCEPT ![f] = {id}]
      /\ health' = [health EXCEPT ![f].quality = point.quality, ![f].last = calls[c].at]
      /\ UNCHANGED clock
  BY <1>1 DEF Fetched, Settle
<1>4. /\ point.passed = (outcome = "valid")
      /\ point.quality = IF outcome = "valid" THEN "FRESH" ELSE "INVALID"
      /\ point.mode = Adapter[f].mode /\ point.retrieved = calls[c].at
  BY <1>1 DEF NewPoint
<1>5. PICK one : one = [health[f] EXCEPT !.quality = point.quality]
  OBVIOUS
<1>6. PICK told : told = [one EXCEPT !.last = calls[c].at]
  OBVIOUS
<1>7. health[f] \in HealthType
  BY <1>2 DEF PointsTellHealth
<1>8. /\ told \in HealthType /\ told.quality = point.quality /\ told.last = calls[c].at
  <2>1. one \in HealthType /\ one.quality = point.quality
    BY <1>4, <1>5, <1>7 DEF HealthType
  <2>2. QED
    BY <1>2, <1>6, <2>1 DEF HealthType
<1>9. health' = [health EXCEPT ![f] = told]
  BY <1>2, <1>3, <1>5, <1>6 DEF PointsTellHealth
<1>10. /\ health' \in [Feeds -> HealthType] /\ health'[f] = told
       /\ \A g \in Feeds : g # f => health'[g] = health[g]
  BY <1>2, <1>8, <1>9 DEF PointsTellHealth
<1>11. /\ DOMAIN points' = Feeds /\ points'[f] = {id}
       /\ \A g \in Feeds : g # f => points'[g] = points[g]
  BY <1>2, <1>3 DEF PointsTellHealth
<1>12. /\ index'[id] = point
       /\ \A i \in DOMAIN index : i # id => index'[i] = index[i]
  BY <1>3 DEF Indexed
<1>13. ASSUME NEW g \in Feeds, NEW i \in points'[g]
       PROVE  /\ health'[g].last \in Nat
              /\ index'[i].retrieved = health'[g].last
              /\ index'[i].quality = health'[g].quality
              /\ index'[i].quality \in {"FRESH", "INVALID", "STALE"}
              /\ index'[i].quality = "FRESH" => index'[i].passed
              /\ index'[i].mode = "LATEST_AVAILABLE" => index'[i].quality = "STALE"
              /\ index'[i].mode = "LIVE" => index'[i].quality # "STALE"
              /\ index'[i].mode \in {Adapter[g].mode, "LATEST_AVAILABLE"}
  <2>1. CASE g = f
    <3>1. i = id
      BY <1>11, <1>13, <2>1
    <3>2. index'[i] = point /\ health'[g] = told
      BY <1>10, <1>12, <2>1, <3>1
    <3>3. Adapter[f].mode # "LATEST_AVAILABLE"
      BY <1>2, AdapterFacts
    <3>4. point.quality = "FRESH" => point.passed
      BY <1>4
    <3>5. QED
      BY <1>2, <1>4, <1>8, <2>1, <3>2, <3>3, <3>4
  <2>2. CASE g # f
    <3>1. i \in points[g] /\ i \in DOMAIN index /\ i # id
      BY <1>2, <1>11, <1>13, <2>2 DEF MarksOK, PointsListed
    <3>2. index'[i] = index[i] /\ health'[g] = health[g]
      BY <1>10, <1>12, <2>2, <3>1
    <3>3. QED
      BY <3>1, <3>2 DEF PointsTellHealth
  <2>3. QED
    BY <2>1, <2>2
<1>14. QED
  BY <1>3, <1>10, <1>11, <1>13 DEF PointsTellHealth

\* The provider failed: the feed and its newest point are stale.
LEMMA FailedHealth ==
  ASSUME MarksOK, PointsTellHealth, NEW c \in Coroutines, FetchFails(c)
  PROVE  PointsTellHealth'
<1>1. PICK f, quality : /\ f = calls[c].feed
                        /\ quality = IF points[f] # {} THEN "STALE" ELSE "MISSING"
  OBVIOUS
<1>2. f \in Feeds
  BY <1>1 DEF FetchFails, MarksOK, CarriesFeed
<1>3. /\ index' = MarkStale(f) /\ UNCHANGED <<points, clock>>
      /\ health' = [health EXCEPT ![f].quality = quality]
  BY <1>1 DEF FetchFails, Settle
<1>4. PICK told : told = [health[f] EXCEPT !.quality = quality]
  OBVIOUS
<1>5. told \in HealthType /\ told.quality = quality /\ told.last = health[f].last
  BY <1>1, <1>2, <1>4 DEF PointsTellHealth, HealthType
<1>6. /\ health' \in [Feeds -> HealthType] /\ health'[f] = told
      /\ \A g \in Feeds : g # f => health'[g] = health[g]
  <2>1. health' = [health EXCEPT ![f] = told]
    BY <1>3, <1>4
  <2>2. QED
    BY <1>2, <1>5, <2>1 DEF PointsTellHealth
<1>7. /\ \A i \in DOMAIN index : i \notin points[f] => index'[i] = index[i]
      /\ \A i \in DOMAIN index : i \in points[f] =>
           index'[i] = [index[i] EXCEPT !.quality = "STALE", !.mode = "LATEST_AVAILABLE"]
  BY <1>3 DEF MarkStale
<1>8. ASSUME NEW g \in Feeds, NEW i \in points[g]
      PROVE  /\ health'[g].last \in Nat
             /\ index'[i].retrieved = health'[g].last
             /\ index'[i].quality = health'[g].quality
             /\ index'[i].quality \in {"FRESH", "INVALID", "STALE"}
             /\ index'[i].quality = "FRESH" => index'[i].passed
             /\ index'[i].mode = "LATEST_AVAILABLE" => index'[i].quality = "STALE"
             /\ index'[i].mode = "LIVE" => index'[i].quality # "STALE"
             /\ index'[i].mode \in {Adapter[g].mode, "LATEST_AVAILABLE"}
  <2>0. i \in DOMAIN index /\ i.kind = g /\ DOMAIN index[i] = PointFields
    BY <1>8 DEF MarksOK, PointsListed
  <2>1. CASE g = f
    <3>1. PICK one : one = [index[i] EXCEPT !.quality = "STALE"]
      OBVIOUS
    <3>2. /\ DOMAIN one = PointFields /\ one.quality = "STALE"
          /\ one.retrieved = index[i].retrieved
      BY <2>0, <3>1 DEF PointFields
    <3>3. index'[i] = [one EXCEPT !.mode = "LATEST_AVAILABLE"]
      BY <1>7, <1>8, <2>0, <2>1, <3>1
    <3>4. /\ index'[i].quality = "STALE" /\ index'[i].retrieved = index[i].retrieved
          /\ index'[i].mode = "LATEST_AVAILABLE"
      BY <3>2, <3>3 DEF PointFields
    <3>5. quality = "STALE" /\ health'[g] = told
      BY <1>1, <1>6, <1>8, <2>1
    <3>6. health[g].last \in Nat /\ index[i].retrieved = health[g].last
      BY <1>8 DEF PointsTellHealth
    <3>7. QED
      BY <1>5, <2>1, <3>4, <3>5, <3>6
  <2>2. CASE g # f
    <3>1. i \notin points[f]
      BY <1>2, <2>0, <2>2 DEF MarksOK, PointsListed
    <3>2. index'[i] = index[i] /\ health'[g] = health[g]
      BY <1>6, <1>7, <2>0, <2>2, <3>1
    <3>3. QED
      BY <1>8, <3>2 DEF PointsTellHealth
  <2>3. QED
    BY <2>1, <2>2
<1>9. QED
  BY <1>3, <1>6, <1>8 DEF PointsTellHealth

\* A build changes marks only.
LEMMA BuildHealth ==
  ASSUME MarksOK, PointsTellHealth, NEW c \in Coroutines, ClearFlags(c) \/ Assemble(c)
  PROVE  PointsTellHealth'
<1>1. UNCHANGED <<points, clock>>
  BY DEF ClearFlags, Assemble
<1>2. /\ health' \in [Feeds -> HealthType]
      /\ \A f \in Feeds : health'[f].quality = health[f].quality
                          /\ health'[f].last = health[f].last
  <2>1. CASE ClearFlags(c)
    BY <2>1 DEF ClearFlags, PointsTellHealth
  <2>2. CASE Assemble(c)
    <3>1. health' = [f \in Feeds |-> [health[f] EXCEPT !.included = f \in Used]]
      BY <2>2 DEF Assemble
    <3>2. ASSUME NEW f \in Feeds
          PROVE  /\ health'[f] \in HealthType
                 /\ health'[f].quality = health[f].quality
                 /\ health'[f].last = health[f].last
      <4>1. PICK in : in = (f \in Used)
        OBVIOUS
      <4>2. in \in BOOLEAN
        BY <4>1
      <4>3. health'[f] = [health[f] EXCEPT !.included = in]
        BY <3>1, <4>1
      <4>4. health[f] \in HealthType
        BY DEF PointsTellHealth
      <4>5. QED
        BY <4>2, <4>3, <4>4 DEF HealthType
    <3>3. QED
      BY <3>1, <3>2
  <2>3. QED
    BY <2>1, <2>2
<1>3. \A id \in DOMAIN index : \A field \in {"passed", "quality", "mode", "retrieved"} :
        index'[id][field] = index[id][field]
  <2> SUFFICES ASSUME NEW id \in DOMAIN index,
                      NEW field \in {"passed", "quality", "mode", "retrieved"}
               PROVE  index'[id][field] = index[id][field]
    OBVIOUS
  <2>1. PICK in, snap : \/ index'[id] = index[id]
                        \/ index'[id] = [index[id] EXCEPT !.included = in, !.snap = snap]
    <3>1. CASE ClearFlags(c)
      <4>1. PICK ids : index' = Unmarked(ids)
        BY <3>1 DEF ClearFlags
      <4>2. QED
        BY <4>1 DEF Unmarked
    <3>2. CASE Assemble(c)
      BY <3>2 DEF Assemble
    <3>3. QED
      BY <3>1, <3>2
  <2>2. CASE index'[id] = [index[id] EXCEPT !.included = in, !.snap = snap]
    <3>1. PICK one : one = [index[id] EXCEPT !.included = in]
      OBVIOUS
    <3>2. DOMAIN one = PointFields /\ one[field] = index[id][field]
      BY <3>1 DEF MarksOK, PointsListed, PointFields
    <3>3. index'[id] = [one EXCEPT !.snap = snap]
      BY <2>2, <3>1
    <3>4. QED
      BY <3>2, <3>3 DEF PointFields
  <2>3. QED
    BY <2>1, <2>2
<1>4. QED
  BY <1>1, <1>2, <1>3, SameHealth DEF MarksOK, PointsTellHealth

\* A point and the health of its feed are written together, so that they keep telling the same.
LEMMA HealthStep ==
  ASSUME MarksOK, PointsTellHealth, [PipelineNext]_pipelineVars
  PROVE  PointsTellHealth'
<1>1. ASSUME clock' \in Nat, UNCHANGED <<points, health>>,
             \A id \in DOMAIN index : id.kind \in Feeds => index'[id] = index[id]
      PROVE  PointsTellHealth'
  BY <1>1, SameHealth DEF MarksOK, PointsTellHealth
<1>2. CASE UNCHANGED <<points, health, index>> /\ clock' \in {clock, clock + 1}
  <2>1. clock' \in Nat
    BY <1>2 DEF PointsTellHealth
  <2>2. QED
    BY <1>1, <1>2, <2>1
<1>3. ASSUME UNCHANGED <<clock, points, health>>, NEW s, index' = WithRolling(s)
      PROVE  PointsTellHealth'
  <2>1. \A id \in DOMAIN index : index'[id] = index[id]
    BY <1>3, WithRollingFacts DEF MarksOK
  <2>2. QED
    BY <1>1, <1>3, <2>1 DEF PointsTellHealth
<1>4. ASSUME NEW s \in DOMAIN snapshots, Derive(s)
      PROVE  PointsTellHealth'
  <2>1. \A id \in DOMAIN index : id.kind \in Feeds => index'[id] = index[id]
    BY <1>4, AdapterFacts DEF Derive, Indexed, PointId
  <2>2. UNCHANGED <<clock, points, health>>
    BY <1>4 DEF Derive
  <2>3. QED
    BY <1>1, <2>1, <2>2 DEF PointsTellHealth
<1>5. ASSUME NEW c \in Coroutines, Refresh(c)
      PROVE  PointsTellHealth'
  <2>1. CASE Begin(c)
    BY <1>2, <2>1 DEF Begin, lineageVars
  <2>2. QED
    BY <1>5, <2>1, FetchedHealth, FailedHealth, BuildHealth DEF Refresh
<1>6. CASE Tick \/ UNCHANGED pipelineVars
  BY <1>2, <1>6 DEF Tick, pipelineVars, lineageVars
<1>7. CASE Bootstrap
  BY <1>2, <1>7 DEF Bootstrap, lineageVars
<1>8. ASSUME NEW c \in Clients, NEW f \in Feeds, NEW override \in Overrides[f],
             Request(c, f, override)
      PROVE  PointsTellHealth'
  BY <1>2, <1>8 DEF Request, lineageVars
<1>9. CASE Initialise \/ PublishValues \/ Restore
  BY <1>3, <1>9 DEF Initialise, PublishValues, Restore
<1>10. CASE PublishSnapshot
  BY <1>2, <1>10 DEF PublishSnapshot
<1>11. QED
  BY <1>4, <1>5, <1>6, <1>7, <1>8, <1>9, <1>10 DEF PipelineNext

----------------------------------------------------------------------------
\* What a snapshot shows of a feed

HonestValue(p, asOf, kind) ==
  /\ p.quality = "FRESH" =>
       /\ p.passed
       /\ (asOf - p.retrieved) * TickSeconds <= Adapter[kind].sla
  /\ p.mode = "LIVE" => p.quality = "FRESH"
  /\ p.mode = "LATEST_AVAILABLE" => p.quality = "STALE"
  /\ p.quality # "INVALID"

\* The periods of freshness are numbers.
LEMMA SlaNumber ==
  ASSUME NEW f \in Feeds
  PROVE  Adapter[f].sla \in Int
<1>1. f \in DOMAIN Adapter
  BY PipelineAssumption
<1>2. ASSUME NEW mode, NEW sla, NEW outcomes
      PROVE  /\ Feed(mode, sla, outcomes).sla = sla
             /\ Optional(Feed(mode, sla, outcomes)).sla = sla
             /\ Required(Feed(mode, sla, outcomes)).sla = sla
             /\ Optional(ForOptimiser(Feed(mode, sla, outcomes))).sla = sla
  BY DEF Feed, Optional, Required, ForOptimiser
<1>3. QED
  BY <1>1, <1>2 DEF Adapter, ElexonSystem, NesoSystem, SampleForecast, SamplePosition,
     SampleBattery, SampleLimits, SampleServices, SampleOptionality, SampleOrderBook,
     UnconfiguredMarket, ExplicitSynthetic

\* The copies of a build are what they say: the health of the feed, aged to the time of the build.
LEMMA CopiesHonest ==
  ASSUME MarksOK, PointsTellHealth, NEW n, NEW id \in DOMAIN Copies(n)
  PROVE  HonestValue(Copies(n)[id], clock, id.kind)
<1>1. PICK f \in Used : id \in Usable(f)
  BY DEF Copies
<1>2. f \in Feeds /\ id \in points[f] /\ index[id].quality # "INVALID"
  BY <1>1 DEF Used, Usable
<1>3. id.kind = f /\ DOMAIN index[id] = PointFields
  BY <1>2 DEF MarksOK, PointsListed
<1>4. /\ health[f].last \in Nat /\ index[id].retrieved = health[f].last
      /\ index[id].quality = health[f].quality
      /\ index[id].quality \in {"FRESH", "STALE"}
      /\ index[id].quality = "FRESH" => index[id].passed
      /\ index[id].mode = "LATEST_AVAILABLE" => index[id].quality = "STALE"
      /\ index[id].mode = "LIVE" => index[id].quality # "STALE"
      /\ index[id].mode \in {Adapter[f].mode, "LATEST_AVAILABLE"}
  BY <1>2 DEF PointsTellHealth
<1>5. PICK shown : shown = [index[id] EXCEPT !.included = TRUE, !.snap = n]
  OBVIOUS
<1>6. /\ DOMAIN shown = PointFields
      /\ shown.quality = index[id].quality /\ shown.mode = index[id].mode
      /\ shown.passed = index[id].passed /\ shown.retrieved = index[id].retrieved
  <2>1. PICK one : one = [index[id] EXCEPT !.included = TRUE]
    OBVIOUS
  <2>2. /\ DOMAIN one = PointFields
        /\ one.quality = index[id].quality /\ one.mode = index[id].mode
        /\ one.passed = index[id].passed /\ one.retrieved = index[id].retrieved
    BY <1>3, <2>1 DEF PointFields
  <2>3. shown = [one EXCEPT !.snap = n]
    BY <1>5, <2>1
  <2>4. QED
    BY <2>2, <2>3 DEF PointFields
<1>7. PICK mode : mode = IF Adapter[f].mode = "LIVE" THEN "LATEST_AVAILABLE" ELSE shown.mode
  OBVIOUS
<1>8. Copies(n)[id] = IF f \notin StaleFeeds THEN shown
                      ELSE [shown EXCEPT !.quality = "STALE", !.mode = mode]
  BY <1>3, <1>5, <1>7 DEF Copies
<1>9. CASE f \notin StaleFeeds
  <2>1. Copies(n)[id] = shown
    BY <1>8, <1>9
  <2>2. Assessed(f) # "STALE"
    BY <1>2, <1>9 DEF StaleFeeds
  <2>3. /\ health[f].last # Never /\ health[f].quality \notin {"INVALID", "MISSING"}
    BY <1>4 DEF Never
  <2>4. ~((clock - health[f].last) * TickSeconds > Adapter[f].sla) /\ health[f].quality # "STALE"
    BY <2>2, <2>3 DEF Assessed
  <2>5. (clock - health[f].last) * TickSeconds <= Adapter[f].sla
    <3>1. PICK age, sla : age = (clock - health[f].last) * TickSeconds /\ sla = Adapter[f].sla
      OBVIOUS
    <3>2. age \in Int
      <4>1. PICK ticks : ticks = clock - health[f].last
        OBVIOUS
      <4>2. ticks \in Int
        BY <1>4, <4>1 DEF PointsTellHealth
      <4>3. age = ticks * TickSeconds
        BY <3>1, <4>1
      <4>4. QED
        BY <4>2, <4>3, PipelineAssumption
    <3>3. sla \in Int
      BY <1>2, <3>1, SlaNumber
    <3>4. ~(age > sla)
      BY <2>4, <3>1
    <3>5. age <= sla
      BY <3>2, <3>3, <3>4
    <3>6. QED
      BY <3>1, <3>5
  <2>6. QED
    BY <1>3, <1>4, <1>6, <2>1, <2>4, <2>5 DEF HonestValue
<1>10. CASE f \in StaleFeeds
  <2>1. Copies(n)[id] = [shown EXCEPT !.quality = "STALE", !.mode = mode]
    BY <1>8, <1>10
  <2>2. PICK one : one = [shown EXCEPT !.quality = "STALE"]
    OBVIOUS
  <2>3. DOMAIN one = PointFields /\ one.quality = "STALE"
    BY <1>6, <2>2 DEF PointFields
  <2>4. Copies(n)[id] = [one EXCEPT !.mode = mode]
    BY <2>1, <2>2
  <2>5. Copies(n)[id].quality = "STALE" /\ Copies(n)[id].mode = mode
    BY <2>3, <2>4 DEF PointFields
  <2>6. mode # "LIVE"
    BY <1>4, <1>6, <1>7
  <2>7. QED
    BY <2>5, <2>6 DEF HonestValue
<1>11. QED
  BY <1>9, <1>10

\* What was shown stays, and what is built is honest.
LEMMA HonestStep ==
  ASSUME Copied, MarksOK, PointsTellHealth, ShownHonestly, [PipelineNext]_pipelineVars
  PROVE  ShownHonestly'
<1>1. ASSUME FeedSnapshots' = FeedSnapshots,
             \A s \in FeedSnapshots : snapshots'[s] = snapshots[s]
      PROVE  ShownHonestly'
  BY <1>1 DEF ShownHonestly
<1>2. CASE UNCHANGED snapshots
  BY <1>1, <1>2 DEF FeedSnapshots
<1>3. ASSUME NEW n, n = Len(snapshots) + 1, snapshots' = Append(snapshots, RollingSnapshot(n))
      PROVE  ShownHonestly'
  <2>1. FeedSnapshots' = FeedSnapshots /\ \A s \in DOMAIN snapshots : snapshots'[s] = snapshots[s]
    BY <1>3, OneMorePublished
  <2>2. QED
    BY <1>1, <2>1 DEF FeedSnapshots
<1>4. ASSUME NEW c \in Coroutines, Assemble(c)
      PROVE  ShownHonestly'
  <2>1. PICK n, e : /\ n = Len(snapshots) + 1
                    /\ e = [by |-> "feeds", asOf |-> clock,
                            values |-> UNION {Usable(f) : f \in Used}, copies |-> Copies(n),
                            status |-> SnapshotStatus, optimiser |-> OptimiserStatus]
    OBVIOUS
  <2>2. snapshots' = Append(snapshots, e) /\ e.asOf = clock /\ e.copies = Copies(n)
    BY <1>4, <2>1 DEF Assemble
  <2>3. /\ \A s \in DOMAIN snapshots' : s \in DOMAIN snapshots \/ s = n
        /\ \A s \in DOMAIN snapshots : snapshots'[s] = snapshots[s]
        /\ snapshots'[n] = e
    BY <2>1, <2>2, Grows
  <2>4. ASSUME NEW s \in FeedSnapshots', NEW id \in DOMAIN snapshots'[s].copies
        PROVE  HonestValue(snapshots'[s].copies[id], snapshots'[s].asOf, id.kind)
    <3>1. CASE s = n
      <4>1. snapshots'[s].copies = Copies(n) /\ snapshots'[s].asOf = clock
        BY <2>2, <2>3, <3>1
      <4>2. id \in DOMAIN Copies(n)
        BY <2>4, <4>1
      <4>3. HonestValue(Copies(n)[id], clock, id.kind)
        BY <4>2, CopiesHonest
      <4>4. QED
        BY <4>1, <4>3
    <3>2. CASE s # n
      <4>1. s \in DOMAIN snapshots /\ snapshots'[s] = snapshots[s]
        BY <2>3, <3>2 DEF FeedSnapshots
      <4>2. s \in FeedSnapshots
        BY <4>1 DEF FeedSnapshots
      <4>3. HonestValue(snapshots[s].copies[id], snapshots[s].asOf, id.kind)
        BY <2>4, <4>1, <4>2 DEF ShownHonestly, HonestValue
      <4>4. QED
        BY <4>1, <4>3
    <3>3. QED
      BY <3>1, <3>2
  <2>5. QED
    BY <2>4 DEF ShownHonestly, HonestValue
<1>5. ASSUME NEW c \in Coroutines, Refresh(c), ~Assemble(c)
      PROVE  UNCHANGED snapshots
  <2>1. Begin(c) \/ FetchFails(c) \/ ClearFlags(c) => UNCHANGED snapshots
    BY DEF Begin, FetchFails, ClearFlags, Settle, lineageVars
  <2>2. ASSUME NEW outcome \in Outcomes, Fetched(c, outcome)
        PROVE  UNCHANGED snapshots
    BY <2>2 DEF Fetched, Settle
  <2>3. QED
    BY <1>5, <2>1, <2>2 DEF Refresh
<1>6. QED
  BY <1>2, <1>3, <1>4, <1>5 DEF PipelineNext, pipelineVars, lineageVars, Tick, Bootstrap, Request,
     Initialise, PublishSnapshot, PublishValues, Restore, Derive

----------------------------------------------------------------------------
PipelineInv == LockKept /\ Copied /\ MarksOK /\ PointsTellHealth /\ ShownHonestly

\* The invariant holds before the feeds are loaded.
LEMMA PipelineStarts == PipelineInit => PipelineInv
<1> SUFFICES ASSUME PipelineInit PROVE PipelineInv
  OBVIOUS
<1>1. LockKept
  BY LockStarts
<1>2. /\ snapshots = <<>> /\ DOMAIN index = {} /\ points = [f \in Feeds |-> {}]
      /\ rolling = None /\ publishing = None /\ clock = 0
      /\ calls = [c \in Coroutines |-> Idle]
      /\ health = [f \in Feeds |-> [quality |-> "MISSING", last |-> Never, included |-> FALSE]]
  BY DEF PipelineInit
<1>3. FeedSnapshots = {} /\ Published = {}
  BY <1>2 DEF FeedSnapshots, Published
<1>4. Copied /\ ShownHonestly
  BY <1>2, <1>3 DEF Copied, ShownHonestly
<1>5. MarksOK
  <2>1. CarriesFeed
    BY <1>2 DEF CarriesFeed, Idle
  <2>2. PointsListed
    BY <1>2, <1>3 DEF PointsListed
  <2>3. FeedMarks /\ RollingMarks
    BY <1>2, <1>3 DEF FeedMarks, RollingMarks
  <2>4. QED
    BY <2>1, <2>2, <2>3 DEF MarksOK
<1>6. PointsTellHealth
  BY <1>2 DEF PointsTellHealth, HealthType, Never
<1>7. QED
  BY <1>1, <1>4, <1>5, <1>6 DEF PipelineInv

\* Every step keeps the invariant.
LEMMA PipelineStep ==
  ASSUME PipelineInv, [PipelineNext]_pipelineVars
  PROVE  PipelineInv'
<1>1. LockKept' /\ Copied'
  BY LockStep, CopiedStep DEF PipelineInv
<1>2. clock \in Nat
  BY DEF PipelineInv, PointsTellHealth
<1>3. MarksOK' /\ PointsTellHealth' /\ ShownHonestly'
  BY <1>2, MarksStep, HealthStep, HonestStep DEF PipelineInv
<1>4. QED
  BY <1>1, <1>3 DEF PipelineInv

\* The pipeline keeps the invariant throughout.
LEMMA PipelineInvariant == PipelineSpec => []PipelineInv
BY PipelineStarts, PipelineStep, PTL DEF PipelineSpec

\* What a snapshot built from the feeds shows is what it says, at the time it was built: nothing
\* fresh that is overdue or failed its checks, nothing live that is not fresh.
THEOREM ShownHonestlyHolds == PipelineSpec => []ShownHonestly
<1>1. PipelineInv => ShownHonestly
  BY DEF PipelineInv
<1>2. QED
  BY <1>1, PipelineInvariant, PTL

\* There is a newest snapshot.
LEMMA NewestExists ==
  ASSUME NEW n \in Nat, NEW S \in SUBSET (1..n), S # {}
  PROVE  \E i \in S : \A j \in S : j <= i
<1> DEFINE T == {n - i : i \in S}
<1>1. T \in SUBSET Nat /\ T # {}
  <2>1. \A i \in S : n - i \in Nat
    OBVIOUS
  <2>2. QED
    BY <2>1
<1>2. \E x \in T : \A y \in T : ~(<<y, x>> \in OpToRel(<, Nat))
  <2> HIDE DEF T
  <2>1. QED
    BY <1>1, NatLessThanWellFounded, WFMin
<1>3. PICK x \in T : \A y \in T : ~(y < x)
  BY <1>1, <1>2 DEF OpToRel
<1>4. PICK i \in S : x = n - i
  OBVIOUS
<1>5. ASSUME NEW j \in S PROVE j <= i
  <2>1. ~(n - j < n - i)
    BY <1>3, <1>4
  <2>2. i \in Int /\ j \in Int
    OBVIOUS
  <2>3. QED
    BY <2>1, <2>2
<1>6. QED
  BY <1>5

\* Between two builds and publications, unless the last build was broken off, every value of the
\* newest snapshot resolves in the lineage index under that snapshot's id, and of the values of the
\* feeds exactly those of the newest snapshot built from the feeds do.
THEOREM NewestSnapshotResolvesHolds == PipelineSpec => []NewestSnapshotResolves
<1>1. PipelineInv => NewestSnapshotResolves
  <2> SUFFICES ASSUME PipelineInv, FeedSnapshots # {}, publishing = None, ~Building, ~torn
               PROVE  LET newest  == Len(snapshots)
                          ofFeeds == CHOOSE s \in FeedSnapshots :
                                       \A other \in FeedSnapshots : other <= s
                      IN /\ \A id \in snapshots[newest].values :
                              id \in DOMAIN index /\ index[id].included /\ index[id].snap = newest
                         /\ \A id \in DOMAIN index : id.kind \in Feeds =>
                              /\ index[id].included = (id \in snapshots[ofFeeds].values)
                              /\ index[id].included => index[id].snap = ofFeeds
    BY DEF NewestSnapshotResolves
  <2>1. PICK newest : newest = Len(snapshots)
    OBVIOUS
  <2>2. PICK ofFeeds : ofFeeds = CHOOSE s \in FeedSnapshots :
                                   \A other \in FeedSnapshots : other <= s
    OBVIOUS
  <2>3. newest \in Nat /\ DOMAIN snapshots = 1..newest
    BY <2>1 DEF PipelineInv, Copied
  <2>4. ofFeeds \in FeedSnapshots /\ \A other \in FeedSnapshots : other <= ofFeeds
    <3>1. FeedSnapshots \in SUBSET (1..newest)
      BY <2>3 DEF FeedSnapshots
    <3>2. \E s \in FeedSnapshots : \A other \in FeedSnapshots : other <= s
      BY <2>3, <3>1, NewestExists
    <3>3. QED
      BY <2>2, <3>2
  <2>5. \A id \in DOMAIN index : id.kind \in Feeds =>
          /\ index[id].included = (id \in snapshots[ofFeeds].values)
          /\ index[id].included => index[id].snap = ofFeeds
    BY <2>4 DEF PipelineInv, MarksOK, FeedMarks
  <2>6. newest \in DOMAIN snapshots /\ \A s \in FeedSnapshots : s <= newest
    BY <2>3 DEF FeedSnapshots
  <2>7. ASSUME NEW id \in snapshots[newest].values
        PROVE  id \in DOMAIN index /\ index[id].included /\ index[id].snap = newest
    <3>1. CASE newest \in FeedSnapshots
      <4>1. ofFeeds = newest
        BY <2>3, <2>4, <2>6, <3>1 DEF FeedSnapshots
      <4>2. id \in DOMAIN index /\ id.kind \in Feeds
        BY <3>1 DEF PipelineInv, MarksOK, PointsListed
      <4>3. index[id].included = TRUE
        BY <2>5, <4>1, <4>2
      <4>4. QED
        BY <2>5, <4>1, <4>2, <4>3
    <3>2. CASE newest \notin FeedSnapshots
      <4>1. newest \in Published
        BY <2>6, <3>2 DEF FeedSnapshots, Published, PipelineInv, MarksOK, PointsListed
      <4>2. id = PointId("rolling", newest)
        BY <4>1 DEF PipelineInv, MarksOK, PointsListed
      <4>3. newest # None /\ ~Unsettled
        BY <2>3, <2>6 DEF None, Building, Unsettled
      <4>4. QED
        BY <2>1, <4>1, <4>2, <4>3 DEF PipelineInv, MarksOK, RollingMarks
    <3>3. QED
      BY <3>1, <3>2
  <2>8. QED
    BY <2>1, <2>2, <2>5, <2>7
<1>2. QED
  BY <1>1, PipelineInvariant, PTL
================================================================================
