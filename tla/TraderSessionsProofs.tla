-------------------------- MODULE TraderSessionsProofs --------------------------
(***************************************************************************)
(* Browser sessions do to the store what the store allows, and with        *)
(* versioned requests nothing else than what their traders saw, for every  *)
(* set of decisions, orders and gates and every number of requests.        *)
(*                                                                         *)
(* The argument: a request under way carries a record of the log of its    *)
(* decision (FromTheLog), and logs only grow, so that it stays one of the  *)
(* guards the store is asked with (GuardOffered) and every session step is *)
(* a step of the store.  An applied request was based on a record that is  *)
(* no longer the last one, so no other is applied to it (AppliedBefore).   *)
(***************************************************************************)
EXTENDS TraderSessions, DecisionStoreProofs

Request == [id : Ids, op : TraderOps, volume : Orders,
            guard : [status : Statuses, seq : Nat], seen : Nat]

Record(r) == decisions[r.id].log[r.seen]

FromTheLog(r) ==
  /\ r \in Request
  /\ r.seen \in 1..Len(decisions[r.id].log)
  /\ r.guard.status = Record(r).to
  /\ r.guard.seq = IF GuardKind = "version" THEN r.seen ELSE 0

AppliedBefore(a) ==
  /\ a.request.id \in Ids
  /\ a.base \in Nat /\ a.base < Len(decisions[a.request.id].log)

\* A request that is retried, and two requests made from one version, are applied once.
AppliedOnce ==
  \A a, b \in applied :
    a.request.id = b.request.id /\ a.request.seen = b.request.seen => a = b

SessionInv ==
  /\ StoreInv
  /\ \A r \in sent : FromTheLog(r)
  /\ \A a \in applied : AppliedBefore(a)

----------------------------------------------------------------------------
\* The sequence a session reads is the length of the log.
LEMMA SequenceIsLength ==
  ASSUME NEW d \in Decision, LogIsPath(d), d.status # "ABSENT"
  PROVE  /\ CurrentSequence(d) = Len(d.log)
         /\ Len(d.log) \in Nat /\ Len(d.log) >= 1
         /\ d.log[Len(d.log)].to = d.status
<1> DEFINE Rec == [seq : Nat, from : Statuses \cup {"NONE"}, to : Statuses]
<1>1. d.log \in Seq(Rec)
  BY DEF Decision
<1> HIDE DEF Rec
<1>2. d.log # <<>> /\ Len(d.log) \in Nat /\ Len(d.log) >= 1
  BY <1>1 DEF LogIsPath
<1>3. QED
  BY <1>2 DEF LogIsPath, CurrentSequence

\* A decision that has a log exists.
LEMMA LoggedExists ==
  ASSUME NEW d \in Decision, LogIsPath(d), NEW n \in Nat, n < Len(d.log)
  PROVE  d.status # "ABSENT"
<1> DEFINE Rec == [seq : Nat, from : Statuses \cup {"NONE"}, to : Statuses]
<1>1. d.log \in Seq(Rec)
  BY DEF Decision
<1> HIDE DEF Rec
<1>2. d.log # <<>> /\ Len(d.log) \in 1..Len(d.log)
  BY <1>1
<1>3. d.status = d.log[Len(d.log)].to /\ d.log[Len(d.log)].to \in Statuses
  BY <1>2, LogRecordType DEF LogIsPath
<1>4. QED
  BY <1>3 DEF Statuses

\* A request under way carries a version that its client may have read.
LEMMA GuardOffered ==
  ASSUME SessionInv, NEW r \in sent
  PROVE  r.id \in Ids /\ r.guard \in RequestGuards(r.id)
<1> DEFINE d == decisions[r.id]
<1>1. r \in Request /\ r.id \in Ids /\ d \in Decision /\ LogIsPath(d)
  BY DEF SessionInv, StoreInv, Sound, TypeOK, FromTheLog, Request
<1>2. /\ r.seen \in 1..Len(d.log)
      /\ r.guard.status = d.log[r.seen].to
      /\ r.guard.seq = IF GuardKind = "version" THEN r.seen ELSE 0
  BY DEF SessionInv, FromTheLog, Record
<1>3. d.log[r.seen].seq = r.seen
  BY <1>1, <1>2 DEF LogIsPath
<1>4. \/ r.guard = [status |-> d.log[r.seen].to, seq |-> 0]
      \/ r.guard = [status |-> d.log[r.seen].to, seq |-> d.log[r.seen].seq]
  BY <1>1, <1>2, <1>3 DEF Request
<1>5. QED
  BY <1>1, <1>2, <1>4 DEF RequestGuards

\* A request that is handled is a trader's step of the store.
LEMMA HandleIsTraderStep ==
  ASSUME SessionInv, NEW r \in sent, Handle(r)
  PROVE  TraderStep(r.id)
<1>1. r.id \in Ids /\ r.guard \in RequestGuards(r.id) /\ r.volume \in Orders
  BY GuardOffered DEF SessionInv, FromTheLog, Request
<1>2. now \in Nat /\ MaxTime \in Nat
  BY StoreAssumption DEF SessionInv, StoreInv, TypeOK
<1>3. ASSUME NEW at \in 0..now, Delay(r.id, r.guard, MaxTime, at)
      PROVE  MaxTime \in 1..MaxTime
  BY <1>2, <1>3 DEF Delay, ValidDelay
<1>4. QED
  BY <1>1, <1>3 DEF Handle, TraderStep

\* What handling a request needs and leaves: it matches the newest record of its decision, and
\* adds one.
LEMMA HandleAdds ==
  ASSUME SessionInv, NEW r \in sent, Handle(r)
  PROVE  LET n == Len(decisions[r.id].log) IN
         /\ n \in Nat
         /\ CurrentSequence(decisions[r.id]) = n
         /\ r.guard.seq \in {0, n}
         /\ Len(decisions'[r.id].log) = n + 1
<1> DEFINE d == decisions[r.id]
<1>1. /\ r.id \in Ids /\ d \in Decision /\ LogIsPath(d)
      /\ decisions \in [Ids -> Decision]
  BY GuardOffered DEF SessionInv, StoreInv, Sound, TypeOK
<1>2. Exists(r.id) /\ Precondition(d, r.guard)
  BY DEF Handle, Accept, Modify, Reject, Delay, Reopen, Transition
<1>3. CurrentSequence(d) = Len(d.log) /\ Len(d.log) \in Nat
  BY <1>1, <1>2, SequenceIsLength DEF Exists
<1>4. OneDecisionMoves(r.id)
  BY <1>1, HandleIsTraderStep, TraderStepMoves DEF SessionInv, StoreInv
<1>5. PICK t \in Statuses, u \in Decision :
        /\ StageUpdate(d, u, t)
        /\ decisions' = [decisions EXCEPT ![r.id] = Advance(u, t)]
  BY <1>4 DEF OneDecisionMoves
<1>6. decisions'[r.id] = Advance(u, t)
  BY <1>1, <1>5
<1>7. Len(Advance(u, t).log) = Len(d.log) + 1
  <2>1. d.status # "ABSENT"
    BY <1>2 DEF Exists
  <2>2. d \in Decision /\ LogIsPath(d) /\ StageUpdate(d, u, t)
    BY <1>1, <1>5
  <2> HIDE DEF d
  <2>3. QED
    BY <2>1, <2>2, AdvanceAppends
<1>8. QED
  BY <1>2, <1>3, <1>6, <1>7 DEF Precondition

----------------------------------------------------------------------------
\* A step of the sessions is a step of the store, and moves each decision as the store does.
LEMMA StoreSteps ==
  ASSUME SessionInv, [SessionNext]_<<vars, sessionVars>>
  PROVE  /\ [Next]_vars
         /\ \A i \in Ids : DecisionStep(decisions[i], decisions'[i])
<1>1. TypeOK
  BY DEF SessionInv, StoreInv
<1>2. ASSUME NEW id \in Ids, NEW gate \in Gates, NEW rec \in Orders, Open(id, gate, rec)
      PROVE  Construct
  BY <1>2 DEF Open, Construct
<1>3. ASSUME NEW r \in sent, Handle(r)
      PROVE  r.id \in Ids /\ TraderStep(r.id)
  BY <1>3, HandleIsTraderStep, GuardOffered
<1>4. ASSUME NEW id \in Ids, HandOver(id)
      PROVE  ExecutionStep(id)
  <2>1. Submit(id, NoGuard, InstructionVolume(decisions[id]))
    BY <1>4 DEF HandOver
  <2>2. NoGuard \in RequestGuards(id)
    BY DEF RequestGuards
  <2>3. QED
    BY <2>1, <2>2 DEF ExecutionStep
<1>5. CASE Construct
  BY <1>1, <1>5, ConstructIsDecisionStep DEF Next
<1>6. ASSUME NEW id \in Ids, TraderStep(id) \/ ExecutionStep(id)
      PROVE  Next /\ \A i \in Ids : DecisionStep(decisions[i], decisions'[i])
  BY <1>1, <1>6, TraderStepMoves, ExecutionStepMoves, MoveIsDecisionStep DEF Next
<1>7. CASE Pass
  BY <1>7 DEF Pass, Tick, Next, DecisionStep
<1>8. CASE UNCHANGED vars
  BY <1>8 DEF vars, DecisionStep
<1>9. ASSUME NEW id \in Ids, NEW op \in TraderOps, NEW volume \in Orders, Send(id, op, volume)
      PROVE  UNCHANGED vars
  BY <1>9 DEF Send
<1>10. QED
  BY <1>2, <1>3, <1>4, <1>5, <1>6, <1>7, <1>8, <1>9 DEF SessionNext

\* Logs grow, and their records stay where they are.
LEMMA LogsGrow ==
  ASSUME SessionInv, [SessionNext]_<<vars, sessionVars>>, NEW id \in Ids, Exists(id)
  PROVE  /\ Len(decisions[id].log) \in Nat /\ Len(decisions'[id].log) \in Nat
         /\ Len(decisions[id].log) <= Len(decisions'[id].log)
         /\ \A i \in 1..Len(decisions[id].log) : decisions'[id].log[i] = decisions[id].log[i]
<1> DEFINE d == decisions[id]
           e == decisions'[id]
           Rec == [seq : Nat, from : Statuses \cup {"NONE"}, to : Statuses]
<1>1. d \in Decision /\ LogIsPath(d) /\ d.status # "ABSENT"
  BY DEF SessionInv, StoreInv, Sound, TypeOK, Exists
<1>2. DecisionStep(d, e)
  BY StoreSteps
<1>3. IsPrefix(d.log, e.log) /\ e \in Decision
  BY <1>1, <1>2, DecisionStepAppends, DecisionStepType
<1>4. d.log \in Seq(Rec) /\ e.log \in Seq(Rec)
  BY <1>1, <1>3 DEF Decision
<1> HIDE DEF Rec, d, e
<1>5. /\ Len(d.log) \in Nat /\ Len(e.log) \in Nat
      /\ Len(d.log) <= Len(e.log)
      /\ \A i \in 1..Len(d.log) : e.log[i] = d.log[i]
  BY <1>3, <1>4 DEF IsPrefix
<1>6. QED
  BY <1>5 DEF d, e

----------------------------------------------------------------------------
\* The invariant is kept.
LEMMA StaysFromTheLog ==
  ASSUME SessionInv, [SessionNext]_<<vars, sessionVars>>, NEW r, FromTheLog(r)
  PROVE  FromTheLog(r)'
<1>1. r.id \in Ids /\ decisions[r.id] \in Decision /\ LogIsPath(decisions[r.id])
  BY DEF SessionInv, StoreInv, Sound, TypeOK, FromTheLog, Request
<1>2. Exists(r.id)
  <2>1. r.seen - 1 \in Nat /\ r.seen - 1 < Len(decisions[r.id].log)
    BY DEF FromTheLog
  <2>2. QED
    BY <1>1, <2>1, LoggedExists DEF Exists
<1>3. QED
  BY <1>1, <1>2, LogsGrow DEF FromTheLog, Record

\* What was applied stays in the log of its decision, right after the version it was applied to.
LEMMA StaysApplied ==
  ASSUME SessionInv, [SessionNext]_<<vars, sessionVars>>, NEW a \in applied
  PROVE  AppliedBefore(a)'
<1>1. AppliedBefore(a) /\ a.request.id \in Ids
  BY DEF SessionInv, AppliedBefore
<1>2. decisions[a.request.id] \in Decision /\ LogIsPath(decisions[a.request.id])
  BY <1>1 DEF SessionInv, StoreInv, Sound, TypeOK
<1>3. Exists(a.request.id)
  BY <1>1, <1>2, LoggedExists DEF AppliedBefore, Exists
<1>4. /\ Len(decisions[a.request.id].log) \in Nat /\ Len(decisions'[a.request.id].log) \in Nat
      /\ Len(decisions[a.request.id].log) <= Len(decisions'[a.request.id].log)
  BY <1>1, <1>3, LogsGrow
<1>5. a.base \in Nat /\ a.base < Len(decisions[a.request.id].log)
  BY <1>1 DEF AppliedBefore
<1> DEFINE before == Len(decisions[a.request.id].log)
           after  == Len(decisions'[a.request.id].log)
<1>6. a.base < after
  <2>1. before \in Nat /\ after \in Nat /\ before <= after /\ a.base \in Nat /\ a.base < before
    BY <1>4, <1>5
  <2> HIDE DEF before, after
  <2> QED BY <2>1
<1>7. QED
  BY <1>1, <1>5, <1>6 DEF AppliedBefore

\* A request that is sent carries a version out of the log of its decision.
LEMMA SentFromTheLog ==
  ASSUME SessionInv, NEW id \in Ids, NEW op \in TraderOps, NEW volume \in Orders,
         Send(id, op, volume), NEW r \in sent'
  PROVE  r \in sent \/ FromTheLog(r)'
<1> DEFINE d == decisions[id]
<1>1. d \in Decision /\ LogIsPath(d) /\ d.status # "ABSENT" /\ d.status \in Statuses
  BY DEF SessionInv, StoreInv, Sound, TypeOK, Send, Exists, Decision
<1>2. /\ CurrentSequence(d) = Len(d.log)
      /\ Len(d.log) \in Nat /\ Len(d.log) >= 1
      /\ d.log[Len(d.log)].to = d.status
  BY <1>1, SequenceIsLength
<1>3. SUFFICES ASSUME r = [id |-> id, op |-> op, volume |-> volume, guard |-> GuardOf(d),
                           seen |-> CurrentSequence(d)]
               PROVE  FromTheLog(r)'
  BY DEF Send
<1>4. GuardOf(d) = [status |-> d.status,
                    seq |-> IF GuardKind = "version" THEN Len(d.log) ELSE 0]
  BY <1>2 DEF GuardOf
<1>5. decisions' = decisions
  BY DEF Send, vars
<1>6. r \in Request
  BY <1>1, <1>2, <1>3, <1>4 DEF Request
<1>7. QED
  BY <1>2, <1>3, <1>4, <1>5, <1>6 DEF FromTheLog, Record

\* Every step of the sessions keeps the invariant.
LEMMA Kept ==
  ASSUME SessionInv, [SessionNext]_<<vars, sessionVars>>
  PROVE  SessionInv'
<1>1. StoreInv'
  <2>1. TypeOK'
    <3>1. \A i \in Ids : decisions'[i] \in Decision
      BY StoreSteps, DecisionStepType DEF SessionInv, StoreInv, TypeOK
    <3>2. decisions' = [i \in Ids |-> decisions'[i]]
      BY StoreSteps, RegistryFunction DEF SessionInv, StoreInv
    <3>3. decisions' \in [Ids -> Decision]
      BY <3>1, <3>2
    <3>4. QED
      BY <3>3, StoreSteps, IndexType DEF SessionInv, StoreInv, TypeOK
  <2>2. \A i \in Ids : Sound(decisions'[i])
    BY StoreSteps, DecisionStepSound DEF SessionInv, StoreInv, TypeOK
  <2>3. QED
    BY <2>1, <2>2 DEF StoreInv
<1>2. \A r \in sent : FromTheLog(r)'
  BY StaysFromTheLog DEF SessionInv
<1>3. \A a \in applied : AppliedBefore(a)'
  BY StaysApplied
<1>4. CASE UNCHANGED sessionVars
  BY <1>1, <1>2, <1>3, <1>4 DEF SessionInv, sessionVars
<1>5. ASSUME NEW id \in Ids, NEW op \in TraderOps, NEW volume \in Orders, Send(id, op, volume)
      PROVE  SessionInv'
  BY <1>1, <1>2, <1>3, <1>5, SentFromTheLog DEF SessionInv, Send
<1>6. ASSUME NEW r \in sent, Handle(r)
      PROVE  SessionInv'
  <2>1. PICK a : /\ a = [request |-> r, base |-> CurrentSequence(decisions[r.id])]
                  /\ applied' = applied \cup {a} /\ sent' = sent
    BY <1>6 DEF Handle
  <2>2. r.id \in Ids
    BY GuardOffered
  <2>3. /\ a.base \in Nat
        /\ a.base < Len(decisions'[r.id].log)
    BY <1>6, <2>1, HandleAdds
  <2>4. AppliedBefore(a)'
    BY <2>1, <2>2, <2>3 DEF AppliedBefore
  <2>5. QED
    BY <1>1, <1>2, <1>3, <2>1, <2>4 DEF SessionInv
<1>7. QED
  BY <1>4, <1>5, <1>6 DEF SessionNext, Open, HandOver, Pass, sessionVars

\* The sessions keep the invariant throughout.
LEMMA SessionInvariant == SessionSpec => []SessionInv
<1>1. SessionInit => SessionInv
  <2>1. Init => TypeOK
    BY NoDecisionType DEF Init, TypeOK
  <2>2. Init => \A id \in Ids : Sound(decisions[id])
    BY NoDecisionSound DEF Init
  <2>3. QED
    BY <2>1, <2>2 DEF SessionInit, SessionInv, StoreInv
<1>2. SessionInv /\ [SessionNext]_<<vars, sessionVars>> => SessionInv'
  BY Kept
<1>3. QED
  BY <1>1, <1>2, PTL DEF SessionSpec

----------------------------------------------------------------------------
\* The sessions implement the store: whatever requests are late, overtaken or repeated, the
\* decisions go through a history of the store, with all that is proved of it.
THEOREM SessionsUseTheStore == SessionSpec => Spec
<1>1. SessionInit => Init
  BY DEF SessionInit
<1>2. SessionInv /\ [SessionNext]_<<vars, sessionVars>> => [Next]_vars
  BY StoreSteps
<1>3. QED
  BY <1>1, <1>2, SessionInvariant, PTL DEF SessionSpec, Spec

\* A trader's word is applied only to the version of the decision the trader saw.
THEOREM NoStaleWriteHolds ==
  ASSUME GuardKind = "version"
  PROVE  SessionSpec => []NoStaleWrite
<1>1. SessionInit => NoStaleWrite
  BY DEF SessionInit, NoStaleWrite
<1>2. SessionInv /\ NoStaleWrite /\ [SessionNext]_<<vars, sessionVars>> => NoStaleWrite'
  <2> SUFFICES ASSUME SessionInv, NoStaleWrite, [SessionNext]_<<vars, sessionVars>>
               PROVE  NoStaleWrite'
    OBVIOUS
  <2>1. ASSUME NEW r \in sent, Handle(r)
        PROVE  NoStaleWrite'
    <3>1. CurrentSequence(decisions[r.id]) = r.seen
      BY <2>1, HandleAdds DEF SessionInv, FromTheLog
    <3>2. applied' = applied \cup {[request |-> r, base |-> r.seen]}
      BY <2>1, <3>1 DEF Handle
    <3>3. QED
      BY <3>2 DEF NoStaleWrite
  <2>2. CASE applied' = applied
    BY <2>2 DEF NoStaleWrite
  <2>3. QED
    BY <2>1, <2>2 DEF SessionNext, Send, Open, HandOver, Pass, sessionVars
<1>3. QED
  BY <1>1, <1>2, SessionInvariant, PTL DEF SessionSpec

\* A request that is retried, and two requests made from one version, are applied once: the first
\* that is handled makes the version an old one.
THEOREM AppliedOnceHolds ==
  ASSUME GuardKind = "version"
  PROVE  SessionSpec => []AppliedOnce
<1>1. SessionInit => AppliedOnce
  BY DEF SessionInit, AppliedOnce
<1>2. SessionInv /\ NoStaleWrite /\ AppliedOnce /\ [SessionNext]_<<vars, sessionVars>>
        => AppliedOnce'
  <2> SUFFICES ASSUME SessionInv, NoStaleWrite, AppliedOnce, [SessionNext]_<<vars, sessionVars>>
               PROVE  AppliedOnce'
    OBVIOUS
  <2>1. ASSUME NEW r \in sent, Handle(r)
        PROVE  AppliedOnce'
    <3> DEFINE new == [request |-> r, base |-> CurrentSequence(decisions[r.id])]
    <3>1. applied' = applied \cup {new}
      BY <2>1 DEF Handle
    <3>2. /\ CurrentSequence(decisions[r.id]) = Len(decisions[r.id].log)
          /\ r.seen = Len(decisions[r.id].log)
      BY <2>1, HandleAdds DEF SessionInv, FromTheLog
    <3>3. ASSUME NEW a \in applied, a.request.id = r.id
          PROVE  a.request.seen # r.seen
      BY <3>2, <3>3 DEF SessionInv, AppliedBefore, NoStaleWrite
    <3>4. QED
      BY <3>1, <3>3 DEF AppliedOnce
  <2>2. CASE applied' = applied
    BY <2>2 DEF AppliedOnce
  <2>3. QED
    BY <2>1, <2>2 DEF SessionNext, Send, Open, HandOver, Pass, sessionVars
<1>3. QED
  BY <1>1, <1>2, SessionInvariant, NoStaleWriteHolds, PTL DEF SessionSpec
================================================================================
