----------------------------- MODULE TraderSessions -----------------------------
(***************************************************************************)
(* Browser sessions that act on decisions over HTTP.  A session reads a    *)
(* decision, the trader decides on what is on the screen, and the request  *)
(* carries the version that was read; it may be handled late, after other  *)
(* requests, or again, when the browser or a proxy retries it.             *)
(***************************************************************************)
EXTENDS DecisionStore

CONSTANTS
  GuardKind,    \* what requests carry: "version" (status and sequence) or "status" alone
  MaxRequests   \* bound: requests in the life of the model

ASSUME SessionAssumption ==
  /\ GuardKind \in {"version", "status"}
  /\ MaxRequests \in Nat

VARIABLES
  sent,     \* requests under way; a retry is the same request handled again
  applied   \* history: [request, base], base the sequence it was applied on

sessionVars == <<sent, applied>>

SessionInit == Init /\ sent = {} /\ applied = {}

TraderOps == {"accept", "modify", "reject", "delay", "reopen"}

\* the guards of a request made from what the session shows of dec
GuardOf(dec) ==
  [status |-> dec.status, seq |-> IF GuardKind = "version" THEN CurrentSequence(dec) ELSE 0]

\* the trader acts on the decision as it is on the screen
Send(id, op, volume) ==
  /\ Exists(id)
  /\ Cardinality(sent) < MaxRequests
  /\ op # "modify" => volume = decisions[id].rec
  /\ sent' = sent \cup {[id |-> id, op |-> op, volume |-> volume, guard |-> GuardOf(decisions[id]),
                         seen |-> CurrentSequence(decisions[id])]}
  /\ UNCHANGED <<vars, applied>>

\* the API hands the request to the store; a refused request changes nothing (409)
Handle(r) ==
  /\ \/ r.op = "accept" /\ Accept(r.id, r.guard)
     \/ r.op = "modify" /\ Modify(r.id, r.guard, r.volume)
     \/ r.op = "reject" /\ Reject(r.id, r.guard)
     \/ r.op = "delay"  /\ \E at \in 0..now : Delay(r.id, r.guard, MaxTime, at)
     \/ r.op = "reopen" /\ Reopen(r.id, r.guard)
  /\ applied' = applied \cup {[request |-> r, base |-> CurrentSequence(decisions[r.id])]}
  /\ UNCHANGED sent

Open(id, gate, rec) == Create(id, gate, rec) /\ UNCHANGED sessionVars

\* the execution service takes over what was approved
HandOver(id) == Submit(id, NoGuard, InstructionVolume(decisions[id])) /\ UNCHANGED sessionVars

Pass == Tick /\ UNCHANGED sessionVars

SessionNext ==
  \/ \E id \in Ids, gate \in Gates, rec \in Orders : Open(id, gate, rec)
  \/ \E id \in Ids, op \in TraderOps, volume \in Orders : Send(id, op, volume)
  \/ \E r \in sent : Handle(r)
  \/ \E id \in Ids : HandOver(id)
  \/ Pass

SessionSpec == SessionInit /\ [][SessionNext]_<<vars, sessionVars>>

----------------------------------------------------------------------------
\* A trader's word is applied only to the version of the decision the trader saw: a request
\* that was overtaken by a delay, a reopening or another session fails instead.
NoStaleWrite == \A a \in applied : a.base = a.request.seen
================================================================================
