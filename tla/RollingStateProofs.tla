--------------------------- MODULE RollingStateProofs ---------------------------
(***************************************************************************)
(* Theorems of RollingState, for every set of workers, operations and      *)
(* regimes, every length of the day, every capacity of the vintage store   *)
(* and every bound.                                                        *)
(*                                                                         *)
(* The invariant says that what is booked was remembered or booked by an   *)
(* advance (BookedIsApplied), how the vintage store relates to the clock   *)
(* and to the sequence number (VintageChain), and, under the lock, where   *)
(* the run in force starts after what is booked (PositionsInv).            *)
(***************************************************************************)
EXTENDS RollingState, TLAPS

BookedIsApplied ==
  \A p \in Periods : env.booked[p] <= env.offset + (IF p \in env.applied THEN 1 ELSE 0)

\* vintages numbered up to publication k, published in order and not after the instant at
Chain(store, k, at) ==
  /\ \A i \in 1..Len(store) : store[i].published.publication = k - (Len(store) - i)
  /\ \A i \in 1..Len(store) : store[i].published.at <= at
  /\ \A i, j \in 1..Len(store) : i <= j => store[i].published.at <= store[j].published.at

\* ids made since the clock stood at base, with sequence numbers up to seq at the instant at
Named(store, base, seq, at) ==
  /\ \A i \in 1..Len(store) : store[i].id.step = store[i].published.at - base
  /\ \A i \in 1..Len(store) : store[i].id.step < at - base \/ store[i].id.seq <= seq
  /\ \A i, j \in 1..Len(store) : store[i].id = store[j].id => i = j

VintageChain ==
  /\ Chain(env.vintages, env.live.publication, AsOf)
  /\ Named(env.vintages, env.base, env.seq, AsOf)
  /\ Len(env.vintages) >= env.seq \/ Len(env.vintages) = MaxVintages

RollingInv == RollingTypeOK /\ BookedIsApplied /\ VintageChain

Env ==
  [base : Nat, offset : Nat, seq : Nat, regime : Regimes, booked : [Periods -> Nat],
   applied : SUBSET Periods, vintages : Seq(VintageType), live : InstantType]

Call ==
  [pc : ProgramCounters, op : Operations \cup {"none"}, inputs : InputsType, snap : Nat,
   after : ReturnPoints]

----------------------------------------------------------------------------
\* Removing the first element of a sequence.
LEMMA RemoveOldest ==
  ASSUME NEW S, NEW s \in Seq(S), Len(s) >= 1
  PROVE  /\ RemoveAt(s, 1) \in Seq(S)
         /\ Len(RemoveAt(s, 1)) = Len(s) - 1
         /\ \A i \in 1..(Len(s) - 1) : RemoveAt(s, 1)[i] = s[i + 1]
<1>1. /\ SubSeq(s, 1, 0) = <<>>
      /\ SubSeq(s, 2, Len(s)) \in Seq(S)
      /\ Len(SubSeq(s, 2, Len(s))) = Len(s) - 1
      /\ \A i \in 1..(Len(s) - 1) : SubSeq(s, 2, Len(s))[i] = s[i + 1]
  BY SMTT(40)
<1>2. RemoveAt(s, 1) = SubSeq(s, 2, Len(s))
  BY <1>1 DEF RemoveAt
<1>3. QED
  BY <1>1, <1>2

\* The instants of the vintages of a store.
LEMMA InstantsOfStore ==
  ASSUME NEW store \in Seq(VintageType), NEW i \in 1..Len(store)
  PROVE  /\ store[i].published.at \in Nat
         /\ store[i].published.publication \in Nat
         /\ store[i].id.step \in Int
         /\ store[i].id.seq \in Nat
<1>1. store[i] \in VintageType
  OBVIOUS
<1>2. QED
  BY <1>1 DEF VintageType, InstantType

\* The next publication, not before the others, continues the chain.
LEMMA ChainGrows ==
  ASSUME NEW store \in Seq(VintageType), NEW k \in Nat, NEW at \in Nat,
         NEW v \in VintageType, Chain(store, k, at), v.published = Instant(at, k + 1)
  PROVE  Chain(Append(store, v), k + 1, at)
<1> DEFINE all == Append(store, v)
<1>1. /\ all \in Seq(VintageType)
      /\ Len(all) = Len(store) + 1
      /\ Len(store) \in Nat
      /\ \A i \in 1..Len(store) : all[i] = store[i]
      /\ all[Len(all)] = v
  OBVIOUS
<1> HIDE DEF all
<1>2. v.published.at = at /\ v.published.publication = k + 1
  BY DEF Instant
<1>3. \A i \in 1..Len(all) :
        \/ i \in 1..Len(store) /\ all[i] = store[i]
        \/ i = Len(all) /\ all[i] = v
  BY <1>1
<1>4. \A i \in 1..Len(all) : /\ all[i].published.at \in Nat
                            /\ all[i].published.at <= at
  <2> TAKE i \in 1..Len(all)
  <2>1. CASE i \in 1..Len(store) /\ all[i] = store[i]
    BY <2>1, InstantsOfStore DEF Chain
  <2>2. CASE i = Len(all) /\ all[i] = v
    BY <1>2, <2>2
  <2>3. QED
    BY <1>3, <2>1, <2>2
<1>5. \A i \in 1..Len(all) : all[i].published.publication = k + 1 - (Len(all) - i)
  <2> TAKE i \in 1..Len(all)
  <2>1. CASE i \in 1..Len(store) /\ all[i] = store[i]
    <3>1. store[i].published.publication = k - (Len(store) - i)
      BY <2>1 DEF Chain
    <3>2. QED
      BY <1>1, <2>1, <3>1
  <2>2. CASE i = Len(all) /\ all[i] = v
    BY <1>1, <1>2, <2>2
  <2>3. QED
    BY <1>3, <2>1, <2>2
<1>6. ASSUME NEW i \in 1..Len(all), NEW j \in 1..Len(all), i <= j
      PROVE  all[i].published.at <= all[j].published.at
  <2>1. CASE j \in 1..Len(store) /\ all[j] = store[j]
    <3>1. i \in 1..Len(store) /\ all[i] = store[i]
      BY <1>1, <1>6, <2>1
    <3>2. QED
      BY <1>6, <2>1, <3>1 DEF Chain
  <2>2. CASE j = Len(all) /\ all[j] = v
    BY <1>2, <1>4, <2>2
  <2>3. QED
    BY <1>3, <2>1, <2>2
<1>7. \A i \in 1..Len(all) : all[i].published.at <= at
  BY <1>4
<1>8. \A i, j \in 1..Len(all) : i <= j => all[i].published.at <= all[j].published.at
  BY <1>6
<1>9. Chain(all, k + 1, at)
  BY <1>5, <1>7, <1>8, SMTT(30) DEF Chain
<1>10. QED
  BY <1>9 DEF all

\* The vintage published first stands first.
LEMMA OldestIsFirst ==
  ASSUME NEW all \in Seq(VintageType), Len(all) >= 1, NEW k \in Nat, NEW at \in Nat,
         Chain(all, k, at)
  PROVE  Oldest(all) = 1
<1> DEFINE First(i) == \A j \in 1..Len(all) : NotAfter(all[i].published, all[j].published)
<1>1. 1 \in 1..Len(all) /\ Len(all) \in Nat
  OBVIOUS
<1>2. \A i \in 1..Len(all) :
        /\ all[i].published.at \in Nat
        /\ all[i].published.publication = k - (Len(all) - i)
        /\ all[1].published.at <= all[i].published.at
  BY <1>1, InstantsOfStore DEF Chain
<1>3. First(1)
  BY <1>1, <1>2 DEF NotAfter
<1>4. \A i \in 1..Len(all) : First(i) => i = 1
  <2>1. SUFFICES ASSUME NEW i \in 1..Len(all), First(i) PROVE i = 1
    OBVIOUS
  <2>2. NotAfter(all[i].published, all[1].published)
    BY <1>1, <2>1
  <2>3. QED
    BY <1>1, <1>2, <2>2 DEF NotAfter
<1>5. QED
  BY <1>1, <1>3, <1>4 DEF Oldest

\* r holds the last elements of all
Suffix(r, all) ==
  /\ Len(r) <= Len(all)
  /\ \A i \in 1..Len(r) : r[i] = all[i + (Len(all) - Len(r))]

\* Retaining the next publication keeps the newest ones, within the capacity.
LEMMA RetainNext ==
  ASSUME NEW store \in Seq(VintageType), Len(store) <= MaxVintages,
         NEW k \in Nat, NEW at \in Nat, NEW v \in VintageType,
         Chain(store, k, at), v.published = Instant(at, k + 1)
  PROVE  /\ Retain(store, v) \in Seq(VintageType)
         /\ Len(Retain(store, v)) \in 1..MaxVintages
         /\ Suffix(Retain(store, v), Append(store, v))
         /\ Len(Retain(store, v)) \in {Len(store) + 1, MaxVintages}
<1> DEFINE all == Append(store, v)
<1>1. /\ all \in Seq(VintageType)
      /\ Len(all) = Len(store) + 1
      /\ Len(store) \in Nat
      /\ MaxVintages \in Nat \ {0}
  BY RollingAssumption
<1>2. Retain(store, v) = IF Len(all) <= MaxVintages THEN all ELSE RemoveAt(all, Oldest(all))
  BY DEF Retain
<1>3. Chain(all, k + 1, at)
  BY ChainGrows
<1> HIDE DEF all
<1>7. Oldest(all) = 1
  BY <1>1, <1>3, OldestIsFirst
<1>4. /\ RemoveAt(all, 1) \in Seq(VintageType)
      /\ Len(RemoveAt(all, 1)) = Len(all) - 1
      /\ \A i \in 1..(Len(all) - 1) : RemoveAt(all, 1)[i] = all[i + 1]
  BY <1>1, RemoveOldest
<1>5. CASE Len(all) <= MaxVintages
  BY <1>1, <1>2, <1>5 DEF Suffix, all
<1>6. CASE Len(all) > MaxVintages
  <2> DEFINE r == RemoveAt(all, 1)
  <2>1. Retain(store, v) = r
    BY <1>1, <1>2, <1>6, <1>7
  <2>2. r \in Seq(VintageType) /\ Len(r) = Len(all) - 1 /\ Len(r) \in 1..MaxVintages
    BY <1>1, <1>4, <1>6
  <2>3. \A i \in 1..Len(r) : r[i] = all[i + (Len(all) - Len(r))]
    <3> TAKE i \in 1..Len(r)
    <3>1. i \in 1..(Len(all) - 1) /\ i + (Len(all) - Len(r)) = i + 1
      BY <1>1, <2>2
    <3>2. QED
      BY <1>4, <3>1
  <2> HIDE DEF r
  <2>4. Len(r) <= Len(all)
    BY <1>1, <2>2
  <2>5. Len(r) = MaxVintages
    BY <1>1, <1>6, <2>2
  <2>6. QED
    BY <2>1, <2>2, <2>3, <2>4, <2>5 DEF Suffix, all
<1>8. QED
  BY <1>1, <1>5, <1>6

----------------------------------------------------------------------------
\* The periods of a horizon are delivery periods.
LEMMA HorizonType == \A at : Horizon(at) \subseteq Periods
  BY DEF Horizon

\* The service starts well typed, with one vintage.
LEMMA TypeInit == RollingInit => RollingTypeOK
<1> SUFFICES ASSUME RollingInit PROVE RollingTypeOK
  OBVIOUS
<1>1. FirstVintage(0, 1) \in VintageType
  BY RollingAssumption DEF FirstVintage, Vintage, Instant, VintageType, InstantType
<1>2. <<FirstVintage(0, 1)>> \in Seq(VintageType) /\ Len(<<FirstVintage(0, 1)>>) = 1
  BY <1>1
<1>3. NoneBooked \in [Periods -> Nat]
  BY DEF NoneBooked
<1>4. env \in Env /\ Len(env.vintages) <= MaxVintages
  BY <1>2, <1>3, RollingAssumption DEF RollingInit, Env, Instant, InstantType
<1>5. inputs \in InputsType
  BY HorizonType DEF RollingInit, InputsType
<1>6. calls \in [Workers -> Call]
  BY <1>5 DEF RollingInit, Call, ProgramCounters, ReturnPoints
<1>7. QED
  BY <1>4, <1>5, <1>6, HorizonType DEF RollingInit, RollingTypeOK, Env, Call

\* The types that the lemmas need of the environment and the calls.
LEMMA EnvTypes ==
  ASSUME RollingTypeOK
  PROVE  /\ env \in Env
         /\ calls \in [Workers -> Call]
         /\ clock \in Nat
         /\ AsOf \in Nat
BY DEF RollingTypeOK, Env, Call, AsOf

\* What an operation does to the environment before it refreshes it.
LEMMA ApplyType ==
  ASSUME RollingTypeOK, NEW w \in Workers, Apply(w)
  PROVE  env' \in Env /\ Len(env'.vintages) <= MaxVintages
<1>1. /\ env \in Env
      /\ run.periods \in SUBSET Periods
      /\ clock \in Nat
      /\ Len(env.vintages) <= MaxVintages
      /\ MaxVintages \in Nat
  BY EnvTypes, RollingAssumption DEF RollingTypeOK
<1>2. CASE env' = Reconciled(env, AsOf)
  <2> DEFINE done == {p \in run.periods \ env.applied : p < AsOf}
             booked == [p \in Periods |-> IF p \in done THEN env.booked[p] + 1 ELSE env.booked[p]]
  <2>1. booked \in [Periods -> Nat] /\ env.applied \cup done \in SUBSET Periods
    BY <1>1 DEF Env
  <2>2. env' = [env EXCEPT !.booked = booked, !.applied = env.applied \cup done]
    BY <1>2 DEF Reconciled
  <2> HIDE DEF done, booked
  <2>3. QED
    BY <1>1, <2>1, <2>2 DEF Env
<1>3. ASSUME NEW regime \in Regimes, env' = [env EXCEPT !.regime = regime]
      PROVE  env' \in Env /\ Len(env'.vintages) <= MaxVintages
  BY <1>1, <1>3 DEF Env
<1>4. CASE env' = Advanced(env)
  <2> DEFINE first == CHOOSE p \in run.periods : \A q \in run.periods : p <= q
             booked == [env.booked EXCEPT ![first] = env.booked[first] + 1]
  <2>1. env' = [env EXCEPT !.booked = booked, !.offset = env.offset + 1, !.seq = 0]
    BY <1>4 DEF Advanced
  <2> HIDE DEF first
  <2>2. booked \in [Periods -> Nat]
    <3>1. env.booked \in [Periods -> Nat]
      BY <1>1 DEF Env
    <3>2. CASE first \in Periods
      <4>1. env.booked[first] + 1 \in Nat
        BY <3>1, <3>2
      <4>2. QED
        BY <3>1, <3>2, <4>1
    <3>3. CASE first \notin Periods
      <4>1. booked = env.booked
        BY <3>1, <3>3
      <4>2. QED
        BY <3>1, <4>1
    <3>4. QED
      BY <3>2, <3>3
  <2> HIDE DEF booked
  <2>3. env.offset + 1 \in Nat
    BY <1>1 DEF Env
  <2>4. QED
    BY <1>1, <2>1, <2>2, <2>3 DEF Env
<1>5. CASE env' = Fresh(env)
  <2>1. NoneBooked \in [Periods -> Nat]
    BY DEF NoneBooked
  <2>2. <<>> \in Seq(VintageType) /\ Len(<<>>) = 0
    OBVIOUS
  <2>3. env' = [base |-> clock, offset |-> 0, seq |-> 0, regime |-> Normal,
                booked |-> NoneBooked, applied |-> {}, vintages |-> <<>>, live |-> env.live]
    BY <1>1, <1>5 DEF Fresh, Env
  <2>4. env'.vintages = <<>> /\ env' \in Env
    BY <1>1, <2>1, <2>2, <2>3, RollingAssumption DEF Env
  <2>5. QED
    BY <1>1, <2>2, <2>4
<1>6. QED
  BY <1>2, <1>3, <1>4, <1>5 DEF Apply

\* The vintage that a refresh makes, and what retaining it leaves.
LEMMA RenewRetains ==
  ASSUME RollingTypeOK, VintageChain, NEW w \in Workers, Renew(w)
  PROVE  \E new \in VintageType :
           /\ new.id.step = AsOf - env.base
           /\ new.id.seq = env.seq + 1
           /\ new.published = Instant(AsOf, env.live.publication + 1)
           /\ env'.vintages = Retain(env.vintages, new)
           /\ env'.vintages \in Seq(VintageType)
           /\ Len(env'.vintages) \in 1..MaxVintages
           /\ Suffix(env'.vintages, Append(env.vintages, new))
           /\ Len(env'.vintages) \in {Len(env.vintages) + 1, MaxVintages}
           /\ Chain(Append(env.vintages, new), env.live.publication + 1, AsOf)
           /\ env' = [env EXCEPT !.seq = env.seq + 1, !.vintages = env'.vintages,
                                !.live = Instant(AsOf, env.live.publication + 1)]
<1> DEFINE live == Instant(AsOf, env.live.publication + 1)
           new == Vintage(AsOf - env.base, env.seq + 1, env.regime, live)
<1>1. /\ env.base \in Nat /\ env.seq \in Nat /\ env.regime \in Regimes
      /\ env.vintages \in Seq(VintageType) /\ Len(env.vintages) <= MaxVintages
      /\ env.live.publication \in Nat
      /\ AsOf \in Nat
      /\ env \in Env
  BY EnvTypes DEF RollingTypeOK, InstantType
<1>2. live \in InstantType
  BY <1>1 DEF Instant, InstantType
<1>3. /\ new \in VintageType
      /\ new.id.step = AsOf - env.base
      /\ new.id.seq = env.seq + 1
      /\ new.published = live
  BY <1>1, <1>2 DEF Vintage, VintageType
<1>4. env' = [env EXCEPT !.seq = env.seq + 1, !.live = live,
                        !.vintages = Retain(env.vintages, new)]
  BY DEF Renew
<1> HIDE DEF new, live
<1>5. env'.vintages = Retain(env.vintages, new)
  BY <1>1, <1>4 DEF Env
<1>6. Chain(env.vintages, env.live.publication, AsOf)
  BY DEF VintageChain
<1>7. live = Instant(AsOf, env.live.publication + 1)
  BY DEF live
<1>8. /\ Retain(env.vintages, new) \in Seq(VintageType)
      /\ Len(Retain(env.vintages, new)) \in 1..MaxVintages
      /\ Suffix(Retain(env.vintages, new), Append(env.vintages, new))
      /\ Len(Retain(env.vintages, new)) \in {Len(env.vintages) + 1, MaxVintages}
  BY <1>1, <1>3, <1>6, <1>7, RetainNext
<1>9. Chain(Append(env.vintages, new), env.live.publication + 1, AsOf)
  BY <1>1, <1>3, <1>6, <1>7, ChainGrows
<1>10. QED
  BY <1>3, <1>4, <1>5, <1>7, <1>8, <1>9

\* A refresh keeps the type of the environment.
LEMMA RenewType ==
  ASSUME RollingTypeOK, VintageChain, NEW w \in Workers, Renew(w)
  PROVE  env' \in Env /\ Len(env'.vintages) <= MaxVintages
<1>1. PICK new \in VintageType :
        /\ env'.vintages \in Seq(VintageType)
        /\ Len(env'.vintages) \in 1..MaxVintages
        /\ env' = [env EXCEPT !.seq = env.seq + 1, !.vintages = env'.vintages,
                             !.live = Instant(AsOf, env.live.publication + 1)]
  BY RenewRetains
<1>2. /\ env \in Env
      /\ AsOf \in Nat
  BY EnvTypes
<1>3. Instant(AsOf, env.live.publication + 1) \in InstantType /\ env.seq + 1 \in Nat
  BY <1>2 DEF Env, Instant, InstantType
<1>4. env' \in Env
  BY <1>1, <1>2, <1>3 DEF Env
<1>5. QED
  BY <1>1, <1>4, RollingAssumption

----------------------------------------------------------------------------
\* The types, one variable at a time.
TypedState ==
  /\ env \in Env /\ Len(env.vintages) <= MaxVintages
  /\ calls \in [Workers -> Call]
  /\ clock \in Nat /\ shown \in Nat /\ inputs \in InputsType
  /\ run \in [of : Nat, inputs : Nat, periods : SUBSET Periods]
  /\ lock \in Workers \cup {NoWorker}
  /\ intact \in BOOLEAN

\* RollingTypeOK says the same one variable at a time,
LEMMA Typed == RollingTypeOK <=> TypedState
  BY DEF RollingTypeOK, TypedState, Env, Call

\* and so it does of the next state.
LEMMA TypedNext == RollingTypeOK' <=> TypedState'
  BY DEF RollingTypeOK, TypedState, Env, Call

\* What a step does to the calls: one worker's record is replaced by another one.
LEMMA CallsType ==
  ASSUME calls \in [Workers -> Call], NEW w \in Workers, NEW c \in Call,
         calls' = [calls EXCEPT ![w] = c]
  PROVE  calls' \in [Workers -> Call]
OBVIOUS

\* Moving a worker to another step keeps the type of the calls.
LEMMA GotoType ==
  ASSUME calls \in [Workers -> Call], NEW w \in Workers, NEW pc \in ProgramCounters, Goto(w, pc)
  PROVE  calls' \in [Workers -> Call]
<1>1. [calls[w] EXCEPT !.pc = pc] \in Call
  BY DEF Call
<1>2. calls' = [calls EXCEPT ![w] = [calls[w] EXCEPT !.pc = pc]]
  BY DEF Goto
<1>3. QED
  BY <1>1, <1>2, CallsType

\* Every step keeps the types.
LEMMA TypeStep ==
  ASSUME RollingTypeOK, VintageChain, RollingNext
  PROVE  RollingTypeOK'
<1>1. TypedState
  BY Typed
<1>2. env.live.publication \in Nat
  BY <1>1 DEF TypedState, Env, InstantType
<1>3. CASE Tick
  BY <1>1, <1>3, TypedNext DEF Tick, TypedState
<1>4. CASE FeedRefresh
  BY <1>1, <1>4, TypedNext DEF FeedRefresh, FeedSnapshot, TypedState
<1>5. ASSUME NEW w \in Workers, NEW op \in RollingOps, Enter(w, op)
      PROVE  TypedState'
  <2> DEFINE pc == IF op = "run" THEN "ensure" ELSE "apply"
             c == [calls[w] EXCEPT !.pc = pc, !.op = op]
  <2>1. op \in Operations /\ pc \in ProgramCounters
    BY RollingAssumption DEF ProgramCounters
  <2>2. c \in Call
    BY <1>1, <2>1 DEF TypedState, Call
  <2>3. calls' = [calls EXCEPT ![w] = c]
    BY <1>5 DEF Enter
  <2>4. calls' \in [Workers -> Call]
    BY <1>1, <2>2, <2>3, CallsType DEF TypedState
  <2>5. QED
    BY <1>1, <1>5, <2>4 DEF Enter, TypedState
<1>6. ASSUME NEW w \in Workers, Restore(w)
      PROVE  TypedState'
  <2>1. PICK next \in {<<"idle", "idle">>, <<"ensure", "optimise">>, <<"answer", "idle">>} :
          calls' = [calls EXCEPT ![w].pc = "publish", ![w].after = next[2],
                                 ![w].inputs = inputs, ![w].snap = env.live.publication]
    BY <1>6 DEF Restore
  <2> DEFINE c == [calls[w] EXCEPT !.pc = "publish", !.after = next[2],
                                   !.inputs = inputs, !.snap = env.live.publication]
  <2>2. next[2] \in ReturnPoints /\ "publish" \in ProgramCounters
    BY DEF ProgramCounters, ReturnPoints
  <2>3. c \in Call
    BY <1>1, <1>2, <2>2 DEF TypedState, Call
  <2>4. calls' = [calls EXCEPT ![w] = c]
    BY <2>1
  <2>5. calls' \in [Workers -> Call]
    BY <1>1, <2>3, <2>4, CallsType DEF TypedState
  <2>6. QED
    BY <1>1, <1>6, <2>5 DEF Restore, TypedState
<1>7. ASSUME NEW w \in Workers, Apply(w)
      PROVE  TypedState'
  <2>1. calls' \in [Workers -> Call]
    BY <1>1, <1>7, GotoType DEF Apply, TypedState, ProgramCounters
  <2>2. env' \in Env /\ Len(env'.vintages) <= MaxVintages
    BY <1>7, ApplyType
  <2>3. QED
    BY <1>1, <1>7, <2>1, <2>2 DEF Apply, TypedState
<1>8. ASSUME NEW w \in Workers, Renew(w)
      PROVE  TypedState'
  <2> DEFINE k == env.live.publication + 1
             periods == [of |-> k, periods |-> Horizon(AsOf)]
             c == [calls[w] EXCEPT !.pc = "publish", !.after = "ensure",
                                   !.snap = k, !.inputs = periods]
  <2>1. env' \in Env /\ Len(env'.vintages) <= MaxVintages
    BY <1>8, RenewType
  <2>2. periods \in InputsType
    BY <1>2, HorizonType DEF InputsType
  <2>3. c \in Call
    <3>1. calls[w] \in Call /\ k \in Nat
      BY <1>1, <1>2 DEF TypedState
    <3>2. "publish" \in ProgramCounters /\ "ensure" \in ReturnPoints
      BY DEF ProgramCounters, ReturnPoints
    <3> HIDE DEF periods, k
    <3>3. QED
      BY <2>2, <3>1, <3>2 DEF Call
  <2>4. calls' = [calls EXCEPT ![w] = c]
    BY <1>8 DEF Renew, Instant
  <2>5. calls' \in [Workers -> Call]
    BY <1>1, <2>3, <2>4, CallsType DEF TypedState
  <2>6. run' \in [of : Nat, inputs : Nat, periods : SUBSET Periods]
    BY <1>1, <1>8 DEF Renew, FeedSnapshot, TypedState
  <2>7. QED
    BY <1>1, <1>8, <2>1, <2>5, <2>6 DEF Renew, TypedState
<1>9. ASSUME NEW w \in Workers, PublishInputs(w)
      PROVE  TypedState'
  <2>1. calls' \in [Workers -> Call]
    BY <1>1, <1>9, GotoType DEF PublishInputs, TypedState, ProgramCounters
  <2>2. inputs' \in InputsType
    BY <1>1, <1>9 DEF PublishInputs, TypedState, Call
  <2>3. QED
    BY <1>1, <1>9, <2>1, <2>2 DEF PublishInputs, TypedState
<1>10. ASSUME NEW w \in Workers, PublishSnapshot(w)
       PROVE  TypedState'
  <2>1. calls[w].after \in ProgramCounters /\ calls[w].snap \in Nat
    BY <1>1 DEF TypedState, Call, ReturnPoints, ProgramCounters
  <2>2. calls' \in [Workers -> Call]
    BY <1>1, <1>10, <2>1, GotoType DEF PublishSnapshot, TypedState
  <2>3. QED
    BY <1>1, <1>10, <2>1, <2>2 DEF PublishSnapshot, TypedState
<1>11. ASSUME NEW w \in Workers, Ensured(w)
       PROVE  TypedState'
  <2>1. calls' \in [Workers -> Call]
    BY <1>1, <1>11, GotoType DEF Ensured, TypedState, ProgramCounters
  <2>2. QED
    BY <1>1, <1>11, <2>1 DEF Ensured, TypedState
<1>12. ASSUME NEW w \in Workers, Optimise(w)
       PROVE  TypedState'
  <2>1. calls' \in [Workers -> Call]
    BY <1>1, <1>12, GotoType DEF Optimise, TypedState, ProgramCounters
  <2>2. run' \in [of : Nat, inputs : Nat, periods : SUBSET Periods]
    BY <1>1, <1>2, <1>12 DEF Optimise, InputsType, TypedState
  <2>3. QED
    BY <1>1, <1>12, <2>1, <2>2 DEF Optimise, TypedState
<1>13. ASSUME NEW w \in Workers, ResetFails(w)
       PROVE  TypedState'
  <2>1. calls' \in [Workers -> Call]
    BY <1>1, <1>13, GotoType DEF ResetFails, TypedState, ProgramCounters
  <2>2. QED
    BY <1>1, <1>13, <2>1 DEF ResetFails, TypedState
<1>14. QED
  BY <1>3, <1>4, <1>5, <1>6, <1>7, <1>8, <1>9, <1>10, <1>11, <1>12, <1>13, TypedNext
  DEF RollingNext, Work

----------------------------------------------------------------------------
(***************************************************************************)
(* The positions                                                           *)
(***************************************************************************)
\* Nothing is booked at the start.
LEMMA BookedInit == RollingInit => BookedIsApplied
  BY DEF RollingInit, BookedIsApplied, NoneBooked

\* A period is booked only when it is not remembered, and remembered with it.
LEMMA BookedStep ==
  ASSUME RollingTypeOK, BookedIsApplied, RollingNext
  PROVE  BookedIsApplied'
<1>1. /\ env \in Env
      /\ env.booked \in [Periods -> Nat]
      /\ env.offset \in Nat
  BY EnvTypes DEF Env
<1>2. CASE UNCHANGED env
  BY <1>2 DEF BookedIsApplied
<1>3. ASSUME NEW w \in Workers, Apply(w)
      PROVE  BookedIsApplied'
  <2>1. CASE env' = Reconciled(env, AsOf)
    <3> DEFINE done == {p \in run.periods \ env.applied : p < AsOf}
    <3>1. /\ env'.offset = env.offset
          /\ env'.applied = env.applied \cup done
          /\ \A p \in Periods :
               env'.booked[p] = IF p \in done THEN env.booked[p] + 1 ELSE env.booked[p]
      BY <1>1, <2>1 DEF Reconciled, Env
    <3>2. \A p \in done : p \notin env.applied
      OBVIOUS
    <3> HIDE DEF done
    <3>3. QED
      BY <1>1, <3>1, <3>2 DEF BookedIsApplied
  <2>2. ASSUME NEW regime \in Regimes, env' = [env EXCEPT !.regime = regime]
        PROVE  BookedIsApplied'
    BY <1>1, <2>2 DEF BookedIsApplied, Env
  <2>3. CASE env' = Advanced(env)
    <3>1. /\ env'.offset = env.offset + 1
          /\ env'.applied = env.applied
          /\ \A p \in Periods : env'.booked[p] \in {env.booked[p], env.booked[p] + 1}
      BY <1>1, <2>3 DEF Advanced, Env
    <3>2. QED
      BY <1>1, <3>1 DEF BookedIsApplied
  <2>4. CASE env' = Fresh(env)
    <3>1. env'.booked = NoneBooked /\ env'.offset = 0
      BY <1>1, <2>4 DEF Fresh, Env
    <3>2. QED
      BY <3>1 DEF BookedIsApplied, NoneBooked
  <2>5. QED
    BY <1>3, <2>1, <2>2, <2>3, <2>4 DEF Apply
<1>4. ASSUME NEW w \in Workers, Renew(w)
      PROVE  BookedIsApplied'
  <2>1. /\ env'.offset = env.offset
        /\ env'.booked = env.booked
        /\ env'.applied = env.applied
    BY <1>1, <1>4 DEF Renew, Env
  <2>2. QED
    BY <2>1 DEF BookedIsApplied
<1>5. QED
  BY <1>2, <1>3, <1>4
  DEF RollingNext, Work, Tick, FeedRefresh, Enter, Restore, ResetFails, PublishInputs,
      PublishSnapshot, Ensured, Optimise

----------------------------------------------------------------------------
(***************************************************************************)
(* The vintage store                                                       *)
(***************************************************************************)
\* Time goes on.
LEMMA StoreLater ==
  ASSUME NEW store \in Seq(VintageType), NEW k, NEW base \in Nat, NEW seq \in Nat,
         NEW at \in Nat, NEW later \in Nat, at <= later,
         Chain(store, k, at), Named(store, base, seq, at)
  PROVE  Chain(store, k, later) /\ Named(store, base, seq, later)
<1>1. \A i \in 1..Len(store) :
        store[i].published.at \in Nat /\ store[i].id.step \in Int /\ store[i].id.seq \in Nat
  BY InstantsOfStore
<1>2. Chain(store, k, later)
  BY <1>1 DEF Chain
<1>3. Named(store, base, seq, later)
  BY <1>1 DEF Named
<1>4. QED
  BY <1>2, <1>3

\* In the next half hour sequence numbers may start again.
LEMMA NamedAdvance ==
  ASSUME NEW store \in Seq(VintageType), NEW k, NEW base \in Nat, NEW seq \in Nat,
         NEW at \in Nat, Chain(store, k, at), Named(store, base, seq, at)
  PROVE  Named(store, base, 0, at + 1)
<1>1. \A i \in 1..Len(store) :
        /\ store[i].published.at \in Nat /\ store[i].published.at <= at
        /\ store[i].id.step = store[i].published.at - base
  BY InstantsOfStore DEF Chain, Named
<1>2. \A i \in 1..Len(store) : store[i].id.step < (at + 1) - base
  BY <1>1
<1>3. QED
  BY <1>1, <1>2 DEF Named

\* The next sequence number makes a new id.
LEMMA NamedGrows ==
  ASSUME NEW store \in Seq(VintageType), NEW base \in Nat, NEW seq \in Nat, NEW at \in Nat,
         NEW v \in VintageType, v.published.at = at, v.id.step = at - base, v.id.seq = seq + 1,
         Named(store, base, seq, at)
  PROVE  Named(Append(store, v), base, seq + 1, at)
<1> DEFINE all == Append(store, v)
<1>1. /\ Len(all) = Len(store) + 1
      /\ Len(store) \in Nat
      /\ \A i \in 1..Len(store) : all[i] = store[i]
      /\ all[Len(all)] = v
  OBVIOUS
<1> HIDE DEF all
<1>2. \A i \in 1..Len(all) :
        \/ i \in 1..Len(store) /\ all[i] = store[i]
        \/ i = Len(all) /\ all[i] = v
  BY <1>1
<1>3. \A i \in 1..Len(store) :
        /\ store[i].id.step \in Int
        /\ store[i].id.seq \in Nat
        /\ store[i].id.step < at - base \/ store[i].id.seq <= seq
  BY InstantsOfStore DEF Named
<1>4. \A i \in 1..Len(all) : all[i].id.step = all[i].published.at - base
  BY <1>2 DEF Named
<1>5. \A i \in 1..Len(all) : all[i].id.step < at - base \/ all[i].id.seq <= seq + 1
  <2> TAKE i \in 1..Len(all)
  <2>1. CASE i \in 1..Len(store) /\ all[i] = store[i]
    BY <1>3, <2>1
  <2>2. CASE i = Len(all) /\ all[i] = v
    BY <2>2
  <2>3. QED
    BY <1>2, <2>1, <2>2
<1>6. \A i \in 1..Len(store) : store[i].id # v.id
  BY <1>3
<1>7. \A i, j \in 1..Len(all) : all[i].id = all[j].id => i = j
  BY <1>2, <1>6 DEF Named
<1>8. Named(all, base, seq + 1, at)
  BY <1>4, <1>5, <1>7 DEF Named
<1>9. QED
  BY <1>8 DEF all

\* What holds of a store holds of its newest vintages.
LEMMA SuffixOfStore ==
  ASSUME NEW all \in Seq(VintageType), NEW r \in Seq(VintageType), Suffix(r, all),
         NEW k \in Nat, NEW base, NEW seq, NEW at, Chain(all, k, at), Named(all, base, seq, at)
  PROVE  Chain(r, k, at) /\ Named(r, base, seq, at)
<1> DEFINE d == Len(all) - Len(r)
<1>1. Len(r) \in Nat /\ Len(all) \in Nat /\ d \in Nat
  BY DEF Suffix
<1>2. \A i \in 1..Len(r) : /\ i + d \in 1..Len(all)
                          /\ r[i] = all[i + d]
                          /\ Len(all) - (i + d) = Len(r) - i
  BY <1>1 DEF Suffix
<1>4. ASSUME NEW i \in 1..Len(r)
      PROVE  /\ r[i].published.publication = k - (Len(r) - i)
             /\ r[i].published.at <= at
             /\ r[i].id.step = r[i].published.at - base
             /\ r[i].id.step < at - base \/ r[i].id.seq <= seq
  <2>1. PICK x \in 1..Len(all) : r[i] = all[x] /\ Len(all) - x = Len(r) - i
    BY <1>2
  <2>2. QED
    BY <2>1 DEF Chain, Named
<1>5. ASSUME NEW i \in 1..Len(r), NEW j \in 1..Len(r)
      PROVE  /\ i <= j => r[i].published.at <= r[j].published.at
             /\ r[i].id = r[j].id => i = j
  <2>1. PICK x \in 1..Len(all) : r[i] = all[x] /\ x = i + d
    BY <1>2
  <2>2. PICK y \in 1..Len(all) : r[j] = all[y] /\ y = j + d
    BY <1>2
  <2>3. (i <= j => x <= y) /\ (x = y => i = j)
    BY <1>1, <2>1, <2>2
  <2> HIDE DEF d
  <2>4. i <= j => r[i].published.at <= r[j].published.at
    BY <2>1, <2>2, <2>3 DEF Chain
  <2>5. r[i].id = r[j].id => i = j
    BY <2>1, <2>2, <2>3 DEF Named
  <2>6. QED
    BY <2>4, <2>5
<1>6. QED
  BY <1>4, <1>5 DEF Chain, Named

\* The first vintage is a chain.
LEMMA ChainInit == RollingInit => VintageChain
<1> SUFFICES ASSUME RollingInit PROVE VintageChain
  OBVIOUS
<1>1. /\ Len(env.vintages) = 1
      /\ env.vintages[1] = FirstVintage(0, 1)
  BY DEF RollingInit
<1>2. /\ env.vintages[1].published = Instant(0, 1)
      /\ env.vintages[1].id.step = 0
      /\ env.vintages[1].id.seq = 1
  BY <1>1 DEF FirstVintage, Vintage
<1>3. AsOf = 0 /\ env.base = 0 /\ env.seq = 1 /\ env.live.publication = 1
  BY DEF RollingInit, AsOf, Instant
<1>4. Chain(env.vintages, 1, 0) /\ Named(env.vintages, 0, 1, 0)
  BY <1>1, <1>2 DEF Chain, Named, Instant
<1>5. QED
  BY <1>1, <1>3, <1>4 DEF VintageChain

\* Every step keeps the vintages a chain with distinct ids.
LEMMA ChainStep ==
  ASSUME RollingTypeOK, VintageChain, RollingNext
  PROVE  VintageChain'
<1>1. /\ env \in Env
      /\ calls \in [Workers -> Call]
      /\ clock \in Nat
      /\ AsOf \in Nat
      /\ env.vintages \in Seq(VintageType)
      /\ env.base \in Nat /\ env.seq \in Nat /\ env.offset \in Nat
      /\ env.live.publication \in Nat
  BY EnvTypes DEF Env, InstantType
<1>2. /\ Chain(env.vintages, env.live.publication, AsOf)
      /\ Named(env.vintages, env.base, env.seq, AsOf)
  BY DEF VintageChain
<1>3. CASE Tick
  <2>1. AsOf' = AsOf + 1 /\ env' = env
    <3>1. clock' = clock + 1 /\ env' = env
      BY <1>3 DEF Tick
    <3>2. clock \in Nat /\ env.offset \in Nat
      BY <1>1
    <3>3. QED
      BY <3>1, <3>2 DEF AsOf
  <2>2. /\ Chain(env.vintages, env.live.publication, AsOf + 1)
        /\ Named(env.vintages, env.base, env.seq, AsOf + 1)
    BY <1>1, <1>2, StoreLater
  <2>3. QED
    BY <2>1, <2>2 DEF VintageChain
<1>4. CASE UNCHANGED <<clock, env>>
  BY <1>4 DEF VintageChain, AsOf
<1>5. ASSUME NEW w \in Workers, Apply(w)
      PROVE  VintageChain'
  <2>1. clock' = clock
    BY <1>5 DEF Apply
  <2>3. ASSUME /\ env'.vintages = env.vintages /\ env'.live = env.live
               /\ env'.base = env.base /\ env'.seq = env.seq /\ env'.offset = env.offset
        PROVE  VintageChain'
    BY <1>2, <2>1, <2>3 DEF VintageChain, AsOf
  <2>4. CASE env' = Reconciled(env, AsOf)
    BY <1>1, <2>3, <2>4 DEF Reconciled, Env
  <2>5. ASSUME NEW regime \in Regimes, env' = [env EXCEPT !.regime = regime]
        PROVE  VintageChain'
    BY <1>1, <2>3, <2>5 DEF Env
  <2>6. CASE env' = Advanced(env)
    <3>1. /\ env'.vintages = env.vintages /\ env'.live = env.live
          /\ env'.base = env.base /\ env'.seq = 0 /\ AsOf' = AsOf + 1
      BY <1>1, <2>1, <2>6 DEF Advanced, Env, AsOf
    <3>2. /\ Chain(env.vintages, env.live.publication, AsOf + 1)
          /\ Named(env.vintages, env.base, env.seq, AsOf + 1)
      BY <1>1, <1>2, StoreLater
    <3>3. Named(env.vintages, env.base, 0, AsOf + 1)
      BY <1>1, <1>2, NamedAdvance
    <3>4. QED
      BY <1>1, <3>1, <3>2, <3>3 DEF VintageChain
  <2>7. CASE env' = Fresh(env)
    <3>1. env'.vintages = <<>> /\ env'.seq = 0
      BY <1>1, <2>7 DEF Fresh, Env
    <3>2. QED
      BY <3>1 DEF VintageChain, Chain, Named
  <2>8. QED
    BY <1>5, <2>4, <2>5, <2>6, <2>7 DEF Apply
<1>6. ASSUME NEW w \in Workers, Renew(w)
      PROVE  VintageChain'
  <2>1. PICK new \in VintageType :
          /\ new.id.step = AsOf - env.base
          /\ new.id.seq = env.seq + 1
          /\ new.published = Instant(AsOf, env.live.publication + 1)
          /\ env'.vintages \in Seq(VintageType)
          /\ Len(env'.vintages) \in 1..MaxVintages
          /\ Suffix(env'.vintages, Append(env.vintages, new))
          /\ Len(env'.vintages) \in {Len(env.vintages) + 1, MaxVintages}
          /\ Chain(Append(env.vintages, new), env.live.publication + 1, AsOf)
          /\ env' = [env EXCEPT !.seq = env.seq + 1, !.vintages = env'.vintages,
                               !.live = Instant(AsOf, env.live.publication + 1)]
    BY <1>6, RenewRetains
  <2>2. /\ env'.base = env.base /\ env'.seq = env.seq + 1 /\ env'.offset = env.offset
        /\ env'.live = Instant(AsOf, env.live.publication + 1)
        /\ clock' = clock
    BY <1>1, <1>6, <2>1 DEF Env, Renew
  <2>3. AsOf' = AsOf /\ env'.live.publication = env.live.publication + 1
    BY <2>2 DEF AsOf, Instant
  <2>4. Named(Append(env.vintages, new), env.base, env.seq + 1, AsOf)
    <3>1. new.published.at = AsOf
      BY <2>1 DEF Instant
    <3>2. QED
      BY <1>1, <1>2, <2>1, <3>1, NamedGrows
  <2>5. /\ Append(env.vintages, new) \in Seq(VintageType)
        /\ env.live.publication + 1 \in Nat
    BY <1>1
  <2>6. /\ Chain(env'.vintages, env.live.publication + 1, AsOf)
        /\ Named(env'.vintages, env.base, env.seq + 1, AsOf)
    <3> DEFINE all == Append(env.vintages, new)
               r == env'.vintages
               k == env.live.publication + 1
               seq == env.seq + 1
    <3>1. /\ all \in Seq(VintageType) /\ r \in Seq(VintageType) /\ k \in Nat
          /\ Suffix(r, all)
          /\ Chain(all, k, AsOf) /\ Named(all, env.base, seq, AsOf)
      BY <2>1, <2>4, <2>5
    <3> HIDE DEF all, r, k, seq
    <3>2. Chain(r, k, AsOf) /\ Named(r, env.base, seq, AsOf)
      BY <3>1, SuffixOfStore
    <3>3. QED
      BY <3>2 DEF r, k, seq
  <2>7. Len(env'.vintages) >= env'.seq \/ Len(env'.vintages) = MaxVintages
    BY <1>1, <2>1, <2>2 DEF VintageChain
  <2>8. QED
    BY <2>2, <2>3, <2>6, <2>7 DEF VintageChain
<1>7. QED
  BY <1>3, <1>4, <1>5, <1>6
  DEF RollingNext, Work, FeedRefresh, Enter, Restore, ResetFails, PublishInputs,
      PublishSnapshot, Ensured, Optimise

----------------------------------------------------------------------------
(***************************************************************************)
(* Advances and refreshes together.  As long as every operation has got    *)
(* its run, what is booked lies before the periods of the run in force,    *)
(* and before the horizon that is being planned.                           *)
(***************************************************************************)
\* There is a next auction within a day.
LEMMA NextAuctionExists ==
  ASSUME NEW at \in Nat
  PROVE  /\ NextAuction(at) \in (at + 1)..(at + Day)
         /\ NextAuction(at) % Day = Auction
<1>1. Day \in Nat \ {0} /\ Auction \in 0..(Day - 1)
  BY RollingAssumption
<1> DEFINE wait == (Auction - (at + 1)) % Day
           p == at + 1 + wait
<1>2. wait \in 0..(Day - 1)
  BY <1>1
<1>3. PICK i \in Int : Auction - (at + 1) = Day * i + wait
  <2> DEFINE x == Auction - (at + 1)
  <2>1. x \in Int
    BY <1>1
  <2> HIDE DEF x
  <2>2. x \div Day \in Int /\ x = Day * (x \div Day) + (x % Day)
    BY <1>1, <2>1
  <2>3. QED
    BY <2>2 DEF x
<1>4. PICK j \in Int : p = Day * j + (p % Day)
  <2>1. p \in Int
    BY <1>2
  <2> HIDE DEF p
  <2>2. p \div Day \in Int /\ p = Day * (p \div Day) + (p % Day)
    BY <1>1, <2>1
  <2>3. QED
    BY <2>2
<1>5. p % Day \in 0..(Day - 1) /\ p \in Int
  BY <1>1, <1>2
<1>6. p = Auction - Day * i
  <2> HIDE DEF wait
  <2>1. Day * i \in Int
    BY <1>1
  <2>2. QED
    BY <1>1, <1>2, <1>3, <2>1
<1>7. p % Day = Auction
  <2> DEFINE n == p % Day
  <2>1. n = Auction - Day * (i + j)
    <3>1. Day * (i + j) = Day * i + Day * j /\ Day * i \in Int /\ Day * j \in Int
      BY <1>1
    <3> HIDE DEF p, wait
    <3>2. QED
      BY <1>1, <1>4, <1>5, <1>6, <3>1
  <2>2. n \in 0..(Day - 1)
    BY <1>5
  <2> HIDE DEF n, p, wait
  <2> DEFINE k == i + j
  <2>3. k \in Int
    OBVIOUS
  <2>4. CASE k = 0
    BY <1>1, <2>1, <2>4 DEF n
  <2>5. CASE k >= 1
    <3>1. Day * k >= Day
      BY <1>1, <2>3, <2>5
    <3>2. Day * k \in Int
      BY <1>1, <2>3
    <3> HIDE DEF k
    <3>3. FALSE
      BY <1>1, <2>1, <2>2, <3>1, <3>2 DEF k
    <3>4. QED
      BY <3>3
  <2>6. CASE k <= -1
    <3>1. Day * k <= -Day
      BY <1>1, <2>3, <2>6
    <3>2. Day * k \in Int
      BY <1>1, <2>3
    <3>3. FALSE
      BY <1>1, <2>1, <2>2, <3>1, <3>2
    <3>4. QED
      BY <3>3
  <2>7. QED
    BY <2>3, <2>4, <2>5, <2>6 DEF n
<1>8. p \in (at + 1)..(at + Day)
  BY <1>1, <1>2
<1> HIDE DEF p
<1>9. \E q \in (at + 1)..(at + Day) : q % Day = Auction
  BY <1>7, <1>8
<1>10. QED
  BY <1>9 DEF NextAuction

\* A horizon starts with the period of its instant.
LEMMA HorizonFirst ==
  ASSUME NEW at \in Nat
  PROVE  /\ \A p \in Horizon(at) : p \in Nat /\ at <= p
         /\ Horizon(at) # {} => at \in Horizon(at)
<1>1. MaxClock \in Nat /\ MaxPublications \in Nat /\ Day \in Nat
  BY RollingAssumption
<1>2. NextAuction(at) \in Nat /\ at < NextAuction(at)
  BY <1>1, NextAuctionExists
<1>3. \A p \in Horizon(at) : p \in Nat /\ at <= p
  BY <1>1 DEF Horizon, Periods
<1>4. ASSUME NEW p \in Horizon(at) PROVE at \in Horizon(at)
  BY <1>1, <1>2, <1>3, <1>4 DEF Horizon, Periods
<1>5. QED
  BY <1>3, <1>4

\* steps between which the lock is held
Inside(c) ==
  \/ c.pc \in {"apply", "renew", "ensure", "optimise", "answer"}
  \/ c.pc \in {"publish", "show"} /\ c.after # "idle"

\* an operation that has renewed the state and not yet got its run
Plans(c) ==
  /\ c.op # "run"
  /\ \/ c.pc \in {"ensure", "optimise"}
     \/ c.pc \in {"publish", "show"} /\ c.after # "idle"

LockOK ==
  \A w \in Workers :
    /\ Inside(calls[w]) => lock = w
    /\ lock = w => calls[w].pc # "idle"
    /\ calls[w].pc \in {"apply", "renew"} => calls[w].op # "run"
    /\ calls[w].pc = "apply" /\ calls[w].op = "advance" => run.periods # {}

\* published inputs are of the live state, or older
Current(i) ==
  /\ i.of <= env.live.publication
  /\ i.of = env.live.publication => i.periods = Horizon(env.live.at)

InputsOK == Current(inputs) /\ \A w \in Workers : Current(calls[w].inputs)

Renewing  == \E w \in Workers : calls[w].pc = "renew"
Planning  == \E w \in Workers : Plans(calls[w]) /\ lock = w
Resetting == \E w \in Workers : lock = w /\ calls[w].op = "reset" /\ calls[w].pc # "apply"

\* every action that is booked was booked once, and for a period before this one
BookedBefore(at) == \A p \in Periods : env.booked[p] > 0 => env.booked[p] = 1 /\ p < at

PositionsOK ==
  /\ Resetting => env.booked = NoneBooked
  /\ (intact \/ Planning) /\ ~Renewing => env.live.at <= AsOf
  /\ intact /\ Renewing => BookedBefore(AsOf)
  /\ intact /\ ~Renewing => BookedBefore(env.live.at)
  /\ intact /\ ~Renewing /\ ~Planning => run.periods = Horizon(env.live.at)

PositionsInv == LockOK /\ InputsOK /\ PositionsOK

\* Nothing is booked at the start, and the run is of the horizon that is live.
LEMMA PositionsInit == RollingInit => PositionsInv
<1> SUFFICES ASSUME RollingInit PROVE PositionsInv
  OBVIOUS
<1>1. /\ \A w \in Workers : /\ calls[w].pc = "idle" /\ calls[w].op = "none"
                            /\ calls[w].inputs = inputs
      /\ lock = NoWorker /\ lock \notin Workers
      /\ env.booked = NoneBooked /\ clock = 0 /\ env.offset = 0
      /\ env.live.at = 0 /\ env.live.publication = 1
      /\ inputs.of = 1 /\ inputs.periods = Horizon(0) /\ run.periods = Horizon(0)
  BY RollingAssumption DEF RollingInit, Instant
<1>2. LockOK
  BY <1>1 DEF LockOK, Inside
<1>3. InputsOK
  BY <1>1 DEF InputsOK, Current
<1>4. PositionsOK
  BY <1>1 DEF PositionsOK, Resetting, Renewing, BookedBefore, NoneBooked, AsOf
<1>5. QED
  BY <1>2, <1>3, <1>4 DEF PositionsInv

\* What a step makes of the calls: one worker's record changes.
LEMMA CallsMove ==
  ASSUME RollingTypeOK, RollingNext
  PROVE  \/ calls' = calls
         \/ \E w \in Workers :
              /\ (\E op \in RollingOps : Enter(w, op)) \/ Restore(w) \/ Work(w)
              /\ \A u \in Workers : u # w => calls'[u] = calls[u]
<1>1. calls \in [Workers -> Call]
  BY EnvTypes
<1>2. ASSUME Tick \/ FeedRefresh PROVE calls' = calls
  BY <1>2 DEF Tick, FeedRefresh
<1>3. ASSUME NEW w \in Workers,
             (\E op \in RollingOps : Enter(w, op)) \/ Restore(w) \/ Work(w)
      PROVE  \A u \in Workers : u # w => calls'[u] = calls[u]
  BY <1>1, <1>3
  DEF Enter, Restore, Work, Apply, Renew, ResetFails, PublishInputs, PublishSnapshot, Ensured,
      Optimise, Goto
<1>4. QED
  BY <1>2, <1>3 DEF RollingNext

\* What each step of a worker makes of its record.
LEMMA RecordMoves ==
  ASSUME RollingTypeOK, NEW w \in Workers
  PROVE  LET c == calls[w]
             d == calls'[w]
         IN /\ \A op \in RollingOps : Enter(w, op) =>
                 c.pc = "idle" /\ d.op = op /\ d.pc = (IF op = "run" THEN "ensure" ELSE "apply")
            /\ Apply(w) => c.pc = "apply" /\ d = [c EXCEPT !.pc = "renew"]
            /\ ResetFails(w) => c.pc = "renew" /\ d = [c EXCEPT !.pc = "idle"]
            /\ Renew(w) => c.pc = "renew" /\ d.pc = "publish" /\ d.after = "ensure" /\ d.op = c.op
            /\ PublishInputs(w) => c.pc = "publish" /\ d = [c EXCEPT !.pc = "show"]
            /\ PublishSnapshot(w) => c.pc = "show" /\ d = [c EXCEPT !.pc = c.after]
            /\ Restore(w) => /\ d.pc = "publish" /\ d.op = c.op
                             /\ \/ c.pc \in {"idle", "answer"} /\ d.after = "idle"
                                \/ c.pc = "ensure" /\ d.after = "optimise"
            /\ Ensured(w) => \/ c.pc = "ensure" /\ d = [c EXCEPT !.pc = "optimise"]
                             \/ c.pc = "answer" /\ d = [c EXCEPT !.pc = "idle"]
            /\ Optimise(w) => /\ c.pc = "optimise" /\ d.op = c.op
                              /\ d.pc \in {"idle", "answer"}
<1>1. calls \in [Workers -> Call] /\ calls[w] \in Call
  BY EnvTypes
<1>2. ASSUME NEW pc, Goto(w, pc) PROVE calls'[w] = [calls[w] EXCEPT !.pc = pc]
  BY <1>1, <1>2 DEF Goto
<1>3. ASSUME NEW op \in RollingOps, Enter(w, op)
      PROVE  /\ calls[w].pc = "idle" /\ calls'[w].op = op
             /\ calls'[w].pc = (IF op = "run" THEN "ensure" ELSE "apply")
  BY <1>1, <1>3 DEF Enter, At, Call
<1>4. ASSUME Renew(w)
      PROVE  /\ calls[w].pc = "renew" /\ calls'[w].pc = "publish" /\ calls'[w].after = "ensure"
             /\ calls'[w].op = calls[w].op
  BY <1>1, <1>4 DEF Renew, At, Call
<1>5. ASSUME Restore(w)
      PROVE  /\ calls'[w].pc = "publish" /\ calls'[w].op = calls[w].op
             /\ \/ calls[w].pc \in {"idle", "answer"} /\ calls'[w].after = "idle"
                \/ calls[w].pc = "ensure" /\ calls'[w].after = "optimise"
  <2>1. PICK next \in {<<"idle", "idle">>, <<"ensure", "optimise">>, <<"answer", "idle">>} :
          /\ calls[w].pc = next[1]
          /\ calls' = [calls EXCEPT ![w].pc = "publish", ![w].after = next[2],
                                    ![w].inputs = inputs, ![w].snap = env.live.publication]
    BY <1>5 DEF Restore, At
  <2>2. /\ calls'[w].pc = "publish" /\ calls'[w].op = calls[w].op
        /\ calls'[w].after = next[2]
    BY <1>1, <2>1 DEF Call
  <2>3. QED
    BY <2>1, <2>2
<1>6. ASSUME Optimise(w)
      PROVE  /\ calls[w].pc = "optimise" /\ calls'[w].op = calls[w].op
             /\ calls'[w].pc \in {"idle", "answer"}
  <2>1. calls[w].pc = "optimise" /\ (Goto(w, "idle") \/ Goto(w, "answer"))
    BY <1>6 DEF Optimise, At
  <2>2. PICK pc \in {"idle", "answer"} : calls'[w] = [calls[w] EXCEPT !.pc = pc]
    BY <1>2, <2>1
  <2>3. QED
    BY <1>1, <2>1, <2>2 DEF Call
<1>7. /\ Apply(w) => calls[w].pc = "apply" /\ calls'[w] = [calls[w] EXCEPT !.pc = "renew"]
      /\ ResetFails(w) => calls[w].pc = "renew" /\ calls'[w] = [calls[w] EXCEPT !.pc = "idle"]
      /\ PublishInputs(w) =>
           calls[w].pc = "publish" /\ calls'[w] = [calls[w] EXCEPT !.pc = "show"]
      /\ PublishSnapshot(w) =>
           calls[w].pc = "show" /\ calls'[w] = [calls[w] EXCEPT !.pc = calls[w].after]
      /\ Ensured(w) =>
           \/ calls[w].pc = "ensure" /\ calls'[w] = [calls[w] EXCEPT !.pc = "optimise"]
           \/ calls[w].pc = "answer" /\ calls'[w] = [calls[w] EXCEPT !.pc = "idle"]
  BY <1>2 DEF Apply, ResetFails, PublishInputs, PublishSnapshot, Ensured, At
<1>8. QED
  BY <1>3, <1>4, <1>5, <1>6, <1>7

\* What each step of a worker makes of the lock, the run and the history.
LEMMA LockMoves ==
  ASSUME RollingTypeOK, LockOK, NEW w \in Workers
  PROVE  /\ \A op \in RollingOps : Enter(w, op) =>
              lock \notin Workers /\ lock' = w /\ (op = "advance" => run.periods # {})
         /\ Apply(w) \/ Renew(w) => lock = w /\ lock' = w
         /\ ResetFails(w) \/ Optimise(w) => lock = w
         /\ ResetFails(w) => lock' \notin Workers
         /\ Restore(w) \/ PublishInputs(w) => lock' = lock
         /\ PublishSnapshot(w) =>
              lock' = IF lock = w /\ calls[w].after = "idle" THEN NoWorker ELSE lock
         /\ Ensured(w) => lock = w /\ (\/ calls[w].pc = "ensure" /\ lock' = w
                                       \/ calls[w].pc = "answer" /\ lock' \notin Workers)
         /\ Optimise(w) => \/ calls'[w].pc = "answer" /\ lock' = w
                           \/ calls'[w].pc = "idle" /\ lock' \notin Workers
         /\ ~Renew(w) /\ ~Optimise(w)
              /\ ((\E op \in RollingOps : Enter(w, op)) \/ Restore(w) \/ Work(w)) => run' = run
<1>1. NoWorker \notin Workers /\ calls \in [Workers -> Call] /\ calls[w] \in Call
  BY EnvTypes, RollingAssumption
<1>2. /\ calls[w].pc \in {"apply", "renew", "ensure", "optimise", "answer"} => lock = w
  BY DEF LockOK, Inside
<1>3. ASSUME NEW op \in RollingOps, Enter(w, op)
      PROVE  lock \notin Workers /\ lock' = w /\ (op = "advance" => run.periods # {})
  BY <1>1, <1>3 DEF Enter
<1>4. Apply(w) \/ Renew(w) => lock = w /\ lock' = w
  BY <1>2 DEF Apply, Renew, At
<1>5. /\ ResetFails(w) \/ Optimise(w) => lock = w
      /\ ResetFails(w) => lock' \notin Workers
      /\ Restore(w) \/ PublishInputs(w) => lock' = lock
      /\ PublishSnapshot(w) =>
           lock' = IF lock = w /\ calls[w].after = "idle" THEN NoWorker ELSE lock
  BY <1>1, <1>2 DEF ResetFails, Optimise, Restore, PublishInputs, PublishSnapshot, At
<1>6. ASSUME Ensured(w)
      PROVE  lock = w /\ (\/ calls[w].pc = "ensure" /\ lock' = w
                          \/ calls[w].pc = "answer" /\ lock' \notin Workers)
  BY <1>1, <1>2, <1>6 DEF Ensured, At
<1>7. ASSUME Optimise(w)
      PROVE  \/ calls'[w].pc = "answer" /\ lock' = w
             \/ calls'[w].pc = "idle" /\ lock' \notin Workers
  <2>1. \A pc : Goto(w, pc) => calls'[w].pc = pc
    BY <1>1 DEF Goto, Call
  <2>2. \/ Goto(w, "idle") /\ lock' = NoWorker
        \/ Goto(w, "answer") /\ UNCHANGED lock
    BY <1>7 DEF Optimise
  <2>3. lock = w
    BY <1>5, <1>7
  <2>4. QED
    BY <1>1, <2>1, <2>2, <2>3
<1>8. ~Renew(w) /\ ~Optimise(w)
        /\ ((\E op \in RollingOps : Enter(w, op)) \/ Restore(w) \/ Work(w)) => run' = run
  BY DEF Enter, Restore, Work, Apply, ResetFails, PublishInputs, PublishSnapshot, Ensured
<1>9. QED
  BY <1>3, <1>4, <1>5, <1>6, <1>7, <1>8

\* Every step keeps to the lock.
LEMMA LockStep ==
  ASSUME RollingTypeOK, LockOK, RollingNext
  PROVE  LockOK'
<1>1. calls \in [Workers -> Call] /\ NoWorker \notin Workers
  BY EnvTypes, RollingAssumption
<1>2. CASE Tick \/ FeedRefresh
  BY <1>2 DEF Tick, FeedRefresh, LockOK
<1>3. ASSUME NEW w \in Workers, (\E op \in RollingOps : Enter(w, op)) \/ Restore(w) \/ Work(w)
      PROVE  LockOK'
  <2> DEFINE Fits(u) == /\ Inside(calls[u]) => lock = u
                        /\ lock = u => calls[u].pc # "idle"
                        /\ calls[u].pc \in {"apply", "renew"} => calls[u].op # "run"
                        /\ calls[u].pc = "apply" /\ calls[u].op = "advance" => run.periods # {}
  <2>1. calls[w] \in Call /\ calls[w].pc \in ProgramCounters /\ calls[w].after \in ReturnPoints
    BY <1>1 DEF Call
  <2>2. \A pc : /\ [calls[w] EXCEPT !.pc = pc].pc = pc
                /\ [calls[w] EXCEPT !.pc = pc].op = calls[w].op
                /\ [calls[w] EXCEPT !.pc = pc].after = calls[w].after
    BY <2>1 DEF Call
  <2>3. \A u \in Workers : Fits(u)
    BY DEF LockOK
  <2>4. lock' \in {lock, w} \/ (lock = w /\ lock' \notin Workers)
    BY <1>1, <1>3, LockMoves DEF Work
  <2>5. lock' = w => lock = w \/ lock \notin Workers
    BY <1>3, LockMoves DEF Work
  <2>6. lock # w => run' = run
    BY <1>3, LockMoves
  <2>7. ASSUME NEW u \in Workers, u # w PROVE Fits(u)'
    <3>1. calls'[u] = calls[u]
      BY <1>1, <1>3, <2>7
      DEF Enter, Restore, Work, Apply, Renew, ResetFails, PublishInputs, PublishSnapshot,
          Ensured, Optimise, Goto
    <3>2. lock' = u => lock = u
      BY <2>4, <2>7
    <3>3. lock = u => lock' = u
      BY <2>4, <2>5, <2>7
    <3>4. calls[u].pc = "apply" => run' = run
      BY <2>3, <2>6, <2>7 DEF Inside
    <3>5. QED
      BY <2>3, <3>1, <3>2, <3>3, <3>4 DEF Inside
  <2>8. Fits(w)'
    <3>1. ASSUME NEW op \in RollingOps, Enter(w, op) PROVE Fits(w)'
      <4>1. /\ calls'[w].op = op /\ calls'[w].pc = (IF op = "run" THEN "ensure" ELSE "apply")
            /\ lock' = w /\ (op = "advance" => run.periods # {})
        BY <3>1, RecordMoves, LockMoves
      <4>2. run' = run
        BY <3>1 DEF Enter
      <4>3. QED
        BY <4>1, <4>2 DEF Inside
    <3>2. CASE Apply(w)
      <4>1. /\ calls[w].pc = "apply" /\ calls'[w] = [calls[w] EXCEPT !.pc = "renew"]
            /\ lock' = w
        BY <3>2, RecordMoves, LockMoves
      <4>2. calls'[w].pc = "renew" /\ calls'[w].op = calls[w].op
        BY <2>2, <4>1
      <4>3. calls[w].op # "run"
        BY <2>3, <4>1
      <4>4. QED
        BY <4>1, <4>2, <4>3 DEF Inside
    <3>3. CASE Renew(w)
      BY <3>3, RecordMoves, LockMoves DEF Inside
    <3>4. CASE ResetFails(w)
      BY <2>2, <3>4, RecordMoves, LockMoves DEF Inside
    <3>5. CASE PublishInputs(w)
      <4>1. calls[w].pc = "publish" /\ calls'[w] = [calls[w] EXCEPT !.pc = "show"] /\ lock' = lock
        BY <3>5, RecordMoves, LockMoves
      <4>2. calls'[w].pc = "show" /\ calls'[w].after = calls[w].after
        BY <2>2, <4>1
      <4>3. QED
        BY <2>3, <4>1, <4>2 DEF Inside
    <3>6. CASE PublishSnapshot(w)
      <4>1. /\ calls[w].pc = "show" /\ calls'[w] = [calls[w] EXCEPT !.pc = calls[w].after]
            /\ lock' = IF lock = w /\ calls[w].after = "idle" THEN NoWorker ELSE lock
        BY <3>6, RecordMoves, LockMoves
      <4>2. calls'[w].pc = calls[w].after /\ calls'[w].after = calls[w].after
        BY <2>2, <4>1
      <4>3. calls[w].after \in {"idle", "ensure", "optimise"}
        BY <2>1 DEF ReturnPoints
      <4>4. calls[w].after # "idle" => lock = w
        BY <2>3, <4>1 DEF Inside
      <4>5. QED
        BY <1>1, <4>1, <4>2, <4>3, <4>4 DEF Inside
    <3>7. CASE Restore(w)
      <4>1. /\ calls'[w].pc = "publish" /\ lock' = lock
            /\ \/ calls[w].pc \in {"idle", "answer"} /\ calls'[w].after = "idle"
               \/ calls[w].pc = "ensure" /\ calls'[w].after = "optimise"
        BY <3>7, RecordMoves, LockMoves
      <4>2. QED
        BY <2>3, <4>1 DEF Inside
    <3>8. CASE Ensured(w)
      <4>1. /\ \/ calls[w].pc = "ensure" /\ calls'[w] = [calls[w] EXCEPT !.pc = "optimise"]
               \/ calls[w].pc = "answer" /\ calls'[w] = [calls[w] EXCEPT !.pc = "idle"]
            /\ lock = w
            /\ \/ calls[w].pc = "ensure" /\ lock' = w
               \/ calls[w].pc = "answer" /\ lock' \notin Workers
        BY <3>8, RecordMoves, LockMoves
      <4>2. QED
        BY <2>2, <4>1 DEF Inside
    <3>9. CASE Optimise(w)
      <4>1. \/ calls'[w].pc = "answer" /\ lock' = w
            \/ calls'[w].pc = "idle" /\ lock' \notin Workers
        BY <3>9, LockMoves
      <4>2. QED
        BY <4>1 DEF Inside
    <3>10. QED
      BY <1>3, <3>1, <3>2, <3>3, <3>4, <3>5, <3>6, <3>7, <3>8, <3>9 DEF Work
  <2>9. QED
    BY <2>7, <2>8 DEF LockOK
<1>4. QED
  BY <1>2, <1>3 DEF RollingNext

\* Published periods are of the live state, or of an older one.
LEMMA InputsStep ==
  ASSUME RollingTypeOK, InputsOK, RollingNext
  PROVE  InputsOK'
<1>1. /\ env \in Env /\ calls \in [Workers -> Call] /\ AsOf \in Nat /\ inputs \in InputsType
      /\ env.live.publication \in Nat
      /\ inputs.of \in Nat /\ \A w \in Workers : calls[w].inputs.of \in Nat
  BY EnvTypes DEF RollingTypeOK, Env, InstantType, InputsType, Call
<1>2. ASSUME NEW i, Current(i), env'.live = env.live PROVE Current(i)'
  BY <1>2 DEF Current
<1>3. ASSUME env'.live = env.live, inputs' = inputs \/ \E w \in Workers : inputs' = calls[w].inputs,
             \A w \in Workers : calls'[w].inputs \in {calls[w].inputs, inputs}
      PROVE  InputsOK'
  BY <1>3 DEF InputsOK, Current
<1>4. ASSUME Tick \/ FeedRefresh PROVE InputsOK'
  BY <1>4 DEF Tick, FeedRefresh, InputsOK, Current
<1>5. ASSUME NEW w \in Workers, NEW op \in RollingOps, Enter(w, op) PROVE InputsOK'
  <2>1. \A u \in Workers : calls'[u].inputs = calls[u].inputs
    BY <1>1, <1>5 DEF Enter, Call
  <2>2. QED
    BY <1>3, <1>5, <2>1 DEF Enter
<1>6. ASSUME NEW w \in Workers, NEW pc, Goto(w, pc)
      PROVE  \A u \in Workers : calls'[u].inputs = calls[u].inputs
  BY <1>1, <1>6 DEF Goto, Call
<1>7. ASSUME NEW w \in Workers, Apply(w) PROVE InputsOK'
  <2>1. env'.live = env.live
    BY <1>1, <1>7 DEF Apply, Reconciled, Advanced, Fresh, Env
  <2>2. QED
    BY <1>3, <1>6, <1>7, <2>1 DEF Apply
<1>8. ASSUME NEW w \in Workers, Renew(w) PROVE InputsOK'
  <2>1. /\ env'.live.publication = env.live.publication + 1 /\ env'.live.at = AsOf
        /\ inputs' = inputs
    BY <1>1, <1>8 DEF Renew, Instant, Env
  <2>2. /\ calls'[w].inputs.of = env.live.publication + 1
        /\ calls'[w].inputs.periods = Horizon(AsOf)
        /\ \A u \in Workers : u # w => calls'[u].inputs = calls[u].inputs
    BY <1>1, <1>8 DEF Renew, Instant, Call
  <2>3. ASSUME NEW i, i.of \in Nat, Current(i) PROVE Current(i)'
    BY <1>1, <2>1, <2>3 DEF Current
  <2>4. Current(calls[w].inputs)' /\ Current(inputs)'
    BY <1>1, <2>1, <2>2, <2>3 DEF Current, InputsOK
  <2>5. \A u \in Workers : u # w => Current(calls[u].inputs)'
    BY <1>1, <2>2, <2>3 DEF InputsOK, Current
  <2>6. QED
    BY <2>4, <2>5 DEF InputsOK
<1>9. ASSUME NEW w \in Workers, Restore(w) PROVE InputsOK'
  <2>1. PICK next : calls' = [calls EXCEPT ![w].pc = "publish", ![w].after = next,
                                    ![w].inputs = inputs, ![w].snap = env.live.publication]
    BY <1>9 DEF Restore
  <2>2. \A u \in Workers : calls'[u].inputs \in {calls[u].inputs, inputs}
    BY <1>1, <2>1 DEF Call
  <2>3. QED
    BY <1>3, <1>9, <2>2 DEF Restore
<1>10. ASSUME NEW w \in Workers, ResetFails(w) \/ PublishInputs(w) \/ PublishSnapshot(w)
                                   \/ Ensured(w) \/ Optimise(w)
       PROVE  InputsOK'
  <2>1. \A u \in Workers : calls'[u].inputs = calls[u].inputs
    BY <1>6, <1>10 DEF ResetFails, PublishInputs, PublishSnapshot, Ensured, Optimise
  <2>2. env' = env /\ (inputs' = inputs \/ inputs' = calls[w].inputs)
    BY <1>10 DEF ResetFails, PublishInputs, PublishSnapshot, Ensured, Optimise
  <2>3. QED
    BY <1>3, <2>1, <2>2
<1>11. QED
  BY <1>4, <1>5, <1>7, <1>8, <1>9, <1>10 DEF RollingNext, Work

\* The holder of the lock says what is going on.
LEMMA Phases ==
  ASSUME NEW w \in Workers
  PROVE  /\ LockOK /\ lock = w =>
              /\ Renewing  <=> calls[w].pc = "renew"
              /\ Planning  <=> Plans(calls[w])
              /\ Resetting <=> calls[w].op = "reset" /\ calls[w].pc # "apply"
         /\ LockOK' /\ lock' = w =>
              /\ Renewing'  <=> calls'[w].pc = "renew"
              /\ Planning'  <=> Plans(calls'[w])
              /\ Resetting' <=> calls'[w].op = "reset" /\ calls'[w].pc # "apply"
BY DEF LockOK, Inside, Renewing, Planning, Resetting

\* Without a holder nothing is.
LEMMA NoPhases ==
  /\ LockOK /\ lock \notin Workers => ~Renewing /\ ~Planning /\ ~Resetting
  /\ LockOK' /\ lock' \notin Workers => ~Renewing' /\ ~Planning' /\ ~Resetting'
BY DEF LockOK, Inside, Renewing, Planning, Resetting

\* A step that leaves the positions and the run alone, and the phase of the holder.
LEMMA QuietStep ==
  ASSUME RollingTypeOK, PositionsOK, env' = env, run' = run, clock' \in {clock, clock + 1},
         intact' => intact, Renewing' <=> Renewing, Planning' <=> Planning,
         Resetting' => Resetting
  PROVE  PositionsOK'
<1>1. env \in Env /\ clock \in Nat /\ env.offset \in Nat /\ env.live.at \in Nat
  BY EnvTypes DEF Env, InstantType
<1>2. AsOf \in Nat /\ AsOf' \in Nat /\ AsOf <= AsOf'
  BY <1>1 DEF AsOf
<1>3. \A at : BookedBefore(at)' <=> BookedBefore(at)
  BY DEF BookedBefore
<1>4. BookedBefore(AsOf) => BookedBefore(AsOf')
  BY <1>2, RollingAssumption DEF BookedBefore, Periods
<1>5. BookedBefore(AsOf)' <=> BookedBefore(AsOf')
  BY DEF BookedBefore
<1>6. QED
  BY <1>1, <1>2, <1>3, <1>4, <1>5 DEF PositionsOK

\* What an operation does to the positions: they lie before the instant that it renews.
LEMMA ApplyPositions ==
  ASSUME RollingTypeOK, LockOK, LockOK', PositionsOK, NEW w \in Workers, Apply(w)
  PROVE  PositionsOK'
<1>1. /\ env \in Env /\ AsOf \in Nat /\ env.booked \in [Periods -> Nat]
      /\ env.live.at \in Nat /\ env.offset \in Nat /\ clock \in Nat /\ run.periods \subseteq Periods
      /\ calls[w] \in Call
  BY EnvTypes DEF Env, InstantType, RollingTypeOK
<1>2. /\ calls[w].pc = "apply" /\ calls'[w] = [calls[w] EXCEPT !.pc = "renew"]
      /\ lock = w /\ lock' = w
  BY RecordMoves, LockMoves
<1>3. calls'[w].pc = "renew" /\ calls'[w].op = calls[w].op
  BY <1>1, <1>2 DEF Call
<1>4. ~Renewing /\ ~Planning /\ Renewing' /\ (Resetting' => calls[w].op = "reset")
  BY <1>2, <1>3, Phases DEF Plans
<1>5. intact => env.live.at <= AsOf
  BY <1>4 DEF PositionsOK
<1>6. ASSUME intact
      PROVE  BookedBefore(env.live.at) /\ run.periods = Horizon(env.live.at)
  BY <1>4, <1>6 DEF PositionsOK
<1>7. intact' = intact /\ clock' = clock /\ run' = run
  BY DEF Apply
<1>8. AsOf' = clock + env'.offset
  BY <1>7 DEF AsOf
<1>9. Periods \subseteq Nat
  BY RollingAssumption DEF Periods
<1>10. \A p \in run.periods : intact => p >= env.live.at
  BY <1>1, <1>6, HorizonFirst
<1>11. SUFFICES /\ calls[w].op = "reset" => env'.booked = NoneBooked
                /\ intact => \A p \in Periods :
                               env'.booked[p] > 0 => env'.booked[p] = 1 /\ p < AsOf'
  BY <1>4, <1>7 DEF PositionsOK, BookedBefore
<1>12. CASE calls[w].op = "refresh"
  <2> DEFINE done == {p \in run.periods \ env.applied : p < AsOf}
  <2>1. env' = Reconciled(env, AsOf)
    BY <1>12 DEF Apply
  <2>2. env'.offset = env.offset
    BY <1>1, <2>1 DEF Reconciled, Env
  <2>3. \A p \in Periods :
          env'.booked[p] = IF p \in done THEN env.booked[p] + 1 ELSE env.booked[p]
    BY <1>1, <2>1 DEF Reconciled, Env
  <2>4. AsOf' = AsOf
    BY <1>8, <2>2 DEF AsOf
  <2>5. ASSUME intact, NEW p \in Periods, env'.booked[p] > 0
        PROVE  env'.booked[p] = 1 /\ p < AsOf
    <3>1. p \in Nat /\ env.booked[p] \in Nat
      BY <1>1, <1>9
    <3>2. CASE p \in done
      <4>1. p < AsOf /\ p >= env.live.at
        BY <1>10, <2>5, <3>2
      <4>2. ~(env.booked[p] > 0)
        BY <1>1, <1>6, <2>5, <3>1, <4>1 DEF BookedBefore
      <4>3. QED
        BY <2>3, <3>1, <3>2, <4>1, <4>2
    <3>3. CASE p \notin done
      <4>1. env.booked[p] > 0 /\ env'.booked[p] = env.booked[p]
        BY <2>3, <2>5, <3>3
      <4>2. QED
        BY <1>1, <1>5, <1>6, <2>5, <3>1, <4>1 DEF BookedBefore
    <3>4. QED
      BY <3>2, <3>3
  <2>6. QED
    BY <1>12, <2>4, <2>5
<1>13. CASE calls[w].op = "set_regime"
  <2>1. PICK regime \in Regimes : env' = [env EXCEPT !.regime = regime]
    BY <1>13 DEF Apply
  <2>2. env'.booked = env.booked /\ env'.offset = env.offset
    BY <1>1, <2>1 DEF Env
  <2>3. AsOf' = AsOf
    BY <1>8, <2>2 DEF AsOf
  <2>4. ASSUME intact, NEW p \in Periods, env'.booked[p] > 0
        PROVE  env'.booked[p] = 1 /\ p < AsOf
    <3>1. env.booked[p] = 1 /\ p < env.live.at /\ p \in Nat
      BY <1>6, <1>9, <2>2, <2>4 DEF BookedBefore
    <3>2. QED
      BY <1>1, <1>5, <2>2, <2>4, <3>1
  <2>5. QED
    BY <1>13, <2>3, <2>4
<1>14. CASE calls[w].op = "advance"
  <2> DEFINE first == CHOOSE p \in run.periods : \A q \in run.periods : p <= q
  <2>1. env' = Advanced(env)
    BY <1>14 DEF Apply
  <2>2. /\ env'.offset = env.offset + 1
        /\ \A p \in Periods :
             env'.booked[p] = IF p = first THEN env.booked[p] + 1 ELSE env.booked[p]
    <3>1. env' = [env EXCEPT !.booked[first] = @ + 1, !.offset = @ + 1, !.seq = 0]
      BY <2>1 DEF Advanced
    <3> HIDE DEF first
    <3>2. QED
      BY <1>1, <3>1 DEF Env
  <2>3. AsOf' = AsOf + 1
    BY <1>1, <1>8, <2>2 DEF AsOf
  <2>4. ASSUME intact PROVE first \in Nat /\ first = env.live.at
    <3>1. run.periods # {}
      BY <1>2, <1>14 DEF LockOK
    <3>2. env.live.at \in run.periods
      BY <1>1, <1>6, <2>4, <3>1, HorizonFirst
    <3>3. \A q \in run.periods : env.live.at <= q
      BY <1>10, <2>4
    <3>4. first \in run.periods /\ \A q \in run.periods : first <= q
      BY <3>2, <3>3
    <3>5. first <= env.live.at /\ env.live.at <= first
      BY <3>2, <3>3, <3>4
    <3>6. first \in Nat
      BY <1>1, <1>9, <3>4
    <3>7. QED
      BY <1>1, <3>5, <3>6
  <2> HIDE DEF first
  <2>5. ASSUME intact, NEW p \in Periods, env'.booked[p] > 0
        PROVE  env'.booked[p] = 1 /\ p < AsOf + 1
    <3>1. p \in Nat /\ env.booked[p] \in Nat
      BY <1>1, <1>9
    <3>2. env.booked[p] > 0 => env.booked[p] = 1 /\ p < env.live.at
      BY <1>6, <2>5 DEF BookedBefore
    <3>3. QED
      BY <1>1, <1>5, <2>2, <2>4, <2>5, <3>1, <3>2
  <2>6. QED
    BY <1>14, <2>3, <2>5
<1>15. CASE calls[w].op = "reset"
  <2>1. env' = Fresh(env)
    BY <1>15 DEF Apply
  <2>2. env'.booked = NoneBooked
    BY <1>1, <2>1 DEF Fresh, Env
  <2>3. QED
    BY <2>2 DEF NoneBooked
<1>16. QED
  BY <1>12, <1>13, <1>14, <1>15 DEF Apply

\* The horizon that is planned starts behind all that is booked.
LEMMA RenewPositions ==
  ASSUME RollingTypeOK, LockOK, LockOK', PositionsOK, NEW w \in Workers, Renew(w)
  PROVE  PositionsOK'
<1>1. env \in Env /\ AsOf \in Nat
  BY EnvTypes
<1>2. /\ calls[w].pc = "renew" /\ calls'[w].pc = "publish" /\ calls'[w].after = "ensure"
      /\ calls'[w].op = calls[w].op /\ lock = w /\ lock' = w
  BY RecordMoves, LockMoves
<1>3. calls[w].op # "run"
  BY <1>2 DEF LockOK
<1>4. Renewing /\ ~Renewing' /\ Planning' /\ (Resetting' => Resetting)
  BY <1>2, <1>3, Phases DEF Plans
<1>5. /\ env'.live.at = AsOf /\ env'.booked = env.booked /\ env'.offset = env.offset
      /\ clock' = clock /\ intact' = intact
  BY <1>1 DEF Renew, Instant, Env
<1>6. AsOf' = AsOf
  BY <1>5 DEF AsOf
<1>7. BookedBefore(env.live.at)' <=> BookedBefore(AsOf)
  BY <1>5 DEF BookedBefore
<1>8. QED
  BY <1>1, <1>4, <1>5, <1>6, <1>7 DEF PositionsOK

\* A run that was made from the live periods is one of the horizon ahead.
LEMMA OptimisePositions ==
  ASSUME RollingTypeOK, LockOK, LockOK', InputsOK, PositionsOK, NEW w \in Workers, Optimise(w)
  PROVE  PositionsOK'
<1>1. env' = env /\ clock' = clock /\ inputs' = inputs
  BY DEF Optimise
<1>2. /\ calls[w].pc = "optimise" /\ calls'[w].op = calls[w].op /\ lock = w
      /\ \/ calls'[w].pc = "answer" /\ lock' = w
         \/ calls'[w].pc = "idle" /\ lock' \notin Workers
  BY RecordMoves, LockMoves
<1>3. /\ ~Renewing /\ ~Renewing' /\ ~Planning'
      /\ Planning <=> calls[w].op # "run"
      /\ Resetting <=> calls[w].op = "reset"
      /\ Resetting' => Resetting
  BY <1>2, Phases, NoPhases DEF Plans
<1>4. AsOf' = AsOf /\ \A at : BookedBefore(at)' <=> BookedBefore(at)
  BY <1>1 DEF AsOf, BookedBefore
<1>5. ASSUME run'.periods = inputs.periods,
             intact' = (inputs.of = env.live.publication /\ (intact \/ calls[w].op = "reset"))
      PROVE  PositionsOK'
  <2>1. intact' => run'.periods = Horizon(env.live.at)
    BY <1>5 DEF InputsOK, Current
  <2>2. intact' => BookedBefore(env.live.at)
    <3>1. env.booked = NoneBooked => BookedBefore(env.live.at)
      BY DEF BookedBefore, NoneBooked
    <3>2. QED
      BY <1>3, <1>5, <3>1 DEF PositionsOK
  <2>3. intact' => env.live.at <= AsOf
    BY <1>3, <1>5 DEF PositionsOK
  <2>4. QED
    BY <1>1, <1>3, <1>4, <1>5, <2>1, <2>2, <2>3 DEF PositionsOK
<1>6. ASSUME run' = run, intact' = (intact /\ calls[w].op = "run")
      PROVE  PositionsOK'
  BY <1>1, <1>3, <1>4, <1>6 DEF PositionsOK
<1>7. \/ /\ run' = [of |-> env.live.publication, inputs |-> inputs.of, periods |-> inputs.periods]
         /\ intact' = (inputs.of = env.live.publication /\ (intact \/ calls[w].op = "reset"))
      \/ run' = run /\ intact' = (intact /\ calls[w].op = "run")
  BY DEF Optimise
<1>8. QED
  BY <1>5, <1>6, <1>7

\* Every step keeps what is booked before the periods of the run.
LEMMA PositionsStep ==
  ASSUME RollingTypeOK, PositionsInv, RollingNext
  PROVE  PositionsInv'
<1>1. LockOK /\ InputsOK /\ PositionsOK
  BY DEF PositionsInv
<1>2. LockOK' /\ InputsOK'
  BY <1>1, LockStep, InputsStep
<1>3. ASSUME Tick \/ FeedRefresh PROVE PositionsOK'
  <2>1. /\ env' = env /\ run' = run /\ intact' = intact /\ calls' = calls /\ lock' = lock
        /\ clock' \in {clock, clock + 1}
    BY <1>3 DEF Tick, FeedRefresh
  <2>2. (Renewing' <=> Renewing) /\ (Planning' <=> Planning) /\ (Resetting' <=> Resetting)
    BY <2>1 DEF Renewing, Planning, Resetting
  <2>3. QED
    BY <1>1, <2>1, <2>2, QuietStep
<1>4. ASSUME NEW w \in Workers, NEW op \in RollingOps, Enter(w, op) PROVE PositionsOK'
  <2>1. /\ env' = env /\ run' = run /\ intact' = intact /\ clock' = clock
        /\ lock \notin Workers /\ lock' = w /\ calls'[w].op = op
        /\ calls'[w].pc = (IF op = "run" THEN "ensure" ELSE "apply")
    BY <1>1, <1>4, RecordMoves, LockMoves DEF Enter
  <2>2. ~Renewing /\ ~Planning /\ ~Renewing' /\ ~Planning' /\ ~Resetting'
    BY <1>1, <1>2, <2>1, Phases, NoPhases DEF Plans
  <2>3. QED
    BY <1>1, <2>1, <2>2, QuietStep
<1>5. ASSUME NEW w \in Workers, ResetFails(w) PROVE PositionsOK'
  <2>1. /\ env' = env /\ clock' = clock /\ intact' = FALSE /\ calls[w].pc = "renew"
        /\ lock = w /\ lock' \notin Workers
    BY <1>1, <1>5, RecordMoves, LockMoves DEF ResetFails
  <2>2. ~Renewing' /\ ~Planning' /\ ~Resetting'
    BY <1>2, <2>1, NoPhases
  <2>3. QED
    BY <2>1, <2>2 DEF PositionsOK
<1>6. ASSUME NEW w \in Workers,
             Restore(w) \/ PublishInputs(w) \/ PublishSnapshot(w) \/ Ensured(w)
      PROVE  PositionsOK'
  <2>1. /\ env' = env /\ run' = run /\ intact' = intact /\ clock' = clock
        /\ \A u \in Workers : u # w => calls'[u] = calls[u]
    BY <1>6, EnvTypes
    DEF Restore, PublishInputs, PublishSnapshot, Ensured, Goto
  <2>2. calls[w] \in Call /\ calls \in [Workers -> Call]
    BY EnvTypes
  <2>3. \A pc : /\ [calls[w] EXCEPT !.pc = pc].pc = pc
                /\ [calls[w] EXCEPT !.pc = pc].op = calls[w].op
                /\ [calls[w] EXCEPT !.pc = pc].after = calls[w].after
    BY <2>2 DEF Call
  <2>4. /\ calls[w].pc \notin {"apply", "renew"} /\ calls'[w].pc \notin {"apply", "renew"}
        /\ calls'[w].op = calls[w].op
    BY <1>6, <2>2, <2>3, RecordMoves DEF Call, ReturnPoints
  <2>5. lock = w /\ lock' = w => (Plans(calls'[w]) <=> Plans(calls[w]))
    BY <1>1, <1>6, <2>2, <2>3, RecordMoves, LockMoves DEF Call, ReturnPoints, Plans
  <2>6. lock' = lock \/ (lock = w /\ lock' \notin Workers /\ ~Plans(calls[w]))
    BY <1>1, <1>6, <2>2, <2>3, RecordMoves, LockMoves, RollingAssumption
    DEF Call, ReturnPoints, Plans
  <2>7. Renewing' <=> Renewing
    BY <2>1, <2>4 DEF Renewing
  <2>8. Planning' <=> Planning
    <3>1. CASE lock = w /\ lock' = w
      BY <1>1, <1>2, <2>5, <3>1, Phases
    <3>2. CASE lock # w /\ lock' = lock
      BY <2>1, <3>2 DEF Planning
    <3>3. CASE lock = w /\ lock' \notin Workers /\ ~Plans(calls[w])
      BY <1>1, <1>2, <3>3, Phases, NoPhases
    <3>4. QED
      BY <2>6, <3>1, <3>2, <3>3
  <2>9. Resetting' => Resetting
    BY <2>1, <2>4, <2>6 DEF Resetting
  <2>10. QED
    BY <1>1, <2>1, <2>7, <2>8, <2>9, QuietStep
<1>7. QED
  BY <1>1, <1>2, <1>3, <1>4, <1>5, <1>6, ApplyPositions, RenewPositions, OptimisePositions
  DEF RollingNext, Work, PositionsInv

----------------------------------------------------------------------------
(***************************************************************************)
(* Theorems                                                                *)
(***************************************************************************)
\* The invariant holds of every reachable state.
LEMMA RollingInvariance == RollingSpec => []RollingInv
<1>1. RollingInit => RollingInv
  BY TypeInit, BookedInit, ChainInit DEF RollingInv
<1>2. RollingInv /\ [RollingNext]_rollingVars => RollingInv'
  <2> SUFFICES ASSUME RollingInv, [RollingNext]_rollingVars PROVE RollingInv'
    OBVIOUS
  <2>1. CASE RollingNext
    BY <2>1, TypeStep, BookedStep, ChainStep DEF RollingInv
  <2>2. CASE UNCHANGED rollingVars
    <3>1. RollingTypeOK'
      BY <2>2 DEF RollingInv, RollingTypeOK, rollingVars
    <3>2. BookedIsApplied'
      BY <2>2 DEF RollingInv, BookedIsApplied, rollingVars
    <3>3. VintageChain'
      BY <2>2 DEF RollingInv, VintageChain, AsOf, rollingVars
    <3>4. QED
      BY <3>1, <3>2, <3>3 DEF RollingInv
  <2>3. QED
    BY <2>1, <2>2
<1>3. QED
  BY <1>1, <1>2, PTL DEF RollingSpec

\* The rolling state is well typed and the vintage store within its capacity, whatever requests,
\* feed refreshes and failures of the optimiser come in whatever order.
THEOREM RollingTypeCorrect == RollingSpec => []RollingTypeOK
<1>1. RollingInv => RollingTypeOK
  BY DEF RollingInv
<1>2. QED
  BY <1>1, RollingInvariance, PTL

\* reconcile_previous_run books the action of a completed period once, whatever operations,
\* advances, failures and restores come in between; only an advance may take an action again,
\* and it does not as long as every operation has got its run from the live periods.
THEOREM ActionsAppliedOnceHolds == RollingSpec => []ActionsAppliedOnce
<1>1. PositionsInv /\ RollingInv /\ [RollingNext]_rollingVars => PositionsInv'
  <2> SUFFICES ASSUME PositionsInv, RollingInv, [RollingNext]_rollingVars PROVE PositionsInv'
    OBVIOUS
  <2>1. CASE RollingNext
    BY <2>1, PositionsStep DEF RollingInv
  <2>2. CASE UNCHANGED rollingVars
    <3>1. LockOK' /\ InputsOK'
      BY <2>2 DEF PositionsInv, LockOK, InputsOK, Current, rollingVars
    <3>2. /\ env' = env /\ run' = run /\ intact' = intact /\ clock' = clock
          /\ calls' = calls /\ lock' = lock
      BY <2>2 DEF rollingVars
    <3>3. (Renewing' <=> Renewing) /\ (Planning' <=> Planning) /\ (Resetting' <=> Resetting)
      BY <3>2 DEF Renewing, Planning, Resetting
    <3>4. PositionsOK'
      BY <3>2, <3>3, QuietStep DEF PositionsInv, RollingInv
    <3>5. QED
      BY <3>1, <3>4 DEF PositionsInv
  <2>3. QED
    BY <2>1, <2>2
<1>2. RollingInv /\ PositionsInv => ActionsAppliedOnce
  <2> SUFFICES ASSUME RollingInv, PositionsInv, NEW p \in Periods
               PROVE  /\ env.booked[p] <= env.offset + (IF p \in env.applied THEN 1 ELSE 0)
                      /\ intact => env.booked[p] <= 1
    BY DEF ActionsAppliedOnce
  <2>1. env.booked[p] \in Nat
    BY DEF RollingInv, RollingTypeOK
  <2>2. intact => (env.booked[p] > 0 => env.booked[p] = 1)
    BY DEF PositionsInv, PositionsOK, BookedBefore
  <2>3. QED
    BY <2>1, <2>2 DEF RollingInv, BookedIsApplied
<1>3. QED
  BY <1>1, <1>2, PositionsInit, RollingInvariance, PTL DEF RollingSpec

\* retain() drops the oldest vintage, and only when it must: the store holds the newest
\* publications, in order, and the current one last.
THEOREM NewestVintagesHold == RollingSpec => []NewestVintagesRetained
<1>1. RollingInv => NewestVintagesRetained
  BY DEF RollingInv, VintageChain, Chain, NewestVintagesRetained
<1>2. QED
  BY <1>1, RollingInvariance, PTL

\* The ids of the retained vintages are distinct, also when an advance has started the sequence
\* numbers again.
THEOREM VintageIdsDistinctHolds == RollingSpec => []VintageIdsDistinct
<1>1. RollingInv => VintageIdsDistinct
  BY DEF RollingInv, VintageChain, Named, VintageIdsDistinct
<1>2. QED
  BY <1>1, RollingInvariance, PTL

================================================================================
