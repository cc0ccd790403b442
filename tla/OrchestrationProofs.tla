--------------------------- MODULE OrchestrationProofs ---------------------------
(***************************************************************************)
(* Theorems of Orchestration, for any number of refreshers and workers,    *)
(* every day, every capacity of the vintage store and every bound.         *)
(*                                                                         *)
(* A refresh reads without a lock, so what it knows is old.  The invariant *)
(* says what old knowledge is still good for: a live state is that of the  *)
(* vintage with its number, and later ones are not before it (LiveRead), a *)
(* set of periods is the horizon of its publication (PublishedOnce), and   *)
(* no vintage made since has the id of one that was seen (IdsOK).  A reset *)
(* ends all of this, and the set resets remembers which reads it made old. *)
(***************************************************************************)
EXTENDS Orchestration, RollingStateProofs, WellFoundedInduction

RevisionType ==
  [latest : VintageType, previous : VintageType, period : Periods, compared : Periods,
   live : InstantType, inputs : Nat]

ChoiceType == [revision : RevisionType, advised : Periods, run : Nat]

JobType ==
  [pc : {"idle", "live", "run", "inputs", "vintages", "decide", "create"},
   live : InstantType, run : InputsType, inputs : InputsType, vintages : Seq(VintageType),
   duplicates : SUBSET RevisionType, chosen : SUBSET ChoiceType]

OrchestrationTypeOK ==
  /\ jobs \in [Refreshers -> JobType]
  /\ batches \in Seq(SUBSET ChoiceType)
  /\ resets \subseteq Nat

\* the environment was reset after publication k
Behind(k) == \E p \in resets : k <= p

\* the vintages in the store
Stored == {env.vintages[i] : i \in 1..Len(env.vintages)}

\* the live state is that of the newest vintage; there is none only after a reset
LiveIsNewest ==
  /\ env.live.publication >= 1
  /\ \A p \in resets : p <= env.live.publication
  /\ env.vintages = <<>> => env.live.publication \in resets
  /\ env.vintages # <<>> => env.vintages[Len(env.vintages)].published = env.live

\* what a live state that was read still says about the store
LiveRead(live) ==
  /\ live.publication >= 1 /\ live.publication <= env.live.publication
  /\ \/ Behind(live.publication)
     \/ /\ live.at <= env.live.at
        /\ \A v \in Stored :
             /\ v.published.publication = live.publication => v.published = live
             /\ v.published.publication > live.publication => live.at <= v.published.at

\* the latest vintage at the time of live, and its predecessor
Consecutive(previous, latest, live) ==
  /\ previous.published.publication = latest.published.publication - 1
  /\ previous.published.at <= latest.published.at
  /\ latest.published.at <= live.at
  /\ latest.published = live \/ Behind(live.publication)

\* what a choice says of one period, it says of the period it was made for
Matches(c) ==
  LET d == c.revision IN
    /\ d.inputs = d.live.publication => d.compared = d.period
    /\ c.run = d.live.publication /\ d.latest.published = d.live => c.advised = d.period

ChoiceOK(c) ==
  /\ Consecutive(c.revision.previous, c.revision.latest, c.revision.live)
  /\ Matches(c)

JobOK(j) ==
  /\ j.pc \in {"run", "inputs", "vintages", "decide"} => LiveRead(j.live)
  /\ j.pc = "decide" /\ Len(j.vintages) >= 2 =>
       Consecutive(j.vintages[1], j.vintages[2], j.live)
  /\ \A c \in j.chosen : ChoiceOK(c)

JobsOK == \A r \in Refreshers : JobOK(jobs[r])

BatchesOK == \A i \in DOMAIN batches : \A c \in batches[i] : ChoiceOK(c)

----------------------------------------------------------------------------
\* the live states and the sets of periods that are in use
Instants == {env.live} \cup {jobs[r].live : r \in Refreshers}

RunInputs == [of |-> run.inputs, periods |-> run.periods]

Snapshots ==
  {inputs, RunInputs} \cup {calls[w].inputs : w \in Workers}
    \cup {jobs[r].run : r \in Refreshers} \cup {jobs[r].inputs : r \in Refreshers}

\* of one publication there is one set of periods: the horizon at its time
PublishedOnce ==
  /\ \A x \in Snapshots : x.of <= env.live.publication
  /\ \A y \in Instants : y.publication <= env.live.publication
  /\ \A x \in Snapshots, y \in Instants :
       y.publication >= 1 /\ x.of = y.publication => x.periods = Horizon(y.at)

----------------------------------------------------------------------------
\* the vintages somebody may still name
HeldBy(j) ==
  {j.vintages[i] : i \in 1..Len(j.vintages)} \cup {c.revision.latest : c \in j.chosen}

Seen ==
  Stored \cup (UNION {HeldBy(jobs[r]) : r \in Refreshers}) \cup {d.latest : d \in Created}

\* the next id, of the step AsOf - env.base with the number env.seq + 1, is not that of v
Numbered(v) ==
  /\ v.published.publication <= env.live.publication
  /\ \/ Behind(v.published.publication)
     \/ /\ v.id.step <= AsOf - env.base
        /\ v.id.step < AsOf - env.base \/ v.id.seq <= env.seq

IdsOK ==
  /\ \A v \in Seen : Numbered(v)
  /\ \A v, w \in Seen : v.id = w.id => v = w \/ ResetBetween(v, w)

OrchestrationInv ==
  /\ RollingInv
  /\ OrchestrationTypeOK
  /\ LiveIsNewest
  /\ JobsOK
  /\ BatchesOK
  /\ PublishedOnce
  /\ IdsOK
  /\ DuplicateIsGenuine

\* with one refresher, nobody creates what it is about to create
FreshChoice ==
  \A r \in Refreshers : \A c \in jobs[r].chosen : ~Known(c.revision)

----------------------------------------------------------------------------
(***************************************************************************)
(* The calendar                                                            *)
(***************************************************************************)
\* Two periods less than a day apart have different numbers.
LEMMA SameNumber ==
  ASSUME NEW a \in Int, NEW b \in Int, a <= b, b < a + Day, Number(a) = Number(b)
  PROVE  a = b
<1>1. Day \in Nat \ {0}
  BY RollingAssumption
<1> DEFINE i == a \div Day
           j == b \div Day
<1>2. i \in Int /\ a = Day * i + Number(a)
  BY <1>1 DEF Number
<1>3. j \in Int /\ b = Day * j + Number(b)
  BY <1>1 DEF Number
<1>4. Number(a) \in Int
  BY <1>1 DEF Number
<1>5. i \in Int /\ j \in Int
  BY <1>2, <1>3
<1> HIDE DEF i, j
<1>6. CASE j <= i
  <2>1. Day * j <= Day * i
    BY <1>1, <1>5, <1>6
  <2>2. Day * i \in Int /\ Day * j \in Int
    BY <1>1, <1>5
  <2>3. QED
    BY <1>2, <1>3, <1>4, <1>5, <2>1, <2>2
<1>7. CASE j >= i + 1
  <2>1. Day * j >= Day * (i + 1)
    BY <1>1, <1>5, <1>7
  <2>2. Day * (i + 1) = Day * i + Day
    BY <1>1, <1>5
  <2>3. Day * i \in Int /\ Day * j \in Int
    BY <1>1, <1>5
  <2>4. QED
    BY <1>1, <1>5, <1>2, <1>3, <1>4, <2>1, <2>2, <2>3
<1>8. QED
  BY <1>6, <1>7, <1>5

\* There is a next auction within a day.
LEMMA NextAuctionType ==
  ASSUME NEW at \in Nat
  PROVE  /\ NextAuction(at) \in (at + 1)..(at + Day)
         /\ Number(NextAuction(at)) = Auction
BY NextAuctionExists DEF Number

\* The next auction comes no earlier when time goes on.
LEMMA NextAuctionLater ==
  ASSUME NEW a \in Nat, NEW b \in Nat, a <= b
  PROVE  NextAuction(a) <= NextAuction(b)
<1> DEFINE p == NextAuction(a)
           q == NextAuction(b)
<1>1. /\ p \in (a + 1)..(a + Day) /\ Number(p) = Auction
      /\ q \in (b + 1)..(b + Day) /\ Number(q) = Auction
  BY NextAuctionType
<1>2. Day \in Nat
  BY RollingAssumption
<1> HIDE DEF p, q
<1>3. CASE p <= b
  BY <1>1, <1>2, <1>3 DEF p, q
<1>4. CASE p > b /\ q < p
  <2>1. q < p /\ p < q + Day /\ p \in Int /\ q \in Int
    BY <1>1, <1>2, <1>4
  <2>2. q = p
    BY <1>1, <2>1, SameNumber
  <2>3. QED
    BY <2>1, <2>2
<1>5. QED
  BY <1>1, <1>2, <1>3, <1>4 DEF p, q

\* A number stands for one period of a horizon.
LEMMA HorizonNumbers ==
  ASSUME NEW at \in Nat, NEW p \in Horizon(at), NEW q \in Horizon(at), Number(p) = Number(q)
  PROVE  p = q
<1>1. Day \in Nat /\ MaxClock \in Nat /\ MaxPublications \in Nat
  BY RollingAssumption
<1>2. /\ p \in Int /\ q \in Int
      /\ p >= at /\ q >= at /\ p < NextAuction(at) /\ q < NextAuction(at)
  BY <1>1 DEF Horizon, Periods
<1>3. NextAuction(at) \in (at + 1)..(at + Day)
  BY NextAuctionType
<1>4. p < q + Day /\ q < p + Day
  BY <1>1, <1>2, <1>3
<1>5. CASE p <= q
  BY <1>2, <1>4, <1>5, SameNumber
<1>6. CASE q <= p
  BY <1>2, <1>4, <1>6, SameNumber
<1>7. QED
  BY <1>2, <1>5, <1>6

\* A period of an earlier and of a later horizon is one of those between.
LEMMA HorizonBetween ==
  ASSUME NEW a \in Nat, NEW b \in Nat, NEW c \in Nat, a <= b, b <= c,
         NEW p \in Horizon(a), p \in Horizon(c)
  PROVE  p \in Horizon(b)
<1>1. p \in Periods /\ p \in Int /\ p < NextAuction(a) /\ p >= c
  BY RollingAssumption DEF Horizon, Periods
<1>2. NextAuction(a) <= NextAuction(b)
  BY NextAuctionLater
<1>3. NextAuction(a) \in Int /\ NextAuction(b) \in Int
  BY NextAuctionType, RollingAssumption
<1>4. QED
  BY <1>1, <1>2, <1>3 DEF Horizon

----------------------------------------------------------------------------
(***************************************************************************)
(* The two vintages that are compared                                      *)
(***************************************************************************)
\* A nonempty set of numbers up to n has a greatest one.
LEMMA GreatestExists ==
  ASSUME NEW n \in Nat, NEW S \in SUBSET (1..n), S # {}
  PROVE  \E i \in S : \A j \in S : j <= i
<1> DEFINE T == {n - i : i \in S}
<1>1. T \in SUBSET Nat /\ T # {}
  <2>1. PICK i \in S : TRUE
    OBVIOUS
  <2>2. n - i \in T
    OBVIOUS
  <2>3. \A j \in S : n - j \in Nat
    OBVIOUS
  <2>4. QED
    BY <2>2, <2>3
<1>2. \E x \in T : \A y \in T : ~(<<y, x>> \in OpToRel(<, Nat))
  <2> HIDE DEF T
  <2>1. QED
    BY <1>1, NatLessThanWellFounded, WFMin
<1>3. PICK x \in T : \A y \in T : ~(y < x)
  BY <1>1, <1>2 DEF OpToRel
<1>4. PICK i \in S : x = n - i
  OBVIOUS
<1>5. ASSUME NEW j \in S PROVE j <= i
  <2>1. ~(n - j < n - i)
    BY <1>3, <1>4
  <2>2. i \in Int /\ j \in Int
    OBVIOUS
  <2>3. QED
    BY <2>1, <2>2
<1>6. QED
  BY <1>5

\* The vintages of a store stand in the order of their publication.
LEMMA StoreOrder ==
  ASSUME NEW store \in Seq(VintageType), NEW k \in Nat, NEW at \in Nat, Chain(store, k, at),
         NEW i \in 1..Len(store), NEW j \in 1..Len(store)
  PROVE  NotAfter(store[i].published, store[j].published) <=> i <= j
<1>1. /\ store[i].published.publication = k - (Len(store) - i)
      /\ store[j].published.publication = k - (Len(store) - j)
  BY DEF Chain
<1>2. /\ store[i].published.at \in Nat /\ store[j].published.at \in Nat
      /\ store[i].published.publication = k - (Len(store) - i)
      /\ store[j].published.publication = k - (Len(store) - j)
      /\ Len(store) \in Nat
  BY <1>1, InstantsOfStore
<1>3. CASE i <= j
  <2>1. store[i].published.at <= store[j].published.at
    BY <1>3 DEF Chain
  <2>2. QED
    BY <1>2, <1>3, <2>1 DEF NotAfter
<1>4. CASE j < i
  <2>1. store[j].published.at <= store[i].published.at
    BY <1>4 DEF Chain
  <2>2. QED
    BY <1>2, <1>4, <2>1 DEF NotAfter
<1>5. QED
  BY <1>3, <1>4

\* The newest of some of them is the last one.
LEMMA NewestIsLast ==
  ASSUME NEW store \in Seq(VintageType), NEW k \in Nat, NEW at \in Nat, Chain(store, k, at),
         NEW S \in SUBSET (1..Len(store)), NEW i \in S, \A j \in S : j <= i
  PROVE  Newest(store, S) = i
<1>1. \A j \in S : NotAfter(store[j].published, store[i].published)
  BY StoreOrder
<1>2. ASSUME NEW m \in S, \A j \in S : NotAfter(store[j].published, store[m].published)
      PROVE  m = i
  <2>1. i <= m
    BY <1>2, StoreOrder
  <2>2. QED
    BY <2>1
<1>3. QED
  BY <1>1, <1>2 DEF Newest

\* Who is compared are the latest vintage not after the live state and the one before it.
LEMMA SelectedPair ==
  ASSUME NEW store \in Seq(VintageType), NEW k \in Nat, NEW at \in Nat, Chain(store, k, at),
         NEW live \in InstantType
  PROVE  \/ Selected(store, live) = <<>>
         \/ \E i \in 1..(Len(store) - 1) :
              /\ Selected(store, live) = <<store[i], store[i + 1]>>
              /\ NotAfter(store[i + 1].published, live)
              /\ i + 2 \in 1..Len(store) => ~NotAfter(store[i + 2].published, live)
<1> DEFINE E == Eligible(store, live)
<1>1. E = {i \in 1..Len(store) : NotAfter(store[i].published, live)} /\ Len(store) \in Nat
  BY DEF Eligible
<1>2. ASSUME NEW j \in E, NEW i \in 1..Len(store), i <= j
      PROVE  i \in E
  <2>1. NotAfter(store[i].published, store[j].published) /\ NotAfter(store[j].published, live)
    BY <1>1, <1>2, StoreOrder
  <2>2. /\ store[i].published.at \in Nat /\ store[i].published.publication \in Nat
        /\ store[j].published.at \in Nat /\ store[j].published.publication \in Nat
        /\ live.at \in Nat /\ live.publication \in Nat
    BY <1>1, InstantsOfStore DEF InstantType
  <2>3. QED
    BY <1>1, <2>1, <2>2 DEF NotAfter
<1> HIDE DEF E
<1>3. CASE E = {}
  BY <1>3 DEF Selected, E
<1>4. CASE E # {}
  <2>1. PICK m \in E : \A j \in E : j <= m
    BY <1>1, <1>4, GreatestExists
  <2>2. Newest(store, E) = m
    BY <1>1, <2>1, NewestIsLast
  <2> DEFINE before == E \ {m}
  <2>3. before = {} => Selected(store, live) = <<>>
    BY <2>2 DEF Selected, E
  <2>4. ASSUME before # {}
        PROVE  /\ m - 1 \in 1..(Len(store) - 1)
               /\ Selected(store, live) = <<store[m - 1], store[m]>>
    <3>1. m - 1 \in before
      <4>1. PICK j \in before : TRUE
        BY <2>4
      <4>2. j \in 1..Len(store) /\ m \in 1..Len(store) /\ j < m
        BY <1>1, <2>1
      <4>3. m - 1 \in 1..Len(store) /\ m - 1 <= m /\ m - 1 # m
        BY <4>2
      <4>4. QED
        BY <1>2, <4>3
    <3>2. \A j \in before : j <= m - 1
      BY <1>1, <2>1
    <3>3. before \in SUBSET (1..Len(store))
      BY <1>1
    <3> HIDE DEF before
    <3>4. Newest(store, before) = m - 1
      BY <3>1, <3>2, <3>3, NewestIsLast
    <3>5. Selected(store, live) = <<store[m - 1], store[m]>>
      BY <1>4, <2>2, <2>4, <3>4 DEF Selected, E, before
    <3>6. QED
      BY <1>1, <3>1, <3>3, <3>5
  <2>5. ASSUME before # {}, m + 1 \in 1..Len(store)
        PROVE  ~NotAfter(store[m + 1].published, live)
    BY <1>1, <2>1, <2>5
  <2>6. NotAfter(store[m].published, live) /\ m \in 1..Len(store)
    BY <1>1
  <2> HIDE DEF before
  <2>7. CASE before # {}
    <3> DEFINE i == m - 1
    <3>1. i \in 1..(Len(store) - 1) /\ i + 1 = m /\ i + 2 = m + 1
      BY <2>4, <2>6, <2>7
    <3>2. /\ Selected(store, live) = <<store[i], store[i + 1]>>
          /\ NotAfter(store[i + 1].published, live)
          /\ i + 2 \in 1..Len(store) => ~NotAfter(store[i + 2].published, live)
      BY <2>4, <2>5, <2>6, <2>7, <3>1
    <3>3. QED
      BY <3>1, <3>2
  <2>8. QED
    BY <2>3, <2>7
<1>5. QED
  BY <1>3, <1>4

----------------------------------------------------------------------------
(***************************************************************************)
(* What a step of the rolling service does to the vintages                 *)
(***************************************************************************)
\* it leaves them alone, and time may go on
StoreKept ==
  /\ env'.vintages = env.vintages /\ env'.live = env.live /\ env'.base = env.base
  /\ AsOf <= AsOf'
  /\ env'.seq = env.seq \/ AsOf < AsOf'

\* it drops them
StoreCleared == env'.vintages = <<>> /\ env'.live = env.live

\* it adds a new one and may drop the oldest ones
StoreRenewed(new) ==
  /\ new.id.step = AsOf - env.base
  /\ new.id.seq = env.seq + 1
  /\ new.published = Instant(AsOf, env.live.publication + 1)
  /\ env'.live = new.published
  /\ env'.vintages \in Seq(VintageType) /\ Len(env'.vintages) >= 1
  /\ Suffix(env'.vintages, Append(env.vintages, new))
  /\ env'.base = env.base /\ env'.seq = env.seq + 1 /\ AsOf' = AsOf

\* It does nothing else.
LEMMA StoreSteps ==
  ASSUME RollingTypeOK, VintageChain, RollingNext
  PROVE  \/ StoreKept
         \/ StoreCleared
         \/ \E new \in VintageType : StoreRenewed(new)
<1>1. env \in Env /\ clock \in Nat /\ AsOf \in Nat /\ env.offset \in Nat
  BY EnvTypes DEF Env
<1>2. CASE Tick
  <2>1. env' = env /\ AsOf' = AsOf + 1
    BY <1>1, <1>2 DEF Tick, AsOf
  <2>2. QED
    BY <1>1, <2>1 DEF StoreKept
<1>3. CASE UNCHANGED <<clock, env>>
  <2>1. AsOf' = AsOf /\ env' = env
    BY <1>3 DEF AsOf
  <2>2. QED
    BY <1>1, <2>1 DEF StoreKept
<1>4. ASSUME NEW w \in Workers, Apply(w)
      PROVE  StoreKept \/ StoreCleared
  <2>1. clock' = clock
    BY <1>4 DEF Apply
  <2>2. CASE env' = Reconciled(env, AsOf)
    <3>1. /\ env'.vintages = env.vintages /\ env'.live = env.live /\ env'.base = env.base
          /\ env'.seq = env.seq /\ AsOf' = AsOf
      BY <1>1, <2>1, <2>2 DEF Reconciled, Env, AsOf
    <3>2. QED
      BY <1>1, <3>1 DEF StoreKept
  <2>3. ASSUME NEW regime \in Regimes, env' = [env EXCEPT !.regime = regime]
        PROVE  StoreKept
    <3>1. /\ env'.vintages = env.vintages /\ env'.live = env.live /\ env'.base = env.base
          /\ env'.seq = env.seq /\ AsOf' = AsOf
      BY <1>1, <2>1, <2>3 DEF Env, AsOf
    <3>2. QED
      BY <1>1, <3>1 DEF StoreKept
  <2>4. CASE env' = Advanced(env)
    <3>1. /\ env'.vintages = env.vintages /\ env'.live = env.live /\ env'.base = env.base
          /\ AsOf' = AsOf + 1
      BY <1>1, <2>1, <2>4 DEF Advanced, Env, AsOf
    <3>2. QED
      BY <1>1, <3>1 DEF StoreKept
  <2>5. CASE env' = Fresh(env)
    BY <1>1, <2>5 DEF Fresh, Env, StoreCleared
  <2>6. QED
    BY <1>4, <2>2, <2>3, <2>4, <2>5 DEF Apply
<1>5. ASSUME NEW w \in Workers, Renew(w)
      PROVE  \E new \in VintageType : StoreRenewed(new)
  <2>1. PICK new \in VintageType :
          /\ new.id.step = AsOf - env.base
          /\ new.id.seq = env.seq + 1
          /\ new.published = Instant(AsOf, env.live.publication + 1)
          /\ env'.vintages \in Seq(VintageType)
          /\ Len(env'.vintages) \in 1..MaxVintages
          /\ Suffix(env'.vintages, Append(env.vintages, new))
          /\ env' = [env EXCEPT !.seq = env.seq + 1, !.vintages = env'.vintages,
                               !.live = Instant(AsOf, env.live.publication + 1)]
    BY <1>5, RenewRetains
  <2>2. /\ env'.live = new.published /\ env'.base = env.base /\ env'.seq = env.seq + 1
        /\ env'.offset = env.offset
    BY <1>1, <2>1 DEF Env
  <2>3. AsOf' = AsOf
    BY <1>5, <2>2 DEF Renew, AsOf
  <2>4. Len(env'.vintages) >= 1
    BY <2>1, RollingAssumption
  <2>5. QED
    BY <2>1, <2>2, <2>3, <2>4 DEF StoreRenewed
<1>6. QED
  BY <1>2, <1>3, <1>4, <1>5
  DEF RollingNext, Work, FeedRefresh, Enter, Restore, ResetFails, PublishInputs,
      PublishSnapshot, Ensured, Optimise

\* The vintages after a renewal.
LEMMA RenewedStore ==
  ASSUME RollingTypeOK, NEW new \in VintageType, StoreRenewed(new)
  PROVE  /\ Stored' \subseteq Stored \cup {new}
         /\ env'.vintages[Len(env'.vintages)] = new
         /\ env'.vintages # <<>>
<1> DEFINE s == env.vintages
           all == Append(s, new)
           r == env'.vintages
<1>1. s \in Seq(VintageType) /\ r \in Seq(VintageType) /\ Len(r) >= 1 /\ Suffix(r, all)
  BY EnvTypes DEF StoreRenewed, Env
<1>2. /\ Len(all) = Len(s) + 1
      /\ Len(s) \in Nat /\ Len(r) \in Nat
      /\ \A i \in 1..Len(s) : all[i] = s[i]
      /\ all[Len(s) + 1] = new
  BY <1>1
<1> HIDE DEF all
<1>3. \A i \in 1..Len(r) : r[i] = all[i + (Len(all) - Len(r))] /\ Len(r) <= Len(all)
  BY <1>1 DEF Suffix
<1>4. r[Len(r)] = new
  <2>1. Len(r) \in 1..Len(r) /\ Len(r) + (Len(all) - Len(r)) = Len(s) + 1
    BY <1>1, <1>2
  <2>2. r[Len(r)] = all[Len(s) + 1]
    BY <1>3, <2>1
  <2>3. QED
    BY <1>2, <2>2
<1>5. ASSUME NEW i \in 1..Len(r)
      PROVE  r[i] = new \/ \E j \in 1..Len(s) : r[i] = s[j]
  <2> DEFINE j == i + (Len(all) - Len(r))
  <2>1. r[i] = all[j]
    BY <1>3, <1>5
  <2>2. j \in 1..(Len(s) + 1)
    <3>1. Len(all) = Len(s) + 1 /\ Len(s) \in Nat /\ Len(r) \in Nat /\ Len(r) <= Len(all)
      BY <1>2, <1>3
    <3>2. i \in Nat /\ 1 <= i /\ i <= Len(r)
      BY <1>2, <1>5
    <3> DEFINE n == Len(s)
               m == Len(r)
    <3> HIDE DEF n, m
    <3>3. Len(all) = n + 1 /\ n \in Nat /\ m \in Nat /\ m <= n + 1 /\ i \in Nat /\ 1 <= i /\ i <= m
      BY <3>1, <3>2 DEF n, m
    <3>4. i + ((n + 1) - m) \in 1..(n + 1)
      BY <3>3
    <3>5. QED
      BY <3>3, <3>4 DEF n, m
  <2> HIDE DEF j
  <2>3. QED
    BY <1>2, <2>1, <2>2
<1>6. r # <<>>
  BY <1>1
<1> HIDE DEF s
<1>7. Stored = {s[i] : i \in 1..Len(s)} /\ Stored' = {r[i] : i \in 1..Len(r)}
  BY DEF Stored, s
<1> HIDE DEF r
<1>8. Stored' \subseteq Stored \cup {new}
  BY <1>5, <1>7
<1>9. QED
  BY <1>4, <1>6, <1>8 DEF r

----------------------------------------------------------------------------
(***************************************************************************)
(* The steps of the rolling service keep the invariant                     *)
(***************************************************************************)
\* The resets that are remembered.
LEMMA ResetSteps ==
  ASSUME RollingTypeOK, LiveIsNewest, Rolling
  PROVE  /\ resets \subseteq resets'
         /\ resets' \subseteq resets \cup {env.live.publication}
         /\ StoreKept => resets' = resets
         /\ StoreCleared => env.live.publication \in resets'
         /\ \A new \in VintageType : StoreRenewed(new) => resets' = resets
<1>1. resets' = IF env'.vintages = <<>> THEN resets \cup {env.live.publication} ELSE resets
  BY DEF Rolling
<1>2. StoreKept => resets' = resets
  BY <1>1 DEF StoreKept, LiveIsNewest
<1>3. StoreCleared => env.live.publication \in resets'
  BY <1>1 DEF StoreCleared
<1>4. ASSUME NEW new \in VintageType, StoreRenewed(new)
      PROVE  resets' = resets
  BY <1>1, <1>4, RenewedStore
<1>5. QED
  BY <1>1, <1>2, <1>3, <1>4

\* The live state is not after the present, unless the store is empty.
LEMMA LiveNotLater ==
  ASSUME RollingTypeOK, VintageChain, LiveIsNewest
  PROVE  env.live.publication \in resets \/ env.live.at <= AsOf
<1>1. env.vintages \in Seq(VintageType)
  BY EnvTypes DEF Env
<1>2. CASE env.vintages # <<>>
  <2>1. Len(env.vintages) \in 1..Len(env.vintages)
    BY <1>1, <1>2
  <2>2. env.vintages[Len(env.vintages)].published.at <= AsOf
    BY <2>1 DEF VintageChain, Chain
  <2>3. QED
    BY <1>2, <2>2 DEF LiveIsNewest
<1>3. QED
  BY <1>2 DEF LiveIsNewest

\* The live state stays that of the newest vintage.
LEMMA LiveRolls ==
  ASSUME RollingTypeOK, VintageChain, OrchestrationTypeOK, LiveIsNewest, Rolling
  PROVE  LiveIsNewest'
<1>1. RollingNext /\ env \in Env /\ env.live.publication \in Nat
  BY EnvTypes DEF Rolling, Env, InstantType
<1>2. CASE StoreKept
  BY <1>2, ResetSteps DEF StoreKept, LiveIsNewest
<1>3. CASE StoreCleared
  BY <1>1, <1>3, ResetSteps DEF StoreCleared, LiveIsNewest
<1>4. ASSUME NEW new \in VintageType, StoreRenewed(new)
      PROVE  LiveIsNewest'
  <2>1. /\ resets' = resets
        /\ env'.live = new.published
        /\ env'.live.publication = env.live.publication + 1
    BY <1>4, ResetSteps DEF StoreRenewed, Instant
  <2>2. env'.vintages # <<>> /\ env'.vintages[Len(env'.vintages)].published = env'.live
    BY <1>4, <2>1, RenewedStore
  <2>3. \A p \in resets : p <= env'.live.publication
    BY <1>1, <2>1 DEF LiveIsNewest, OrchestrationTypeOK
  <2>4. QED
    BY <1>1, <2>1, <2>2, <2>3 DEF LiveIsNewest
<1>5. QED
  BY <1>1, <1>2, <1>3, <1>4, StoreSteps

\* What a live state says of the store it goes on to say.
LEMMA LiveReadRolls ==
  ASSUME RollingTypeOK, VintageChain, OrchestrationTypeOK, LiveIsNewest, Rolling,
         NEW live \in InstantType, LiveRead(live)
  PROVE  LiveRead(live)'
<1>1. /\ RollingNext /\ AsOf \in Nat
      /\ env.live.publication \in Nat /\ env.live.at \in Nat
      /\ live.publication \in Nat /\ live.at \in Nat
  BY EnvTypes DEF Rolling, Env, InstantType
<1>2. CASE StoreKept
  <2>1. resets' = resets /\ env'.live = env.live /\ Stored' = Stored
    BY <1>2, ResetSteps DEF StoreKept, Stored
  <2>2. QED
    BY <2>1 DEF LiveRead, Behind
<1>3. CASE StoreCleared
  <2>1. env.live.publication \in resets' /\ env'.live = env.live
    BY <1>3, ResetSteps DEF StoreCleared
  <2>2. QED
    BY <2>1 DEF LiveRead, Behind
<1>4. ASSUME NEW new \in VintageType, StoreRenewed(new)
      PROVE  LiveRead(live)'
  <2>1. /\ resets' = resets
        /\ new.published.at = AsOf /\ new.published.publication = env.live.publication + 1
        /\ env'.live = new.published
    BY <1>4, ResetSteps DEF StoreRenewed, Instant
  <2>2. Stored' \subseteq Stored \cup {new}
    BY <1>4, RenewedStore
  <2>3. live.publication >= 1 /\ live.publication <= env'.live.publication
    BY <1>1, <2>1 DEF LiveRead
  <2>4. CASE Behind(live.publication)
    BY <2>1, <2>3, <2>4 DEF LiveRead, Behind
  <2>5. CASE ~Behind(live.publication)
    <3>1. live.at <= AsOf
      <4>1. env.live.publication \notin resets
        BY <1>1, <2>5 DEF LiveRead, Behind
      <4>2. QED
        BY <1>1, <2>5, <4>1, LiveNotLater DEF LiveRead
    <3>2. ASSUME NEW v \in Stored'
          PROVE  /\ v.published.publication = live.publication => v.published = live
                 /\ v.published.publication > live.publication => live.at <= v.published.at
      <4>1. CASE v \in Stored
        BY <2>5, <4>1 DEF LiveRead
      <4>2. CASE v = new
        BY <1>1, <2>1, <3>1, <4>2 DEF LiveRead
      <4>3. QED
        BY <2>2, <4>1, <4>2
    <3>3. QED
      BY <2>1, <2>3, <3>1, <3>2 DEF LiveRead
  <2>6. QED
    BY <2>4, <2>5
<1>5. QED
  BY <1>1, <1>2, <1>3, <1>4, StoreSteps

\* A choice stays what it was: resets are never forgotten.
LEMMA ChoiceKept ==
  ASSUME resets \subseteq resets', NEW c, ChoiceOK(c)
  PROVE  ChoiceOK(c)'
<1>1. Consecutive(c.revision.previous, c.revision.latest, c.revision.live)'
  BY DEF ChoiceOK, Consecutive, Behind
<1>2. Matches(c)'
  BY DEF ChoiceOK, Matches
<1>3. QED
  BY <1>1, <1>2 DEF ChoiceOK

\* The refreshers and their batches.
LEMMA JobsRoll ==
  ASSUME RollingTypeOK, VintageChain, OrchestrationTypeOK, LiveIsNewest, JobsOK, BatchesOK, Rolling
  PROVE  JobsOK' /\ BatchesOK'
<1>1. jobs' = jobs /\ batches' = batches /\ resets \subseteq resets'
  BY ResetSteps DEF Rolling
<1>2. ASSUME NEW j \in JobType, JobOK(j)
      PROVE  JobOK(j)'
  <2>1. j.live \in InstantType
    BY DEF JobType
  <2>2. LiveRead(j.live) => LiveRead(j.live)'
    BY <2>1, LiveReadRolls
  <2>3. j.pc = "decide" /\ Len(j.vintages) >= 2 =>
          Consecutive(j.vintages[1], j.vintages[2], j.live)'
    BY <1>1, <1>2 DEF JobOK, Consecutive, Behind
  <2>4. \A c \in j.chosen : ChoiceOK(c)'
    BY <1>1, <1>2, ChoiceKept DEF JobOK
  <2>5. j.pc \in {"run", "inputs", "vintages", "decide"} => LiveRead(j.live)'
    BY <1>2, <2>2 DEF JobOK
  <2>6. QED
    BY <2>3, <2>4, <2>5 DEF JobOK
<1>3. JobsOK'
  <2>1. SUFFICES ASSUME NEW r \in Refreshers PROVE JobOK(jobs[r])'
    BY DEF JobsOK
  <2>2. PICK j \in JobType : j = jobs[r]
    BY DEF OrchestrationTypeOK
  <2>3. JobOK(j) /\ jobs'[r] = j
    BY <1>1, <2>2 DEF JobsOK
  <2>4. JobOK(j)'
    BY <1>2, <2>3
  <2>5. QED
    BY <2>3, <2>4
<1>4. BatchesOK'
  BY <1>1, ChoiceKept DEF BatchesOK
<1>5. QED
  BY <1>3, <1>4

\* What was reported as a duplicate stays one.
LEMMA DuplicatesRoll ==
  ASSUME RollingTypeOK, LiveIsNewest, DuplicateIsGenuine, Rolling
  PROVE  DuplicateIsGenuine'
<1>1. jobs' = jobs /\ Created' = Created /\ resets \subseteq resets'
  BY ResetSteps DEF Rolling, Created
<1>2. \A v, w : ResetBetween(v, w) => ResetBetween(v, w)'
  BY <1>1 DEF ResetBetween
<1>3. SUFFICES ASSUME NEW r \in Refreshers, NEW d \in jobs[r].duplicates
               PROVE  \E c \in Created : /\ KeyOf(c) = KeyOf(d)
                                         /\ c.latest = d.latest \/ ResetBetween(c.latest, d.latest)'
  BY <1>1 DEF DuplicateIsGenuine
<1>4. PICK c \in Created : /\ KeyOf(c) = KeyOf(d)
                           /\ c.latest = d.latest \/ ResetBetween(c.latest, d.latest)
  BY DEF DuplicateIsGenuine
<1>5. QED
  BY <1>2, <1>4

\* The types of the refreshers.
LEMMA TypesRoll ==
  ASSUME RollingTypeOK, LiveIsNewest, OrchestrationTypeOK, Rolling
  PROVE  OrchestrationTypeOK'
<1>1. jobs' = jobs /\ batches' = batches /\ resets' \subseteq resets \cup {env.live.publication}
  BY ResetSteps DEF Rolling
<1>2. env.live.publication \in Nat
  BY EnvTypes DEF Env, InstantType
<1>3. QED
  BY <1>1, <1>2 DEF OrchestrationTypeOK

\* A step of the service makes periods for a new publication, or hands on those there are; the
\* periods of a bootstrapped run belong to no publication.
LEMMA SnapshotSteps ==
  ASSUME RollingTypeOK, Rolling, NEW x \in Snapshots'
  PROVE  \/ x \in Snapshots
         \/ x.of = 0
         \/ /\ x = [of |-> env.live.publication + 1, periods |-> Horizon(AsOf)]
            /\ env'.live = Instant(AsOf, env.live.publication + 1)
<1> DEFINE Possible(y) ==
             \/ y \in Snapshots
             \/ y.of = 0
             \/ /\ y = [of |-> env.live.publication + 1, periods |-> Horizon(AsOf)]
                /\ env'.live = Instant(AsOf, env.live.publication + 1)
<1>1. /\ jobs' = jobs /\ RollingNext
      /\ calls \in [Workers -> Call] /\ env \in Env
  BY EnvTypes DEF Rolling
<1>2. /\ inputs \in Snapshots /\ RunInputs \in Snapshots
      /\ \A w \in Workers : calls[w].inputs \in Snapshots
      /\ \A r \in Refreshers : jobs[r].run \in Snapshots /\ jobs[r].inputs \in Snapshots
  BY DEF Snapshots
<1>3. SUFFICES /\ Possible(inputs') /\ Possible(RunInputs')
               /\ \A w \in Workers : Possible(calls'[w].inputs)
  BY <1>1, <1>2 DEF Snapshots
<1>4. CASE UNCHANGED <<inputs, run>> /\ \A w \in Workers : calls'[w].inputs = calls[w].inputs
  BY <1>2, <1>4 DEF RunInputs
<1>5. ASSUME NEW w \in Workers, NEW pc, Goto(w, pc)
      PROVE  \A u \in Workers : calls'[u].inputs = calls[u].inputs
  BY <1>1, <1>5 DEF Goto, Call
<1>6. CASE Tick \/ FeedRefresh
  BY <1>4, <1>6 DEF Tick, FeedRefresh
<1>7. ASSUME NEW w \in Workers, NEW op \in RollingOps, Enter(w, op)
      PROVE  /\ UNCHANGED <<inputs, run>>
             /\ \A u \in Workers : calls'[u].inputs = calls[u].inputs
  BY <1>1, <1>7 DEF Enter, Call
<1>8. ASSUME NEW w \in Workers, Restore(w)
      PROVE  /\ UNCHANGED <<inputs, run>>
             /\ \A u \in Workers : calls'[u].inputs \in {calls[u].inputs, inputs}
  BY <1>1, <1>8 DEF Restore, Call
<1>9. ASSUME NEW w \in Workers, Apply(w) \/ ResetFails(w) \/ PublishSnapshot(w) \/ Ensured(w)
      PROVE  /\ UNCHANGED <<inputs, run>>
             /\ \A u \in Workers : calls'[u].inputs = calls[u].inputs
  <2>1. UNCHANGED <<inputs, run>>
    BY <1>9 DEF Apply, ResetFails, PublishSnapshot, Ensured
  <2>2. \E pc : Goto(w, pc)
    BY <1>9 DEF Apply, ResetFails, PublishSnapshot, Ensured
  <2>3. QED
    BY <1>5, <2>1, <2>2
<1>10. ASSUME NEW w \in Workers, PublishInputs(w)
       PROVE  /\ UNCHANGED run /\ inputs' = calls[w].inputs
              /\ \A u \in Workers : calls'[u].inputs = calls[u].inputs
  BY <1>5, <1>10 DEF PublishInputs
<1>11. ASSUME NEW w \in Workers, Optimise(w)
       PROVE  /\ UNCHANGED inputs
              /\ UNCHANGED run \/ RunInputs' = [of |-> inputs.of, periods |-> inputs.periods]
              /\ \A u \in Workers : calls'[u].inputs = calls[u].inputs
  <2>1. \E pc : Goto(w, pc)
    BY <1>11 DEF Optimise
  <2>2. /\ UNCHANGED inputs
        /\ \/ UNCHANGED run
           \/ run' = [of |-> env.live.publication, inputs |-> inputs.of, periods |-> inputs.periods]
    BY <1>11 DEF Optimise
  <2>3. QED
    BY <1>5, <2>1, <2>2 DEF RunInputs
<1>12. ASSUME NEW w \in Workers, Renew(w)
       PROVE  /\ UNCHANGED inputs
              /\ UNCHANGED run \/ RunInputs'.of = 0
              /\ \A u \in Workers : Possible(calls'[u].inputs)
  <2> DEFINE new == [of |-> env.live.publication + 1, periods |-> Horizon(AsOf)]
  <2>1. UNCHANGED inputs /\ (UNCHANGED run \/ RunInputs'.of = 0)
    BY <1>12 DEF Renew, RunInputs, FeedSnapshot
  <2>2. \A u \in Workers : calls'[u].inputs = IF u = w THEN new ELSE calls[u].inputs
    BY <1>1, <1>12 DEF Renew, Instant, Call
  <2>3. env'.live = Instant(AsOf, env.live.publication + 1)
    BY <1>1, <1>12 DEF Renew, Env
  <2>4. QED
    BY <1>2, <2>1, <2>2, <2>3
<1>13. [of |-> inputs.of, periods |-> inputs.periods] = inputs
  BY DEF RollingTypeOK, InputsType
<1> HIDE DEF Possible
<1>14. \A y \in Snapshots : Possible(y)
  BY DEF Possible
<1>15. \A y : y.of = 0 => Possible(y)
  BY DEF Possible
<1>16. UNCHANGED run => RunInputs' = RunInputs
  BY DEF RunInputs
<1>17. QED
  BY <1>1, <1>2, <1>6, <1>7, <1>8, <1>9, <1>10, <1>11, <1>12, <1>13, <1>14, <1>15, <1>16
  DEF RollingNext, Work, Tick, FeedRefresh

\* Everything in use has its type.
LEMMA UseTypes ==
  ASSUME RollingTypeOK, OrchestrationTypeOK
  PROVE  /\ Snapshots \subseteq InputsType
         /\ Instants \subseteq InstantType
         /\ Seen \subseteq VintageType
<1>1. /\ env \in Env /\ calls \in [Workers -> Call]
      /\ inputs \in InputsType /\ RunInputs \in InputsType
      /\ \A r \in Refreshers : jobs[r] \in JobType
      /\ batches \in Seq(SUBSET ChoiceType)
  BY EnvTypes DEF RollingTypeOK, OrchestrationTypeOK, InputsType, RunInputs
<1>2. Snapshots \subseteq InputsType
  BY <1>1 DEF Snapshots, Call, JobType
<1>3. Instants \subseteq InstantType
  BY <1>1 DEF Instants, Env, JobType
<1>4. Stored \subseteq VintageType
  <2>1. env.vintages \in Seq(VintageType)
    BY <1>1 DEF Env
  <2>2. QED
    BY <2>1 DEF Stored
<1>5. ASSUME NEW j \in JobType PROVE HeldBy(j) \subseteq VintageType
  <2>1. j.vintages \in Seq(VintageType) /\ j.chosen \subseteq ChoiceType
    BY DEF JobType
  <2>2. \A k \in 1..Len(j.vintages) : j.vintages[k] \in VintageType
    BY <2>1
  <2>3. \A c \in j.chosen : c.revision.latest \in VintageType
    BY <2>1 DEF ChoiceType, RevisionType
  <2>4. QED
    BY <2>2, <2>3 DEF HeldBy
<1>6. \A d \in Created : d.latest \in VintageType
  <2>1. \A k \in DOMAIN batches : batches[k] \subseteq ChoiceType
    BY <1>1
  <2>2. QED
    BY <2>1 DEF Created, ChoiceType, RevisionType
<1>7. Seen \subseteq VintageType
  <2>1. UNION {HeldBy(jobs[r]) : r \in Refreshers} \subseteq VintageType
    BY <1>1, <1>5
  <2>2. {d.latest : d \in Created} \subseteq VintageType
    BY <1>6
  <2>3. QED
    BY <1>4, <2>1, <2>2 DEF Seen
<1>8. QED
  BY <1>2, <1>3, <1>7

\* Periods and live states stay matched by the number of their publication.
LEMMA PublishedRolls ==
  ASSUME RollingTypeOK, VintageChain, OrchestrationTypeOK, LiveIsNewest, PublishedOnce, Rolling
  PROVE  PublishedOnce'
<1> DEFINE k == env.live.publication
           now == Instant(AsOf, k + 1)
<1>1. /\ RollingNext /\ jobs' = jobs /\ k \in Nat /\ k >= 1
      /\ \A x \in Snapshots : x.of \in Nat /\ x.of <= k
      /\ \A y \in Instants : y.publication \in Nat /\ y.publication <= k
  BY EnvTypes, UseTypes
  DEF Rolling, Env, InputsType, InstantType, PublishedOnce, LiveIsNewest
<1>2. env'.live = env.live \/ env'.live = now
  BY <1>1, StoreSteps DEF StoreKept, StoreCleared, StoreRenewed
<1>3. now.publication = k + 1 /\ now.at = AsOf
  BY DEF Instant
<1>4. \A y \in Instants' : y \in Instants \/ (y = now /\ env'.live = now)
  BY <1>1, <1>2 DEF Instants
<1>5. \A x \in Snapshots' : \/ x \in Snapshots
                            \/ x.of = 0
                            \/ /\ x = [of |-> k + 1, periods |-> Horizon(AsOf)]
                               /\ env'.live = now
  BY SnapshotSteps
<1> HIDE DEF k, now
<1>6. env'.live.publication \in {k, k + 1} /\ (env'.live = now => env'.live.publication = k + 1)
  BY <1>2, <1>3 DEF k
<1>7. ASSUME NEW x \in Snapshots' PROVE x.of <= env'.live.publication
  BY <1>1, <1>5, <1>6
<1>8. ASSUME NEW y \in Instants' PROVE y.publication <= env'.live.publication
  BY <1>1, <1>3, <1>4, <1>6
<1>9. ASSUME NEW x \in Snapshots', NEW y \in Instants',
             y.publication >= 1, x.of = y.publication
      PROVE  x.periods = Horizon(y.at)
  <2>1. CASE x \in Snapshots /\ y \in Instants
    BY <1>9, <2>1 DEF PublishedOnce
  <2>2. CASE x \in Snapshots /\ y = now
    BY <1>1, <1>3, <1>9, <2>2
  <2>3. CASE x.of = 0
    BY <1>9, <2>3
  <2>4. CASE x = [of |-> k + 1, periods |-> Horizon(AsOf)] /\ y \in Instants
    BY <1>1, <1>9, <2>4
  <2>5. CASE x = [of |-> k + 1, periods |-> Horizon(AsOf)] /\ y = now
    BY <1>3, <2>5
  <2>6. QED
    BY <1>4, <1>5, <2>1, <2>2, <2>3, <2>4, <2>5
<1>10. QED
  BY <1>7, <1>8, <1>9 DEF PublishedOnce

\* The ids of all vintages that somebody may name stay apart.
LEMMA IdsRoll ==
  ASSUME RollingTypeOK, VintageChain, OrchestrationTypeOK, LiveIsNewest, IdsOK, Rolling
  PROVE  IdsOK'
<1>1. /\ RollingNext /\ jobs' = jobs /\ Created' = Created
      /\ resets \subseteq resets' /\ resets \subseteq Nat
      /\ env.base \in Nat /\ env.seq \in Nat /\ AsOf \in Nat
      /\ env.live.publication \in Nat
  BY EnvTypes, ResetSteps DEF Rolling, Created, OrchestrationTypeOK, Env, InstantType
<1>2. \A v \in Seen : /\ v.id.step \in Int /\ v.id.seq \in Nat
                      /\ v.published.publication \in Nat
  BY UseTypes DEF VintageType, InstantType
<1>3. ASSUME NEW v, NEW w, ResetBetween(v, w) PROVE ResetBetween(v, w)'
  BY <1>1, <1>3 DEF ResetBetween
<1>4. CASE StoreKept
  <2>1. Seen' = Seen /\ resets' = resets /\ env'.live = env.live /\ env'.base = env.base
    <3>1. Stored' = Stored
      BY <1>4 DEF StoreKept, Stored
    <3>2. QED
      BY <1>1, <1>4, <3>1, ResetSteps DEF StoreKept, Seen
  <2>2. ASSUME NEW v \in Seen PROVE Numbered(v)'
    <3>1. Numbered(v)
      BY DEF IdsOK
    <3>2. CASE Behind(v.published.publication)
      BY <2>1, <3>1, <3>2 DEF Numbered, Behind
    <3>3. CASE /\ v.id.step <= AsOf - env.base
               /\ v.id.step < AsOf - env.base \/ v.id.seq <= env.seq
      <4>1. AsOf' \in Nat /\ AsOf <= AsOf' /\ (env'.seq = env.seq \/ AsOf < AsOf')
        <5>1. RollingTypeOK'
          BY TypeStep, <1>1
        <5>2. env'.offset \in Nat /\ clock' \in Nat
          BY <5>1 DEF RollingTypeOK
        <5>3. QED
          BY <1>4, <5>2 DEF StoreKept, AsOf
      <4>2. /\ v.id.step <= AsOf' - env.base
            /\ v.id.step < AsOf' - env.base \/ v.id.seq <= env'.seq
        BY <1>1, <1>2, <3>3, <4>1
      <4>3. QED
        BY <2>1, <3>1, <4>2 DEF Numbered
    <3>4. QED
      BY <3>1, <3>2, <3>3 DEF Numbered
  <2>3. QED
    BY <1>3, <2>1, <2>2 DEF IdsOK
<1>5. CASE StoreCleared
  <2>1. Seen' \subseteq Seen /\ env'.live = env.live
    <3>1. Stored' = {}
      BY <1>5 DEF StoreCleared, Stored
    <3>2. QED
      BY <1>1, <1>5, <3>1 DEF StoreCleared, Seen
  <2>2. ASSUME NEW v \in Seen PROVE Numbered(v)'
    <3>1. v.published.publication <= env.live.publication /\ env.live.publication \in resets'
      BY <1>5, ResetSteps DEF IdsOK, Numbered
    <3>2. QED
      BY <2>1, <3>1 DEF Numbered, Behind
  <2>3. QED
    BY <1>3, <2>1, <2>2 DEF IdsOK
<1>6. ASSUME NEW new \in VintageType, StoreRenewed(new)
      PROVE  IdsOK'
  <2>1. /\ new.id.step = AsOf - env.base /\ new.id.seq = env.seq + 1
        /\ new.published.publication = env.live.publication + 1
        /\ resets' = resets /\ env'.live = new.published
        /\ env'.base = env.base /\ env'.seq = env.seq + 1 /\ AsOf' = AsOf
    BY <1>6, ResetSteps DEF StoreRenewed, Instant
  <2>2. Seen' \subseteq Seen \cup {new}
    <3>1. Stored' \subseteq Stored \cup {new}
      BY <1>6, RenewedStore
    <3>2. QED
      BY <1>1, <3>1 DEF Seen
  <2>3. ASSUME NEW v \in Seen PROVE Numbered(v)'
    BY <1>1, <1>2, <2>1 DEF IdsOK, Numbered, Behind
  <2>4. Numbered(new)'
    BY <1>1, <2>1 DEF Numbered
  <2>5. ASSUME NEW v \in Seen, v.id = new.id
        PROVE  \E p \in resets : v.published.publication <= p /\ p < new.published.publication
    <3>1. Numbered(v)
      BY DEF IdsOK
    <3>2. Behind(v.published.publication)
      BY <1>1, <1>2, <2>1, <2>5, <3>1 DEF Numbered
    <3>3. \A p \in resets : p \in Nat /\ p <= env.live.publication
      BY <1>1 DEF LiveIsNewest
    <3>4. PICK p \in resets : v.published.publication <= p
      BY <3>2 DEF Behind
    <3>5. p < new.published.publication
      BY <1>1, <2>1, <3>3
    <3>6. QED
      BY <3>4, <3>5
  <2>6. ASSUME NEW v \in Seen', NEW w \in Seen', v.id = w.id
        PROVE  v = w \/ ResetBetween(v, w)'
    <3>1. CASE v \in Seen /\ w \in Seen
      BY <1>3, <2>6, <3>1 DEF IdsOK
    <3>2. CASE v \in Seen /\ w = new
      BY <2>1, <2>5, <2>6, <3>2 DEF ResetBetween
    <3>3. CASE v = new /\ w \in Seen
      BY <2>1, <2>5, <2>6, <3>3 DEF ResetBetween
    <3>4. QED
      BY <2>2, <3>1, <3>2, <3>3
  <2>7. QED
    BY <2>2, <2>3, <2>4, <2>6 DEF IdsOK
<1>7. QED
  BY <1>1, <1>4, <1>5, <1>6, StoreSteps

----------------------------------------------------------------------------
(***************************************************************************)
(* The steps of a refresh keep the invariant                               *)
(***************************************************************************)
Genuine(d) ==
  \E c \in Created : /\ KeyOf(c) = KeyOf(d)
                     /\ c.latest = d.latest \/ ResetBetween(c.latest, d.latest)

\* A refresher that holds nothing but what was in use or seen, and knows what a refresher may
\* know, keeps the invariant.
LEMMA RefreshKeeps ==
  ASSUME OrchestrationInv, UNCHANGED <<rollingVars, resets>>,
         NEW r \in Refreshers, NEW j \in JobType, jobs' = [jobs EXCEPT ![r] = j], JobOK(j),
         j.live \in Instants \cup {Idle.live},
         j.run \in Snapshots \cup {NoInputs}, j.inputs \in Snapshots \cup {NoInputs},
         HeldBy(j) \subseteq Seen,
         \A d \in j.duplicates : Genuine(d),
         batches' \in Seq(SUBSET ChoiceType), BatchesOK',
         Created \subseteq Created', \A d \in Created' : d.latest \in Seen
  PROVE  OrchestrationInv'
<1>1. /\ env' = env /\ clock' = clock /\ inputs' = inputs /\ run' = run /\ calls' = calls
      /\ shown' = shown /\ lock' = lock /\ intact' = intact /\ resets' = resets
      /\ AsOf' = AsOf /\ Stored' = Stored /\ RunInputs' = RunInputs
  BY DEF rollingVars, AsOf, Stored, RunInputs
<1>2. /\ RollingInv /\ OrchestrationTypeOK /\ LiveIsNewest /\ JobsOK /\ PublishedOnce /\ IdsOK
      /\ DuplicateIsGenuine /\ RollingTypeOK
  BY DEF OrchestrationInv, RollingInv
<1>3. /\ jobs' \in [Refreshers -> JobType] /\ jobs'[r] = j
      /\ \A q \in Refreshers : q # r => jobs'[q] = jobs[q]
  BY <1>2 DEF OrchestrationTypeOK
<1>4. RollingInv'
  BY <1>1, <1>2
  DEF RollingInv, RollingTypeOK, BookedIsApplied, VintageChain, AsOf
<1>5. OrchestrationTypeOK' /\ LiveIsNewest'
  BY <1>1, <1>2, <1>3 DEF OrchestrationTypeOK, LiveIsNewest
<1>6. ASSUME NEW l \in JobType, JobOK(l)
      PROVE  JobOK(l)'
  <2>1. ASSUME NEW live, LiveRead(live) PROVE LiveRead(live)'
    BY <1>1, <2>1 DEF LiveRead, Behind
  <2>2. ASSUME NEW p, NEW n, NEW live, Consecutive(p, n, live) PROVE Consecutive(p, n, live)'
    BY <1>1, <2>2 DEF Consecutive, Behind
  <2>3. \A c \in l.chosen : ChoiceOK(c)'
    BY <1>1, <1>6, ChoiceKept DEF JobOK
  <2>4. QED
    BY <1>6, <2>1, <2>2, <2>3 DEF JobOK
<1>7. JobsOK'
  <2>1. SUFFICES ASSUME NEW q \in Refreshers PROVE JobOK(jobs[q])'
    BY DEF JobsOK
  <2>2. PICK l \in JobType : l = jobs'[q]
    BY <1>3
  <2>3. JobOK(l)
    BY <1>2, <1>3, <2>2 DEF JobsOK
  <2>4. JobOK(l)'
    BY <1>6, <2>3
  <2>5. QED
    BY <2>2, <2>4
<1>8. PublishedOnce'
  <2>1. Instants' \subseteq Instants \cup {Idle.live}
    BY <1>1, <1>3 DEF Instants
  <2>2. Snapshots' \subseteq Snapshots \cup {NoInputs}
    BY <1>1, <1>3 DEF Snapshots
  <2>3. Idle.live.publication = 0 /\ NoInputs.of = 0
    BY DEF Idle, Instant, NoInputs, FeedSnapshot
  <2>4. env.live.publication >= 0
    BY <1>2, EnvTypes DEF Env, InstantType
  <2>5. /\ \A x \in Snapshots' : x.of <= env.live.publication
        /\ \A y \in Instants' : y.publication <= env.live.publication
    BY <1>2, <2>1, <2>2, <2>3, <2>4 DEF PublishedOnce
  <2>6. \A x \in Snapshots', y \in Instants' :
          y.publication >= 1 /\ x.of = y.publication => x.periods = Horizon(y.at)
    BY <1>2, <2>1, <2>2, <2>3 DEF PublishedOnce
  <2>7. QED
    BY <1>1, <2>5, <2>6 DEF PublishedOnce
<1>9. IdsOK'
  <2>1. Seen' \subseteq Seen
    <3>1. \A q \in Refreshers : HeldBy(jobs'[q]) \subseteq Seen
      <4>1. \A q \in Refreshers : HeldBy(jobs[q]) \subseteq Seen
        BY DEF Seen
      <4>2. QED
        BY <1>3, <4>1
    <3>2. (UNION {HeldBy(jobs[q]) : q \in Refreshers})' \subseteq Seen
      BY <3>1
    <3>3. Stored \subseteq Seen
      BY DEF Seen
    <3>4. QED
      BY <1>1, <3>2, <3>3 DEF Seen
  <2>2. ASSUME NEW v, Numbered(v) PROVE Numbered(v)'
    BY <1>1, <2>2 DEF Numbered, Behind
  <2>3. ASSUME NEW v, NEW w, ResetBetween(v, w) PROVE ResetBetween(v, w)'
    BY <1>1, <2>3 DEF ResetBetween
  <2>4. QED
    BY <1>2, <2>1, <2>2, <2>3 DEF IdsOK
<1>10. DuplicateIsGenuine'
  <2>1. SUFFICES ASSUME NEW q \in Refreshers, NEW d \in jobs'[q].duplicates
                 PROVE  \E c \in Created' :
                          /\ KeyOf(c) = KeyOf(d)
                          /\ c.latest = d.latest \/ ResetBetween(c.latest, d.latest)'
    BY DEF DuplicateIsGenuine
  <2>2. Genuine(d)
    BY <1>2, <1>3 DEF DuplicateIsGenuine, Genuine
  <2>3. ASSUME NEW v, NEW w, ResetBetween(v, w) PROVE ResetBetween(v, w)'
    BY <1>1, <2>3 DEF ResetBetween
  <2>4. QED
    BY <2>2, <2>3 DEF Genuine
<1>11. BatchesOK'
  OBVIOUS
<1>12. QED
  BY <1>4, <1>5, <1>7, <1>8, <1>9, <1>10, <1>11 DEF OrchestrationInv

\* A refresher that has read nothing knows nothing.
LEMMA IdleKnowsNothing ==
  /\ Idle \in JobType
  /\ NoInputs \in InputsType
  /\ JobOK(Idle)
  /\ HeldBy(Idle) = {}
<1>1. NoInputs \in InputsType /\ Instant(0, 0) \in InstantType
  BY DEF NoInputs, FeedSnapshot, InputsType, Instant, InstantType
<1>2. <<>> \in Seq(VintageType) /\ Len(<<>>) = 0
  OBVIOUS
<1>3. Idle \in JobType
  BY <1>1, <1>2 DEF Idle, JobType
<1>4. Idle.chosen = {} /\ Idle.vintages = <<>> /\ Idle.pc = "idle"
  BY DEF Idle
<1>5. QED
  BY <1>1, <1>2, <1>3, <1>4 DEF JobOK, HeldBy

\* A live state that has just been read is that of the newest vintage.
LEMMA LiveJustRead ==
  ASSUME RollingInv, OrchestrationTypeOK, LiveIsNewest
  PROVE  LiveRead(env.live)
<1> DEFINE n == Len(env.vintages)
           k == env.live.publication
<1>1. /\ env.vintages \in Seq(VintageType) /\ k \in Nat /\ env.live.at \in Nat
      /\ Chain(env.vintages, k, AsOf)
  BY EnvTypes DEF RollingInv, VintageChain, Env, InstantType
<1>2. CASE env.vintages = <<>>
  BY <1>1, <1>2 DEF LiveIsNewest, LiveRead, Behind
<1>3. CASE env.vintages # <<>>
  <2>1. ASSUME NEW v \in Stored
        PROVE  v.published.publication <= k /\ (v.published.publication = k => v.published = env.live)
    <3>1. PICK i \in 1..n : v = env.vintages[i]
      BY DEF Stored
    <3>2. v.published.publication = k - (n - i) /\ n \in Nat
      BY <1>1, <3>1 DEF Chain
    <3>3. k - (n - i) = k => i = n
      BY <1>1, <3>2
    <3>4. k - (n - i) <= k
      BY <1>1, <3>2
    <3>5. QED
      BY <1>3, <3>1, <3>2, <3>3, <3>4 DEF LiveIsNewest
  <2>2. ASSUME NEW v \in Stored, v.published.publication > k
        PROVE  FALSE
    <3>1. v.published.publication \in Nat
      <4>1. v \in VintageType
        BY <1>1 DEF Stored
      <4>2. QED
        BY <4>1 DEF VintageType, InstantType
    <3>2. QED
      BY <1>1, <2>1, <2>2, <3>1
  <2>3. QED
    BY <1>1, <2>1, <2>2 DEF LiveRead, LiveIsNewest
<1>4. QED
  BY <1>2, <1>3

\* Of the vintages that are selected the later one is that of the live state, and the other one is
\* its predecessor, unless the live state is from before a reset.
LEMMA SelectedConsecutive ==
  ASSUME RollingInv, OrchestrationTypeOK, LiveIsNewest, NEW live \in InstantType, LiveRead(live),
         NEW pair, pair = Selected(env.vintages, live)
  PROVE  /\ pair \in Seq(VintageType)
         /\ {pair[i] : i \in 1..Len(pair)} \subseteq Stored
         /\ Len(pair) >= 2 => Consecutive(pair[1], pair[2], live)
<1> DEFINE s == env.vintages
           n == Len(env.vintages)
           k == env.live.publication
<1>1. /\ s \in Seq(VintageType) /\ n \in Nat /\ k \in Nat /\ AsOf \in Nat
      /\ Chain(s, k, AsOf)
      /\ live.at \in Nat /\ live.publication \in Nat
  BY EnvTypes DEF RollingInv, VintageChain, Env, InstantType
<1>2. CASE pair = <<>>
  <2>1. Len(pair) = 0 /\ pair \in Seq(VintageType)
    BY <1>2
  <2>2. QED
    BY <2>1
<1>3. CASE pair # <<>>
  <2>1. PICK i \in 1..(n - 1) :
          /\ pair = <<s[i], s[i + 1]>>
          /\ NotAfter(s[i + 1].published, live)
          /\ i + 2 \in 1..n => ~NotAfter(s[i + 2].published, live)
    BY <1>1, <1>3, SelectedPair
  <2>2. i \in 1..n /\ i + 1 \in 1..n
    BY <1>1
  <2>3. s[i] \in VintageType /\ s[i + 1] \in VintageType
    BY <1>1, <2>2
  <2>4. Len(pair) = 2 /\ pair[1] = s[i] /\ pair[2] = s[i + 1] /\ pair \in Seq(VintageType)
    BY <2>1, <2>3
  <2>5. {pair[m] : m \in 1..Len(pair)} \subseteq Stored
    <3>1. \A m \in 1..2 : pair[m] \in {s[i], s[i + 1]}
      BY <2>4
    <3>2. s[i] \in Stored /\ s[i + 1] \in Stored
      BY <2>2 DEF Stored
    <3>3. QED
      BY <2>4, <3>1, <3>2
  <2>6. /\ s[i].published.publication = k - (n - i)
        /\ s[i + 1].published.publication = k - (n - (i + 1))
        /\ s[i].published.at <= s[i + 1].published.at
        /\ s[i].published.at \in Nat /\ s[i + 1].published.at \in Nat
    <3>1. /\ s[i].published.publication = k - (n - i)
          /\ s[i + 1].published.publication = k - (n - (i + 1))
      BY <1>1, <2>2 DEF Chain
    <3>2. i <= i + 1
      BY <2>2
    <3>3. s[i].published.at <= s[i + 1].published.at
      BY <1>1, <2>2, <3>2 DEF Chain
    <3>4. QED
      BY <2>3, <3>1, <3>3 DEF VintageType, InstantType
  <2>7. s[i].published.publication = s[i + 1].published.publication - 1
    BY <1>1, <2>2, <2>6
  <2>8. s[i + 1].published.at <= live.at
    BY <1>1, <2>1, <2>6 DEF NotAfter
  <2>9. s[i + 1].published = live \/ Behind(live.publication)
    <3>1. SUFFICES ASSUME ~Behind(live.publication) PROVE s[i + 1].published = live
      OBVIOUS
    <3>2. /\ live.publication >= 1 /\ live.publication <= k
          /\ \A v \in Stored :
               /\ v.published.publication = live.publication => v.published = live
               /\ v.published.publication > live.publication => live.at <= v.published.at
      BY <3>1 DEF LiveRead
    <3>3. s[i + 1] \in Stored
      BY <2>2 DEF Stored
    <3>4. s[i + 1].published.publication \in Int
      BY <1>1, <2>2, <2>6
    <3>5. s[i + 1].published.publication <= live.publication
      <4>1. CASE s[i + 1].published.publication > live.publication
        <5>1. live.at <= s[i + 1].published.at
          BY <3>2, <3>3, <4>1
        <5>2. s[i + 1].published.at < live.at \/ s[i + 1].published.publication <= live.publication
          BY <2>1 DEF NotAfter
        <5>3. QED
          BY <1>1, <2>6, <3>4, <5>1, <5>2
      <4>2. QED
        BY <1>1, <3>4, <4>1
    <3>6. CASE s[i + 1].published.publication = live.publication
      BY <3>2, <3>3, <3>6
    <3>7. CASE s[i + 1].published.publication < live.publication
      <4>1. i + 2 \in 1..n
        BY <1>1, <2>2, <2>6, <3>2, <3>7
      <4>2. s[i + 2].published.publication = s[i + 1].published.publication + 1
        <5>1. s[i + 2].published.publication = k - (n - (i + 2))
          BY <1>1, <4>1 DEF Chain
        <5>2. QED
          BY <1>1, <2>2, <2>6, <5>1
      <4>3. s[i + 2].published.publication <= live.publication
        BY <1>1, <3>4, <3>7, <4>2
      <4>4. s[i + 2] \in Stored /\ s[i + 2].published.at \in Nat
        BY <1>1, <4>1, InstantsOfStore DEF Stored
      <4>5. \E m \in 1..n : m >= i + 2 /\ s[m].published = live
        <5> DEFINE m == n - (k - live.publication)
        <5>1. m \in 1..n /\ m >= i + 2
          <6>1. /\ k - (n - (i + 1)) < live.publication /\ live.publication <= k
                /\ i \in Nat /\ i + 1 <= n
            BY <2>2, <2>6, <3>2, <3>7
          <6> HIDE DEF n, k
          <6>2. QED
            BY <1>1, <6>1
        <5>2. s[m].published.publication = live.publication
          <6>1. s[m].published.publication = k - (n - m)
            BY <1>1, <5>1 DEF Chain
          <6>2. QED
            BY <1>1, <6>1
        <5>3. s[m] \in Stored
          BY <5>1 DEF Stored
        <5>4. QED
          BY <3>2, <5>1, <5>2, <5>3
      <4>6. PICK m \in 1..n : m >= i + 2 /\ s[m].published = live
        BY <4>5
      <4>7. NotAfter(s[i + 2].published, s[m].published)
        BY <1>1, <4>1, <4>6, StoreOrder
      <4>8. QED
        BY <2>1, <4>1, <4>6, <4>7
    <3>8. QED
      BY <1>1, <3>4, <3>5, <3>6, <3>7
  <2>10. Consecutive(pair[1], pair[2], live)
    BY <2>4, <2>6, <2>7, <2>8, <2>9 DEF Consecutive
  <2>11. QED
    BY <2>4, <2>5, <2>10
<1>4. QED
  BY <1>2, <1>3

\* The revisions of a refresh compare the two vintages it holds.
LEMMA RevisionOf ==
  ASSUME NEW j \in JobType, NEW d \in Revisions(j)
  PROVE  /\ d \in RevisionType
         /\ 1 \in 1..Len(j.vintages) /\ 2 \in 1..Len(j.vintages)
         /\ d.previous = j.vintages[1] /\ d.latest = j.vintages[2]
         /\ d.live = j.live /\ d.inputs = j.inputs.of
         /\ d.period \in Covered(d.latest) /\ d.compared \in Covered(d.previous)
         /\ Number(d.compared) = Number(d.period)
         /\ d.compared \in j.inputs.periods
<1>1. ~(Len(j.vintages) < 2)
  BY DEF Revisions
<1>2. /\ d \in [latest : {j.vintages[2]}, previous : {j.vintages[1]},
                period : Covered(j.vintages[2]), compared : Covered(j.vintages[1]),
                live : {j.live}, inputs : {j.inputs.of}]
      /\ Number(d.compared) = Number(d.period)
      /\ d.compared \in j.inputs.periods
  BY <1>1 DEF Revisions, PositionKnown
<1>3. /\ j.vintages \in Seq(VintageType) /\ j.live \in InstantType /\ j.inputs \in InputsType
      /\ Len(j.vintages) \in Nat
  BY DEF JobType
<1>4. 1 \in 1..Len(j.vintages) /\ 2 \in 1..Len(j.vintages)
  BY <1>1, <1>3
<1>5. j.vintages[1] \in VintageType /\ j.vintages[2] \in VintageType /\ j.inputs.of \in Nat
  BY <1>3, <1>4 DEF InputsType
<1>6. Covered(j.vintages[1]) \subseteq Periods /\ Covered(j.vintages[2]) \subseteq Periods
  BY HorizonType DEF Covered
<1>7. d \in RevisionType
  BY <1>2, <1>3, <1>5, <1>6 DEF RevisionType
<1>8. QED
  BY <1>2, <1>4, <1>7

\* What a refresh decides about them is right.
LEMMA DecisionOf ==
  ASSUME OrchestrationTypeOK, RollingInv, LiveIsNewest, JobsOK, PublishedOnce,
         NEW r \in Refreshers, jobs[r].pc = "decide",
         NEW S \in SUBSET Revisions(jobs[r]), NEW c \in Decisions(jobs[r], S)
  PROVE  c \in ChoiceType /\ ChoiceOK(c) /\ c.revision.latest \in HeldBy(jobs[r])
<1> DEFINE j == jobs[r]
           d == c.revision
<1>1. j \in JobType /\ JobOK(j) /\ j.pc = "decide"
  BY DEF OrchestrationTypeOK, JobsOK
<1>2. /\ d \in S /\ c.advised \in j.run.periods /\ c.run = j.run.of
      /\ c \in [revision : S, advised : j.run.periods, run : {j.run.of}]
      /\ Number(c.advised) = Number(d.period)
  BY DEF Decisions
<1>3. /\ d \in RevisionType /\ 1 \in 1..Len(j.vintages) /\ 2 \in 1..Len(j.vintages)
      /\ d.previous = j.vintages[1] /\ d.latest = j.vintages[2]
      /\ d.live = j.live /\ d.inputs = j.inputs.of
      /\ d.period \in Covered(d.latest) /\ d.compared \in Covered(d.previous)
      /\ Number(d.compared) = Number(d.period)
      /\ d.compared \in j.inputs.periods
  <2>1. d \in Revisions(j)
    BY <1>2
  <2> HIDE DEF j, d
  <2>2. QED
    BY <1>1, <2>1, RevisionOf
<1>4. /\ j.run \in InputsType /\ j.inputs \in InputsType
      /\ j.run \in Snapshots /\ j.inputs \in Snapshots /\ j.live \in Instants
  BY <1>1 DEF JobType, Snapshots, Instants
<1> HIDE DEF j, d
<1>5. c \in ChoiceType
  <2>1. \A e \in S : e \in RevisionType
    BY <1>1, RevisionOf DEF j
  <2>2. QED
    BY <1>2, <1>4, <2>1 DEF ChoiceType, InputsType
<1>6. LiveRead(j.live) /\ Consecutive(d.previous, d.latest, d.live)
  <2>1. Len(j.vintages) >= 2
    BY <1>1, <1>3 DEF JobType
  <2>2. QED
    BY <1>1, <1>3, <2>1 DEF JobOK
<1>7. /\ d.previous.published.at \in Nat /\ d.latest.published.at \in Nat /\ d.live.at \in Nat
      /\ d.previous.published.at <= d.latest.published.at
      /\ d.latest.published.at <= d.live.at
      /\ d.live.publication >= 1
  BY <1>3, <1>6
  DEF RevisionType, VintageType, InstantType, Consecutive, LiveRead
<1>8. ASSUME d.inputs = d.live.publication PROVE d.compared = d.period
  <2>1. j.inputs.periods = Horizon(d.live.at)
    BY <1>3, <1>4, <1>7, <1>8 DEF PublishedOnce
  <2>2. d.compared \in Horizon(d.previous.published.at) /\ d.compared \in Horizon(d.live.at)
    BY <1>3, <2>1 DEF Covered
  <2>3. d.compared \in Horizon(d.latest.published.at)
    BY <1>7, <2>2, HorizonBetween
  <2>4. d.period \in Horizon(d.latest.published.at)
    BY <1>3 DEF Covered
  <2>5. QED
    BY <1>3, <1>7, <2>3, <2>4, HorizonNumbers
<1>9. ASSUME c.run = d.live.publication, d.latest.published = d.live
      PROVE  c.advised = d.period
  <2>1. j.run.periods = Horizon(d.live.at)
    BY <1>2, <1>3, <1>4, <1>7, <1>9 DEF PublishedOnce
  <2>2. c.advised \in Horizon(d.live.at)
    BY <1>2, <2>1
  <2>3. d.period \in Horizon(d.live.at)
    BY <1>3, <1>9 DEF Covered
  <2>4. QED
    BY <1>2, <1>7, <2>2, <2>3, HorizonNumbers
<1>10. Matches(c)
  BY <1>8, <1>9 DEF Matches, d
<1>11. d.latest \in HeldBy(j)
  BY <1>3 DEF HeldBy
<1>12. QED
  BY <1>5, <1>6, <1>10, <1>11 DEF ChoiceOK, d, j

\* A revision that is known is about a publication that was decided on.
LEMMA KnownIsGenuine ==
  ASSUME OrchestrationTypeOK, RollingTypeOK, IdsOK, NEW r \in Refreshers,
         NEW d \in Revisions(jobs[r]), Known(d)
  PROVE  Genuine(d)
<1>1. jobs[r] \in JobType
  BY DEF OrchestrationTypeOK
<1>2. d.latest = jobs[r].vintages[2] /\ 2 \in 1..Len(jobs[r].vintages)
  BY <1>1, RevisionOf
<1>3. d.latest \in Seen
  <2>1. d.latest \in HeldBy(jobs[r])
    BY <1>2 DEF HeldBy
  <2>2. QED
    BY <2>1 DEF Seen
<1>4. PICK c \in Created : KeyOf(c) = KeyOf(d)
  BY DEF Known
<1>5. c.latest.id = d.latest.id
  BY <1>4 DEF KeyOf
<1>6. c.latest \in Seen
  BY DEF Seen
<1>7. c.latest = d.latest \/ ResetBetween(c.latest, d.latest)
  BY <1>3, <1>5, <1>6 DEF IdsOK
<1>8. QED
  BY <1>4, <1>7 DEF Genuine

\* Each step of a refresh keeps the invariant.
LEMMA RefreshStep ==
  ASSUME OrchestrationInv, NEW r \in Refreshers, Refresh(r)
  PROVE  OrchestrationInv'
<1>1. /\ RollingInv /\ OrchestrationTypeOK /\ LiveIsNewest /\ JobsOK /\ BatchesOK
      /\ PublishedOnce /\ IdsOK /\ DuplicateIsGenuine /\ RollingTypeOK
  BY DEF OrchestrationInv, RollingInv
<1>2. /\ jobs[r] \in JobType /\ JobOK(jobs[r])
      /\ jobs[r].live \in Instants /\ jobs[r].run \in Snapshots /\ jobs[r].inputs \in Snapshots
      /\ HeldBy(jobs[r]) \subseteq Seen
      /\ \A d \in jobs[r].duplicates : Genuine(d)
  <2>1. HeldBy(jobs[r]) \subseteq Seen
    BY DEF Seen
  <2>2. QED
    BY <1>1, <2>1
    DEF OrchestrationTypeOK, JobsOK, Instants, Snapshots, DuplicateIsGenuine, Genuine
<1>3. /\ env.live \in Instants /\ inputs \in Snapshots /\ RunInputs \in Snapshots
      /\ env.live \in InstantType /\ inputs \in InputsType /\ RunInputs \in InputsType
  BY <1>1, EnvTypes
  DEF Instants, Snapshots, RunInputs, Env, RollingTypeOK, InputsType
<1>4. ASSUME NEW j \in JobType, Read(r, j), JobOK(j),
             j.live \in Instants \cup {Idle.live},
             j.run \in Snapshots \cup {NoInputs}, j.inputs \in Snapshots \cup {NoInputs},
             HeldBy(j) \subseteq Seen,
             \A d \in j.duplicates : Genuine(d)
      PROVE  OrchestrationInv'
  <2>1. /\ UNCHANGED <<rollingVars, resets>> /\ batches' = batches
        /\ jobs' = [jobs EXCEPT ![r] = j]
    BY <1>4 DEF Read
  <2>2. /\ batches' \in Seq(SUBSET ChoiceType) /\ Created' = Created
        /\ \A d \in Created : d.latest \in Seen
    BY <1>1, <2>1 DEF OrchestrationTypeOK, Created, Seen
  <2>3. BatchesOK'
    BY <1>1, <2>1, ChoiceKept DEF BatchesOK
  <2>4. QED
    BY <1>4, <2>1, <2>2, <2>3, RefreshKeeps
<1>5. CASE Begin(r)
  <2> DEFINE j == [Idle EXCEPT !.pc = "live"]
  <2>1. j \in JobType /\ JobOK(j) /\ HeldBy(j) = {}
    <3>1. Idle \in JobType /\ Idle.chosen = {} /\ Idle.vintages = <<>>
      BY IdleKnowsNothing DEF Idle
    <3>2. j \in JobType /\ j.pc = "live" /\ j.chosen = {} /\ j.vintages = <<>>
      BY <3>1 DEF JobType
    <3> HIDE DEF j
    <3>3. JobOK(j) /\ HeldBy(j) = {}
      BY <3>2 DEF JobOK, HeldBy
    <3>4. QED
      BY <3>2, <3>3
  <2>2. /\ j.live = Idle.live /\ j.run = NoInputs /\ j.inputs = NoInputs /\ j.duplicates = {}
        /\ Read(r, j)
    BY <1>5 DEF Idle, Begin
  <2> HIDE DEF j
  <2>3. QED
    BY <1>4, <2>1, <2>2
<1>6. CASE ReadLive(r)
  <2> DEFINE j == [jobs[r] EXCEPT !.pc = "run", !.live = env.live]
  <2>1. /\ j \in JobType /\ Read(r, j)
        /\ j.pc = "run" /\ j.live = env.live /\ j.run = jobs[r].run /\ j.inputs = jobs[r].inputs
        /\ j.chosen = jobs[r].chosen /\ j.vintages = jobs[r].vintages
        /\ j.duplicates = jobs[r].duplicates
    BY <1>2, <1>3, <1>6 DEF ReadLive, JobType
  <2> HIDE DEF j
  <2>2. JobOK(j) /\ HeldBy(j) = HeldBy(jobs[r])
    BY <1>1, <1>2, <2>1, LiveJustRead DEF JobOK, HeldBy
  <2>3. QED
    BY <1>2, <1>3, <1>4, <2>1, <2>2
<1>7. CASE ReadRun(r)
  <2> DEFINE j == [jobs[r] EXCEPT !.pc = "inputs", !.run = RunInputs]
  <2>1. /\ j \in JobType /\ Read(r, j) /\ jobs[r].pc = "run"
        /\ j.pc = "inputs" /\ j.live = jobs[r].live /\ j.run = RunInputs
        /\ j.inputs = jobs[r].inputs
        /\ j.chosen = jobs[r].chosen /\ j.vintages = jobs[r].vintages
        /\ j.duplicates = jobs[r].duplicates
    BY <1>2, <1>3, <1>7 DEF ReadRun, Reading, RunInputs, JobType
  <2> HIDE DEF j
  <2>2. JobOK(j) /\ HeldBy(j) = HeldBy(jobs[r])
    BY <1>2, <2>1 DEF JobOK, HeldBy
  <2>3. QED
    BY <1>2, <1>3, <1>4, <2>1, <2>2
<1>8. CASE ReadInputs(r)
  <2> DEFINE j == [jobs[r] EXCEPT !.pc = "vintages", !.inputs = inputs]
  <2>1. /\ j \in JobType /\ Read(r, j) /\ jobs[r].pc = "inputs"
        /\ j.pc = "vintages" /\ j.live = jobs[r].live /\ j.run = jobs[r].run /\ j.inputs = inputs
        /\ j.chosen = jobs[r].chosen /\ j.vintages = jobs[r].vintages
        /\ j.duplicates = jobs[r].duplicates
    BY <1>2, <1>3, <1>8 DEF ReadInputs, Reading, JobType
  <2> HIDE DEF j
  <2>2. JobOK(j) /\ HeldBy(j) = HeldBy(jobs[r])
    BY <1>2, <2>1 DEF JobOK, HeldBy
  <2>3. QED
    BY <1>2, <1>3, <1>4, <2>1, <2>2
<1>9. CASE ReadVintages(r)
  <2> DEFINE pair == Selected(env.vintages, jobs[r].live)
             j == [jobs[r] EXCEPT !.pc = "decide", !.vintages = pair]
  <2>1. jobs[r].pc = "vintages" /\ jobs[r].live \in InstantType /\ LiveRead(jobs[r].live)
    BY <1>2, <1>9 DEF ReadVintages, Reading, JobType, JobOK
  <2>2. /\ pair \in Seq(VintageType)
        /\ {pair[i] : i \in 1..Len(pair)} \subseteq Stored
        /\ Len(pair) >= 2 => Consecutive(pair[1], pair[2], jobs[r].live)
    BY <1>1, <2>1, SelectedConsecutive
  <2>3. Read(r, j)
    BY <1>9 DEF ReadVintages
  <2> HIDE DEF pair
  <2>4. /\ j \in JobType
        /\ j.pc = "decide" /\ j.live = jobs[r].live /\ j.run = jobs[r].run
        /\ j.inputs = jobs[r].inputs
        /\ j.chosen = jobs[r].chosen /\ j.vintages = pair
        /\ j.duplicates = jobs[r].duplicates
    BY <1>2, <2>2 DEF JobType
  <2> HIDE DEF j
  <2>5. JobOK(j)
    BY <1>2, <2>1, <2>2, <2>4 DEF JobOK
  <2>6. HeldBy(j) \subseteq Seen
    <3>1. Stored \subseteq Seen
      BY DEF Seen
    <3>2. HeldBy(j) \subseteq Stored \cup HeldBy(jobs[r])
      BY <2>2, <2>4 DEF HeldBy
    <3>3. QED
      BY <1>2, <3>1, <3>2
  <2>7. QED
    BY <1>2, <1>4, <2>3, <2>4, <2>5, <2>6
<1>10. CASE Decide(r)
  <2>1. PICK material \in SUBSET Revisions(jobs[r]) :
          Read(r, [Idle EXCEPT !.pc = "create",
                     !.duplicates = {d \in material : Known(d)},
                     !.chosen = Decisions(jobs[r], material \ {d \in material : Known(d)})])
    BY <1>10 DEF Decide
  <2> DEFINE known == {d \in material : Known(d)}
             rest == material \ known
             chosen == Decisions(jobs[r], rest)
             j == [Idle EXCEPT !.pc = "create", !.duplicates = known, !.chosen = chosen]
  <2>2. Read(r, j)
    BY <2>1
  <2>3. jobs[r].pc = "decide" /\ rest \in SUBSET Revisions(jobs[r])
    BY <1>10 DEF Decide, Reading
  <2>4. known \subseteq RevisionType /\ \A d \in known : Genuine(d)
    BY <1>1, <1>2, RevisionOf, KnownIsGenuine
  <2> HIDE DEF rest, known
  <2>5. \A c \in chosen : c \in ChoiceType /\ ChoiceOK(c) /\ c.revision.latest \in HeldBy(jobs[r])
    BY <1>1, <2>3, DecisionOf
  <2> HIDE DEF chosen
  <2>6. /\ j \in JobType
        /\ j.pc = "create" /\ j.live = Idle.live /\ j.run = NoInputs /\ j.inputs = NoInputs
        /\ j.duplicates = known /\ j.chosen = chosen /\ j.vintages = <<>>
    <3>1. chosen \subseteq ChoiceType
      BY <2>5
    <3>2. QED
      BY <2>4, <3>1, IdleKnowsNothing DEF JobType, Idle
  <2> HIDE DEF j
  <2>7. JobOK(j)
    BY <2>5, <2>6 DEF JobOK
  <2>8. HeldBy(j) \subseteq Seen
    <3>1. HeldBy(j) = {c.revision.latest : c \in chosen}
      BY <2>6 DEF HeldBy
    <3>2. QED
      BY <1>2, <2>5, <3>1
  <2>9. QED
    BY <1>4, <2>2, <2>4, <2>6, <2>7, <2>8
<1>11. CASE CreateBatch(r)
  <2> DEFINE chosen == jobs[r].chosen
  <2>1. /\ UNCHANGED <<rollingVars, resets>> /\ jobs' = [jobs EXCEPT ![r] = Idle]
        /\ batches' = IF chosen = {} THEN batches ELSE Append(batches, chosen)
    BY <1>11 DEF CreateBatch
  <2>2. chosen \subseteq ChoiceType /\ \A c \in chosen : ChoiceOK(c) /\ c.revision.latest \in Seen
    <3>1. \A c \in chosen : c.revision.latest \in HeldBy(jobs[r])
      BY DEF HeldBy
    <3>2. QED
      BY <1>2, <3>1 DEF JobType, JobOK
  <2> HIDE DEF chosen
  <2>3. batches \in Seq(SUBSET ChoiceType)
    BY <1>1 DEF OrchestrationTypeOK
  <2>4. /\ batches' \in Seq(SUBSET ChoiceType)
        /\ \A i \in DOMAIN batches : i \in DOMAIN batches' /\ batches'[i] = batches[i]
        /\ \A i \in DOMAIN batches' :
             (i \in DOMAIN batches /\ batches'[i] = batches[i]) \/ batches'[i] = chosen
    BY <2>1, <2>2, <2>3
  <2>5. Created \subseteq Created'
    BY <2>4 DEF Created
  <2>6. \A d \in Created' : d \in Created \/ \E c \in chosen : d = c.revision
    BY <2>4 DEF Created
  <2>7. \A d \in Created' : d.latest \in Seen
    BY <2>2, <2>6 DEF Seen
  <2>8. BatchesOK'
    <3>1. SUFFICES ASSUME NEW i \in DOMAIN batches', NEW c \in batches'[i] PROVE ChoiceOK(c)'
      BY DEF BatchesOK
    <3>2. ChoiceOK(c)
      BY <1>1, <2>2, <2>4 DEF BatchesOK
    <3>3. QED
      BY <2>1, <3>2, ChoiceKept
  <2>9. Idle.run = NoInputs /\ Idle.inputs = NoInputs /\ Idle.duplicates = {}
    BY DEF Idle
  <2>10. QED
    BY <2>1, <2>4, <2>5, <2>7, <2>8, <2>9, IdleKnowsNothing, RefreshKeeps
<1>12. QED
  BY <1>5, <1>6, <1>7, <1>8, <1>9, <1>10, <1>11 DEF Refresh

\* The invariant holds at the start.
LEMMA OrchestrationStart == OrchestrationInit => OrchestrationInv
<1> SUFFICES ASSUME OrchestrationInit PROVE OrchestrationInv
  OBVIOUS
<1>1. RollingInit /\ batches = <<>> /\ jobs = [r \in Refreshers |-> Idle] /\ resets = {}
  BY DEF OrchestrationInit
<1>2. RollingInv
  BY <1>1, TypeInit, BookedInit, ChainInit DEF RollingInv
<1>3. OrchestrationTypeOK
  BY <1>1, IdleKnowsNothing DEF OrchestrationTypeOK
<1>4. /\ env.vintages = <<FirstVintage(0, 1)>> /\ env.live = Instant(0, 1)
      /\ env.base = 0 /\ env.offset = 0 /\ env.seq = 1 /\ clock = 0
      /\ inputs = [of |-> 1, periods |-> Horizon(0)]
      /\ RunInputs = [of |-> 1, periods |-> Horizon(0)]
      /\ \A w \in Workers : calls[w].inputs = inputs
  BY <1>1 DEF RollingInit, RunInputs
<1>5. env.live.publication = 1 /\ env.live.at = 0
  BY <1>4 DEF Instant
<1>6. LiveIsNewest
  <2>1. env.vintages[1].published = env.live /\ Len(env.vintages) = 1 /\ env.vintages # <<>>
    BY <1>4 DEF FirstVintage, Vintage
  <2>2. QED
    BY <1>1, <1>5, <2>1 DEF LiveIsNewest
<1>7. JobsOK /\ BatchesOK
  BY <1>1, IdleKnowsNothing DEF JobsOK, BatchesOK
<1>8. PublishedOnce
  <2>1. \A y \in Instants : y = env.live \/ y.publication = 0
    BY <1>1 DEF Instants, Idle, Instant
  <2>2. \A x \in Snapshots : x = inputs \/ x.of = 0
    BY <1>1, <1>4 DEF Snapshots, Idle, NoInputs, FeedSnapshot
  <2>3. QED
    BY <1>4, <1>5, <2>1, <2>2 DEF PublishedOnce
<1>9. IdsOK
  <2>1. Seen \subseteq {FirstVintage(0, 1)}
    <3>1. Stored = {FirstVintage(0, 1)}
      BY <1>4 DEF Stored
    <3>2. \A r \in Refreshers : HeldBy(jobs[r]) = {}
      BY <1>1, IdleKnowsNothing
    <3>3. Created = {}
      BY <1>1 DEF Created
    <3>4. QED
      BY <3>1, <3>2, <3>3 DEF Seen
  <2>2. Numbered(FirstVintage(0, 1))
    BY <1>4, <1>5 DEF Numbered, FirstVintage, Vintage, Instant, AsOf
  <2>3. QED
    BY <2>1, <2>2 DEF IdsOK
<1>10. DuplicateIsGenuine
  BY <1>1 DEF DuplicateIsGenuine, Idle
<1>11. QED
  BY <1>2, <1>3, <1>6, <1>7, <1>8, <1>9, <1>10 DEF OrchestrationInv

\* Every step keeps it.
LEMMA OrchestrationStep ==
  OrchestrationInv /\ [OrchestrationNext]_<<rollingVars, orchestrationVars>> => OrchestrationInv'
<1> SUFFICES ASSUME OrchestrationInv, [OrchestrationNext]_<<rollingVars, orchestrationVars>>
             PROVE  OrchestrationInv'
  OBVIOUS
<1>1. /\ RollingTypeOK /\ VintageChain /\ BookedIsApplied
      /\ OrchestrationTypeOK /\ LiveIsNewest /\ JobsOK /\ BatchesOK
      /\ PublishedOnce /\ IdsOK /\ DuplicateIsGenuine
  BY DEF OrchestrationInv, RollingInv
<1>2. CASE Rolling
  <2>1. RollingNext
    BY <1>2 DEF Rolling
  <2>2. RollingInv'
    BY <1>1, <2>1, TypeStep, BookedStep, ChainStep DEF RollingInv
  <2>3. QED
    BY <1>1, <1>2, <2>2, TypesRoll, LiveRolls, JobsRoll, PublishedRolls, IdsRoll, DuplicatesRoll
    DEF OrchestrationInv
<1>3. CASE \E r \in Refreshers : Refresh(r)
  BY <1>3, RefreshStep
<1>4. CASE UNCHANGED <<rollingVars, orchestrationVars>>
  <2>1. UNCHANGED <<rollingVars, batches, jobs, resets>>
    BY <1>4 DEF orchestrationVars
  <2>2. RollingInv' /\ OrchestrationTypeOK' /\ LiveIsNewest'
    BY <1>1, <2>1
    DEF rollingVars, RollingInv, RollingTypeOK, BookedIsApplied, VintageChain, AsOf,
        OrchestrationTypeOK, LiveIsNewest
  <2>3. BatchesOK'
    BY <1>1, <2>1, ChoiceKept DEF BatchesOK
  <2>4. JobsOK'
    <3>1. Stored' = Stored
      BY <2>1 DEF rollingVars, Stored
    <3>2. SUFFICES ASSUME NEW r \in Refreshers PROVE JobOK(jobs[r])'
      BY DEF JobsOK
    <3>3. PICK j : j = jobs[r] /\ j = jobs'[r]
      BY <2>1
    <3>4. JobOK(j)
      BY <1>1, <3>3 DEF JobsOK
    <3>5. \A c \in j.chosen : ChoiceOK(c)'
      BY <2>1, <3>4, ChoiceKept DEF JobOK
    <3>6. JobOK(j)'
      BY <2>1, <3>1, <3>4, <3>5 DEF rollingVars, JobOK, LiveRead, Consecutive, Behind
    <3>7. QED
      BY <3>3, <3>6
  <2>5. PublishedOnce'
    <3>1. Instants' = Instants /\ Snapshots' = Snapshots /\ env' = env
      BY <2>1 DEF rollingVars, Instants, Snapshots, RunInputs
    <3>2. QED
      BY <1>1, <3>1 DEF PublishedOnce
  <2>6. Created' = Created
    BY <2>1 DEF Created
  <2>7. ASSUME NEW v, NEW w, ResetBetween(v, w) PROVE ResetBetween(v, w)'
    BY <2>1, <2>7 DEF ResetBetween
  <2>8. IdsOK'
    <3>1. Seen' = Seen
      BY <2>1, <2>6 DEF rollingVars, Stored, Seen
    <3>2. ASSUME NEW v, Numbered(v) PROVE Numbered(v)'
      BY <2>1, <3>2 DEF rollingVars, Numbered, Behind, AsOf
    <3>3. QED
      BY <1>1, <2>7, <3>1, <3>2 DEF IdsOK
  <2>9. DuplicateIsGenuine'
    BY <1>1, <2>1, <2>6, <2>7 DEF DuplicateIsGenuine
  <2>10. QED
    BY <2>2, <2>3, <2>4, <2>5, <2>8, <2>9 DEF OrchestrationInv
<1>5. QED
  BY <1>2, <1>3, <1>4 DEF OrchestrationNext

\* A refresher that is alone: it decides on what is not known, and until it has created the batch
\* nobody else creates one.
LEMMA AloneStep ==
  ASSUME \A q, r \in Refreshers : q = r,
         OrchestrationInv, FreshChoice, OneDecisionPerRevision,
         [OrchestrationNext]_<<rollingVars, orchestrationVars>>
  PROVE  (FreshChoice /\ OneDecisionPerRevision)'
<1>1. jobs \in [Refreshers -> JobType] /\ batches \in Seq(SUBSET ChoiceType)
  BY DEF OrchestrationInv, OrchestrationTypeOK
<1>2. CASE jobs' = jobs /\ batches' = batches
  BY <1>2 DEF FreshChoice, Known, Created, OneDecisionPerRevision
<1>3. ASSUME NEW r \in Refreshers, NEW j, Read(r, j), \A c \in j.chosen : ~Known(c.revision)
      PROVE  (FreshChoice /\ OneDecisionPerRevision)'
  <2>1. /\ batches' = batches /\ jobs'[r] = j
        /\ \A q \in Refreshers : q = r
    BY <1>1, <1>3 DEF Read
  <2>2. ASSUME NEW d, ~Known(d) PROVE ~Known(d)'
    BY <2>1, <2>2 DEF Known, Created
  <2>3. FreshChoice'
    BY <1>3, <2>1, <2>2 DEF FreshChoice
  <2>4. OneDecisionPerRevision'
    BY <2>1 DEF OneDecisionPerRevision
  <2>5. QED
    BY <2>3, <2>4
<1>4. ASSUME NEW r \in Refreshers, NEW j, Read(r, j), j.chosen = jobs[r].chosen
      PROVE  (FreshChoice /\ OneDecisionPerRevision)'
  BY <1>3, <1>4 DEF FreshChoice
<1>5. ASSUME NEW r \in Refreshers, Begin(r)
      PROVE  (FreshChoice /\ OneDecisionPerRevision)'
  <2> DEFINE j == [Idle EXCEPT !.pc = "live"]
  <2>1. Read(r, j) /\ j.chosen = {}
    BY <1>5 DEF Begin, Idle
  <2> HIDE DEF j
  <2>2. QED
    BY <1>3, <2>1
<1>6. ASSUME NEW r \in Refreshers,
             ReadLive(r) \/ ReadRun(r) \/ ReadInputs(r) \/ ReadVintages(r)
      PROVE  (FreshChoice /\ OneDecisionPerRevision)'
  <2>1. jobs[r] \in JobType
    BY <1>1
  <2>2. CASE ReadLive(r)
    <3> DEFINE j == [jobs[r] EXCEPT !.pc = "run", !.live = env.live]
    <3>1. Read(r, j)
      BY <2>2 DEF ReadLive
    <3>2. j.chosen = jobs[r].chosen
      BY <2>1 DEF JobType
    <3> HIDE DEF j
    <3>3. QED
      BY <1>4, <3>1, <3>2
  <2>3. CASE ReadRun(r)
    <3> DEFINE j == [jobs[r] EXCEPT !.pc = "inputs",
                                !.run = [of |-> run.inputs, periods |-> run.periods]]
    <3>1. Read(r, j)
      BY <2>3 DEF ReadRun
    <3>2. j.chosen = jobs[r].chosen
      BY <2>1 DEF JobType
    <3> HIDE DEF j
    <3>3. QED
      BY <1>4, <3>1, <3>2
  <2>4. CASE ReadInputs(r)
    <3> DEFINE j == [jobs[r] EXCEPT !.pc = "vintages", !.inputs = inputs]
    <3>1. Read(r, j)
      BY <2>4 DEF ReadInputs
    <3>2. j.chosen = jobs[r].chosen
      BY <2>1 DEF JobType
    <3> HIDE DEF j
    <3>3. QED
      BY <1>4, <3>1, <3>2
  <2>5. CASE ReadVintages(r)
    <3> DEFINE j == [jobs[r] EXCEPT !.pc = "decide",
                                !.vintages = Selected(env.vintages, jobs[r].live)]
    <3>1. Read(r, j)
      BY <2>5 DEF ReadVintages
    <3>2. j.chosen = jobs[r].chosen
      BY <2>1 DEF JobType
    <3> HIDE DEF j
    <3>3. QED
      BY <1>4, <3>1, <3>2
  <2>6. QED
    BY <1>6, <2>2, <2>3, <2>4, <2>5
<1>7. ASSUME NEW r \in Refreshers, Decide(r)
      PROVE  (FreshChoice /\ OneDecisionPerRevision)'
  <2>1. PICK material \in SUBSET Revisions(jobs[r]) :
          Read(r, [Idle EXCEPT !.pc = "create",
                     !.duplicates = {d \in material : Known(d)},
                     !.chosen = Decisions(jobs[r], material \ {d \in material : Known(d)})])
    BY <1>7 DEF Decide
  <2> DEFINE known == {d \in material : Known(d)}
             chosen == Decisions(jobs[r], material \ known)
             j == [Idle EXCEPT !.pc = "create", !.duplicates = known, !.chosen = chosen]
  <2>2. Read(r, j) /\ j.chosen = chosen
    BY <2>1 DEF Idle
  <2>3. \A c \in chosen : ~Known(c.revision)
    BY DEF Decisions
  <2> HIDE DEF chosen, j
  <2>4. QED
    BY <1>3, <2>2, <2>3
<1>8. ASSUME NEW r \in Refreshers, CreateBatch(r)
      PROVE  (FreshChoice /\ OneDecisionPerRevision)'
  <2> DEFINE chosen == jobs[r].chosen
  <2>1. /\ jobs'[r] = Idle /\ \A q \in Refreshers : q = r
        /\ batches' = IF chosen = {} THEN batches ELSE Append(batches, chosen)
    BY <1>1, <1>8 DEF CreateBatch
  <2>2. \A c \in chosen : ~Known(c.revision)
    BY DEF FreshChoice
  <2>3. FreshChoice'
    BY <2>1 DEF FreshChoice, Idle
  <2>4. OneDecisionPerRevision'
    <3>1. CASE chosen = {}
      BY <2>1, <3>1 DEF OneDecisionPerRevision
    <3>2. CASE chosen # {}
      <4> DEFINE n == Len(batches) + 1
      <4>1. /\ \A i \in DOMAIN batches' : i = n \/ (i \in DOMAIN batches /\ batches'[i] = batches[i])
            /\ batches'[n] = chosen
        <5> HIDE DEF chosen
        <5>1. batches' = Append(batches, chosen)
          BY <2>1, <3>2
        <5>2. QED
          BY <1>1, <5>1
      <4>2. ASSUME NEW i \in DOMAIN batches, NEW c \in batches[i], NEW d \in chosen
            PROVE  KeyOf(c.revision) # KeyOf(d.revision)
        <5>1. c.revision \in Created
          BY DEF Created
        <5>2. QED
          BY <2>2, <5>1 DEF Known
      <4> HIDE DEF n, chosen
      <4>3. QED
        BY <4>1, <4>2 DEF OneDecisionPerRevision
    <3>3. QED
      BY <3>1, <3>2
  <2>5. QED
    BY <2>3, <2>4
<1>9. CASE Rolling
  BY <1>2, <1>9 DEF Rolling
<1>10. CASE UNCHANGED <<rollingVars, orchestrationVars>>
  BY <1>2, <1>10 DEF orchestrationVars
<1>11. QED
  BY <1>5, <1>6, <1>7, <1>8, <1>9, <1>10 DEF OrchestrationNext, Refresh

----------------------------------------------------------------------------
(***************************************************************************)
(* Theorems                                                                *)
(***************************************************************************)
\* The invariant holds of every reachable state.
LEMMA OrchestrationInvariance == OrchestrationSpec => []OrchestrationInv
<1>1. QED
  BY OrchestrationStart, OrchestrationStep, PTL DEF OrchestrationSpec

\* Refreshes of the decisions only read the service: what is proved of the service alone holds of
\* it with any number of them.
THEOREM RefreshesOnlyRead == OrchestrationSpec => RollingSpec
<1>1. OrchestrationInit => RollingInit
  BY DEF OrchestrationInit
<1>2. [OrchestrationNext]_<<rollingVars, orchestrationVars>> => [RollingNext]_rollingVars
  <2>1. ASSUME NEW r \in Refreshers, Refresh(r) PROVE UNCHANGED rollingVars
    BY <2>1
    DEF Refresh, Begin, ReadLive, ReadRun, ReadInputs, ReadVintages, Decide, CreateBatch, Read
  <2>2. QED
    BY <2>1 DEF OrchestrationNext, Rolling
<1>3. QED
  BY <1>1, <1>2, PTL DEF OrchestrationSpec, RollingSpec

\* build_rolling_snapshot compares the vintage of the live state it read with its predecessor,
\* whatever is published, dropped or advanced between its reads, until somebody resets.
THEOREM ConsecutiveVintagesHold == OrchestrationSpec => []ConsecutiveVintages
<1>1. OrchestrationInv => ConsecutiveVintages
  <2>1. SUFFICES ASSUME OrchestrationInv, NEW d \in Created
                 PROVE  /\ d.previous.published.publication = d.latest.published.publication - 1
                        /\ d.latest.published = d.live \/ \E p \in resets : d.live.publication <= p
    BY DEF ConsecutiveVintages
  <2>2. PICK i \in DOMAIN batches : \E c \in batches[i] : d = c.revision
    BY DEF Created
  <2>3. QED
    BY <2>1, <2>2 DEF OrchestrationInv, BatchesOK, ChoiceOK, Consecutive, Behind
<1>2. QED
  BY <1>1, OrchestrationInvariance, PTL

\* process matches periods by their number in the day, which means the same period wherever the
\* refresh has read what belongs together.
THEOREM CoherentReadsHold == OrchestrationSpec => []CoherentReadsMatchPeriods
<1>1. OrchestrationInv => CoherentReadsMatchPeriods
  BY DEF OrchestrationInv, BatchesOK, ChoiceOK, Matches, CoherentReadsMatchPeriods
<1>2. QED
  BY <1>1, OrchestrationInvariance, PTL

\* What process sets aside as a duplicate was decided on: ids do not repeat between two resets.
THEOREM DuplicateIsGenuineHolds == OrchestrationSpec => []DuplicateIsGenuine
<1>1. OrchestrationInv => DuplicateIsGenuine
  BY DEF OrchestrationInv
<1>2. QED
  BY <1>1, OrchestrationInvariance, PTL

\* Without a second refresh at the same time no revision becomes two decisions, in the whole life
\* of the process and across resets.  (With two it may: nothing locks what process has read.)
THEOREM OneDecisionPerRevisionHolds ==
  ASSUME \A q, r \in Refreshers : q = r
  PROVE  OrchestrationSpec => []OneDecisionPerRevision
<1>1. OrchestrationInit => FreshChoice /\ OneDecisionPerRevision
  BY DEF OrchestrationInit, Idle, FreshChoice, OneDecisionPerRevision
<1>2. OrchestrationInv /\ (FreshChoice /\ OneDecisionPerRevision)
        /\ [OrchestrationNext]_<<rollingVars, orchestrationVars>>
        => (FreshChoice /\ OneDecisionPerRevision)'
  BY AloneStep
<1>3. QED
  BY <1>1, <1>2, OrchestrationInvariance, PTL DEF OrchestrationSpec
==================================================================================
