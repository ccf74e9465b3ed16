---------------------------- MODULE CapitalProofs ----------------------------
(***************************************************************************)
(* What a cycle keeps of the capital's books, for any calendar, limits,    *)
(* deposits and withdrawals, and however the venue answers.  The first     *)
(* part is about the arithmetic of Pacing: a replay step by step, what one *)
(* pour over the tranches gives, and the rounding of the fee reserve; then *)
(* what every cycle keeps of the pacing state (CapitalInv).  The second    *)
(* part is about the journal: what a replay makes of the set of its        *)
(* events, what a batch adds to it, what it says of the pacing state, and  *)
(* so that the pacing state and the replayed journal agree (BooksStay).    *)
(***************************************************************************)
EXTENDS CapitalCycle, SeriesProofs

\* r is what FoldLeft iterates to replay ids from s.
Replays(r, s, ids, n) ==
  r = [d \in SUBSET (1..n) |-> IF d = {} THEN s ELSE ReplayOne(r[Smaller(d)], ids[Largest(d)])]

LEMMA ReplaysExist == ASSUME NEW s, NEW ids, NEW n \in Nat PROVE \E r : Replays(r, s, ids, n)
<1> DEFINE T == {k \in Nat : \E r : Replays(r, s, ids, k)}
<1>1. 0 \in T
  <2> DEFINE r == [d \in SUBSET (1..0) |-> s]
  <2>1. \A d \in SUBSET (1..0) : d = {}
    OBVIOUS
  <2>2. Replays(r, s, ids, 0)
    BY <2>1 DEF Replays
  <2> QED BY <2>2
<1>2. ASSUME NEW k \in Nat, NEW m \in Nat, k \in T, m = k + 1 PROVE m \in T
  <2>1. PICK r : Replays(r, s, ids, k)
    BY <1>2
  <2> DEFINE h == [d \in SUBSET (1..m) |-> IF d = {} THEN s ELSE ReplayOne(r[Smaller(d)], ids[Largest(d)])]
  <2>2. ASSUME NEW d \in SUBSET (1..m), d # {} PROVE r[Smaller(d)] = h[Smaller(d)]
    <3>1. PICK e : e = Smaller(d)
      OBVIOUS
    <3>2. e \in SUBSET (1..k) /\ e \in SUBSET (1..m)
      BY <1>2, <2>2, <3>1, LastOf
    <3>3. r[e] = IF e = {} THEN s ELSE ReplayOne(r[Smaller(e)], ids[Largest(e)])
      BY <2>1, <3>2 DEF Replays
    <3> QED BY <3>1, <3>2, <3>3
  <2>3. Replays(h, s, ids, m)
    BY <2>2 DEF Replays
  <2> QED BY <2>3
<1>3. Nat \subseteq T
  <2> HIDE DEF T
  <2> QED BY <1>1, <1>2, Inductive
<1> QED BY <1>3

\* The states of a replay, one after the other.
ReplayRun(st, s, ids, n) ==
  /\ st[0] = s /\ ReplayAll(s, ids) = st[n]
  /\ \A k, m \in 0..n : m = k + 1 => st[m] = ReplayOne(st[k], ids[m])

LEMMA ReplaySteps ==
  ASSUME NEW s, NEW ids, NEW n \in Nat, DOMAIN ids = 1..n
  PROVE  \E st : ReplayRun(st, s, ids, n)
<1> DEFINE r == CHOOSE r : Replays(r, s, ids, n)
<1>1. Replays(r, s, ids, n)
  BY ReplaysExist, Zenon
<1>2. ReplayAll(s, ids) = r[1..n]
  BY DEF ReplayAll, FoldLeft, MapThenFoldSet, Replays, Largest, Smaller
<1> HIDE DEF r
<1> DEFINE st == [k \in 0..n |-> r[1..k]]
<1>3. \A d \in SUBSET (1..n) : r[d] = IF d = {} THEN s ELSE ReplayOne(r[Smaller(d)], ids[Largest(d)])
  BY <1>1 DEF Replays
<1>4. st[0] = s
  <2>1. 1..0 = {} /\ {} \in SUBSET (1..n)
    OBVIOUS
  <2>2. r[{}] = s
    BY <1>3, <2>1
  <2>3. r[1..0] = s
    BY <2>1, <2>2, Zenon
  <2>4. 0 \in 0..n
    OBVIOUS
  <2> QED BY <2>3, <2>4, Zenon
<1>5. ASSUME NEW k \in 0..n, NEW m \in 0..n, m = k + 1
      PROVE  st[m] = ReplayOne(st[k], ids[m])
  <2>0. k \in Nat /\ m \in Nat
    OBVIOUS
  <2>1. 1..m # {} /\ Largest(1..m) = m /\ Smaller(1..m) = 1..k
    BY <1>5, <2>0, LastUpTo, Zenon
  <2>2. 1..m \in SUBSET (1..n)
    <3>1. \A i \in 1..m : i \in 1..n
      OBVIOUS
    <3> QED BY <3>1
  <2>3. r[1..m] = ReplayOne(r[1..k], ids[m])
    BY <1>3, <2>1, <2>2, Zenon
  <2> QED BY <2>3
<1> HIDE DEF st
<1>6. st[n] = r[1..n]
  BY DEF st
<1>7. ReplayRun(st, s, ids, n)
  BY <1>2, <1>4, <1>5, <1>6 DEF ReplayRun
<1> QED BY <1>7

PourFrom(q, room) == [left |-> q, took |-> [id \in DOMAIN room |-> 0]]
PourNext(acc, id, room) == PourOne(acc, id, Least(acc.left, room[id]))

\* r is what FoldLeft iterates to pour over ids.
Pours(r, q, ids, room, n) ==
  r = [d \in SUBSET (1..n) |-> IF d = {} THEN PourFrom(q, room) ELSE PourNext(r[Smaller(d)], ids[Largest(d)], room)]

LEMMA PoursExist == ASSUME NEW q, NEW ids, NEW room, NEW n \in Nat PROVE \E r : Pours(r, q, ids, room, n)
<1> DEFINE T == {k \in Nat : \E r : Pours(r, q, ids, room, k)}
<1>1. 0 \in T
  <2> DEFINE r == [d \in SUBSET (1..0) |-> PourFrom(q, room)]
  <2>1. \A d \in SUBSET (1..0) : d = {}
    OBVIOUS
  <2>2. Pours(r, q, ids, room, 0)
    BY <2>1 DEF Pours
  <2> QED BY <2>2
<1>2. ASSUME NEW k \in Nat, NEW m \in Nat, k \in T, m = k + 1 PROVE m \in T
  <2>1. PICK r : Pours(r, q, ids, room, k)
    BY <1>2
  <2> DEFINE h == [d \in SUBSET (1..m) |-> IF d = {} THEN PourFrom(q, room) ELSE PourNext(r[Smaller(d)], ids[Largest(d)], room)]
  <2>2. ASSUME NEW d \in SUBSET (1..m), d # {} PROVE r[Smaller(d)] = h[Smaller(d)]
    <3>1. PICK e : e = Smaller(d)
      OBVIOUS
    <3>2. e \in SUBSET (1..k) /\ e \in SUBSET (1..m)
      BY <1>2, <2>2, <3>1, LastOf
    <3>3. r[e] = IF e = {} THEN PourFrom(q, room) ELSE PourNext(r[Smaller(e)], ids[Largest(e)], room)
      BY <2>1, <3>2 DEF Pours
    <3> QED BY <3>1, <3>2, <3>3
  <2>3. Pours(h, q, ids, room, m)
    BY <2>2 DEF Pours
  <2> QED BY <2>3
<1>3. Nat \subseteq T
  <2> HIDE DEF T
  <2> QED BY <1>1, <1>2, Inductive
<1> QED BY <1>3

\* What is left and taken, one id after the other.
PourRun(st, q, ids, room, n) ==
  /\ st[0] = PourFrom(q, room) /\ Pour(q, ids, room) = st[n]
  /\ \A k, m \in 0..n : m = k + 1 => st[m] = PourNext(st[k], ids[m], room)

LEMMA PourSteps ==
  ASSUME NEW q, NEW ids, NEW room, NEW n \in Nat, DOMAIN ids = 1..n
  PROVE  \E st : PourRun(st, q, ids, room, n)
<1> DEFINE r == CHOOSE r : Pours(r, q, ids, room, n)
<1>1. Pours(r, q, ids, room, n)
  BY PoursExist, Zenon
<1>2. Pour(q, ids, room) = r[1..n]
  BY DEF Pour, PourNext, PourFrom, FoldLeft, MapThenFoldSet, Pours, Largest, Smaller
<1> HIDE DEF r
<1> DEFINE st == [k \in 0..n |-> r[1..k]]
<1>3. \A d \in SUBSET (1..n) : r[d] = IF d = {} THEN PourFrom(q, room) ELSE PourNext(r[Smaller(d)], ids[Largest(d)], room)
  BY <1>1 DEF Pours
<1>4. st[0] = PourFrom(q, room)
  <2>1. 1..0 = {} /\ {} \in SUBSET (1..n)
    OBVIOUS
  <2>2. r[{}] = PourFrom(q, room)
    BY <1>3, <2>1
  <2>3. r[1..0] = PourFrom(q, room)
    BY <2>1, <2>2, Zenon
  <2>4. 0 \in 0..n
    OBVIOUS
  <2> QED BY <2>3, <2>4, Zenon
<1>5. ASSUME NEW k \in 0..n, NEW m \in 0..n, m = k + 1
      PROVE  st[m] = PourNext(st[k], ids[m], room)
  <2>0. k \in Nat /\ m \in Nat
    OBVIOUS
  <2>1. 1..m # {} /\ Largest(1..m) = m /\ Smaller(1..m) = 1..k
    BY <1>5, <2>0, LastUpTo, Zenon
  <2>2. 1..m \in SUBSET (1..n)
    <3>1. \A i \in 1..m : i \in 1..n
      OBVIOUS
    <3> QED BY <3>1
  <2>3. r[1..m] = PourNext(r[1..k], ids[m], room)
    BY <1>3, <2>1, <2>2, Zenon
  <2> QED BY <2>3
<1> HIDE DEF st
<1>6. st[n] = r[1..n]
  BY DEF st
<1>7. PourRun(st, q, ids, room, n)
  BY <1>2, <1>4, <1>5, <1>6 DEF PourRun
<1> QED BY <1>7

-----------------------------------------------------------------------------
(* What a pour gives *)

\* n was poured: took from each at most its room.
PouredOut(acc, room, R, n) ==
  /\ acc = [left |-> acc.left, took |-> acc.took]
  /\ acc.left \in Nat /\ acc.took \in [R -> Nat]
  /\ \A x \in R : acc.took[x] <= room[x]
  /\ SumFunction(acc.took) + acc.left = n

LEMMA LeastType == ASSUME NEW a \in Nat, NEW b \in Nat PROVE Least(a, b) \in Nat /\ Least(a, b) <= a /\ Least(a, b) <= b
BY DEF Least

LEMMA PourGives ==
  ASSUME NEW R, IsFiniteSet(R), NEW room \in [R -> Nat], NEW n \in Nat,
         NEW len \in Nat, NEW ids \in [1..len -> R],
         \A i, j \in 1..len : i < j => ids[i] # ids[j]
  PROVE  PouredOut(Pour(n, ids, room), room, R, n)
<1>0. PICK st : PourRun(st, n, ids, room, len)
  <2>1. DOMAIN ids = 1..len
    OBVIOUS
  <2> QED BY <2>1, PourSteps
<1>1. /\ st[0] = PourFrom(n, room) /\ Pour(n, ids, room) = st[len]
      /\ \A k, m \in 0..len : m = k + 1 => st[m] = PourNext(st[k], ids[m], room)
  BY <1>0 DEF PourRun
<1> DEFINE Ok(k) == /\ PouredOut(st[k], room, R, n)
                    /\ \A i \in 1..len : i > k => st[k].took[ids[i]] = 0
           T == {k \in Nat : k <= len => Ok(k)}
<1>2. 0 \in T
  <2> DEFINE z == [id \in R |-> 0]
  <2>1. z \in [R -> Int] /\ z \in [R -> Nat] /\ \A x \in R : z[x] = 0
    OBVIOUS
  <2>2. st[0] = [left |-> n, took |-> z]
    BY <1>1 DEF PourFrom
  <2> HIDE DEF z
  <2>3. SumFunction(z) = 0
    BY <2>1, SumZero
  <2>4. PouredOut(st[0], room, R, n)
    BY <2>1, <2>2, <2>3 DEF PouredOut
  <2>5. \A i \in 1..len : st[0].took[ids[i]] = 0
    BY <2>1, <2>2
  <2> QED BY <2>4, <2>5
<1>3. ASSUME NEW k \in Nat, NEW m \in Nat, k \in T, m = k + 1 PROVE m \in T
  <2>1. SUFFICES ASSUME m <= len PROVE Ok(m)
    OBVIOUS
  <2>2. Ok(k)
    BY <1>3, <2>1
  <2>3. st[m] = PourNext(st[k], ids[m], room)
    <3>1. k \in 0..len /\ m \in 0..len
      BY <1>3, <2>1
    <3> QED BY <1>1, <1>3, <3>1
  <2>4. PICK id \in R : id = ids[m]
    BY <1>3, <2>1
  <2>5. PICK x : x = Least(st[k].left, room[id])
    OBVIOUS
  <2>6. /\ st[k].left \in Nat /\ st[k].took \in [R -> Nat] /\ st[k].took \in [R -> Int]
        /\ \A y \in R : st[k].took[y] <= room[y]
        /\ SumFunction(st[k].took) + st[k].left = n
        /\ st[k].took[id] = 0
    <3>1. m \in 1..len /\ m > k
      BY <1>3, <2>1
    <3> QED BY <2>2, <2>4, <3>1 DEF PouredOut
  <2>7. x \in Nat /\ x <= st[k].left /\ x <= room[id]
    BY <2>4, <2>5, <2>6, LeastType
  <2>8. st[m] = [left |-> st[k].left - x, took |-> [st[k].took EXCEPT ![id] = x]]
    BY <2>3, <2>4, <2>5 DEF PourNext, PourOne
  <2>9. PICK t : t = [st[k].took EXCEPT ![id] = x]
    OBVIOUS
  <2>10. /\ t \in [R -> Nat] /\ t \in [R -> Int] /\ t[id] = x
         /\ \A y \in R : y # id => t[y] = st[k].took[y]
    BY <2>6, <2>7, <2>9
  <2>11. SumFunction(t) = SumFunction(st[k].took) - st[k].took[id] + x
    <3>1. x \in Int
      BY <2>7
    <3>2. PICK u \in [R -> Int] : u = st[k].took
      BY <2>6
    <3>3. PICK v \in [R -> Int] : v = t
      BY <2>10
    <3>4. v[id] = x /\ DiffersAt(v, u, R, id)
      BY <2>10, <3>2, <3>3 DEF DiffersAt
    <3>5. SumFunction(v) = SumFunction(u) - u[id] + v[id]
      BY <3>4, SumExcept
    <3> QED BY <3>2, <3>3, <3>4, <3>5
  <2>12. SumFunction(st[k].took) \in Int
    BY <2>6, SumType
  <2>13. st[m].left = st[k].left - x /\ st[m].took = t /\ st[m] = [left |-> st[m].left, took |-> st[m].took]
    BY <2>8, <2>9
  <2>14. PouredOut(st[m], room, R, n)
    <3>1. SumFunction(t) + (st[k].left - x) = n
      BY SMTT(60), <2>6, <2>7, <2>11, <2>12
    <3>2. \A y \in R : t[y] <= room[y]
      BY <2>6, <2>7, <2>10
    <3>3. st[k].left - x \in Nat
      BY <2>6, <2>7
    <3> QED BY <2>10, <2>13, <3>1, <3>2, <3>3 DEF PouredOut
  <2>15. ASSUME NEW i \in 1..len, i > m PROVE st[m].took[ids[i]] = 0
    <3>1. ids[i] # id /\ ids[i] \in R /\ i > k
      BY <1>3, <2>1, <2>4, <2>15
    <3>2. st[k].took[ids[i]] = 0
      BY <2>2, <3>1
    <3> QED BY <2>10, <2>13, <3>1, <3>2
  <2> QED BY <2>14, <2>15
<1>4. Nat \subseteq T
  <2> HIDE DEF T
  <2> QED BY <1>2, <1>3, Inductive
<1>5. Ok(len)
  BY <1>4
<1> QED BY <1>1, <1>5

-----------------------------------------------------------------------------
(* Rounding *)

\* Integer division: the quotient, and what it leaves.
LEMMA DivBounds ==
  ASSUME NEW n \in Nat, NEW k \in Nat, k > 0
  PROVE  /\ n \div k \in Nat
         /\ k * (n \div k) <= n
         /\ n < k * (n \div k) + k
  OBVIOUS

\* Multiplication by a natural number keeps the order.
LEMMA TimesMonotone ==
  ASSUME NEW k \in Nat, NEW a \in Nat, NEW b \in Nat, a <= b
  PROVE  k * a <= k * b
  OBVIOUS

\* Division rounded up does not exceed a bound that its dividend keeps
\* (div_ceil, the end of gross_up_reserve).
LEMMA DivUnder ==
  ASSUME NEW n \in Nat, NEW k \in Nat, k > 0, NEW m \in Nat, n <= k * m
  PROVE  (n + k - 1) \div k <= m
<1> DEFINE q == (n + k - 1) \div k
<1>1. q \in Nat /\ k * q <= n + k - 1
  BY DivBounds
<1>2. SUFFICES ASSUME q > m PROVE FALSE
  BY <1>1
<1>3. k * (m + 1) <= k * q
  BY <1>1, <1>2, TimesMonotone
<1>4. k * (m + 1) = k * m + k
  OBVIOUS
<1> QED BY <1>1, <1>3, <1>4

\* Division rounded up reaches whatever its dividend reaches.
LEMMA DivOver ==
  ASSUME NEW n \in Nat, NEW k \in Nat, k > 0, NEW m \in Nat, k * m <= n
  PROVE  m <= (n + k - 1) \div k
<1> DEFINE q == (n + k - 1) \div k
<1>1. q \in Nat /\ n + k - 1 < k * q + k
  BY DivBounds
<1>2. SUFFICES ASSUME q < m PROVE FALSE
  BY <1>1
<1>3. k * (q + 1) <= k * m
  BY <1>1, <1>2, TimesMonotone
<1>4. k * (q + 1) = k * q + k
  BY <1>1
<1> QED BY <1>1, <1>3, <1>4

\* A plan within the spendable budget, grossed up by the fee reserve again,
\* still fits both the tranches it draws on and what the whole capital holds
\* above the fixed reserve: commit_plan never finds its reserve_remaining
\* unpaid and never commits the reserve.
THEOREM CommitmentFits ==
  ASSUME NEW active \in Nat, NEW aggregate \in Nat,
         NEW plan \in Nat, plan <= Spendable(active, aggregate)
  PROVE  /\ plan <= GrossUp(plan)
         /\ GrossUp(plan) <= active
         /\ GrossUp(plan) <= Minus(aggregate, FixedReserve)
<1> DEFINE k == Bps - FeeBps
           v == Least(active, Minus(aggregate, FixedReserve))
<1>1. k \in Nat /\ k > 0 /\ k <= Bps
  BY PacingLimits DEF Bps
<1>2. /\ v \in Nat /\ v <= active /\ v <= Minus(aggregate, FixedReserve)
      /\ Minus(aggregate, FixedReserve) \in Nat
  BY PacingLimits DEF Least, Minus
<1>3. plan * Bps <= k * v
  <2>1. v * k \in Nat
    BY <1>1, <1>2
  <2>2. Bps * ((v * k) \div Bps) <= v * k /\ (v * k) \div Bps \in Nat
    BY <2>1, DivBounds DEF Bps
  <2>3. plan <= (v * k) \div Bps
    BY DEF Spendable, ApplyReserve
  <2> QED BY <2>1, <2>2, <2>3, <1>1, <1>2 DEF Bps
<1>4. GrossUp(plan) = (plan * Bps + k - 1) \div k
  BY DEF GrossUp, DivCeil
<1>5. GrossUp(plan) <= v
  BY <1>1, <1>2, <1>3, <1>4, DivUnder DEF Bps
<1>6. plan <= GrossUp(plan)
  <2>1. k * plan <= plan * Bps
    BY <1>1, TimesMonotone DEF Bps
  <2> QED BY <2>1, <1>1, <1>4, DivOver DEF Bps
<1>7. GrossUp(plan) \in Nat
  BY <1>1, <1>4, DivBounds DEF Bps
<1> QED BY <1>2, <1>5, <1>6, <1>7

-----------------------------------------------------------------------------
(* A pacing state *)

Tranches ==
  [amount : Nat, received : Nat, approved : Int, max : Int, admitted : Nat,
   invested : Nat, committed : Nat, withdrawn : Nat, returned : Nat]

Shares == [planned : Nat, committed : Nat, filled : Nat, debited : Nat]

\* What a transfer returned unadmitted is no more than it moved.
Returnable(ret, w) ==
  /\ IsFiniteSet(DOMAIN ret) /\ ret \in [DOMAIN ret -> Nat]
  /\ SumFunction(ret) <= Amount[w]

\* Of a movement applied: what each tranche of D gave of it, and, if it is a
\* transfer, what it returned, frozen.
Movement(r, w, D) ==
  /\ r = [occurred |-> r.occurred, reconciled |-> r.reconciled, applied |-> r.applied,
          alloc |-> r.alloc, isFrozen |-> r.isFrozen, frozen |-> r.frozen]
  /\ r.occurred \in Nat /\ r.reconciled \in Nat
  /\ DOMAIN r.alloc \subseteq D /\ r.alloc \in [DOMAIN r.alloc -> Nat]
  /\ r.isFrozen => w \in Transfer /\ Returnable(r.frozen, w)
  /\ ~r.isFrozen => r.frozen = <<>>
  /\ r.applied /\ w \in Transfer => r.isFrozen

Decision(x, D) ==
  /\ x = [planned |-> x.planned, filled |-> x.filled, debited |-> x.debited,
          settled |-> x.settled, committed |-> x.committed, alloc |-> x.alloc]
  /\ x.planned \in Nat /\ x.debited \in Nat /\ x.settled \in BOOLEAN
  /\ DOMAIN x.alloc \subseteq D /\ x.alloc \in [DOMAIN x.alloc -> Shares]
  /\ \A d \in DOMAIN x.alloc : x.alloc[d].planned <= x.alloc[d].committed

Shape(s) ==
  /\ s = [err |-> s.err, through |-> s.through, dep |-> s.dep, wd |-> s.wd, dec |-> s.dec]
  /\ s.through \in Int
  /\ IsFiniteSet(DOMAIN s.dep) /\ DOMAIN s.dep \subseteq Deposits
  /\ s.dep \in [DOMAIN s.dep -> Tranches]
  /\ IsFiniteSet(DOMAIN s.wd) /\ DOMAIN s.wd \subseteq Withdrawals
  /\ s.wd = [w \in DOMAIN s.wd |-> s.wd[w]]
  /\ \A w \in DOMAIN s.wd : Movement(s.wd[w], w, DOMAIN s.dep)
  /\ IsFiniteSet(DOMAIN s.dec) /\ s.dec = [x \in DOMAIN s.dec |-> s.dec[x]]
  /\ \A x \in DOMAIN s.dec : Decision(s.dec[x], DOMAIN s.dep)

\* No tranche gives more than was admitted of it.
Bounded(s) ==
  \A d \in DOMAIN s.dep :
    s.dep[d].invested + s.dep[d].committed + s.dep[d].withdrawn <= s.dep[d].admitted

Unspent(s) ==
  \A d \in DOMAIN s.dep :
    s.dep[d].invested = 0 /\ s.dep[d].committed = 0 /\ s.dep[d].withdrawn = 0

\* Nothing was given yet, or the fixed reserve is left.
Reserve(s) == Unspent(s) \/ Free(s) >= FixedReserve

\* A replay changes neither what the tranches and movements are nor the decisions.
Kin(t, s) ==
  /\ t.through = s.through /\ t.dec = s.dec
  /\ DOMAIN t.dep = DOMAIN s.dep /\ DOMAIN t.wd = DOMAIN s.wd
  /\ \A d \in DOMAIN s.dep :
       /\ t.dep[d].received = s.dep[d].received /\ t.dep[d].approved = s.dep[d].approved
       /\ t.dep[d].invested = s.dep[d].invested /\ t.dep[d].committed = s.dep[d].committed
  /\ \A w \in DOMAIN s.wd :
       /\ t.wd[w].occurred = s.wd[w].occurred /\ t.wd[w].reconciled = s.wd[w].reconciled
       /\ s.wd[w].isFrozen => t.wd[w].isFrozen /\ t.wd[w].frozen = s.wd[w].frozen

LEMMA KinTransitive == ASSUME NEW r, NEW s, NEW t, Kin(t, s), Kin(s, r) PROVE Kin(t, r)
BY DEF Kin

LEMMA ResidualIs ==
  ASSUME NEW tr \in Tranches
  PROVE  /\ Residual(tr) \in Nat
         /\ tr.invested + tr.committed + tr.withdrawn <= tr.admitted
            => Residual(tr) = tr.admitted - tr.invested - tr.committed - tr.withdrawn
BY DEF Tranches, Residual, Minus

LEMMA FreeType ==
  ASSUME NEW s, Shape(s)
  PROVE  Free(s) \in Nat
<1> DEFINE f == [d \in DOMAIN s.dep |-> Residual(s.dep[d])]
<1>1. f \in [DOMAIN s.dep -> Nat]
  BY ResidualIs DEF Shape
<1> HIDE DEF f
<1>2. SumFunction(f) \in Nat
  BY <1>1, SumNat DEF Shape
<1> QED BY <1>2 DEF Free, f

\* More left in each tranche is more left in all, new tranches or not.
LEMMA FreeGrows ==
  ASSUME NEW s, Shape(s), NEW t, Shape(t), DOMAIN s.dep \subseteq DOMAIN t.dep,
         \A d \in DOMAIN s.dep : Residual(s.dep[d]) <= Residual(t.dep[d])
  PROVE  Free(s) <= Free(t)
<1> DEFINE f == [d \in DOMAIN s.dep |-> Residual(s.dep[d])]
           h == [d \in DOMAIN t.dep |-> Residual(t.dep[d])]
           g == [d \in DOMAIN t.dep |-> IF d \in DOMAIN s.dep THEN Residual(s.dep[d]) ELSE 0]
<1>0. /\ \A d \in DOMAIN s.dep : Residual(s.dep[d]) \in Nat
      /\ \A d \in DOMAIN t.dep : Residual(t.dep[d]) \in Nat
  BY ResidualIs DEF Shape
<1>1. f \in [DOMAIN s.dep -> Int] /\ h \in [DOMAIN t.dep -> Int] /\ g \in [DOMAIN t.dep -> Int]
  BY <1>0
<1>2. \A d \in DOMAIN t.dep : g[d] <= h[d]
  BY <1>0
<1>3. /\ \A d \in DOMAIN s.dep : g[d] = f[d]
      /\ \A d \in DOMAIN t.dep \ DOMAIN s.dep : g[d] = 0
  OBVIOUS
<1>4. Free(s) = SumFunction(f) /\ Free(t) = SumFunction(h)
  BY DEF Free
<1>5. IsFiniteSet(DOMAIN t.dep) /\ DOMAIN s.dep \in SUBSET DOMAIN t.dep
  BY DEF Shape
<1> HIDE DEF f, g, h
<1>6. SumFunction(g) = SumFunction(f)
  BY <1>1, <1>3, <1>5, SumPad
<1>7. SumFunction(g) <= SumFunction(h)
  BY <1>1, <1>2, <1>5, SumMonotone
<1> QED BY <1>4, <1>6, <1>7

LEMMA MinusType == ASSUME NEW a \in Int, NEW b \in Int PROVE Minus(a, b) \in Nat /\ Minus(a, b) >= a - b
BY DEF Minus

\* What a replay in progress keeps.
Fields(t) == t = [err |-> t.err, through |-> t.through, dep |-> t.dep, wd |-> t.wd, dec |-> t.dec]
Replaying(t, s) ==
  /\ Fields(t)
  /\ t.err = "none" => Shape(t) /\ Bounded(t) /\ Reserve(t) /\ Kin(t, s)

\* A refusal changes nothing but says why.
LEMMA Refused ==
  ASSUME NEW s, Shape(s), NEW why, NEW t, t = Refuse(s, why)
  PROVE  Fields(t) /\ t.err = why
<1>1. t = [err |-> why, through |-> s.through, dep |-> s.dep, wd |-> s.wd, dec |-> s.dec]
  BY DEF Refuse, Shape
<1> QED BY <1>1 DEF Fields

LEMMA AdmittedType ==
  ASSUME NEW s, Shape(s)
  PROVE  Admitted(s) \in Nat /\ \A year : AdmittedIn(s, year) \in Nat
<1> DEFINE f == [d \in DOMAIN s.dep |-> s.dep[d].admitted]
<1>1. f \in [DOMAIN s.dep -> Nat]
  BY DEF Shape, Tranches
<1>2. SumFunction(f) \in Nat
  <2> HIDE DEF f
  <2> QED BY <1>1, SumNat DEF Shape
<1>3. ASSUME NEW year PROVE AdmittedIn(s, year) \in Nat
  <2> DEFINE S == {x \in DOMAIN s.dep : YearOf(s.dep[x].received) = year}
             g == [d \in S |-> s.dep[d].admitted]
  <2>1. g \in [S -> Nat]
    BY DEF Shape, Tranches
  <2>2. IsFiniteSet(S)
    BY FS_Subset DEF Shape
  <2>3. AdmittedIn(s, year) = SumFunction(g)
    BY DEF AdmittedIn
  <2> HIDE DEF S, g
  <2> QED BY <2>1, <2>2, <2>3, SumNat
<1> QED BY <1>2, <1>3 DEF Admitted

LEMMA AdmitKeeps ==
  ASSUME NEW s, Shape(s), Bounded(s), Reserve(s), NEW d \in DOMAIN s.dep
  PROVE  Replaying(AdmitDeposit(s, d), s)
<1>1. PICK n : n = Least(Unadmitted(s.dep[d]),
                         Least(Minus(AdmissionLimit(s.dep[d]), s.dep[d].admitted),
                               Least(Minus(TotalCap, Admitted(s)),
                                     Minus(YearCap, AdmittedIn(s, YearOf(s.dep[d].received))))))
  OBVIOUS
<1>2. s.dep[d] \in Tranches
  BY DEF Shape
<1>3. n \in Nat
  <2>1. TotalCap \in Int /\ YearCap \in Int /\ AutoCap \in Int
    BY PacingLimits
  <2>2. AdmissionLimit(s.dep[d]) \in Int /\ s.dep[d].admitted \in Int
    BY <1>2, <2>1 DEF AdmissionLimit, Tranches
  <2>3. Admitted(s) \in Int /\ AdmittedIn(s, YearOf(s.dep[d].received)) \in Int
    BY AdmittedType
  <2>4. /\ Minus(AdmissionLimit(s.dep[d]), s.dep[d].admitted) \in Nat
        /\ Minus(TotalCap, Admitted(s)) \in Nat
        /\ Minus(YearCap, AdmittedIn(s, YearOf(s.dep[d].received))) \in Nat
    BY <2>1, <2>2, <2>3, MinusType
  <2>5. Unadmitted(s.dep[d]) \in Nat
    BY <1>2 DEF Unadmitted, Minus, Tranches
  <2> QED BY <1>1, <2>4, <2>5, LeastType
<1>4. PICK t : t = AdmitDeposit(s, d)
  OBVIOUS
<1>5. /\ t = [s EXCEPT !.dep[d].admitted = @ + n]
  BY <1>1, <1>4 DEF AdmitDeposit
<1>6. /\ t = [err |-> s.err, through |-> s.through, dep |-> t.dep, wd |-> s.wd, dec |-> s.dec]
      /\ t.dep = [s.dep EXCEPT ![d] = [s.dep[d] EXCEPT !.admitted = @ + n]]
  BY <1>5 DEF Shape
<1>7. /\ DOMAIN t.dep = DOMAIN s.dep
      /\ t.dep[d] = [s.dep[d] EXCEPT !.admitted = @ + n]
      /\ \A e \in DOMAIN s.dep : e # d => t.dep[e] = s.dep[e]
  BY <1>6 DEF Shape
<1>8. /\ t.dep[d] \in Tranches
      /\ t.dep[d].admitted = s.dep[d].admitted + n
      /\ t.dep[d].received = s.dep[d].received /\ t.dep[d].approved = s.dep[d].approved
      /\ t.dep[d].invested = s.dep[d].invested /\ t.dep[d].committed = s.dep[d].committed
      /\ t.dep[d].withdrawn = s.dep[d].withdrawn
  BY <1>2, <1>3, <1>7 DEF Tranches
<1>9. Shape(t)
  BY <1>6, <1>7, <1>8 DEF Shape
<1>10. Bounded(t)
  BY <1>2, <1>3, <1>7, <1>8 DEF Bounded, Tranches
<1>11. Kin(t, s)
  BY <1>6, <1>7, <1>8 DEF Kin
<1>12. ASSUME NEW e \in DOMAIN s.dep PROVE Residual(s.dep[e]) <= Residual(t.dep[e])
  <2>1. s.dep[e] \in Tranches
    BY DEF Shape
  <2>2. CASE e = d
    <3>1. s.dep[d].invested + s.dep[d].committed + s.dep[d].withdrawn <= s.dep[d].admitted
      BY DEF Bounded
    <3> QED BY <1>2, <1>3, <1>8, <2>2, <3>1, ResidualIs DEF Tranches
  <2>3. CASE e # d
    BY <1>7, <2>1, <2>3, ResidualIs
  <2> QED BY <2>2, <2>3
<1>13. Free(s) <= Free(t) /\ Free(s) \in Nat /\ Free(t) \in Nat
  <2>1. DOMAIN s.dep \subseteq DOMAIN t.dep
    BY <1>7
  <2> QED BY <1>9, <1>12, <2>1, FreeGrows, FreeType
<1>14. Reserve(t)
  <2>1. Unspent(s) => Unspent(t)
    BY <1>7, <1>8 DEF Unspent
  <2>2. FixedReserve \in Nat
    BY PacingLimits
  <2> QED BY <1>13, <2>1, <2>2 DEF Reserve
<1>15. Fields(t)
  BY <1>9 DEF Shape, Fields
<1> QED BY <1>4, <1>9, <1>10, <1>11, <1>14, <1>15 DEF Replaying

-----------------------------------------------------------------------------
(* What a withdrawal takes *)

LEMMA PositiveSum ==
  ASSUME NEW R, IsFiniteSet(R), NEW f \in [R -> Nat], NEW h, h = Positive(f)
  PROVE  /\ DOMAIN h \subseteq R /\ IsFiniteSet(DOMAIN h) /\ h \in [DOMAIN h -> Nat]
         /\ \A x \in DOMAIN h : h[x] = f[x]
         /\ SumFunction(h) = SumFunction(f)
<1>1. h = [x \in {y \in R : f[y] > 0} |-> f[x]]
  BY DEF Positive, Restrict
<1>2. /\ DOMAIN h = {y \in R : f[y] > 0} /\ DOMAIN h \in SUBSET R
      /\ h \in [DOMAIN h -> Nat] /\ h \in [DOMAIN h -> Int] /\ f \in [R -> Int]
      /\ \A x \in DOMAIN h : f[x] = h[x]
      /\ \A x \in R \ DOMAIN h : f[x] = 0
  BY <1>1
<1>3. IsFiniteSet(DOMAIN h)
  BY <1>2, FS_Subset
<1>4. SumFunction(f) = SumFunction(h)
  BY <1>2, SumPad
<1> QED BY <1>2, <1>3, <1>4

LEMMA HorizonType ==
  ASSUME NEW tr \in Tranches
  PROVE  YearOf(tr.received) \in Nat /\ Horizon(tr) \in Int
<1>1. /\ DayLength \in Nat /\ DayLength > 0
      /\ YearLength \in Nat /\ YearLength > 0
  BY CalendarConstants, PacingLimits
<1>2. tr.received \in Nat
  BY DEF Tranches
<1>3. tr.received \div DayLength \in Nat
  BY <1>1, <1>2, DivBounds
<1>4. (tr.received \div DayLength) \div YearLength \in Nat
  BY <1>1, <1>3, DivBounds
<1> QED BY <1>1, <1>4 DEF Horizon, YearOf, DateOf

\* Deposits of a state by their horizons: each of them once.
LEMMA NearestLists ==
  ASSUME NEW s, Shape(s), NEW S \in SUBSET DOMAIN s.dep
  PROVE  \E n \in Nat : /\ NearestFirst(s, S) \in [1..n -> S]
                        /\ \A i, j \in 1..n : i < j => NearestFirst(s, S)[i] # NearestFirst(s, S)[j]
<1> DEFINE key == [d \in S |-> <<Horizon(s.dep[d]), s.dep[d].received>>]
<1>1. \A d \in S : Horizon(s.dep[d]) \in Int /\ s.dep[d].received \in Int
  BY HorizonType DEF Shape, Tranches
<1>2. Deposits \subseteq Nat
  BY PacingLimits
<1>3. DOMAIN key = S
  OBVIOUS
<1>4. Keys(key)
  BY <1>1, <1>2, <1>3 DEF Keys, Shape
<1>5. IsFiniteSet(DOMAIN key)
  BY <1>3, FS_Subset DEF Shape
<1>6. NearestFirst(s, S) = InOrder(key)
  BY DEF NearestFirst
<1> HIDE DEF key
<1> QED BY <1>3, <1>4, <1>5, <1>6, InOrderLists

\* What was frozen is returned again, and nothing but by a transfer.
Returning(ret, s, w) ==
  /\ Returnable(ret, w)
  /\ s.wd[w].isFrozen => ret = s.wd[w].frozen
  /\ w \notin Transfer => ret = <<>>

LEMMA ReturnsType ==
  ASSUME NEW s, Shape(s), NEW w \in DOMAIN s.wd
  PROVE  Returning(ReturnsOf(s, w), s, w)
<1>1. Movement(s.wd[w], w, DOMAIN s.dep) /\ w \in Withdrawals
  BY DEF Shape
<1>2. Amount[w] \in Nat
  BY <1>1, PacingLimits
<1>3. CASE s.wd[w].isFrozen
  BY <1>1, <1>3 DEF ReturnsOf, Movement, Returning
<1>4. CASE ~s.wd[w].isFrozen /\ w \notin Transfer
  <2>1. ReturnsOf(s, w) = <<>>
    BY <1>4, Zenon DEF ReturnsOf
  <2>2. /\ DOMAIN << >> = {} /\ << >> \in [DOMAIN << >> -> Nat]
    OBVIOUS
  <2>3. SumFunction(<< >>) = 0 /\ IsFiniteSet({})
    BY <2>2, SumEmpty, FS_EmptySet
  <2>4. ReturnsOf(s, w) \in [DOMAIN ReturnsOf(s, w) -> Nat] /\ IsFiniteSet(DOMAIN ReturnsOf(s, w))
    BY <2>1, <2>2, <2>3
  <2>5. SumFunction(ReturnsOf(s, w)) <= Amount[w]
    BY <1>2, <2>1, <2>3
  <2> QED BY <1>4, <2>1, <2>4, <2>5 DEF Returnable, Returning
<1>5. CASE ~s.wd[w].isFrozen /\ w \in Transfer
  <2> DEFINE older == {d \in DOMAIN s.dep : s.dep[d].received <= s.wd[w].occurred}
             key == [d \in older |-> <<s.dep[d].received, d>>]
             room == [d \in older |-> Unadmitted(s.dep[d])]
             p == Pour(Amount[w], InOrder(key), room)
  <2>1. IsFiniteSet(older) /\ DOMAIN key = older
    BY FS_Subset DEF Shape
  <2>2. Keys(key)
    <3>1. \A d \in older : s.dep[d].received \in Int /\ d \in Int
      BY PacingLimits DEF Shape, Tranches
    <3>2. key \in [older -> Int \X Int]
      BY <3>1
    <3> QED BY <2>1, <3>1, <3>2 DEF Keys
  <2>3. room \in [older -> Nat]
    BY DEF Shape, Tranches, Unadmitted, Minus
  <2>4. ReturnsOf(s, w) = Positive(p.took)
    BY <1>5 DEF ReturnsOf, ReturnsAfresh
  <2> HIDE DEF older, key, room
  <2>5. PICK n \in Nat : /\ InOrder(key) \in [1..n -> older]
                         /\ \A i, j \in 1..n : i < j => InOrder(key)[i] # InOrder(key)[j]
    BY <2>1, <2>2, InOrderLists
  <2>6. PouredOut(p, room, older, Amount[w])
    BY <1>2, <2>1, <2>3, <2>5, PourGives
  <2> HIDE DEF p
  <2>7. /\ p.took \in [older -> Nat] /\ p.left \in Nat
        /\ SumFunction(p.took) + p.left = Amount[w]
    BY <2>6 DEF PouredOut
  <2>8. SumFunction(p.took) \in Nat
    BY <2>1, <2>7, SumNat
  <2>9. PICK h : h = Positive(p.took)
    OBVIOUS
  <2>10. /\ IsFiniteSet(DOMAIN h) /\ h \in [DOMAIN h -> Nat]
         /\ SumFunction(h) = SumFunction(p.took)
    BY <2>1, <2>7, <2>9, PositiveSum
  <2>11. SumFunction(h) <= Amount[w]
    BY <1>2, <2>7, <2>8, <2>10
  <2>12. ReturnsOf(s, w) = h
    BY <2>4, <2>9
  <2> QED BY <1>5, <2>10, <2>11, <2>12 DEF Returnable, Returning
<1> QED BY <1>3, <1>4, <1>5

LEMMA ReturnedKeeps ==
  ASSUME NEW s, Shape(s), Bounded(s), Reserve(s), NEW ret, ret \in [DOMAIN ret -> Nat],
         NEW t, t = Returned(s, ret)
  PROVE  /\ Shape(t) /\ Bounded(t) /\ Reserve(t) /\ Kin(t, s)
         /\ Free(t) = Free(s) /\ t.wd = s.wd /\ t.err = s.err
         /\ Unspent(s) => Unspent(t)
<1>1. t = [s EXCEPT !.dep = [d \in DOMAIN s.dep |->
            IF d \in DOMAIN ret THEN [s.dep[d] EXCEPT !.returned = @ + ret[d]] ELSE s.dep[d]]]
  BY DEF Returned
<1>2. /\ t = [err |-> s.err, through |-> s.through, dep |-> t.dep, wd |-> s.wd, dec |-> s.dec]
      /\ t.dep = [d \in DOMAIN s.dep |->
            IF d \in DOMAIN ret THEN [s.dep[d] EXCEPT !.returned = @ + ret[d]] ELSE s.dep[d]]
      /\ DOMAIN t.dep = DOMAIN s.dep
  BY <1>1 DEF Shape
<1>3. ASSUME NEW d \in DOMAIN s.dep
      PROVE  /\ t.dep[d] \in Tranches
             /\ t.dep[d].admitted = s.dep[d].admitted
             /\ t.dep[d].received = s.dep[d].received /\ t.dep[d].approved = s.dep[d].approved
             /\ t.dep[d].invested = s.dep[d].invested /\ t.dep[d].committed = s.dep[d].committed
             /\ t.dep[d].withdrawn = s.dep[d].withdrawn
  <2>1. s.dep[d] \in Tranches
    BY DEF Shape
  <2>2. CASE d \in DOMAIN ret
    <3>1. t.dep[d] = [s.dep[d] EXCEPT !.returned = @ + ret[d]] /\ ret[d] \in Nat
      BY <1>2, <2>2
    <3> QED BY <2>1, <3>1 DEF Tranches
  <2>3. CASE d \notin DOMAIN ret
    BY <1>2, <2>1, <2>3
  <2> QED BY <2>2, <2>3
<1>4. Shape(t)
  <2>1. t.dep \in [DOMAIN t.dep -> Tranches]
    BY <1>2, <1>3
  <2> QED BY <1>2, <2>1 DEF Shape
<1>5. Bounded(t) /\ (Unspent(s) => Unspent(t)) /\ Kin(t, s)
  BY <1>2, <1>3 DEF Bounded, Unspent, Kin
<1>6. Free(t) = Free(s)
  <2>1. \A d \in DOMAIN s.dep : Residual(t.dep[d]) = Residual(s.dep[d])
    BY <1>3 DEF Residual
  <2>2. [d \in DOMAIN t.dep |-> Residual(t.dep[d])] = [d \in DOMAIN s.dep |-> Residual(s.dep[d])]
    BY <1>2, <2>1
  <2> QED BY <2>2 DEF Free
<1> QED BY <1>2, <1>4, <1>5, <1>6 DEF Reserve

\* Tranches that each give part of what they have left leave the rest.
LEMMA FreeAfter ==
  ASSUME NEW s, Shape(s), NEW t, Shape(t), DOMAIN t.dep = DOMAIN s.dep,
         NEW took \in [DOMAIN s.dep -> Nat],
         \A d \in DOMAIN s.dep : Residual(t.dep[d]) = Residual(s.dep[d]) - took[d]
  PROVE  Free(t) = Free(s) - SumFunction(took) /\ SumFunction(took) \in Nat
<1> DEFINE f == [d \in DOMAIN s.dep |-> Residual(s.dep[d])]
           h == [d \in DOMAIN s.dep |-> Residual(t.dep[d])]
<1>1. \A d \in DOMAIN s.dep : Residual(s.dep[d]) \in Nat /\ Residual(t.dep[d]) \in Nat
  BY ResidualIs DEF Shape
<1>2. /\ f \in [DOMAIN s.dep -> Int] /\ h \in [DOMAIN s.dep -> Int]
      /\ took \in [DOMAIN s.dep -> Int]
      /\ \A d \in DOMAIN s.dep : f[d] = h[d] + took[d]
  BY <1>1
<1>3. Free(s) = SumFunction(f) /\ Free(t) = SumFunction(h)
  BY DEF Free
<1>4. IsFiniteSet(DOMAIN s.dep)
  BY DEF Shape
<1> HIDE DEF f, h
<1>5. SumFunction(f) = SumFunction(h) + SumFunction(took)
  BY <1>2, <1>4, SumPlus
<1>6. SumFunction(took) \in Nat /\ SumFunction(h) \in Int
  BY <1>2, <1>4, SumNat, SumType
<1> QED BY <1>3, <1>5, <1>6

\* Tranches that together give no more than is free above the fixed reserve
\* leave it, whatever they give it for.
LEMMA ReserveAfter ==
  ASSUME NEW s, Shape(s), Reserve(s), NEW t, Shape(t), DOMAIN t.dep = DOMAIN s.dep,
         NEW took \in [DOMAIN s.dep -> Nat],
         \A d \in DOMAIN s.dep :
           /\ Residual(t.dep[d]) = Residual(s.dep[d]) - took[d]
           /\ t.dep[d].invested = s.dep[d].invested
           /\ t.dep[d].committed + t.dep[d].withdrawn
                = s.dep[d].committed + s.dep[d].withdrawn + took[d],
         SumFunction(took) <= Minus(Free(s), FixedReserve)
  PROVE  Reserve(t)
<1>1. Free(t) = Free(s) - SumFunction(took) /\ SumFunction(took) \in Nat /\ Free(s) \in Nat
  BY FreeAfter, FreeType
<1>2. FixedReserve \in Nat
  BY PacingLimits
<1>3. CASE Free(s) >= FixedReserve
  BY <1>1, <1>2, <1>3 DEF Reserve, Minus
<1>4. CASE Free(s) < FixedReserve
  <2>1. SumFunction(took) = 0
    BY <1>1, <1>2, <1>4 DEF Minus
  <2>2. \A d \in DOMAIN s.dep : took[d] <= 0
    BY <2>1, SumTerm DEF Shape
  <2>3. Unspent(s)
    BY <1>1, <1>2, <1>4 DEF Reserve
  <2>4. ASSUME NEW d \in DOMAIN t.dep
        PROVE  t.dep[d].invested = 0 /\ t.dep[d].committed = 0 /\ t.dep[d].withdrawn = 0
    <3>1. /\ t.dep[d].committed \in Nat /\ t.dep[d].withdrawn \in Nat /\ took[d] \in Nat
          /\ took[d] <= 0
      BY <2>2 DEF Shape, Tranches
    <3>2. s.dep[d].invested = 0 /\ s.dep[d].committed = 0 /\ s.dep[d].withdrawn = 0
      BY <2>3 DEF Unspent
    <3>3. /\ t.dep[d].invested = s.dep[d].invested
          /\ t.dep[d].committed + t.dep[d].withdrawn
               = s.dep[d].committed + s.dep[d].withdrawn + took[d]
      OBVIOUS
    <3>4. t.dep[d].committed + t.dep[d].withdrawn <= 0
      BY <3>1, <3>2, <3>3
    <3> QED BY <3>1, <3>2, <3>3, <3>4
  <2> QED BY <2>4 DEF Unspent, Reserve
<1> QED BY <1>1, <1>2, <1>3, <1>4

LEMMA WithdrawKeeps ==
  ASSUME NEW s, Shape(s), Bounded(s), Reserve(s), NEW w \in DOMAIN s.wd,
         NEW ret, Returning(ret, s, w),
         NEW took \in [DOMAIN s.dep -> Nat],
         \A d \in DOMAIN s.dep : took[d] <= Residual(s.dep[d]),
         SumFunction(took) <= Minus(Free(s), FixedReserve)
  PROVE  Replaying(Withdraw(s, w, ret, took), s)
<1>1. PICK t : t = Withdraw(s, w, ret, took)
  OBVIOUS
<1>2. PICK al : al = Positive(took)
  OBVIOUS
<1>3. t = [s EXCEPT
            !.dep = [d \in DOMAIN s.dep |-> [s.dep[d] EXCEPT !.withdrawn = @ + took[d]]],
            !.wd[w].applied = TRUE, !.wd[w].isFrozen = w \in Transfer,
            !.wd[w].frozen = ret, !.wd[w].alloc = al]
  BY <1>1, <1>2 DEF Withdraw
<1>4. /\ t = [err |-> s.err, through |-> s.through, dep |-> t.dep, wd |-> t.wd, dec |-> s.dec]
      /\ t.dep = [d \in DOMAIN s.dep |-> [s.dep[d] EXCEPT !.withdrawn = @ + took[d]]]
      /\ t.wd = [s.wd EXCEPT ![w] = [[[[s.wd[w] EXCEPT !.applied = TRUE]
                   EXCEPT !.isFrozen = w \in Transfer] EXCEPT !.frozen = ret] EXCEPT !.alloc = al]]
  <2>1. PICK P, D, X : s = [err |-> s.err, through |-> P, dep |-> D, wd |-> X, dec |-> s.dec]
    BY DEF Shape
  <2>2. s.through = P /\ s.dep = D /\ s.wd = X
    BY <2>1
  <2> QED BY ZenonT(60), <1>3, <2>1, <2>2
<1>5. ASSUME NEW d \in DOMAIN s.dep
      PROVE  /\ t.dep[d] \in Tranches
             /\ t.dep[d].admitted = s.dep[d].admitted
             /\ t.dep[d].received = s.dep[d].received /\ t.dep[d].approved = s.dep[d].approved
             /\ t.dep[d].invested = s.dep[d].invested /\ t.dep[d].committed = s.dep[d].committed
             /\ t.dep[d].withdrawn = s.dep[d].withdrawn + took[d]
  <2>1. s.dep[d] \in Tranches /\ took[d] \in Nat
    BY DEF Shape
  <2>2. t.dep[d] = [s.dep[d] EXCEPT !.withdrawn = @ + took[d]]
    BY <1>4
  <2> QED BY <2>1, <2>2 DEF Tranches
<1>6. /\ DOMAIN t.wd = DOMAIN s.wd
      /\ t.wd = [v \in DOMAIN t.wd |-> t.wd[v]]
      /\ \A v \in DOMAIN s.wd : v # w => t.wd[v] = s.wd[v]
      /\ t.wd[w] = [[[[s.wd[w] EXCEPT !.applied = TRUE]
                   EXCEPT !.isFrozen = w \in Transfer] EXCEPT !.frozen = ret] EXCEPT !.alloc = al]
  BY <1>4 DEF Shape
<1>7. /\ Movement(t.wd[w], w, DOMAIN s.dep) /\ t.wd[w].occurred = s.wd[w].occurred
      /\ t.wd[w].reconciled = s.wd[w].reconciled
      /\ s.wd[w].isFrozen => t.wd[w].isFrozen /\ t.wd[w].frozen = s.wd[w].frozen
  <2>1. Movement(s.wd[w], w, DOMAIN s.dep)
    BY DEF Shape
  <2>2. t.wd[w] = [occurred |-> s.wd[w].occurred, reconciled |-> s.wd[w].reconciled,
                   applied |-> TRUE, alloc |-> al, isFrozen |-> (w \in Transfer), frozen |-> ret]
    <3>1. PICK r : r = s.wd[w]
      OBVIOUS
    <3>2. r = [occurred |-> r.occurred, reconciled |-> r.reconciled, applied |-> r.applied,
               alloc |-> r.alloc, isFrozen |-> r.isFrozen, frozen |-> r.frozen]
      BY <2>1, <3>1 DEF Movement
    <3>3. t.wd[w] = [[[[r EXCEPT !.applied = TRUE]
                   EXCEPT !.isFrozen = w \in Transfer] EXCEPT !.frozen = ret] EXCEPT !.alloc = al]
      BY <1>6, <3>1, Zenon
    <3>4. t.wd[w] = [occurred |-> r.occurred, reconciled |-> r.reconciled,
                   applied |-> TRUE, alloc |-> al, isFrozen |-> (w \in Transfer), frozen |-> ret]
      BY <3>2, <3>3
    <3> QED BY <3>1, <3>4, Zenon
  <2>3. DOMAIN al \subseteq DOMAIN s.dep /\ al \in [DOMAIN al -> Nat]
    BY <1>2, PositiveSum DEF Shape
  <2>4. s.wd[w].isFrozen => w \in Transfer
    BY <2>1 DEF Movement
  <2>5. /\ t.wd[w].occurred = s.wd[w].occurred /\ t.wd[w].reconciled = s.wd[w].reconciled
        /\ t.wd[w].applied = TRUE /\ t.wd[w].alloc = al /\ t.wd[w].frozen = ret
        /\ t.wd[w].isFrozen = (w \in Transfer)
        /\ t.wd[w] = [occurred |-> t.wd[w].occurred, reconciled |-> t.wd[w].reconciled,
                      applied |-> t.wd[w].applied, alloc |-> t.wd[w].alloc,
                      isFrozen |-> t.wd[w].isFrozen, frozen |-> t.wd[w].frozen]
    BY <2>2
  <2>6. s.wd[w].occurred \in Nat /\ s.wd[w].reconciled \in Nat
    BY <2>1 DEF Movement
  <2>7. Movement(t.wd[w], w, DOMAIN s.dep)
    BY <2>3, <2>5, <2>6, Zenon DEF Movement, Returning
  <2> QED BY <2>4, <2>5, <2>7, Zenon DEF Returning
<1>8. \A v \in DOMAIN s.wd :
        /\ Movement(t.wd[v], v, DOMAIN s.dep) /\ t.wd[v].occurred = s.wd[v].occurred
        /\ t.wd[v].reconciled = s.wd[v].reconciled
        /\ s.wd[v].isFrozen => t.wd[v].isFrozen /\ t.wd[v].frozen = s.wd[v].frozen
  BY <1>6, <1>7 DEF Shape
<1>9. DOMAIN t.dep = DOMAIN s.dep /\ t.dep \in [DOMAIN t.dep -> Tranches]
  BY <1>4, <1>5
<1>10. Shape(t)
  BY <1>4, <1>6, <1>8, <1>9 DEF Shape
<1>11. \A d \in DOMAIN s.dep :
         /\ s.dep[d] \in Tranches /\ took[d] \in Nat
         /\ s.dep[d].invested + s.dep[d].committed + s.dep[d].withdrawn <= s.dep[d].admitted
  BY DEF Shape, Bounded
<1>12. \A d \in DOMAIN s.dep :
         /\ t.dep[d].invested + t.dep[d].committed + t.dep[d].withdrawn <= t.dep[d].admitted
         /\ Residual(t.dep[d]) = Residual(s.dep[d]) - took[d]
  <2> SUFFICES ASSUME NEW d \in DOMAIN s.dep
      PROVE  /\ t.dep[d].invested + t.dep[d].committed + t.dep[d].withdrawn <= t.dep[d].admitted
             /\ Residual(t.dep[d]) = Residual(s.dep[d]) - took[d]
    OBVIOUS
  <2>1. Residual(s.dep[d]) = s.dep[d].admitted - s.dep[d].invested - s.dep[d].committed - s.dep[d].withdrawn
    BY <1>11, ResidualIs
  <2>2. took[d] <= s.dep[d].admitted - s.dep[d].invested - s.dep[d].committed - s.dep[d].withdrawn
    BY <2>1
  <2>3. t.dep[d].invested + t.dep[d].committed + t.dep[d].withdrawn <= t.dep[d].admitted
    BY <1>5, <1>11, <2>2 DEF Tranches
  <2>4. Residual(t.dep[d]) = t.dep[d].admitted - t.dep[d].invested - t.dep[d].committed - t.dep[d].withdrawn
    BY <1>5, <2>3, ResidualIs
  <2>5. /\ s.dep[d].admitted \in Int /\ s.dep[d].invested \in Int /\ s.dep[d].committed \in Int
        /\ s.dep[d].withdrawn \in Int /\ took[d] \in Int
    BY <1>11 DEF Tranches
  <2>6. Residual(t.dep[d]) = s.dep[d].admitted - s.dep[d].invested - s.dep[d].committed
                               - (s.dep[d].withdrawn + took[d])
    BY <1>5, <2>4
  <2>7. Residual(t.dep[d]) = Residual(s.dep[d]) - took[d]
    BY <2>1, <2>5, <2>6
  <2> QED BY <2>3, <2>7
<1>13. Bounded(t) /\ Kin(t, s)
  <2>1. Bounded(t)
    BY <1>9, <1>12 DEF Bounded
  <2>2. t.through = s.through /\ t.dec = s.dec
    BY <1>4
  <2>3. Kin(t, s)
    BY <1>5, <1>6, <1>8, <1>9, <2>2 DEF Kin
  <2> QED BY <2>1, <2>3
<1>14. Reserve(t)
  <2>1. ASSUME NEW d \in DOMAIN s.dep
        PROVE  t.dep[d].committed + t.dep[d].withdrawn
                 = s.dep[d].committed + s.dep[d].withdrawn + took[d]
    BY <1>5, <1>11 DEF Tranches
  <2> QED BY <1>5, <1>9, <1>10, <1>12, <2>1, ReserveAfter
<1>15. Fields(t)
  BY <1>10 DEF Shape, Fields
<1> QED BY <1>1, <1>10, <1>13, <1>14, <1>15 DEF Replaying

LEMMA ApplyKeeps ==
  ASSUME NEW s, Shape(s), Bounded(s), Reserve(s), NEW w \in DOMAIN s.wd
  PROVE  Replaying(ApplyWithdrawal(s, w), s)
<1>1. PICK ret : ret = ReturnsOf(s, w)
  OBVIOUS
<1>2. Returnable(ret, w) /\ Returning(ret, s, w)
  BY <1>1, ReturnsType DEF Returning
<1>3. PICK u : u = Returned(s, ret)
  OBVIOUS
<1>4. /\ Shape(u) /\ Bounded(u) /\ Reserve(u) /\ Kin(u, s) /\ u.wd = s.wd /\ w \in DOMAIN u.wd
  BY <1>2, <1>3, ReturnedKeeps DEF Returnable
<1>5. PICK n : n = Amount[w] - SumFunction(ret)
  OBVIOUS
<1>6. n \in Nat
  <2>1. Amount[w] \in Nat
    BY PacingLimits DEF Shape
  <2>2. SumFunction(ret) \in Nat /\ SumFunction(ret) <= Amount[w]
    BY <1>2, SumNat DEF Returnable
  <2> QED BY <1>5, <2>1, <2>2
<1>7. CASE \E d \in DOMAIN ret: ret[d] > Unadmitted(s.dep[d])
  <2>1. ApplyWithdrawal(s, w) = Refuse(s, "corrupt")
    BY <1>1, <1>7 DEF ApplyWithdrawal, WithdrawReturning
  <2>2. Fields(Refuse(s, "corrupt")) /\ Refuse(s, "corrupt").err = "corrupt"
    BY Refused
  <2> QED BY <2>1, <2>2 DEF Replaying
<1>8. CASE ~\E d \in DOMAIN ret: ret[d] > Unadmitted(s.dep[d])
  <2>1. ApplyWithdrawal(s, w) = WithdrawAdmitted(u, w, ret, n)
    BY <1>1, <1>3, <1>5, <1>8 DEF ApplyWithdrawal, WithdrawReturning
  <2>2. CASE n > Minus(Free(u), FixedReserve)
    <3>1. ApplyWithdrawal(s, w) = Refuse(u, "exceeds free capital")
      BY <2>1, <2>2 DEF WithdrawAdmitted
    <3>2. /\ Fields(Refuse(u, "exceeds free capital"))
          /\ Refuse(u, "exceeds free capital").err = "exceeds free capital"
      BY <1>4, Refused
    <3> QED BY <3>1, <3>2 DEF Replaying
  <2>3. CASE ~(n > Minus(Free(u), FixedReserve))
    <3> DEFINE room == [d \in DOMAIN u.dep |-> Residual(u.dep[d])]
               ids == NearestFirst(u, DOMAIN u.dep)
    <3>1. ApplyWithdrawal(s, w) = Withdraw(u, w, ret, Pour(n, ids, room).took)
      BY <2>1, <2>3 DEF WithdrawAdmitted
    <3>2. room \in [DOMAIN u.dep -> Nat] /\ \A d \in DOMAIN u.dep : room[d] = Residual(u.dep[d])
      BY <1>4, ResidualIs DEF Shape
    <3>3. PICK len \in Nat : /\ ids \in [1..len -> DOMAIN u.dep]
                             /\ \A i, j \in 1..len : i < j => ids[i] # ids[j]
      BY <1>4, NearestLists
    <3> HIDE DEF room, ids
    <3>4. PICK p : p = Pour(n, ids, room)
      OBVIOUS
    <3>5. PouredOut(p, room, DOMAIN u.dep, n)
      BY <1>4, <1>6, <3>2, <3>3, <3>4, PourGives DEF Shape
    <3>6. PICK took : took = p.took
      OBVIOUS
    <3>7. /\ took \in [DOMAIN u.dep -> Nat]
          /\ \A d \in DOMAIN u.dep : took[d] <= Residual(u.dep[d])
          /\ SumFunction(took) + p.left = n /\ p.left \in Nat
      BY <3>2, <3>5, <3>6 DEF PouredOut
    <3>8. SumFunction(took) \in Nat
      BY <1>4, <3>7, SumNat DEF Shape
    <3>9. SumFunction(took) <= Minus(Free(u), FixedReserve)
      <4>1. Free(u) \in Int /\ FixedReserve \in Int
        BY <1>4, FreeType, PacingLimits
      <4>2. Minus(Free(u), FixedReserve) \in Nat
        BY <4>1, MinusType
      <4> QED BY <1>6, <2>3, <3>7, <3>8, <4>2
    <3>10. Replaying(Withdraw(u, w, ret, took), u)
      <4>1. Returning(ret, u, w)
        BY <1>2, <1>4 DEF Returning
      <4> QED BY <1>4, <3>7, <3>9, <4>1, WithdrawKeeps
    <3>11. ApplyWithdrawal(s, w) = Withdraw(u, w, ret, took)
      BY <3>1, <3>4, <3>6
    <3> QED BY <1>4, <3>10, <3>11, KinTransitive DEF Replaying
  <2> QED BY <2>2, <2>3
<1> QED BY <1>7, <1>8

\* One movement or deposit replayed.
LEMMA ReplayOneKeeps ==
  ASSUME NEW r, NEW s, Replaying(s, r), NEW id,
         s.err = "none" => id \in DOMAIN s.dep \/ id \in DOMAIN s.wd
  PROVE  Replaying(ReplayOne(s, id), r)
<1>1. CASE s.err # "none"
  BY <1>1 DEF ReplayOne
<1>2. CASE s.err = "none"
  <2>1. Shape(s) /\ Bounded(s) /\ Reserve(s) /\ Kin(s, r)
    BY <1>2 DEF Replaying
  <2>2. CASE id \in Deposits
    <3>1. id \in DOMAIN s.dep
      BY <1>2, <2>1, <2>2, PacingLimits DEF Shape
    <3>2. Replaying(AdmitDeposit(s, id), s)
      BY <2>1, <3>1, AdmitKeeps
    <3>3. ReplayOne(s, id) = AdmitDeposit(s, id)
      BY <1>2, <2>2 DEF ReplayOne
    <3> QED BY <2>1, <3>2, <3>3, KinTransitive DEF Replaying
  <2>3. CASE id \notin Deposits
    <3>1. id \in DOMAIN s.wd
      BY <1>2, <2>1, <2>3 DEF Shape
    <3>2. Replaying(ApplyWithdrawal(s, id), s)
      BY <2>1, <3>1, ApplyKeeps
    <3>3. ReplayOne(s, id) = ApplyWithdrawal(s, id)
      BY <1>2, <2>3 DEF ReplayOne
    <3> QED BY <2>1, <3>2, <3>3, KinTransitive DEF Replaying
  <2> QED BY <2>2, <2>3
<1> QED BY <1>1, <1>2

LEMMA ReplayAllKeeps ==
  ASSUME NEW s, s.err = "none", Shape(s), Bounded(s), Reserve(s), NEW n \in Nat,
         NEW ids \in [1..n -> DOMAIN s.dep \cup DOMAIN s.wd]
  PROVE  Replaying(ReplayAll(s, ids), s)
<1>0. PICK st : ReplayRun(st, s, ids, n)
  <2>1. DOMAIN ids = 1..n
    OBVIOUS
  <2> QED BY <2>1, ReplaySteps
<1>1. /\ st[0] = s /\ ReplayAll(s, ids) = st[n]
      /\ \A k, m \in 0..n : m = k + 1 => st[m] = ReplayOne(st[k], ids[m])
  BY <1>0 DEF ReplayRun
<1> DEFINE T == {k \in Nat : k <= n => Replaying(st[k], s)}
<1>2. 0 \in T
  <2>1. Kin(s, s)
    BY DEF Kin
  <2>2. Fields(s)
    BY DEF Shape, Fields
  <2> QED BY <1>1, <2>1, <2>2 DEF Replaying
<1>3. ASSUME NEW k \in Nat, NEW m \in Nat, k \in T, m = k + 1, m <= n PROVE Replaying(st[m], s)
  <2>1. Replaying(st[k], s) /\ k \in 0..n /\ m \in 0..n /\ m \in 1..n
    BY <1>3
  <2>2. st[m] = ReplayOne(st[k], ids[m])
    BY <1>1, <1>3, <2>1
  <2>3. ids[m] \in DOMAIN s.dep \cup DOMAIN s.wd
    BY <2>1
  <2>4. st[k].err = "none" => ids[m] \in DOMAIN st[k].dep \/ ids[m] \in DOMAIN st[k].wd
    BY <2>1, <2>3 DEF Replaying, Kin
  <2> QED BY <2>1, <2>2, <2>4, ReplayOneKeeps
<1>4. \A k, m \in Nat : k \in T /\ m = k + 1 => m \in T
  BY <1>3
<1>5. n \in T
  <2> HIDE DEF T
  <2>1. Nat \subseteq T
    BY <1>2, <1>4, Inductive
  <2> QED BY <2>1
<1> QED BY <1>1, <1>5

LEMMA UsableType ==
  ASSUME NEW tr \in Tranches
  PROVE  UsableAt(tr) \in Int
<1>1. Cooldown \in Nat
  BY PacingLimits
<1> QED BY <1>1 DEF UsableAt, Most, Tranches

LEMMA TimelineLists ==
  ASSUME NEW s, Shape(s), NEW at
  PROVE  \E n \in Nat : Timeline(s, at) \in [1..n -> DOMAIN s.dep \cup DOMAIN s.wd]
<1> DEFINE usable == {d \in DOMAIN s.dep: UsableBy(s.dep[d], at)}
           known  == {w \in DOMAIN s.wd: s.wd[w].reconciled <= at}
           key == [id \in usable \cup known |->
                     IF id \in usable THEN <<UsableAt(s.dep[id]), 0>>
                                      ELSE <<s.wd[id].occurred, 1>>]
<1>1. /\ \A d \in usable : UsableAt(s.dep[d]) \in Int
      /\ \A w \in known : s.wd[w].occurred \in Int
  BY UsableType DEF Shape, Movement
<1>2. key \in [usable \cup known -> Int \X Int] /\ DOMAIN key = usable \cup known
  BY <1>1
<1>3. usable \cup known \subseteq Int
  BY PacingLimits DEF Shape
<1>4. IsFiniteSet(usable \cup known)
  <2>1. IsFiniteSet(usable) /\ IsFiniteSet(known)
    BY FS_Subset DEF Shape
  <2> QED BY <2>1, FS_Union
<1>5. Timeline(s, at) = InOrder(key)
  BY DEF Timeline
<1>6. usable \cup known \subseteq DOMAIN s.dep \cup DOMAIN s.wd
  OBVIOUS
<1> HIDE DEF usable, known, key
<1>7. Keys(key) /\ IsFiniteSet(DOMAIN key)
  BY <1>2, <1>3, <1>4 DEF Keys
<1>8. PICK n \in Nat : InOrder(key) \in [1..n -> DOMAIN key]
  BY <1>7, InOrderLists
<1> QED BY <1>2, <1>5, <1>6, <1>8

-----------------------------------------------------------------------------
(* What the cycles keep *)

\* The venue and the operator: what happened is at most now.
Venue ==
  /\ world \in Worlds /\ now \in Nat
  /\ IsFiniteSet(DOMAIN occurred) /\ DOMAIN occurred \subseteq Deposits \cup Withdrawals
  /\ occurred \in [DOMAIN occurred -> 0 .. now]
  /\ DOMAIN approvals \subseteq DOMAIN occurred \cap Deposits
  /\ \A d \in DOMAIN approvals : approvals[d].at \in Nat /\ approvals[d].max \in Int

\* A pacing state says of every movement what happened, knows no approval that
\* was not given, and counts no movement as known later than at.
Known(s, at) ==
  /\ \A d \in DOMAIN s.dep :
       /\ d \in DOMAIN occurred /\ s.dep[d].received = occurred[d]
       /\ s.dep[d].approved # Never
          => d \in DOMAIN approvals /\ s.dep[d].approved = approvals[d].at
  /\ \A w \in DOMAIN s.wd :
       /\ w \in DOMAIN occurred /\ s.wd[w].occurred = occurred[w]
       /\ s.wd[w].reconciled <= at

\* What a decision draws on had been approved and had cooled down.
Honoured(s) ==
  \A x \in DOMAIN s.dec : \A d \in DOMAIN s.dec[x].alloc :
    /\ d \in DOMAIN approvals /\ approvals[d].at <= Boundary(x)
    /\ d \in DOMAIN occurred /\ occurred[d] + Cooldown <= Boundary(x)

Sound(s) ==
  /\ s.err = "none" /\ Shape(s) /\ Valid(s) /\ Reserve(s)
  /\ Known(s, s.through) /\ Honoured(s)

\* The batch of a scan, for a state reconciled up to at.
Batch(b, s, at) ==
  /\ IsFiniteSet(DOMAIN b.dep) /\ DOMAIN b.dep \subseteq DOMAIN occurred \cap Deposits
  /\ \A d \in DOMAIN b.dep :
       /\ b.dep[d].received = occurred[d]
       /\ b.dep[d].approved \in Int /\ b.dep[d].max \in Int
       /\ b.dep[d].approved # Never
          => d \in DOMAIN approvals /\ b.dep[d].approved = approvals[d].at
  /\ IsFiniteSet(DOMAIN b.wd) /\ DOMAIN b.wd \subseteq DOMAIN occurred \cap Withdrawals
  /\ \A w \in DOMAIN b.wd :
       /\ b.wd[w].occurred = occurred[w] /\ b.wd[w].reconciled \in Nat
       /\ w \notin DOMAIN s.wd => b.wd[w].reconciled <= at

\* Recording a batch changes no amount of a tranche.
Extends(t, s, b) ==
  /\ t.err = s.err /\ t.through = s.through /\ t.dec = s.dec
  /\ DOMAIN t.dep = DOMAIN s.dep \cup DOMAIN b.dep
  /\ DOMAIN t.wd = DOMAIN s.wd \cup DOMAIN b.wd
  /\ \A w \in DOMAIN s.wd : t.wd[w] = s.wd[w]
  /\ \A d \in DOMAIN s.dep :
       /\ t.dep[d].admitted = s.dep[d].admitted /\ t.dep[d].withdrawn = s.dep[d].withdrawn
       /\ t.dep[d].invested = s.dep[d].invested /\ t.dep[d].committed = s.dep[d].committed
  /\ \A d \in DOMAIN b.dep \ DOMAIN s.dep :
       /\ t.dep[d].admitted = 0 /\ t.dep[d].withdrawn = 0
       /\ t.dep[d].invested = 0 /\ t.dep[d].committed = 0

LEMMA UpsertKeeps ==
  ASSUME Venue, NEW s, Shape(s), NEW at \in Nat, Known(s, at), NEW b, Batch(b, s, at),
         NEW t, t = Upsert(s, b)
  PROVE  Shape(t) /\ Extends(t, s, b) /\ Known(t, at)
<1>1. /\ t = [err |-> s.err, through |-> s.through, dep |-> t.dep, wd |-> t.wd, dec |-> s.dec]
      /\ t.dep = [d \in DOMAIN s.dep \cup DOMAIN b.dep |->
           IF d \notin DOMAIN b.dep THEN s.dep[d]
           ELSE IF d \in DOMAIN s.dep
                THEN [s.dep[d] EXCEPT !.approved = b.dep[d].approved, !.max = b.dep[d].max]
                ELSE NewTranche(d, b.dep[d].received, b.dep[d].approved, b.dep[d].max)]
      /\ t.wd = [w \in DOMAIN s.wd \cup DOMAIN b.wd |->
           IF w \in DOMAIN s.wd THEN s.wd[w]
           ELSE [occurred |-> b.wd[w].occurred, reconciled |-> b.wd[w].reconciled,
                 applied |-> FALSE, alloc |-> <<>>, isFrozen |-> FALSE, frozen |-> <<>>]]
  BY DEF Upsert, Shape
<1>2. /\ DOMAIN t.dep = DOMAIN s.dep \cup DOMAIN b.dep
      /\ DOMAIN t.wd = DOMAIN s.wd \cup DOMAIN b.wd
      /\ t.err = s.err /\ t.through = s.through /\ t.dec = s.dec
      /\ t = [err |-> t.err, through |-> t.through, dep |-> t.dep, wd |-> t.wd, dec |-> t.dec]
      /\ t.wd = [w \in DOMAIN t.wd |-> t.wd[w]] /\ t.dep = [d \in DOMAIN t.dep |-> t.dep[d]]
  <2>1. DOMAIN t.dep = DOMAIN s.dep \cup DOMAIN b.dep
    BY ZenonT(60), <1>1
  <2>2. DOMAIN t.wd = DOMAIN s.wd \cup DOMAIN b.wd
    BY <1>1
  <2>3. t.wd = [w \in DOMAIN t.wd |-> t.wd[w]]
    BY <1>1
  <2>4. t.dep = [d \in DOMAIN t.dep |-> t.dep[d]]
    BY <1>1
  <2>5. t.err = s.err /\ t.through = s.through /\ t.dec = s.dec
    <3>1. PICK D, W : t = [err |-> s.err, through |-> s.through, dep |-> D, wd |-> W, dec |-> s.dec]
      BY ZenonT(60), <1>1
    <3> QED BY SMTT(60), <3>1
  <2>6. t = [err |-> t.err, through |-> t.through, dep |-> t.dep, wd |-> t.wd, dec |-> t.dec]
    BY <1>1
  <2> QED BY SMTT(60), <2>1, <2>2, <2>3, <2>4, <2>5, <2>6
<1>3. \A m \in DOMAIN occurred : occurred[m] \in Nat
  BY DEF Venue
<1>4. ASSUME NEW d \in DOMAIN s.dep
      PROVE  /\ t.dep[d] \in Tranches
             /\ t.dep[d].admitted = s.dep[d].admitted /\ t.dep[d].withdrawn = s.dep[d].withdrawn
             /\ t.dep[d].invested = s.dep[d].invested /\ t.dep[d].committed = s.dep[d].committed
             /\ t.dep[d].received = s.dep[d].received
             /\ t.dep[d].approved = IF d \in DOMAIN b.dep THEN b.dep[d].approved
                                    ELSE s.dep[d].approved
  <2>1. s.dep[d] \in Tranches
    BY DEF Shape
  <2>2. CASE d \in DOMAIN b.dep
    <3>1. t.dep[d] = [s.dep[d] EXCEPT !.approved = b.dep[d].approved, !.max = b.dep[d].max]
      BY <1>1, <2>2
    <3>2. b.dep[d].approved \in Int /\ b.dep[d].max \in Int
      BY SMTT(60), <2>2 DEF Batch
    <3> QED BY <2>1, <2>2, <3>1, <3>2 DEF Tranches
  <2>3. CASE d \notin DOMAIN b.dep
    BY <1>1, <2>1, <2>3
  <2> QED BY <2>2, <2>3
<1>5. ASSUME NEW d \in DOMAIN b.dep, d \notin DOMAIN s.dep
      PROVE  /\ t.dep[d] \in Tranches
             /\ t.dep[d].admitted = 0 /\ t.dep[d].withdrawn = 0
             /\ t.dep[d].invested = 0 /\ t.dep[d].committed = 0
             /\ t.dep[d].received = b.dep[d].received /\ t.dep[d].approved = b.dep[d].approved
  <2>1. t.dep[d] = NewTranche(d, b.dep[d].received, b.dep[d].approved, b.dep[d].max)
    BY <1>1, <1>5
  <2>2. /\ d \in Deposits /\ b.dep[d].received \in Nat
        /\ b.dep[d].approved \in Int /\ b.dep[d].max \in Int
    BY <1>3, <1>5 DEF Batch
  <2>3. Amount[d] \in Nat
    BY <2>2, PacingLimits
  <2> QED BY <2>1, <2>2, <2>3 DEF NewTranche, Tranches
<1>6. ASSUME NEW w \in DOMAIN t.wd
      PROVE  /\ Movement(t.wd[w], w, DOMAIN t.dep) /\ w \in DOMAIN occurred
             /\ t.wd[w].occurred = occurred[w] /\ t.wd[w].reconciled <= at
  <2>1. CASE w \in DOMAIN s.wd
    <3>1. /\ t.wd[w] = s.wd[w] /\ Movement(s.wd[w], w, DOMAIN s.dep)
          /\ w \in DOMAIN occurred /\ t.wd[w].occurred = occurred[w] /\ t.wd[w].reconciled <= at
      BY ZenonT(60), <1>1, <2>1 DEF Shape, Known
    <3> QED BY <1>2, <3>1 DEF Movement
  <2>2. CASE w \notin DOMAIN s.wd
    <3>1. t.wd[w] = [occurred |-> b.wd[w].occurred, reconciled |-> b.wd[w].reconciled,
                     applied |-> FALSE, alloc |-> <<>>, isFrozen |-> FALSE, frozen |-> <<>>]
      BY <1>1, <1>2, <2>2
    <3>2. /\ w \in DOMAIN occurred /\ b.wd[w].occurred = occurred[w]
          /\ b.wd[w].reconciled \in Nat /\ b.wd[w].reconciled <= at
      BY <1>2, <2>2 DEF Batch
    <3>3. DOMAIN << >> = {} /\ << >> \in [DOMAIN << >> -> Nat]
      OBVIOUS
    <3> QED BY <1>3, <3>1, <3>2, <3>3 DEF Movement
  <2> QED BY SMTT(60), <2>1, <2>2
<1>7. Shape(t)
  <2>1. t.dep \in [DOMAIN t.dep -> Tranches]
    BY <1>2, <1>4, <1>5
  <2>2. IsFiniteSet(DOMAIN t.dep) /\ IsFiniteSet(DOMAIN t.wd)
    <3>1. /\ IsFiniteSet(DOMAIN s.dep) /\ IsFiniteSet(DOMAIN b.dep)
          /\ IsFiniteSet(DOMAIN s.wd) /\ IsFiniteSet(DOMAIN b.wd)
      BY DEF Shape, Batch
    <3>2. IsFiniteSet(DOMAIN s.dep \cup DOMAIN b.dep) /\ IsFiniteSet(DOMAIN s.wd \cup DOMAIN b.wd)
      BY <3>1, FS_Union
    <3> QED BY <1>2, <3>2, Zenon
  <2>3. DOMAIN t.dep \subseteq Deposits /\ DOMAIN t.wd \subseteq Withdrawals
    BY <1>2 DEF Shape, Batch
  <2>4. t.through \in Int /\ IsFiniteSet(DOMAIN t.dec) /\ t.dec = [x \in DOMAIN t.dec |-> t.dec[x]]
        /\ \A x \in DOMAIN t.dec : Decision(t.dec[x], DOMAIN s.dep)
    BY <1>2 DEF Shape
  <2>5. \A x \in DOMAIN t.dec : Decision(t.dec[x], DOMAIN t.dep)
    BY <1>2, <2>4 DEF Decision
  <2> QED BY <1>2, <1>6, <2>1, <2>2, <2>3, <2>4, <2>5 DEF Shape
<1>8. Extends(t, s, b)
  <2>1. \A w \in DOMAIN s.wd : t.wd[w] = s.wd[w]
    BY ZenonT(60), <1>1
  <2> QED BY <1>2, <1>4, <1>5, <2>1 DEF Extends
<1>9. Known(t, at)
  <2>1. ASSUME NEW d \in DOMAIN t.dep
        PROVE  /\ d \in DOMAIN occurred /\ t.dep[d].received = occurred[d]
               /\ t.dep[d].approved # Never
                  => d \in DOMAIN approvals /\ t.dep[d].approved = approvals[d].at
    <3>1. CASE d \in DOMAIN s.dep
      BY <1>4, <3>1 DEF Known, Batch
    <3>2. CASE d \notin DOMAIN s.dep
      BY <1>2, <1>5, <3>2 DEF Batch
    <3> QED BY <3>1, <3>2
  <2> QED BY <1>6, <2>1 DEF Known
<1> QED BY <1>7, <1>8, <1>9

LEMMA ResetKeeps ==
  ASSUME NEW s, Shape(s), NEW floor, \A d \in DOMAIN floor : floor[d] \in Nat,
         NEW t, t = Reset(s, floor)
  PROVE  /\ Shape(t) /\ Bounded(t) /\ Kin(t, s) /\ t.err = s.err
         /\ \A d \in DOMAIN s.dep :
              /\ t.dep[d] \in Tranches /\ t.dep[d].withdrawn = 0
              /\ t.dep[d].admitted >= s.dep[d].invested + s.dep[d].committed
              /\ d \in DOMAIN floor => t.dep[d].admitted >= floor[d]
<1>0. PICK held : held = [d \in DOMAIN s.dep |->
                            Most(s.dep[d].invested + s.dep[d].committed,
                                 IF d \in DOMAIN floor THEN floor[d] ELSE 0)]
  OBVIOUS
<1>1. /\ t = [err |-> s.err, through |-> s.through, dep |-> t.dep, wd |-> t.wd, dec |-> s.dec]
      /\ t.dep = [d \in DOMAIN s.dep |-> [s.dep[d] EXCEPT
                   !.admitted = held[d], !.withdrawn = 0, !.returned = 0]]
      /\ t.wd = [w \in DOMAIN s.wd |-> [s.wd[w] EXCEPT !.applied = FALSE, !.alloc = <<>>]]
  BY <1>0 DEF Reset, Shape
<1>2. ASSUME NEW d \in DOMAIN s.dep
      PROVE  /\ held[d] \in Nat /\ held[d] >= s.dep[d].invested + s.dep[d].committed
             /\ d \in DOMAIN floor => held[d] >= floor[d]
  <2>1. s.dep[d].invested \in Nat /\ s.dep[d].committed \in Nat
    BY DEF Shape, Tranches
  <2> QED BY <1>0, <2>1 DEF Most
<1>3. ASSUME NEW d \in DOMAIN s.dep
      PROVE  /\ t.dep[d] \in Tranches /\ t.dep[d].withdrawn = 0 /\ t.dep[d].admitted = held[d]
             /\ t.dep[d].received = s.dep[d].received /\ t.dep[d].approved = s.dep[d].approved
             /\ t.dep[d].invested = s.dep[d].invested /\ t.dep[d].committed = s.dep[d].committed
  <2>1. s.dep[d] \in Tranches
    BY DEF Shape
  <2>2. t.dep[d] = [s.dep[d] EXCEPT !.admitted = held[d], !.withdrawn = 0, !.returned = 0]
    BY <1>1
  <2>3. held[d] \in Nat
    BY <1>2
  <2>4. t.dep[d] = [amount |-> s.dep[d].amount, received |-> s.dep[d].received,
                    approved |-> s.dep[d].approved, max |-> s.dep[d].max,
                    admitted |-> held[d], invested |-> s.dep[d].invested,
                    committed |-> s.dep[d].committed, withdrawn |-> 0, returned |-> 0]
    BY <2>1, <2>2 DEF Tranches
  <2> QED BY <2>1, <2>3, <2>4 DEF Tranches
<1>4. ASSUME NEW w \in DOMAIN s.wd
      PROVE  /\ Movement(t.wd[w], w, DOMAIN s.dep) /\ t.wd[w].occurred = s.wd[w].occurred
             /\ t.wd[w].reconciled = s.wd[w].reconciled
             /\ t.wd[w].isFrozen = s.wd[w].isFrozen /\ t.wd[w].frozen = s.wd[w].frozen
  <2>1. Movement(s.wd[w], w, DOMAIN s.dep)
    BY DEF Shape
  <2>2. t.wd[w] = [s.wd[w] EXCEPT !.applied = FALSE, !.alloc = <<>>]
    BY <1>1
  <2>3. t.wd[w] = [occurred |-> s.wd[w].occurred, reconciled |-> s.wd[w].reconciled,
                   applied |-> FALSE, alloc |-> <<>>, isFrozen |-> s.wd[w].isFrozen,
                   frozen |-> s.wd[w].frozen]
    BY <2>1, <2>2 DEF Movement
  <2>4. DOMAIN << >> = {} /\ << >> \in [DOMAIN << >> -> Nat]
    OBVIOUS
  <2> QED BY <2>1, <2>3, <2>4 DEF Movement
<1>5. /\ DOMAIN t.dep = DOMAIN s.dep /\ DOMAIN t.wd = DOMAIN s.wd
      /\ t.wd = [w \in DOMAIN t.wd |-> t.wd[w]] /\ t.dep = [d \in DOMAIN t.dep |-> t.dep[d]]
      /\ t.err = s.err /\ t.through = s.through /\ t.dec = s.dec
      /\ t = [err |-> t.err, through |-> t.through, dep |-> t.dep, wd |-> t.wd, dec |-> t.dec]
  <2>1. DOMAIN t.dep = DOMAIN s.dep /\ DOMAIN t.wd = DOMAIN s.wd
    BY <1>1
  <2>2. t.wd = [w \in DOMAIN t.wd |-> t.wd[w]]
    BY ZenonT(60), <1>1
  <2>3. t.dep = [d \in DOMAIN t.dep |-> t.dep[d]]
    BY <1>1
  <2>4. t.err = s.err /\ t.through = s.through /\ t.dec = s.dec
    <3>1. PICK D, W : t = [err |-> s.err, through |-> s.through, dep |-> D, wd |-> W, dec |-> s.dec]
      BY <1>1
    <3> QED BY <3>1
  <2>5. t = [err |-> t.err, through |-> t.through, dep |-> t.dep, wd |-> t.wd, dec |-> t.dec]
    BY <1>1
  <2> QED BY <2>1, <2>2, <2>3, <2>4, <2>5
<1>6. t.dep \in [DOMAIN t.dep -> Tranches]
  BY <1>3, <1>5
<1>7. Shape(t)
  BY <1>4, <1>5, <1>6 DEF Shape
<1>8. Kin(t, s)
  BY <1>3, <1>4, <1>5 DEF Kin
<1>9. Bounded(t)
  <2> SUFFICES ASSUME NEW d \in DOMAIN s.dep
      PROVE  t.dep[d].invested + t.dep[d].committed + t.dep[d].withdrawn <= t.dep[d].admitted
    BY <1>5 DEF Bounded
  <2> QED BY <1>2, <1>3 DEF Tranches
<1> QED BY <1>2, <1>3, <1>5, <1>7, <1>8, <1>9

\* Recording a batch and falling back to what had been admitted leaves no less
\* free than there was.
LEMMA BaseKeeps ==
  ASSUME Venue, NEW s, Sound(s), NEW at \in Nat, s.through <= at, NEW b, Batch(b, s, at),
         NEW u, u = Upsert(s, b), NEW t, t = Reset(u, Floors(s))
  PROVE  /\ t.err = "none" /\ Shape(t) /\ Bounded(t) /\ Reserve(t) /\ Kin(t, u)
         /\ Shape(u) /\ Extends(u, s, b) /\ Known(u, at)
<1>1. Shape(s) /\ s.err = "none" /\ Valid(s) /\ Reserve(s)
  BY DEF Sound
<1>2. Known(s, at)
  <2>1. s.through \in Int /\ \A w \in DOMAIN s.wd : s.wd[w].reconciled \in Int
    BY <1>1 DEF Shape, Movement
  <2> QED BY <2>1 DEF Sound, Known
<1>3. Shape(u) /\ Extends(u, s, b) /\ Known(u, at)
  BY <1>1, <1>2, UpsertKeeps
<1>4. /\ DOMAIN Floors(s) = DOMAIN s.dep
      /\ \A d \in DOMAIN s.dep : Floors(s)[d] = s.dep[d].admitted /\ s.dep[d].admitted \in Nat
  BY <1>1 DEF Floors, Shape, Tranches
<1>5. /\ Shape(t) /\ Bounded(t) /\ Kin(t, u) /\ t.err = u.err
      /\ \A d \in DOMAIN u.dep :
           /\ t.dep[d] \in Tranches /\ t.dep[d].withdrawn = 0
           /\ t.dep[d].admitted >= u.dep[d].invested + u.dep[d].committed
           /\ d \in DOMAIN s.dep => t.dep[d].admitted >= s.dep[d].admitted
  BY <1>3, <1>4, ResetKeeps
<1>6. t.err = "none"
  BY <1>1, <1>3, <1>5 DEF Extends
<1>7. DOMAIN s.dep \subseteq DOMAIN t.dep
  BY <1>3, <1>5 DEF Extends, Kin
<1>8. ASSUME NEW d \in DOMAIN s.dep PROVE Residual(s.dep[d]) <= Residual(t.dep[d])
  <2>1. /\ s.dep[d] \in Tranches /\ t.dep[d] \in Tranches
        /\ s.dep[d].invested + s.dep[d].committed + s.dep[d].withdrawn <= s.dep[d].admitted
        /\ t.dep[d].invested + t.dep[d].committed + t.dep[d].withdrawn <= t.dep[d].admitted
    BY <1>1, <1>5, <1>7 DEF Shape, Valid, Bounded
  <2>2. /\ t.dep[d].invested = s.dep[d].invested /\ t.dep[d].committed = s.dep[d].committed
        /\ t.dep[d].withdrawn = 0 /\ t.dep[d].admitted >= s.dep[d].admitted
    BY <1>3, <1>5 DEF Extends, Kin
  <2>3. /\ Residual(s.dep[d]) = s.dep[d].admitted - s.dep[d].invested - s.dep[d].committed - s.dep[d].withdrawn
        /\ Residual(t.dep[d]) = t.dep[d].admitted - t.dep[d].invested - t.dep[d].committed - t.dep[d].withdrawn
    BY <2>1, ResidualIs
  <2>4. /\ s.dep[d].admitted \in Int /\ s.dep[d].invested \in Int /\ s.dep[d].committed \in Int
        /\ s.dep[d].withdrawn \in Nat /\ t.dep[d].admitted \in Int
    BY <2>1 DEF Tranches
  <2> QED BY <2>2, <2>3, <2>4
<1>9. Free(s) <= Free(t) /\ Free(s) \in Nat /\ Free(t) \in Nat
  BY <1>1, <1>5, <1>7, <1>8, FreeGrows, FreeType
<1>10. Reserve(t)
  <2>1. CASE Unspent(s)
    <3>1. ASSUME NEW d \in DOMAIN t.dep
          PROVE  t.dep[d].invested = 0 /\ t.dep[d].committed = 0 /\ t.dep[d].withdrawn = 0
      <4>1. d \in DOMAIN u.dep /\ t.dep[d].withdrawn = 0
            /\ t.dep[d].invested = u.dep[d].invested /\ t.dep[d].committed = u.dep[d].committed
        BY <1>5 DEF Kin
      <4>2. CASE d \in DOMAIN s.dep
        BY <1>3, <2>1, <4>1, <4>2 DEF Extends, Unspent
      <4>3. CASE d \notin DOMAIN s.dep
        BY <1>3, <4>1, <4>3 DEF Extends
      <4> QED BY <4>2, <4>3
    <3> QED BY <3>1 DEF Reserve, Unspent
  <2>2. CASE Free(s) >= FixedReserve
    <3>1. FixedReserve \in Nat
      BY PacingLimits
    <3> QED BY <1>9, <2>2, <3>1 DEF Reserve
  <2> QED BY <1>1, <2>1, <2>2 DEF Reserve
<1> QED BY <1>3, <1>5, <1>6, <1>10

\* Reconciling a batch gives a sound state, as of its time, with the movements
\* of the batch and the decisions there were; or it is refused.
LEMMA ReconcileKeeps ==
  ASSUME Venue, NEW s, Sound(s), NEW at \in Nat, NEW b, Batch(b, s, at),
         NEW t, t = Reconcile(s, b, at), t.err = "none"
  PROVE  /\ Sound(t) /\ t.through = at /\ t.dec = s.dec
         /\ DOMAIN t.dep = DOMAIN s.dep \cup DOMAIN b.dep
         /\ DOMAIN t.wd = DOMAIN s.wd \cup DOMAIN b.wd
         /\ \A w \in DOMAIN s.wd : t.wd[w].frozen = s.wd[w].frozen
<1>1. Shape(s) /\ s.err = "none" /\ s.through \in Int
  BY DEF Sound, Shape
<1>2. Refuse(s, "time regressed").err # "none" /\ Refuse(s, "conflicting event").err # "none"
  <2>1. Refuse(s, "time regressed").err = "time regressed"
    BY <1>1, Refused
  <2>2. Refuse(s, "conflicting event").err = "conflicting event"
    BY <1>1, Refused
  <2> QED BY <2>1, <2>2
<1>3. s.through <= at
  <2> SUFFICES ASSUME at < s.through PROVE FALSE
    BY <1>1
  <2>1. t = Refuse(s, "time regressed")
    BY <1>1 DEF Reconcile
  <2> QED BY <1>2, <2>1
<1>4. ~Conflicts(s, b)
  <2> SUFFICES ASSUME Conflicts(s, b) PROVE FALSE
    OBVIOUS
  <2>1. ~(at < s.through)
    BY <1>1, <1>3
  <2>2. t = Refuse(s, "conflicting event")
    BY <1>1, <2>1 DEF Reconcile
  <2> QED BY <1>2, <2>2
<1>5. PICK u : u = Upsert(s, b)
  OBVIOUS
<1>6. PICK base : base = Reset(u, Floors(s))
  OBVIOUS
<1>7. /\ base.err = "none" /\ Shape(base) /\ Bounded(base) /\ Reserve(base) /\ Kin(base, u)
      /\ Shape(u) /\ Extends(u, s, b) /\ Known(u, at)
  BY <1>3, <1>5, <1>6, BaseKeeps
<1>8. PICK r : r = ReplayReady(u, at, Floors(s))
  OBVIOUS
<1>9. t = Checked([r EXCEPT !.through = at])
  <2>1. ~(at < s.through)
    BY <1>1, <1>3
  <2> QED BY <1>1, <1>4, <1>5, <1>8, <2>1 DEF Reconcile
<1>10. Replaying(r, base) \/ (Fields(r) /\ r.err # "none")
  <2>1. u.err = "none"
    BY <1>1, <1>7 DEF Extends
  <2>2. r = Refuse(u, "corrupt") \/ r = ReplayAll(base, Timeline(base, at))
    BY <1>6, <1>8, <2>1 DEF ReplayReady
  <2>3. CASE r = Refuse(u, "corrupt")
    BY <1>7, <2>3, Refused
  <2>4. CASE r = ReplayAll(base, Timeline(base, at))
    <3>1. PICK n \in Nat : Timeline(base, at) \in [1..n -> DOMAIN base.dep \cup DOMAIN base.wd]
      BY <1>7, TimelineLists
    <3>2. Replaying(ReplayAll(base, Timeline(base, at)), base)
      BY <1>7, <3>1, ReplayAllKeeps
    <3> QED BY <2>4, <3>2
  <2> QED BY <2>2, <2>3, <2>4
<1>11. PICK v : v = [r EXCEPT !.through = at]
  OBVIOUS
<1>12. v = [err |-> r.err, through |-> at, dep |-> r.dep, wd |-> r.wd, dec |-> r.dec]
  <2>1. r = [err |-> r.err, through |-> r.through, dep |-> r.dep, wd |-> r.wd, dec |-> r.dec]
    BY <1>10 DEF Replaying, Fields
  <2> QED BY <1>11, <2>1
<1>13. /\ v.err = r.err /\ v.through = at /\ v.dep = r.dep /\ v.wd = r.wd /\ v.dec = r.dec
       /\ v = [err |-> v.err, through |-> v.through, dep |-> v.dep, wd |-> v.wd, dec |-> v.dec]
  BY <1>12
<1>14. t = v /\ v.err = "none" /\ Valid(v)
  <2>1. t = IF v.err # "none" \/ Valid(v) THEN v ELSE Refuse(v, "corrupt")
    BY <1>9, <1>11 DEF Checked
  <2>2. Refuse(v, "corrupt").err # "none"
    BY <1>12 DEF Refuse
  <2> QED BY <2>1, <2>2
<1>15. Shape(r) /\ Reserve(r) /\ Kin(r, base)
  BY <1>10, <1>13, <1>14 DEF Replaying
<1>16. Kin(r, u)
  BY <1>7, <1>15, KinTransitive
<1>17. Shape(v)
  BY <1>13, <1>15 DEF Shape
<1>18. Reserve(v)
  BY <1>13, <1>15 DEF Reserve, Unspent, Free
<1>19. v.dec = s.dec /\ DOMAIN v.dep = DOMAIN u.dep /\ DOMAIN v.wd = DOMAIN u.wd
  BY <1>7, <1>13, <1>16 DEF Kin, Extends
<1>20. Known(v, at)
  BY <1>7, <1>13, <1>16 DEF Kin, Known
<1>21. Honoured(v)
  BY <1>19 DEF Sound, Honoured
<1>22. Sound(v) /\ v.through = at
  BY <1>13, <1>14, <1>17, <1>18, <1>20, <1>21 DEF Sound
<1>23. DOMAIN u.dep = DOMAIN s.dep \cup DOMAIN b.dep /\ DOMAIN u.wd = DOMAIN s.wd \cup DOMAIN b.wd
  BY <1>7 DEF Extends
<1>24. ASSUME NEW w \in DOMAIN s.wd PROVE v.wd[w].frozen = s.wd[w].frozen
  <2>1. s.wd[w].applied /\ Movement(s.wd[w], w, DOMAIN s.dep)
    BY DEF Sound, Known, Valid, Shape
  <2>2. u.wd[w] = s.wd[w] /\ w \in DOMAIN u.wd
    BY <1>7, <1>23, Zenon DEF Extends
  <2>3. Movement(v.wd[w], w, DOMAIN v.dep)
    BY <1>17, <1>19, <2>2 DEF Shape
  <2>4. CASE w \in Transfer
    BY <1>13, <1>16, <2>1, <2>2, <2>4 DEF Kin, Movement
  <2>5. CASE w \notin Transfer
    BY <2>1, <2>3, <2>5 DEF Movement
  <2> QED BY <2>4, <2>5
<1> QED BY <1>14, <1>19, <1>22, <1>23, <1>24, Zenon

-----------------------------------------------------------------------------
(* The daily decision *)

\* What is drawn of the tranches of s for a plan.
Drawing(alloc, s) ==
  /\ DOMAIN alloc \subseteq DOMAIN s.dep /\ alloc \in [DOMAIN alloc -> Shares]
  /\ \A d \in DOMAIN alloc :
       /\ alloc[d].planned <= alloc[d].committed
       /\ alloc[d].committed <= Residual(s.dep[d]) /\ Residual(s.dep[d]) > 0

\* A tranche with something left was usable when its state was reconciled.
LEMMA Drawable ==
  ASSUME Venue, NEW s, Sound(s), NEW d \in DOMAIN s.dep, Residual(s.dep[d]) > 0
  PROVE  /\ d \in DOMAIN approvals /\ approvals[d].at <= s.through
         /\ d \in DOMAIN occurred /\ occurred[d] + Cooldown <= s.through
<1>1. s.dep[d] \in Tranches /\ s.through \in Int
  BY DEF Sound, Shape
<1>2. s.dep[d].admitted > 0
  BY <1>1, ResidualIs DEF Residual, Minus, Tranches
<1>3. UsableBy(s.dep[d], s.through)
  BY <1>2 DEF Sound, Valid
<1>4. s.dep[d].received \in Int /\ s.dep[d].approved \in Int /\ Cooldown \in Int
  BY <1>1, PacingLimits DEF Tranches
<1>5. /\ s.dep[d].approved # Never /\ s.dep[d].approved <= s.through
      /\ s.dep[d].received + Cooldown <= s.through
  BY <1>1, <1>3, <1>4 DEF UsableBy, UsableAt, Most
<1> QED BY <1>5 DEF Sound, Known

LEMMA WithDecisionKeeps ==
  ASSUME Venue, NEW s, Sound(s), NEW date, Boundary(date) = s.through, NEW plan \in Nat,
         NEW how, Drawing(how.alloc, s),
         NEW took \in [DOMAIN s.dep -> Nat],
         \A d \in DOMAIN s.dep : took[d] = IF d \in DOMAIN how.alloc THEN how.alloc[d].committed ELSE 0,
         SumFunction(took) <= Minus(Free(s), FixedReserve),
         NEW t, t = WithDecision(s, date, plan, how), t.err = "none"
  PROVE  /\ Sound(t) /\ t.through = s.through
         /\ DOMAIN t.dec = DOMAIN s.dec \cup {date}
         /\ DOMAIN t.dep = DOMAIN s.dep /\ t.wd = s.wd
         /\ \A y \in DOMAIN s.dec : y # date => t.dec[y] = s.dec[y]
<1>1. Shape(s) /\ Valid(s) /\ Reserve(s) /\ Known(s, s.through) /\ Honoured(s)
  BY DEF Sound
<1>2. PICK sum : sum = SumFunction([d \in DOMAIN how.alloc |-> how.alloc[d].committed])
  OBVIOUS
<1>3. PICK x : x = [planned |-> plan, filled |-> 0, debited |-> 0, settled |-> FALSE,
                    committed |-> sum, alloc |-> how.alloc]
  OBVIOUS
<1>4. PICK v : v = [s EXCEPT
         !.dec = With(@, date, x),
         !.dep = [d \in DOMAIN s.dep |->
           IF d \in DOMAIN how.alloc
           THEN [s.dep[d] EXCEPT !.committed = @ + how.alloc[d].committed]
           ELSE s.dep[d]]]
  OBVIOUS
<1>5. /\ v = [err |-> s.err, through |-> s.through, dep |-> v.dep, wd |-> s.wd, dec |-> v.dec]
      /\ v.dec = With(s.dec, date, x)
      /\ v.dep = [d \in DOMAIN s.dep |->
           IF d \in DOMAIN how.alloc
           THEN [s.dep[d] EXCEPT !.committed = @ + how.alloc[d].committed]
           ELSE s.dep[d]]
  BY <1>1, <1>4 DEF Shape
<1>6. t = v /\ Valid(v)
  <2>1. ~how.exact => t = Refuse(s, "corrupt")
    BY DEF WithDecision
  <2>2. Refuse(s, "corrupt").err # "none"
    BY <1>1, Refused
  <2>3. t = Checked(v)
    BY <1>2, <1>3, <1>4, <2>1, <2>2 DEF WithDecision
  <2>4. v.err = s.err
    <3>1. PICK D, W : v = [err |-> s.err, through |-> s.through, dep |-> D, wd |-> s.wd, dec |-> W]
      BY <1>5
    <3> QED BY <3>1
  <2>5. Refuse(v, "corrupt").err # "none"
    BY <1>5 DEF Refuse
  <2> QED BY <2>3, <2>4, <2>5 DEF Checked, Sound
<1>7. /\ v.err = s.err /\ v.through = s.through /\ v.wd = s.wd
      /\ v = [err |-> v.err, through |-> v.through, dep |-> v.dep, wd |-> v.wd, dec |-> v.dec]
  <2>1. PICK D, W : v = [err |-> s.err, through |-> s.through, dep |-> D, wd |-> s.wd, dec |-> W]
    BY <1>5
  <2> QED BY <2>1
<1>8. DOMAIN v.dep = DOMAIN s.dep /\ v.dep = [d \in DOMAIN v.dep |-> v.dep[d]]
  BY <1>5
<1>9. ASSUME NEW d \in DOMAIN s.dep
      PROVE  /\ v.dep[d] \in Tranches
             /\ v.dep[d].admitted = s.dep[d].admitted
             /\ v.dep[d].received = s.dep[d].received /\ v.dep[d].approved = s.dep[d].approved
             /\ v.dep[d].invested = s.dep[d].invested /\ v.dep[d].withdrawn = s.dep[d].withdrawn
             /\ v.dep[d].committed = s.dep[d].committed + took[d]
  <2>1. s.dep[d] \in Tranches /\ took[d] \in Nat
    BY <1>1 DEF Shape
  <2>2. CASE d \in DOMAIN how.alloc
    <3>1. v.dep[d] = [s.dep[d] EXCEPT !.committed = @ + took[d]]
      BY <1>5, <2>2
    <3> QED BY <2>1, <3>1 DEF Tranches
  <2>3. CASE d \notin DOMAIN how.alloc
    BY <1>5, <2>1, <2>3 DEF Tranches
  <2> QED BY <2>2, <2>3
<1>10. /\ DOMAIN v.dec = DOMAIN s.dec \cup {date}
       /\ v.dec = [y \in DOMAIN v.dec |-> v.dec[y]]
       /\ \A y \in DOMAIN v.dec : v.dec[y] = IF y = date THEN x ELSE s.dec[y]
  BY <1>5 DEF With
<1>11. Shape(v)
  <2>1. v.dep \in [DOMAIN v.dep -> Tranches]
    BY <1>8, <1>9
  <2>2. IsFiniteSet(DOMAIN v.dec)
    <3>1. IsFiniteSet(DOMAIN s.dec) /\ IsFiniteSet({date})
      BY <1>1, FS_Singleton DEF Shape
    <3>2. IsFiniteSet(DOMAIN s.dec \cup {date})
      BY <3>1, FS_Union
    <3> QED BY <1>10, <3>2, Zenon
  <2>3. Decision(x, DOMAIN s.dep)
    BY <1>3 DEF Decision, Drawing
  <2>4. \A y \in DOMAIN v.dec : Decision(v.dec[y], DOMAIN v.dep)
    BY <1>1, <1>8, <1>10, <2>3 DEF Shape
  <2> QED BY <1>1, <1>7, <1>8, <1>10, <2>1, <2>2, <2>4 DEF Shape
<1>12. ASSUME NEW d \in DOMAIN s.dep
       PROVE  /\ took[d] <= Residual(s.dep[d])
              /\ Residual(v.dep[d]) = Residual(s.dep[d]) - took[d]
  <2>1. /\ s.dep[d] \in Tranches /\ took[d] \in Nat
        /\ s.dep[d].invested + s.dep[d].committed + s.dep[d].withdrawn <= s.dep[d].admitted
    BY <1>1 DEF Shape, Valid
  <2>2. Residual(s.dep[d]) \in Nat
        /\ Residual(s.dep[d]) = s.dep[d].admitted - s.dep[d].invested - s.dep[d].committed - s.dep[d].withdrawn
    BY <2>1, ResidualIs
  <2>3. took[d] <= Residual(s.dep[d])
    BY <2>2 DEF Drawing
  <2>4. v.dep[d].invested + v.dep[d].committed + v.dep[d].withdrawn <= v.dep[d].admitted
    BY <1>9, <2>1, <2>2, <2>3 DEF Tranches
  <2>5. Residual(v.dep[d]) = v.dep[d].admitted - v.dep[d].invested - v.dep[d].committed - v.dep[d].withdrawn
    BY <1>9, <2>4, ResidualIs
  <2>6. /\ s.dep[d].admitted \in Int /\ s.dep[d].invested \in Int /\ s.dep[d].committed \in Int
        /\ s.dep[d].withdrawn \in Int /\ took[d] \in Int
    BY <2>1 DEF Tranches
  <2>7. Residual(v.dep[d]) = s.dep[d].admitted - s.dep[d].invested - (s.dep[d].committed + took[d])
                               - s.dep[d].withdrawn
    BY <1>9, <2>5
  <2> QED BY <2>2, <2>3, <2>6, <2>7
<1>13. Reserve(v)
  <2>1. ASSUME NEW d \in DOMAIN s.dep
        PROVE  v.dep[d].committed + v.dep[d].withdrawn
                 = s.dep[d].committed + s.dep[d].withdrawn + took[d]
    <3>1. s.dep[d].committed \in Int /\ s.dep[d].withdrawn \in Int /\ took[d] \in Int
      BY <1>1 DEF Shape, Tranches
    <3>2. v.dep[d].committed = s.dep[d].committed + took[d] /\ v.dep[d].withdrawn = s.dep[d].withdrawn
      BY <1>9
    <3> QED BY <3>1, <3>2
  <2> QED BY <1>1, <1>8, <1>9, <1>11, <1>12, <2>1, ReserveAfter
<1>14. Known(v, v.through)
  BY <1>1, <1>7, <1>8, <1>9 DEF Known
<1>15. Honoured(v)
  <2>1. ASSUME NEW y \in DOMAIN v.dec, NEW d \in DOMAIN v.dec[y].alloc
        PROVE  /\ d \in DOMAIN approvals /\ approvals[d].at <= Boundary(y)
               /\ d \in DOMAIN occurred /\ occurred[d] + Cooldown <= Boundary(y)
    <3>1. CASE y = date
      <4>1. d \in DOMAIN how.alloc
        BY <1>3, <1>10, <2>1, <3>1
      <4>2. d \in DOMAIN s.dep /\ Residual(s.dep[d]) > 0
        BY <4>1 DEF Drawing
      <4> QED BY <3>1, <4>2, Drawable
    <3>2. CASE y # date
      BY <1>1, <1>10, <2>1, <3>2 DEF Honoured
    <3> QED BY <3>1, <3>2
  <2> QED BY <2>1 DEF Honoured
<1>16. Sound(v)
  BY <1>6, <1>7, <1>11, <1>13, <1>14, <1>15 DEF Sound
<1> QED BY <1>6, <1>7, <1>8, <1>10, <1>16, Zenon

LEMMA RequiredType ==
  ASSUME NEW s, Shape(s), NEW date \in Int, NEW d \in DueRows(s, date)
  PROVE  Required(s, date, d) \in Nat
<1>1. s.dep[d] \in Tranches /\ EligibleDays(date, s.dep[d]) > 0
  BY DEF DueRows, Shape
<1>2. Horizon(s.dep[d]) \in Int /\ Residual(s.dep[d]) \in Nat
  BY <1>1, HorizonType, ResidualIs
<1>3. EligibleDays(date, s.dep[d]) \in Nat
  <2> DEFINE days == {x \in date .. Horizon(s.dep[d]) : CatchUp(x, s.dep[d]) \/ x % 7 \in Weekdays}
  <2>1. IsFiniteSet(date .. Horizon(s.dep[d]))
    BY <1>2, FS_Interval
  <2>2. days \subseteq date .. Horizon(s.dep[d])
    OBVIOUS
  <2>3. EligibleDays(date, s.dep[d]) = Cardinality(days)
    BY DEF EligibleDays
  <2> HIDE DEF days
  <2> QED BY <2>1, <2>2, <2>3, FS_Subset, FS_CardinalityType
<1> DEFINE k == EligibleDays(date, s.dep[d])
           n == Residual(s.dep[d]) + k - 1
<1>4. n \in Nat /\ k \in Nat /\ k > 0
  BY <1>1, <1>2, <1>3
<1>5. Required(s, date, d) = n \div k
  BY DEF Required, DivCeil
<1> HIDE DEF n, k
<1> QED BY <1>4, <1>5, DivBounds

LEMMA GrossType == ASSUME NEW v \in Nat PROVE GrossUp(v) \in Nat
<1>1. FeeBps \in Nat /\ FeeBps <= 9999
  BY PacingLimits DEF Bps
<1> DEFINE k == Bps - FeeBps
           n == v * Bps + k - 1
<1>2. k \in Nat /\ k > 0 /\ n \in Nat
  BY <1>1 DEF Bps
<1>3. GrossUp(v) = n \div k
  BY DEF GrossUp, DivCeil
<1> HIDE DEF n, k
<1> QED BY <1>2, <1>3, DivBounds

\* A plan within the budget is drawn from what the tranches have left, and with
\* its fee reserve leaves the fixed reserve.
LEMMA AllocateDraws ==
  ASSUME NEW s, Shape(s), NEW date \in Int, NEW plan \in Nat,
         plan <= Spendable(SumFunction([d \in DueRows(s, date) |-> Residual(s.dep[d])]), Free(s)),
         NEW how, how = Allocate(s, date, plan)
  PROVE  /\ Drawing(how.alloc, s)
         /\ \E took \in [DOMAIN s.dep -> Nat] :
              /\ \A d \in DOMAIN s.dep :
                   took[d] = IF d \in DOMAIN how.alloc THEN how.alloc[d].committed ELSE 0
              /\ SumFunction(took) <= Minus(Free(s), FixedReserve)
<1> DEFINE rows == DueRows(s, date)
           ids == NearestFirst(s, rows)
           room == [d \in rows |-> Residual(s.dep[d])]
           need == [d \in rows |-> Least(Required(s, date, d), room[d])]
           first == Pour(plan, ids, need)
           rest == [d \in rows |-> room[d] - first.took[d]]
           more == Pour(first.left, ids, rest)
           amount == [d \in rows |-> first.took[d] + more.took[d]]
           left == [d \in rows |-> room[d] - amount[d]]
           reserve == GrossUp(plan) - plan
           fee == Pour(reserve, ids, left)
           A == {x \in rows : amount[x] + fee.took[x] > 0}
           active == SumFunction(room)
<1>0. how.alloc = [d \in A |-> [planned |-> amount[d], committed |-> amount[d] + fee.took[d],
                                filled |-> 0, debited |-> 0]]
  BY Zenon DEF Allocate
<1> HIDE DEF rows, ids, room, need, first, rest, more, amount, left, active, reserve, fee, A
<1>1. rows = DueRows(s, date)
  BY DEF rows
<1>2. /\ rows \in SUBSET DOMAIN s.dep /\ IsFiniteSet(rows)
      /\ \A d \in rows : Residual(s.dep[d]) \in Nat /\ Residual(s.dep[d]) > 0
                         /\ Required(s, date, d) \in Nat
  <2>1. rows \subseteq DOMAIN s.dep /\ \A d \in rows : Residual(s.dep[d]) > 0
    BY <1>1 DEF DueRows
  <2>2. IsFiniteSet(rows)
    BY <2>1, FS_Subset DEF Shape
  <2>3. \A d \in rows : Residual(s.dep[d]) \in Nat
    BY <2>1, ResidualIs DEF Shape
  <2>4. \A d \in rows : Required(s, date, d) \in Nat
    BY <1>1, RequiredType
  <2> QED BY <2>1, <2>2, <2>3, <2>4
<1>3. ids = NearestFirst(s, rows)
  BY DEF ids
<1>4. PICK len \in Nat : /\ ids \in [1..len -> rows]
                         /\ \A i, j \in 1..len : i < j => ids[i] # ids[j]
  BY SMTT(60), <1>2, <1>3, NearestLists
<1>5. room = [d \in rows |-> Residual(s.dep[d])]
  BY DEF room
<1>6. room \in [rows -> Nat] /\ \A d \in rows : room[d] = Residual(s.dep[d])
  BY <1>2, <1>5
<1>7. need = [d \in rows |-> Least(Required(s, date, d), room[d])]
  BY DEF need
<1>8. need \in [rows -> Nat] /\ \A d \in rows : need[d] <= room[d]
  <2>1. \A d \in rows : Least(Required(s, date, d), room[d]) \in Nat
                        /\ Least(Required(s, date, d), room[d]) <= room[d]
    BY <1>2, <1>6, LeastType
  <2> QED BY <1>7, <2>1
<1>9. first = Pour(plan, ids, need)
  BY DEF first
<1>10. /\ first.left \in Nat /\ first.took \in [rows -> Nat]
       /\ \A d \in rows : first.took[d] <= room[d]
       /\ SumFunction(first.took) + first.left = plan
  <2>1. PouredOut(first, need, rows, plan)
    BY <1>2, <1>4, <1>8, <1>9, PourGives
  <2>2. \A d \in rows : first.took[d] \in Int /\ need[d] \in Int /\ room[d] \in Int
                        /\ first.took[d] <= need[d]
    BY <1>6, <1>8, <2>1 DEF PouredOut
  <2> QED BY <1>8, <2>1, <2>2 DEF PouredOut
<1>11. rest = [d \in rows |-> room[d] - first.took[d]]
  BY DEF rest
<1>12. rest \in [rows -> Nat] /\ \A d \in rows : rest[d] = room[d] - first.took[d]
  BY <1>6, <1>10, <1>11
<1>13. more = Pour(first.left, ids, rest)
  BY DEF more
<1>14. /\ more.left \in Nat /\ more.took \in [rows -> Nat]
       /\ \A d \in rows : more.took[d] <= rest[d]
       /\ SumFunction(more.took) + more.left = first.left
  <2>1. PouredOut(more, rest, rows, first.left)
    BY <1>2, <1>4, <1>10, <1>12, <1>13, PourGives
  <2> QED BY <2>1 DEF PouredOut
<1>15. amount = [d \in rows |-> first.took[d] + more.took[d]]
  BY DEF amount
<1>16. /\ amount \in [rows -> Nat]
       /\ \A d \in rows : amount[d] = first.took[d] + more.took[d] /\ amount[d] <= room[d]
  BY <1>6, <1>10, <1>12, <1>14, <1>15
<1>17. left = [d \in rows |-> room[d] - amount[d]]
  BY DEF left
<1>18. left \in [rows -> Nat] /\ \A d \in rows : left[d] = room[d] - amount[d]
  BY <1>6, <1>16, <1>17
<1>19. active = SumFunction(room)
  BY DEF active
<1>20. active \in Nat /\ Free(s) \in Nat /\ plan <= Spendable(active, Free(s))
  <2>1. active \in Nat
    BY <1>2, <1>6, <1>19, SumNat
  <2> QED BY <1>1, <1>5, <1>19, <2>1, FreeType
<1>21. /\ plan <= GrossUp(plan) /\ GrossUp(plan) <= Minus(Free(s), FixedReserve)
       /\ GrossUp(plan) \in Nat /\ Minus(Free(s), FixedReserve) \in Nat
  <2>1. plan <= GrossUp(plan) /\ GrossUp(plan) <= Minus(Free(s), FixedReserve)
    BY <1>20, CommitmentFits
  <2>2. Minus(Free(s), FixedReserve) \in Nat
    <3>1. FixedReserve \in Int /\ Free(s) \in Int
      BY <1>20, PacingLimits
    <3> QED BY <3>1, MinusType
  <2> QED BY <2>1, <2>2, GrossType
<1>22. reserve = GrossUp(plan) - plan
  BY DEF reserve
<1>23. reserve \in Nat
  BY <1>21, <1>22
<1>24. fee = Pour(reserve, ids, left)
  BY DEF fee
<1>25. /\ fee.left \in Nat /\ fee.took \in [rows -> Nat]
       /\ \A d \in rows : fee.took[d] <= left[d]
       /\ SumFunction(fee.took) + fee.left = reserve
  <2>1. PouredOut(fee, left, rows, reserve)
    BY <1>2, <1>4, <1>18, <1>23, <1>24, PourGives
  <2> QED BY <2>1 DEF PouredOut
<1>26. A = {x \in rows : amount[x] + fee.took[x] > 0}
  BY DEF A
<1>28. /\ DOMAIN how.alloc = A /\ A \subseteq rows
       /\ how.alloc \in [DOMAIN how.alloc -> Shares]
       /\ \A d \in A : how.alloc[d].planned = amount[d]
                       /\ how.alloc[d].committed = amount[d] + fee.took[d]
  <2>1. A \subseteq rows /\ DOMAIN how.alloc = A
    BY <1>0, <1>26
  <2>2. \A d \in A : amount[d] \in Nat /\ fee.took[d] \in Nat
    BY <1>16, <1>25, <2>1
  <2>3. \A d \in A : [planned |-> amount[d], committed |-> amount[d] + fee.took[d],
                      filled |-> 0, debited |-> 0] \in Shares
    BY <2>2 DEF Shares
  <2>4. how.alloc \in [A -> Shares]
    BY <1>0, <2>3
  <2> QED BY <1>0, <2>1, <2>4
<1>29. Drawing(how.alloc, s)
  <2>1. ASSUME NEW d \in A
        PROVE  /\ how.alloc[d].planned <= how.alloc[d].committed
               /\ how.alloc[d].committed <= Residual(s.dep[d]) /\ Residual(s.dep[d]) > 0
    <3>1. d \in rows /\ how.alloc[d].planned = amount[d]
          /\ how.alloc[d].committed = amount[d] + fee.took[d]
      BY <1>28
    <3>2. /\ amount[d] \in Nat /\ fee.took[d] \in Nat /\ room[d] \in Nat
          /\ fee.took[d] <= left[d] /\ left[d] = room[d] - amount[d]
          /\ room[d] = Residual(s.dep[d]) /\ Residual(s.dep[d]) > 0
      BY <1>2, <1>6, <1>16, <1>18, <1>25, <3>1
    <3> QED BY <3>1, <3>2
  <2> QED BY <1>2, <1>28, <2>1 DEF Drawing
<1>30. PICK total : total = [d \in rows |-> amount[d] + fee.took[d]]
  OBVIOUS
<1>31. /\ total \in [rows -> Nat] /\ \A d \in rows : total[d] = amount[d] + fee.took[d]
       /\ SumFunction(total) <= Minus(Free(s), FixedReserve)
  <2>1. total \in [rows -> Nat] /\ \A d \in rows : total[d] = amount[d] + fee.took[d]
    BY <1>16, <1>25, <1>30
  <2>2. /\ total \in [rows -> Int] /\ amount \in [rows -> Int] /\ fee.took \in [rows -> Int]
        /\ first.took \in [rows -> Int] /\ more.took \in [rows -> Int]
    BY <1>10, <1>14, <1>16, <1>25, <2>1
  <2>3. SumFunction(total) = SumFunction(amount) + SumFunction(fee.took)
    BY <1>2, <2>1, <2>2, SumPlus
  <2>4. SumFunction(amount) = SumFunction(first.took) + SumFunction(more.took)
    BY <1>2, <1>16, <2>2, SumPlus
  <2>5. /\ SumFunction(first.took) \in Nat /\ SumFunction(more.took) \in Nat
        /\ SumFunction(fee.took) \in Nat
    BY <1>2, <1>10, <1>14, <1>25, SumNat
  <2>6. SumFunction(total) <= GrossUp(plan)
    BY <1>10, <1>14, <1>21, <1>22, <1>25, <2>3, <2>4, <2>5
  <2>7. SumFunction(total) \in Nat
    BY <2>3, <2>4, <2>5
  <2> QED BY <1>21, <2>1, <2>6, <2>7
<1>32. PICK took : took = [d \in DOMAIN s.dep |->
                             IF d \in DOMAIN how.alloc THEN how.alloc[d].committed ELSE 0]
  OBVIOUS
<1>33. /\ took \in [DOMAIN s.dep -> Nat]
       /\ \A d \in rows : total[d] = took[d]
       /\ \A d \in DOMAIN s.dep \ rows : took[d] = 0
  <2>1. \A d \in A : how.alloc[d].committed \in Nat
    BY <1>28 DEF Shares
  <2>2. took \in [DOMAIN s.dep -> Nat]
    BY <1>28, <1>32, <2>1
  <2>3. ASSUME NEW d \in rows PROVE total[d] = took[d]
    <3>1. d \in DOMAIN s.dep /\ total[d] = amount[d] + fee.took[d] /\ total[d] \in Nat
      BY <1>2, <1>31
    <3>2. CASE d \in A
      BY <1>28, <1>32, <3>1, <3>2
    <3>3. CASE d \notin A
      BY <1>26, <1>28, <1>32, <3>1, <3>3
    <3> QED BY <3>2, <3>3
  <2>4. \A d \in DOMAIN s.dep \ rows : took[d] = 0
    BY <1>28, <1>32
  <2> QED BY <2>2, <2>3, <2>4
<1>34. SumFunction(took) = SumFunction(total)
  <2>1. took \in [DOMAIN s.dep -> Int] /\ total \in [rows -> Int] /\ \A d \in rows : took[d] = total[d]
    BY <1>31, <1>33
  <2> QED BY <1>2, <1>33, <2>1, SumPad DEF Shape
<1> QED BY Zenon, <1>29, <1>31, <1>32, <1>33, <1>34

LEMMA DateType == ASSUME NEW t \in Nat PROVE DateOf(t) \in Nat
<1>1. DayLength \in Nat /\ DayLength > 0
  BY CalendarConstants
<1> QED BY <1>1, DivBounds DEF DateOf

LEMMA SpendableType ==
  ASSUME NEW a \in Nat, NEW b \in Nat
  PROVE  Spendable(a, b) \in Nat
<1>1. FeeBps \in Nat /\ FeeBps <= 9999 /\ FixedReserve \in Nat
  BY PacingLimits DEF Bps
<1>2. PICK v : v = Least(a, Minus(b, FixedReserve))
  OBVIOUS
<1>3. v \in Nat
  BY <1>1, <1>2 DEF Least, Minus
<1> DEFINE k == Bps - FeeBps
           n == v * k
<1>4. k \in Nat /\ Bps \in Nat /\ Bps > 0
  BY <1>1 DEF Bps
<1>5. n \in Nat
  <2> HIDE DEF k
  <2> QED BY <1>3, <1>4
<1>6. Spendable(a, b) = n \div Bps
  BY <1>2 DEF Spendable, ApplyReserve
<1> HIDE DEF n, k
<1> QED BY <1>4, <1>5, <1>6, DivBounds

\* What is planned is nothing, or within what may be spent.
LEMMA PlannedFits ==
  ASSUME NEW s, Shape(s), NEW date \in Int, NEW observed, NEW go \in BOOLEAN,
         go => observed \in Nat, NEW plan, plan = Planned(s, date, observed, go)
  PROVE  /\ plan \in Nat
         /\ plan # 0 => plan <= Spendable(SumFunction([d \in DueRows(s, date) |-> Residual(s.dep[d])]),
                                          Free(s))
<1> DEFINE rows == DueRows(s, date)
           room == [d \in rows |-> Residual(s.dep[d])]
           active == SumFunction(room)
           needs == [d \in rows |-> Required(s, date, d)]
           budget == Spendable(active, Free(s))
           seen == Spendable(observed, observed)
           desired == Most(SumFunction(needs), MinOrder)
           want == Least(Least(desired, MaxDaily), Least(budget, seen))
<1>1. plan = 0 \/ (plan = want /\ go /\ ~(want < MinOrder))
  BY DEF Planned
<1>2. MinOrder \in Nat /\ MinOrder > 0 /\ MaxDaily \in Nat
  BY PacingLimits
<1>3. IsFiniteSet(rows) /\ rows \subseteq DOMAIN s.dep
  BY FS_Subset DEF Shape, DueRows
<1>4. active \in Nat /\ budget \in Nat
  <2>1. \A d \in rows : Residual(s.dep[d]) \in Nat
    <3> HIDE DEF rows
    <3> QED BY <1>3, ResidualIs DEF Shape
  <2>2. room \in [rows -> Nat]
    BY <2>1
  <2>3. active \in Nat
    <3> HIDE DEF room, rows
    <3> QED BY <1>3, <2>2, SumNat
  <2>4. Free(s) \in Nat
    BY FreeType
  <2> HIDE DEF active
  <2> QED BY <2>3, <2>4, SpendableType
<1>5. desired \in Nat
  <2>1. needs \in [rows -> Nat]
    BY RequiredType
  <2>2. SumFunction(needs) \in Nat
    <3> HIDE DEF needs, rows
    <3> QED BY <1>3, <2>1, SumNat
  <2> HIDE DEF needs
  <2> QED BY <1>2, <2>2 DEF Most
<1>6. go => seen \in Nat
  BY SpendableType
<1> HIDE DEF budget, seen, desired, want
<1>7. go => want \in Nat /\ want <= budget
  <2>1. want = Least(Least(desired, MaxDaily), Least(budget, seen))
    BY DEF want
  <2> SUFFICES ASSUME go PROVE want \in Nat /\ want <= budget
    OBVIOUS
  <2>2. PICK a : a = Least(desired, MaxDaily)
    OBVIOUS
  <2>3. PICK b : b = Least(budget, seen)
    OBVIOUS
  <2>4. a \in Nat /\ b \in Nat /\ b <= budget
    BY <1>2, <1>4, <1>5, <1>6, <2>2, <2>3, LeastType
  <2>5. want \in Nat /\ want <= b
    BY <2>1, <2>2, <2>3, <2>4, LeastType
  <2> QED BY <1>4, <2>4, <2>5
<1> QED BY <1>1, <1>7 DEF budget, active, room, rows

LEMMA BuildKeeps ==
  ASSUME Venue, NEW s, Sound(s), NEW date \in Int, Boundary(date) = s.through, NEW plan \in Nat,
         plan # 0 => plan <= Spendable(SumFunction([d \in DueRows(s, date) |-> Residual(s.dep[d])]),
                                       Free(s)),
         NEW t, t = BuildDecision(s, date, plan), t.err = "none"
  PROVE  /\ Sound(t) /\ t.through = s.through
         /\ DOMAIN t.dec = DOMAIN s.dec \cup {date}
         /\ DOMAIN t.dep = DOMAIN s.dep /\ t.wd = s.wd
         /\ \A y \in DOMAIN s.dec : y # date => t.dec[y] = s.dec[y]
<1>1. Shape(s)
  BY DEF Sound
<1>2. PICK how : how = IF plan = 0 THEN [exact |-> TRUE, alloc |-> <<>>] ELSE Allocate(s, date, plan)
  OBVIOUS
<1>3. t = WithDecision(s, date, plan, how)
  BY <1>2 DEF BuildDecision
<1>4. CASE plan = 0
  <2>1. how.alloc = <<>>
    BY <1>2, <1>4
  <2>2. DOMAIN how.alloc = {} /\ how.alloc \in [DOMAIN how.alloc -> Shares]
    BY <2>1
  <2>3. Drawing(how.alloc, s)
    BY <2>2 DEF Drawing
  <2>4. PICK took : took = [d \in DOMAIN s.dep |-> 0]
    OBVIOUS
  <2>5. took \in [DOMAIN s.dep -> Nat] /\ took \in [DOMAIN s.dep -> Int] /\ \A d \in DOMAIN s.dep : took[d] = 0
    BY <2>4
  <2>6. SumFunction(took) = 0
    BY <1>1, <2>5, SumZero DEF Shape
  <2>7. SumFunction(took) <= Minus(Free(s), FixedReserve)
    <3>1. Free(s) \in Int /\ FixedReserve \in Int
      BY <1>1, FreeType, PacingLimits
    <3>2. Minus(Free(s), FixedReserve) \in Nat
      BY <3>1, MinusType
    <3> QED BY <2>6, <3>2
  <2>8. \A d \in DOMAIN s.dep : took[d] = IF d \in DOMAIN how.alloc THEN how.alloc[d].committed ELSE 0
    BY <2>2, <2>5
  <2> QED BY <1>3, <2>3, <2>5, <2>7, <2>8, WithDecisionKeeps
<1>5. CASE plan # 0
  <2>1. how = Allocate(s, date, plan)
    BY <1>2, <1>5
  <2>2. /\ Drawing(how.alloc, s)
        /\ \E took \in [DOMAIN s.dep -> Nat] :
             /\ \A d \in DOMAIN s.dep :
                  took[d] = IF d \in DOMAIN how.alloc THEN how.alloc[d].committed ELSE 0
             /\ SumFunction(took) <= Minus(Free(s), FixedReserve)
    BY <1>1, <1>5, <2>1, AllocateDraws
  <2>3. PICK took \in [DOMAIN s.dep -> Nat] :
          /\ \A d \in DOMAIN s.dep :
               took[d] = IF d \in DOMAIN how.alloc THEN how.alloc[d].committed ELSE 0
          /\ SumFunction(took) <= Minus(Free(s), FixedReserve)
    BY <2>2
  <2> QED BY <1>3, <2>2, <2>3, WithDecisionKeeps
<1> QED BY <1>4, <1>5

\* The decision at a boundary; on a scheduled weekday there is one afterwards.
LEMMA DecideKeeps ==
  ASSUME Venue, NEW s, Sound(s), NEW at \in Nat, Boundary(DateOf(at)) = at,
         NEW observed, NEW go \in BOOLEAN, go => observed \in Nat,
         NEW t, t = Decide(s, at, observed, go), t.err = "none"
  PROVE  /\ Sound(t) /\ t.through = at
         /\ DOMAIN s.dec \subseteq DOMAIN t.dec /\ DOMAIN t.dec \subseteq DOMAIN s.dec \cup {DateOf(at)}
         /\ \A y \in DOMAIN s.dec : t.dec[y] = s.dec[y]
         /\ DOMAIN t.dep = DOMAIN s.dep /\ DOMAIN t.wd = DOMAIN s.wd
         /\ \A w \in DOMAIN s.wd : t.wd[w].frozen = s.wd[w].frozen
         /\ DateOf(at) % 7 \in Weekdays => DateOf(at) \in DOMAIN t.dec
<1>1. PICK b : b = [dep |-> <<>>, wd |-> <<>>]
  OBVIOUS
<1>2. DOMAIN b.dep = {} /\ DOMAIN b.wd = {}
  BY <1>1
<1>3. Batch(b, s, at)
  BY <1>2, FS_EmptySet DEF Batch
<1>4. PICK r : r = Reconcile(s, b, at)
  OBVIOUS
<1>5. t = DecideReplayed(r, at, observed, go)
  BY <1>1, <1>4 DEF Decide
<1>6. r.err = "none"
  BY <1>5 DEF DecideReplayed
<1>7. /\ Sound(r) /\ r.through = at /\ r.dec = s.dec
      /\ DOMAIN r.dep = DOMAIN s.dep \cup DOMAIN b.dep /\ DOMAIN r.wd = DOMAIN s.wd \cup DOMAIN b.wd
      /\ \A w \in DOMAIN s.wd : r.wd[w].frozen = s.wd[w].frozen
  BY <1>3, <1>4, <1>6, ReconcileKeeps
<1>8. DOMAIN r.dep = DOMAIN s.dep /\ DOMAIN r.wd = DOMAIN s.wd
  BY <1>2, <1>7
<1>9. CASE DateOf(at) \in DOMAIN r.dec \/ ~IsDecisionDue(r, at)
  <2>1. t = r
    BY <1>5, <1>9 DEF DecideReplayed
  <2>2. DateOf(at) % 7 \in Weekdays => IsDecisionDue(r, at)
    BY DEF IsDecisionDue
  <2> QED BY <1>7, <1>8, <1>9, <2>1, <2>2
<1>10. CASE ~(DateOf(at) \in DOMAIN r.dec \/ ~IsDecisionDue(r, at))
  <2>1. PICK plan : plan = Planned(r, DateOf(at), observed, go)
    OBVIOUS
  <2>2. t = BuildDecision(r, DateOf(at), plan)
    BY <1>5, <1>6, <1>10, <2>1 DEF DecideReplayed
  <2>3. DateOf(at) \in Int
    BY DateType
  <2>4. Shape(r)
    BY <1>7 DEF Sound
  <2>5. /\ plan \in Nat
        /\ plan # 0 => plan <= Spendable(SumFunction([d \in DueRows(r, DateOf(at)) |-> Residual(r.dep[d])]),
                                         Free(r))
    BY <2>1, <2>3, <2>4, PlannedFits
  <2>6. /\ Sound(t) /\ t.through = r.through
        /\ DOMAIN t.dec = DOMAIN r.dec \cup {DateOf(at)}
        /\ DOMAIN t.dep = DOMAIN r.dep /\ t.wd = r.wd
        /\ \A y \in DOMAIN r.dec : y # DateOf(at) => t.dec[y] = r.dec[y]
    BY <1>7, <2>2, <2>3, <2>5, BuildKeeps
  <2> QED BY <1>7, <1>8, <1>10, <2>6
<1> QED BY <1>9, <1>10

\* An open decision's commitment is part of its tranche's.
LEMMA CommittedCovers ==
  ASSUME NEW s, Shape(s), Valid(s), NEW x \in DOMAIN s.dec, ~s.dec[x].settled,
         NEW d \in DOMAIN s.dec[x].alloc
  PROVE  s.dec[x].alloc[d].committed <= s.dep[d].committed
<1> DEFINE S == {y \in DOMAIN s.dec: s.dec[y].settled = FALSE /\ d \in DOMAIN s.dec[y].alloc}
           f == [y \in S |-> s.dec[y].alloc[d].committed]
<1>1. \A y \in DOMAIN s.dec : Decision(s.dec[y], DOMAIN s.dep)
  BY DEF Shape
<1>2. d \in DOMAIN s.dep
  BY <1>1 DEF Decision
<1>3. s.dep[d].committed = SumFunction(f)
  BY <1>2 DEF Valid, Attributed
<1>4. IsFiniteSet(S) /\ x \in S
  <2>1. IsFiniteSet(S)
    BY FS_Subset DEF Shape
  <2>2. s.dec[x].settled = FALSE
    BY <1>1 DEF Decision
  <2> QED BY <2>1, <2>2
<1>5. f \in [S -> Nat] /\ f[x] = s.dec[x].alloc[d].committed
  <2>1. \A y \in S : s.dec[y].alloc[d].committed \in Nat
    BY Zenon, <1>1 DEF Decision, Shares
  <2> QED BY <1>4, <2>1
<1> HIDE DEF S, f
<1>6. f[x] <= SumFunction(f)
  BY <1>4, <1>5, SumTerm
<1> QED BY <1>3, <1>5, <1>6

\* What t plans is what s does, and the decision of the date is settled.
SettledAt(t, s, date) ==
  /\ \A y \in DOMAIN s.dec : t.dec[y].planned = s.dec[y].planned
  /\ \A y \in DOMAIN s.dec \ {date} : t.dec[y] = s.dec[y]
  /\ t.dec[date].settled

\* Settling a decision releases what it did not spend and nothing else.
LEMMA SettleKeeps ==
  ASSUME Venue, NEW s, Sound(s), NEW date \in DOMAIN s.dec,
         NEW filled \in Nat, NEW debited \in Nat,
         NEW t, t = Settle(s, date, filled, debited), t.err = "none"
  PROVE  /\ Sound(t) /\ t.through = s.through /\ DOMAIN t.dec = DOMAIN s.dec
         /\ DOMAIN t.dep = DOMAIN s.dep /\ t.wd = s.wd
         /\ \A d \in DOMAIN s.dep : t.dep[d].admitted = s.dep[d].admitted
         /\ SettledAt(t, s, date)
<1> DEFINE old == s.dec[date]
           D == DOMAIN old.alloc
           rows == NearestFirst(s, DOMAIN old.alloc)
           plans == [d \in DOMAIN old.alloc |-> old.alloc[d].planned]
           fill == Pour(filled, rows, plans)
           room == [d \in DOMAIN old.alloc |-> old.alloc[d].committed - fill.took[d]]
           rest == Pour(debited - filled, rows, room)
           x == [old EXCEPT
                  !.filled = filled, !.debited = debited, !.settled = TRUE,
                  !.alloc = [d \in DOMAIN old.alloc |-> [old.alloc[d] EXCEPT
                    !.filled = fill.took[d], !.debited = fill.took[d] + rest.took[d]]]]
           v == [s EXCEPT
                  !.dec[date] = x,
                  !.dep = [d \in DOMAIN s.dep |->
                    IF d \in DOMAIN old.alloc
                    THEN [s.dep[d] EXCEPT !.committed = @ - old.alloc[d].committed,
                                          !.invested = @ + (fill.took[d] + rest.took[d])]
                    ELSE s.dep[d]]]
<1>1. /\ Shape(s) /\ Valid(s) /\ Reserve(s) /\ Known(s, s.through) /\ Honoured(s)
      /\ s.err = "none" /\ Decision(old, DOMAIN s.dep)
  BY DEF Sound, Shape
<1>2. \A why \in {"not economic", "conflicting settlement", "bad debit", "corrupt"} :
        t # Refuse(s, why)
  <2>1. \A why : Refuse(s, why).err = why
    BY Zenon, <1>1, Refused
  <2> QED BY <2>1
<1>3. \/ t = s /\ old.settled
      \/ /\ t = Checked(v) /\ ~old.settled /\ ~(filled > old.planned)
         /\ ~(debited < filled)
  <2>1. \A why \in {"not economic", "conflicting settlement", "bad debit", "corrupt"} :
          t # Refuse(s, why)
    BY <1>2
  <2> QED BY Zenon, <1>1, <2>1 DEF Settle
<1>4. CASE t = s /\ old.settled
  BY <1>4, Zenon DEF SettledAt
<1>5. CASE t = Checked(v) /\ ~old.settled /\ ~(filled > old.planned) /\ ~(debited < filled)
  <2>1. /\ D \in SUBSET DOMAIN s.dep /\ IsFiniteSet(D)
        /\ old.alloc \in [D -> Shares]
        /\ \A d \in D : /\ old.alloc[d].planned \in Nat /\ old.alloc[d].committed \in Nat
                        /\ old.alloc[d].planned <= old.alloc[d].committed
    <3>1. D \in SUBSET DOMAIN s.dep /\ old.alloc \in [D -> Shares]
          /\ \A d \in D : old.alloc[d].planned <= old.alloc[d].committed
      BY <1>1 DEF Decision
    <3>2. IsFiniteSet(D)
      BY <1>1, <3>1, FS_Subset DEF Shape
    <3> QED BY <3>1, <3>2 DEF Shares
  <2>2. PICK len \in Nat : /\ rows \in [1..len -> D]
                           /\ \A i, j \in 1..len : i < j => rows[i] # rows[j]
    BY <1>1, <2>1, NearestLists
  <2>3. plans \in [D -> Nat] /\ \A d \in D : plans[d] = old.alloc[d].planned
    BY <2>1
  <2>4. debited - filled \in Nat
    <3>1. ~(debited < filled)
      BY <1>5, Zenon
    <3> QED BY <3>1
  <2> HIDE DEF rows, plans
  <2>5. PouredOut(fill, plans, D, filled)
    <3> HIDE DEF D
    <3> QED BY <2>1, <2>2, <2>3, PourGives
  <2> HIDE DEF fill
  <2>6. fill.took \in [D -> Nat] /\ \A d \in D : fill.took[d] <= old.alloc[d].planned
    BY <2>3, <2>5 DEF PouredOut
  <2>7. room \in [D -> Nat] /\ \A d \in D : room[d] = old.alloc[d].committed - fill.took[d]
    BY <2>1, <2>6
  <2> HIDE DEF room
  <2>8. PouredOut(rest, room, D, debited - filled)
    <3>1. PICK n \in Nat : n = debited - filled
      BY <2>4
    <3>2. PouredOut(Pour(n, rows, room), room, D, n)
      <4> HIDE DEF D
      <4> QED BY <2>1, <2>2, <2>7, <3>1, PourGives
    <3> QED BY <3>1, <3>2
  <2> HIDE DEF rest
  <2>9. rest.took \in [D -> Nat] /\ \A d \in D : rest.took[d] <= room[d]
    BY <2>8 DEF PouredOut
  <2>10. PICK paid : paid = [d \in D |-> fill.took[d] + rest.took[d]]
    OBVIOUS
  <2>11. \A d \in D : /\ paid[d] = fill.took[d] + rest.took[d] /\ paid[d] \in Nat
                      /\ paid[d] <= old.alloc[d].committed
    BY SMTT(60), <2>1, <2>6, <2>7, <2>9, <2>10
  <2>12. \A d \in D : old.alloc[d].committed <= s.dep[d].committed
    BY <1>1, <1>5, CommittedCovers
  <2>13. PICK share : share = [d \in D |-> [old.alloc[d] EXCEPT
                                 !.filled = fill.took[d], !.debited = paid[d]]]
    BY ZenonT(60)
  <2>14. /\ DOMAIN share = D /\ share \in [D -> Shares]
         /\ \A d \in D : share[d].planned = old.alloc[d].planned
                         /\ share[d].committed = old.alloc[d].committed
    <3>1. ASSUME NEW d \in D
          PROVE  /\ share[d] \in Shares /\ share[d].planned = old.alloc[d].planned
                 /\ share[d].committed = old.alloc[d].committed
      <4>1. share[d] = [old.alloc[d] EXCEPT !.filled = fill.took[d], !.debited = paid[d]]
        BY <2>13
      <4>2. old.alloc[d] \in Shares /\ fill.took[d] \in Nat /\ paid[d] \in Nat
        BY <2>1, <2>6, <2>11
      <4> QED BY <4>1, <4>2 DEF Shares
    <3> QED BY Zenon, <2>13, <3>1
  <2>15. x = [planned |-> old.planned, filled |-> filled, debited |-> debited, settled |-> TRUE,
              committed |-> old.committed, alloc |-> share]
    <3>1. share = [d \in DOMAIN old.alloc |-> [old.alloc[d] EXCEPT
                    !.filled = fill.took[d], !.debited = fill.took[d] + rest.took[d]]]
      BY <2>11, <2>13
    <3>2. x = [old EXCEPT !.filled = filled, !.debited = debited, !.settled = TRUE, !.alloc = share]
      BY <3>1
    <3> HIDE DEF x
    <3>3. old = [planned |-> old.planned, filled |-> old.filled, debited |-> old.debited,
                 settled |-> old.settled, committed |-> old.committed, alloc |-> old.alloc]
      BY <1>1 DEF Decision
    <3> HIDE DEF old
    <3> QED BY <3>2, <3>3
  <2> HIDE DEF x
  <2>16. Decision(x, DOMAIN s.dep) /\ DOMAIN x.alloc = D
    BY SMTT(60), <1>1, <2>1, <2>14, <2>15 DEF Decision
  <2>17. /\ v = [err |-> s.err, through |-> s.through, dep |-> v.dep, wd |-> s.wd, dec |-> v.dec]
         /\ v.dec = [s.dec EXCEPT ![date] = x]
         /\ v.dep = [d \in DOMAIN s.dep |->
              IF d \in D
              THEN [s.dep[d] EXCEPT !.committed = @ - old.alloc[d].committed,
                                    !.invested = @ + (fill.took[d] + rest.took[d])]
              ELSE s.dep[d]]
    <3>1. PICK dep : dep = [d \in DOMAIN s.dep |->
              IF d \in D
              THEN [s.dep[d] EXCEPT !.committed = @ - old.alloc[d].committed,
                                    !.invested = @ + (fill.took[d] + rest.took[d])]
              ELSE s.dep[d]]
      OBVIOUS
    <3>2. v = [s EXCEPT !.dec[date] = x, !.dep = dep]
      BY <3>1
    <3> HIDE DEF v
    <3>3. v = [err |-> s.err, through |-> s.through, dep |-> dep, wd |-> s.wd,
               dec |-> [s.dec EXCEPT ![date] = x]]
      BY <1>1, <3>2 DEF Shape
    <3>4. v.dep = dep /\ v.dec = [s.dec EXCEPT ![date] = x]
      BY <3>3
    <3> QED BY <3>1, <3>3, <3>4
  <2> HIDE DEF v
  <2>18. /\ v.err = s.err /\ v.through = s.through /\ v.wd = s.wd
         /\ v = [err |-> v.err, through |-> v.through, dep |-> v.dep, wd |-> v.wd, dec |-> v.dec]
    <3>1. PICK A, B : v = [err |-> s.err, through |-> s.through, dep |-> A, wd |-> s.wd, dec |-> B]
      BY <2>17
    <3> QED BY <3>1
  <2>19. t = v /\ Valid(v)
    <3>1. v.err = "none"
      BY <1>1, <2>18
    <3>2. Refuse(v, "corrupt").err = "corrupt"
      BY Zenon, <2>18 DEF Refuse
    <3> QED BY <1>5, <3>1, <3>2 DEF Checked
  <2>20. DOMAIN v.dep = DOMAIN s.dep /\ v.dep = [d \in DOMAIN v.dep |-> v.dep[d]]
    BY Zenon, <2>17
  <2>21. ASSUME NEW d \in DOMAIN s.dep
         PROVE  /\ v.dep[d] \in Tranches
                /\ v.dep[d].admitted = s.dep[d].admitted
                /\ v.dep[d].received = s.dep[d].received /\ v.dep[d].approved = s.dep[d].approved
                /\ v.dep[d].withdrawn = s.dep[d].withdrawn
                /\ v.dep[d].invested + v.dep[d].committed <= s.dep[d].invested + s.dep[d].committed
    <3>1. s.dep[d] \in Tranches
      BY <1>1 DEF Shape
    <3>2. CASE d \in D
      <4>1. PICK c \in Nat : c = s.dep[d].committed - old.alloc[d].committed
        BY <2>1, <2>12, <3>1, <3>2 DEF Tranches
      <4>2. PICK i \in Nat : i = s.dep[d].invested + (fill.took[d] + rest.took[d])
        BY SMTT(60), <2>6, <2>9, <3>1, <3>2 DEF Tranches
      <4>3. v.dep[d] = [s.dep[d] EXCEPT !.committed = c, !.invested = i]
        BY <2>17, <3>2, <4>1, <4>2
      <4>4. v.dep[d] = [amount |-> s.dep[d].amount, received |-> s.dep[d].received,
                        approved |-> s.dep[d].approved, max |-> s.dep[d].max,
                        admitted |-> s.dep[d].admitted, invested |-> i, committed |-> c,
                        withdrawn |-> s.dep[d].withdrawn, returned |-> s.dep[d].returned]
        BY <3>1, <4>3 DEF Tranches
      <4>5. i + c <= s.dep[d].invested + s.dep[d].committed
        <5>1. /\ s.dep[d].invested \in Int /\ s.dep[d].committed \in Int
              /\ old.alloc[d].committed \in Int /\ paid[d] \in Int
              /\ paid[d] <= old.alloc[d].committed
          BY <2>1, <2>11, <3>1, <3>2 DEF Tranches
        <5>2. i = s.dep[d].invested + paid[d]
          BY <2>11, <3>2, <4>2
        <5> QED BY <4>1, <5>1, <5>2
      <4> QED BY <3>1, <4>4, <4>5 DEF Tranches
    <3>3. CASE d \notin D
      <4>1. v.dep[d] = s.dep[d]
        BY <2>17, <3>3
      <4> QED BY <3>1, <4>1 DEF Tranches
    <3> QED BY <3>2, <3>3
  <2>22. /\ DOMAIN v.dec = DOMAIN s.dec
         /\ v.dec = [y \in DOMAIN v.dec |-> v.dec[y]]
         /\ \A y \in DOMAIN v.dec : v.dec[y] = IF y = date THEN x ELSE s.dec[y]
    BY <1>1, <2>17 DEF Shape
  <2>23. Shape(v)
    <3>1. v.dep \in [DOMAIN v.dep -> Tranches]
      BY <2>20, <2>21
    <3>2. \A y \in DOMAIN v.dec : Decision(v.dec[y], DOMAIN v.dep)
      BY <1>1, <2>16, <2>20, <2>22 DEF Shape
    <3> QED BY <1>1, <2>18, <2>20, <2>22, <3>1, <3>2 DEF Shape
  <2>24. Reserve(v)
    <3>1. ASSUME NEW d \in DOMAIN s.dep PROVE Residual(s.dep[d]) <= Residual(v.dep[d])
      <4>1. /\ s.dep[d] \in Tranches /\ v.dep[d] \in Tranches
            /\ s.dep[d].invested + s.dep[d].committed + s.dep[d].withdrawn <= s.dep[d].admitted
        BY <1>1, <2>21 DEF Shape, Valid
      <4>2. /\ s.dep[d].admitted \in Int /\ s.dep[d].invested \in Int /\ s.dep[d].committed \in Int
            /\ s.dep[d].withdrawn \in Int /\ v.dep[d].invested \in Int /\ v.dep[d].committed \in Int
        BY <4>1 DEF Tranches
      <4>3. v.dep[d].invested + v.dep[d].committed + v.dep[d].withdrawn <= v.dep[d].admitted
        BY <2>21, <4>1, <4>2
      <4>4. /\ Residual(s.dep[d]) = s.dep[d].admitted - s.dep[d].invested - s.dep[d].committed - s.dep[d].withdrawn
            /\ Residual(v.dep[d]) = v.dep[d].admitted - v.dep[d].invested - v.dep[d].committed - v.dep[d].withdrawn
        BY <4>1, <4>3, ResidualIs
      <4> QED BY <2>21, <4>2, <4>4
    <3>2. Free(s) <= Free(v) /\ Free(s) \in Nat /\ Free(v) \in Nat
      BY <1>1, <2>20, <2>23, <3>1, FreeGrows, FreeType
    <3>3. CASE Unspent(s)
      <4>1. ASSUME NEW d \in DOMAIN v.dep
            PROVE  v.dep[d].invested = 0 /\ v.dep[d].committed = 0 /\ v.dep[d].withdrawn = 0
        <5>1. /\ v.dep[d].invested \in Nat /\ v.dep[d].committed \in Nat
              /\ v.dep[d].withdrawn = s.dep[d].withdrawn
              /\ v.dep[d].invested + v.dep[d].committed <= s.dep[d].invested + s.dep[d].committed
          BY <2>20, <2>21 DEF Tranches
        <5>2. s.dep[d].invested = 0 /\ s.dep[d].committed = 0 /\ s.dep[d].withdrawn = 0
          BY <2>20, <3>3 DEF Unspent
        <5> QED BY <5>1, <5>2
      <4> QED BY <4>1 DEF Unspent, Reserve
    <3>4. CASE Free(s) >= FixedReserve
      <4>1. FixedReserve \in Nat
        BY PacingLimits
      <4> QED BY <3>2, <3>4, <4>1 DEF Reserve
    <3> QED BY <1>1, <3>3, <3>4 DEF Reserve
  <2>25. Known(v, v.through)
    BY <1>1, <2>18, <2>20, <2>21 DEF Known
  <2>26. Honoured(v)
    BY <1>1, <2>16, <2>22 DEF Honoured
  <2>27. Sound(v)
    BY <1>1, <2>18, <2>19, <2>23, <2>24, <2>25, <2>26 DEF Sound
  <2>28. x.planned = old.planned /\ x.settled
    BY <2>15
  <2>29. SettledAt(v, s, date)
    BY <2>22, <2>28, Zenon DEF SettledAt
  <2> QED BY <2>18, <2>19, <2>20, <2>21, <2>22, <2>27, <2>29
<1> QED BY Zenon, <1>3, <1>4, <1>5

-----------------------------------------------------------------------------
(* A scan and its batch *)

\* A tick belongs to the day it falls into, the boundary to its day.
LEMMA DateIs ==
  ASSUME NEW d \in Nat, NEW t \in Nat, d * DayLength <= t, t < d * DayLength + DayLength
  PROVE  DateOf(t) = d
<1>1. PICK l \in Nat : l = DayLength /\ l > 0
  BY CalendarConstants
<1>2. PICK q \in Nat : q = DateOf(t)
  BY DateType
<1>3. l * q <= t /\ t < l * q + l
  BY <1>1, <1>2, DivBounds DEF DateOf
<1>4. l * d <= t /\ t < l * d + l
  BY <1>1
<1>5. ASSUME q < d PROVE FALSE
  <2>1. l * (q + 1) <= l * d
    BY <1>1, <1>5, TimesMonotone
  <2>2. l * (q + 1) = l * q + l /\ l * q \in Int /\ l * d \in Int
    OBVIOUS
  <2> QED BY <1>3, <1>4, <2>1, <2>2
<1>6. ASSUME d < q PROVE FALSE
  <2>1. l * (d + 1) <= l * q
    BY <1>1, <1>6, TimesMonotone
  <2>2. l * (d + 1) = l * d + l /\ l * q \in Int /\ l * d \in Int
    OBVIOUS
  <2> QED BY <1>3, <1>4, <2>1, <2>2
<1> QED BY <1>2, <1>5, <1>6

LEMMA BoundaryDate ==
  ASSUME NEW d \in Nat
  PROVE  Boundary(d) \in Nat /\ DateOf(Boundary(d)) = d
<1>1. /\ DayLength \in Nat /\ DayLength > 0 /\ DecisionHour \in Nat /\ DecisionHour < DayLength
  BY CalendarConstants
<1>2. PICK n \in Nat : n = d * DayLength
  BY <1>1
<1>3. Boundary(d) = n + DecisionHour
  BY <1>2 DEF Boundary
<1>4. Boundary(d) \in Nat /\ n <= Boundary(d) /\ Boundary(d) < n + DayLength
  BY <1>1, <1>3
<1> QED BY <1>2, <1>4, DateIs

LEMMA MovedType ==
  ASSUME Venue, NEW S, S \subseteq DOMAIN occurred
  PROVE  Moved(S) \in Int
<1>1. ASSUME NEW T, T \subseteq DOMAIN occurred PROVE SumFunction(Restrict(Amount, T)) \in Int
  <2>1. IsFiniteSet(T) /\ T \subseteq Deposits \cup Withdrawals
    BY <1>1, FS_Subset DEF Venue
  <2>2. \A m \in T : Amount[m] \in Int
    BY <2>1, PacingLimits
  <2>3. PICK f : f = [m \in T |-> Amount[m]]
    OBVIOUS
  <2>4. Restrict(Amount, T) = f
    BY <2>3 DEF Restrict
  <2>5. f \in [T -> Int]
    BY <2>2, <2>3
  <2> QED BY <2>1, <2>4, <2>5, SumType
<1>2. /\ SumFunction(Restrict(Amount, S \cap Deposits)) \in Int
      /\ SumFunction(Restrict(Amount, S \cap Withdrawals)) \in Int
  BY <1>1
<1> QED BY <1>2 DEF Moved

LEMMA CashType ==
  ASSUME Venue, Sound(pacing)
  PROVE  Cash \in Int
<1>1. PICK f : f = [x \in DOMAIN pacing.dec |-> pacing.dec[x].debited]
  OBVIOUS
<1>2. f \in [DOMAIN pacing.dec -> Int]
  BY <1>1 DEF Sound, Shape, Decision
<1>3. SumFunction(f) \in Int
  BY <1>2, SumType DEF Sound, Shape
<1>4. Debits \in Int
  BY <1>1, <1>3 DEF Debits
<1>5. Moved(DOMAIN occurred) \in Int
  BY MovedType
<1> QED BY <1>4, <1>5 DEF Cash

\* Cash at the boundary is not told, or is an amount.
LEMMA BoundaryCashType ==
  ASSUME Venue, Sound(pacing), NEW seen, seen \subseteq DOMAIN occurred, NEW scan, NEW boundary
  PROVE  BoundaryCash(seen, scan, boundary) # Never => BoundaryCash(seen, scan, boundary) \in Nat
<1>1. PICK since : since = {m \in seen : occurred[m] > boundary}
  OBVIOUS
<1>2. PICK n : n = Cash - Moved(since)
  OBVIOUS
<1>3. n \in Int
  <2>1. since \subseteq DOMAIN occurred
    BY <1>1
  <2> QED BY <1>2, <2>1, MovedType, CashType
<1>4. \/ BoundaryCash(seen, scan, boundary) = Never
      \/ BoundaryCash(seen, scan, boundary) = n /\ ~(n < 0)
  BY <1>1, <1>2 DEF BoundaryCash
<1> QED BY <1>3, <1>4

\* Where it is safe to decide a boundary, it has passed and nothing is known past it.
Undecided(safe, boundary) == safe => boundary <= now /\ pacing.through <= boundary

\* The batch of a scan, and what of it was known at a boundary.
BatchOf(seen, safe, boundary) ==
  [dep |-> DepositEvents(seen), wd |-> WithdrawalEvents(seen, safe, boundary)]
Batched(b, seen, safe, boundary) ==
  /\ \A s : Batch(b, s, now)
  /\ safe => Batch(AsOf(b, boundary), pacing, boundary)
  /\ DOMAIN b.dep = (DOMAIN pacing.dep \cup seen) \cap Deposits
  /\ DOMAIN b.wd = seen \cap Withdrawals
  /\ DOMAIN AsOf(b, boundary).dep = {d \in DOMAIN b.dep : occurred[d] <= boundary}
  /\ DOMAIN AsOf(b, boundary).wd = {w \in DOMAIN b.wd : occurred[w] <= boundary}

LEMMA ScanBatch ==
  ASSUME Venue, Sound(pacing), pacing.through <= now, NEW seen, seen \subseteq DOMAIN occurred,
         NEW safe \in BOOLEAN, NEW boundary \in Nat, Undecided(safe, boundary),
         NEW b, b = BatchOf(seen, safe, boundary)
  PROVE  Batched(b, seen, safe, boundary)
<1>0. safe => boundary <= now /\ pacing.through <= boundary
  BY DEF Undecided
<1>1. Shape(pacing) /\ Known(pacing, pacing.through)
  BY DEF Sound
<1>2. /\ b.dep = DepositEvents(seen) /\ b.wd = WithdrawalEvents(seen, safe, boundary)
      /\ DOMAIN b.dep = (DOMAIN pacing.dep \cup seen) \cap Deposits
      /\ DOMAIN b.wd = seen \cap Withdrawals
  BY DEF BatchOf, DepositEvents, WithdrawalEvents
<1>3. DOMAIN b.dep \subseteq DOMAIN occurred \cap Deposits
  BY <1>1, <1>2 DEF Known
<1>4. IsFiniteSet(DOMAIN b.dep) /\ IsFiniteSet(DOMAIN b.wd)
  BY <1>2, <1>3, FS_Subset DEF Venue
<1>5. ASSUME NEW d \in DOMAIN b.dep
      PROVE  /\ b.dep[d] = [received |-> b.dep[d].received, approved |-> b.dep[d].approved,
                            max |-> b.dep[d].max]
             /\ b.dep[d].received = occurred[d]
             /\ b.dep[d].approved \in Int /\ b.dep[d].max \in Int
             /\ b.dep[d].approved # Never
                => d \in DOMAIN approvals /\ b.dep[d].approved = approvals[d].at
  <2>1. b.dep[d] = [received |-> occurred[d],
          approved |-> IF d \in DOMAIN approvals THEN approvals[d].at
                       ELSE IF d \in DOMAIN pacing.dep THEN pacing.dep[d].approved
                       ELSE Never,
          max |-> IF d \in DOMAIN approvals THEN approvals[d].max
                  ELSE IF d \in DOMAIN pacing.dep THEN pacing.dep[d].max
                  ELSE NoLimit]
    BY <1>2 DEF DepositEvents
  <2>2. d \in DOMAIN approvals => approvals[d].at \in Int /\ approvals[d].max \in Int
    BY DEF Venue
  <2>3. d \in DOMAIN pacing.dep => pacing.dep[d].approved \in Int /\ pacing.dep[d].max \in Int
    BY <1>1 DEF Shape, Tranches
  <2>4. Never \in Int /\ NoLimit \in Int
    BY DEF Never, NoLimit
  <2>5. d \in DOMAIN pacing.dep /\ pacing.dep[d].approved # Never => d \in DOMAIN approvals
    BY <1>1 DEF Known
  <2> QED BY <2>1, <2>2, <2>3, <2>4, <2>5
<1>6. ASSUME NEW w \in DOMAIN b.wd
      PROVE  /\ w \in DOMAIN occurred \cap Withdrawals
             /\ b.wd[w].occurred = occurred[w] /\ b.wd[w].reconciled \in Nat
             /\ b.wd[w].reconciled <= now
             /\ safe /\ occurred[w] <= boundary /\ w \notin DOMAIN pacing.wd
                => b.wd[w].reconciled <= boundary
  <2>1. b.wd[w] = [occurred |-> occurred[w],
          reconciled |-> IF w \in DOMAIN pacing.wd THEN pacing.wd[w].reconciled
                         ELSE IF safe /\ occurred[w] <= boundary THEN boundary
                         ELSE now]
    BY <1>2 DEF WithdrawalEvents
  <2>2. now \in Nat /\ pacing.through \in Int
    BY <1>1 DEF Venue, Shape
  <2>3. w \in DOMAIN pacing.wd => pacing.wd[w].reconciled \in Nat /\ pacing.wd[w].reconciled <= now
    BY <1>1, <2>2 DEF Known, Shape, Movement
  <2>4. w \in DOMAIN occurred \cap Withdrawals
    BY <1>2
  <2> QED BY <1>0, <2>1, <2>2, <2>3, <2>4
<1>7. \A s : Batch(b, s, now)
  <2>1. DOMAIN b.wd \subseteq DOMAIN occurred \cap Withdrawals
    BY <1>6
  <2> QED BY <1>3, <1>4, <1>5, <1>6, <2>1 DEF Batch
<1>8. PICK a : a = AsOf(b, boundary)
  OBVIOUS
<1>9. /\ a.dep = [d \in {e \in DOMAIN b.dep : b.dep[e].received <= boundary} |->
                    IF b.dep[d].approved <= boundary THEN b.dep[d]
                    ELSE [b.dep[d] EXCEPT !.approved = Never, !.max = NoLimit]]
      /\ a.wd = [w \in {v \in DOMAIN b.wd : b.wd[v].occurred <= boundary} |-> b.wd[w]]
  BY <1>8 DEF AsOf, Restrict
<1>10. /\ DOMAIN a.dep = {d \in DOMAIN b.dep : occurred[d] <= boundary}
       /\ DOMAIN a.wd = {w \in DOMAIN b.wd : occurred[w] <= boundary}
  <2>1. /\ DOMAIN a.dep = {e \in DOMAIN b.dep : b.dep[e].received <= boundary}
        /\ DOMAIN a.wd = {v \in DOMAIN b.wd : b.wd[v].occurred <= boundary}
    BY <1>9
  <2>2. \A d \in DOMAIN b.dep : b.dep[d].received = occurred[d]
    BY <1>5
  <2>3. \A w \in DOMAIN b.wd : b.wd[w].occurred = occurred[w]
    BY <1>6
  <2>4. /\ {e \in DOMAIN b.dep : b.dep[e].received <= boundary}
             = {d \in DOMAIN b.dep : occurred[d] <= boundary}
        /\ {v \in DOMAIN b.wd : b.wd[v].occurred <= boundary}
             = {w \in DOMAIN b.wd : occurred[w] <= boundary}
    BY <2>2, <2>3
  <2> QED BY <2>1, <2>4, Zenon
<1>11. ASSUME NEW d \in DOMAIN a.dep
       PROVE  /\ a.dep[d].received = occurred[d]
              /\ a.dep[d].approved \in Int /\ a.dep[d].max \in Int
              /\ a.dep[d].approved # Never
                 => d \in DOMAIN approvals /\ a.dep[d].approved = approvals[d].at
  <2>1. d \in DOMAIN b.dep
    BY <1>10
  <2>2. \/ a.dep[d] = b.dep[d]
        \/ a.dep[d] = [b.dep[d] EXCEPT !.approved = Never, !.max = NoLimit]
    BY <1>9
  <2>3. CASE a.dep[d] = b.dep[d]
    BY <1>5, <2>1, <2>3
  <2>4. CASE a.dep[d] = [b.dep[d] EXCEPT !.approved = Never, !.max = NoLimit]
    <3>1. a.dep[d] = [received |-> occurred[d], approved |-> Never, max |-> NoLimit]
      BY <1>5, <2>1, <2>4
    <3> QED BY <3>1 DEF Never, NoLimit
  <2> QED BY <2>2, <2>3, <2>4
<1>12. ASSUME safe PROVE Batch(a, pacing, boundary)
  <2>1. IsFiniteSet(DOMAIN a.dep) /\ IsFiniteSet(DOMAIN a.wd)
    BY <1>4, <1>10, FS_Subset
  <2>2. DOMAIN a.dep \subseteq DOMAIN occurred \cap Deposits
    BY <1>3, <1>10
  <2>3. DOMAIN a.wd \subseteq DOMAIN occurred \cap Withdrawals
    BY <1>6, <1>10
  <2>4. \A w \in DOMAIN a.wd : /\ a.wd[w] = b.wd[w] /\ w \in DOMAIN b.wd /\ occurred[w] <= boundary
    BY <1>9, <1>10
  <2>5. \A w \in DOMAIN a.wd :
          /\ a.wd[w].occurred = occurred[w] /\ a.wd[w].reconciled \in Nat
          /\ w \notin DOMAIN pacing.wd => a.wd[w].reconciled <= boundary
    BY <1>6, <1>12, <2>4
  <2> QED BY <1>11, <2>1, <2>2, <2>3, <2>5 DEF Batch
<1> QED BY <1>2, <1>7, <1>8, <1>10, <1>12 DEF Batched

-----------------------------------------------------------------------------
(* The inductive invariant, and what a cycle does with it *)

\* The venue lists a movement while a scan still reaches back to it.
ListedInTime == \A w \in Worlds : w.lag <= Overlap + 1

\* p knows every movement that happened longer before c than listing takes.
Passed(p, c) ==
  \A m \in DOMAIN occurred :
    c # Never /\ occurred[m] + Most(world.lag, 1) <= c => m \in DOMAIN p.dep \cup DOMAIN p.wd

\* p can still decide today's boundary, unless it did or need not.
SlotOpen(p) ==
  LET boundary == Boundary(DateOf(now)) IN
  /\ now >= boundary /\ DateOf(now) % 7 \in Weekdays /\ DateOf(now) \notin DOMAIN p.dec
  => p.through <= boundary

Good(p, c) ==
  /\ Sound(p) /\ p.through <= now
  /\ c \in Int /\ Never <= c /\ c <= now
  /\ SlotOpen(p)
  /\ ListedInTime => Passed(p, c)

CapitalInv == Venue /\ Good(pacing, cursor)

\* A cycle that keeps nothing leaves both as they were.
LEMMA CommitGood ==
  ASSUME CapitalInv, NEW p, NEW events, NEW through,
         p.err = "none" => Good(p, Most(cursor, through)),
         NEW r, r = Commit(p, events, through)
  PROVE  Good(r.pacing, r.cursor)
<1>1. \/ r.pacing = pacing /\ r.cursor = cursor
      \/ p.err = "none" /\ r.pacing = p /\ r.cursor = Most(cursor, through)
  <2> DEFINE b == Replay(Extended(journal, events))
  <2> HIDE DEF b
  <2>1. (\E why : r = Stay(why)) \/ (p.err = "none" /\ r = Kept(p, events, through))
    BY Zenon DEF Commit, b
  <2> QED BY <2>1 DEF Stay, Kept
<1> QED BY <1>1 DEF CapitalInv

\* What p must know for the cursor to move to t over the scan.
Covers(p, seen, t) ==
  /\ DOMAIN pacing.dep \cup DOMAIN pacing.wd \subseteq DOMAIN p.dep \cup DOMAIN p.wd
  /\ \A m \in seen : occurred[m] <= t => m \in DOMAIN p.dep \cup DOMAIN p.wd

\* The movements a scan gives when the venue lists late ones later.
Scanned(seen, scan) ==
  /\ seen \subseteq DOMAIN occurred
  /\ scan = "complete"
     => \A m \in DOMAIN occurred :
          occurred[m] >= ScanStart /\ occurred[m] <= now - world.lag => m \in seen

LEMMA ScanPasses ==
  ASSUME CapitalInv, NEW seen, NEW scan, Scanned(seen, scan), NEW t \in Nat, t <= now,
         NEW p, Covers(p, seen, t), NEW c, c = Most(cursor, Through(scan, t))
  PROVE  /\ c \in Int /\ Never <= c /\ c <= now
         /\ ListedInTime => Passed(p, c)
<1>1. /\ cursor \in Int /\ Never <= cursor /\ cursor <= now /\ now \in Nat
      /\ ListedInTime => Passed(pacing, cursor)
      /\ \A m \in DOMAIN occurred : occurred[m] \in Nat
  BY DEF CapitalInv, Good, Venue
<1>2. world \in Worlds /\ world.lag \in Nat /\ Overlap \in Nat
  BY CycleConstants DEF CapitalInv, Venue
<1>3. c = cursor \/ (scan = "complete" /\ c = t /\ t >= cursor)
  BY <1>1 DEF Through, Most, Never
<1>4. c \in Int /\ Never <= c /\ c <= now
  BY <1>1, <1>3 DEF Never
<1>5. ASSUME ListedInTime, NEW m \in DOMAIN occurred,
             c # Never, occurred[m] + Most(world.lag, 1) <= c
      PROVE  m \in DOMAIN p.dep \cup DOMAIN p.wd
  <2>1. PICK k \in Nat : k = Most(world.lag, 1) /\ k >= world.lag /\ k >= 1
    BY <1>2 DEF Most
  <2>2. world.lag <= Overlap + 1
    BY <1>2, <1>5 DEF ListedInTime
  <2>3. k <= Overlap + 1
    BY <1>2, <2>1, <2>2 DEF Most
  <2>4. CASE cursor # Never /\ occurred[m] + k <= cursor
    <3>1. m \in DOMAIN pacing.dep \cup DOMAIN pacing.wd
      BY <1>1, <1>5, <2>1, <2>4 DEF Passed
    <3> QED BY <3>1 DEF Covers
  <2>5. CASE ~(cursor # Never /\ occurred[m] + k <= cursor)
    <3>1. scan = "complete" /\ c = t
      BY <1>3, <1>5, <2>1, <2>5
    <3>2. occurred[m] + k <= t /\ occurred[m] \in Nat
      BY <1>1, <1>5, <2>1, <3>1
    <3>3. occurred[m] <= now - world.lag /\ occurred[m] <= t
      BY <1>1, <1>2, <2>1, <3>2
    <3>4. occurred[m] >= ScanStart
      BY <1>1, <1>2, <2>1, <2>3, <2>5, <3>2 DEF ScanStart, Minus, Never
    <3>5. m \in seen
      BY <3>1, <3>3, <3>4 DEF Scanned
    <3> QED BY <3>3, <3>5 DEF Covers
  <2> QED BY <2>4, <2>5
<1>6. ListedInTime => Passed(p, c)
  BY <1>5 DEF Passed
<1> QED BY <1>4, <1>6

\* Nothing to decide at a boundary: reconciled up to now.
LEMMA UpToNowGood ==
  ASSUME CapitalInv, NEW seen, NEW scan, Scanned(seen, scan),
         NEW b, Batch(b, pacing, now),
         DOMAIN b.dep = (DOMAIN pacing.dep \cup seen) \cap Deposits,
         DOMAIN b.wd = seen \cap Withdrawals,
         ~ /\ now >= Boundary(DateOf(now)) /\ DateOf(now) \notin DOMAIN pacing.dec
           /\ pacing.through <= Boundary(DateOf(now)),
         NEW r, r = CommitUpToNow(scan, seen, Reconcile(pacing, b, now))
  PROVE  Good(r.pacing, r.cursor)
<1>1. PICK p : p = Reconcile(pacing, b, now)
  OBVIOUS
<1>2. PICK events : r = Commit(p, events, Through(scan, now))
  BY <1>1 DEF CommitUpToNow
<1>3. Venue /\ Sound(pacing) /\ SlotOpen(pacing) /\ now \in Nat
  BY DEF CapitalInv, Good, Venue
<1>4. ASSUME p.err = "none" PROVE Good(p, Most(cursor, Through(scan, now)))
  <2>1. /\ Sound(p) /\ p.through = now /\ p.dec = pacing.dec
        /\ DOMAIN p.dep = DOMAIN pacing.dep \cup DOMAIN b.dep
        /\ DOMAIN p.wd = DOMAIN pacing.wd \cup DOMAIN b.wd
    BY <1>1, <1>3, <1>4, ReconcileKeeps
  <2>2. Covers(p, seen, now)
    BY <1>3, <2>1 DEF Covers, Scanned, Venue
  <2>3. PICK c : c = Most(cursor, Through(scan, now))
    OBVIOUS
  <2>4. /\ c \in Int /\ Never <= c /\ c <= now
        /\ ListedInTime => Passed(p, c)
    BY <1>3, <2>2, <2>3, ScanPasses
  <2>5. SlotOpen(p)
    BY <1>3, <2>1 DEF SlotOpen
  <2>6. Good(p, c)
    BY SMTT(60), <1>3, <2>1, <2>4, <2>5 DEF Good
  <2> QED BY <2>3, <2>6
<1> QED BY <1>2, <1>4, CommitGood

\* A state that was refused is refused by whatever follows.
LEMMA RefusedStays ==
  ASSUME NEW s, s.err # "none", NEW b, NEW at, NEW x, NEW n, NEW k
  PROVE  Reconcile(s, b, at) = s /\ Settle(s, x, n, k) = s
BY Zenon DEF Reconcile, Settle

\* t is s with a decision of the date, if it has one; on a scheduled weekday it
\* has.
DecidedAt(t, s, date) ==
  /\ DOMAIN t.dep = DOMAIN s.dep /\ DOMAIN t.wd = DOMAIN s.wd
  /\ \A w \in DOMAIN s.wd : t.wd[w].frozen = s.wd[w].frozen
  /\ DOMAIN s.dec \subseteq DOMAIN t.dec /\ DOMAIN t.dec \subseteq DOMAIN s.dec \cup {date}
  /\ \A y \in DOMAIN s.dec \ {date} : t.dec[y] = s.dec[y]
  /\ date % 7 \in Weekdays => date \in DOMAIN t.dec

\* The decision of a cycle that has reconciled up to the boundary.
LEMMA DecideAtKeeps ==
  ASSUME Venue, Sound(pacing), NEW seen, seen \subseteq DOMAIN occurred, NEW scan,
         NEW s, Sound(s), NEW date \in Nat, NEW boundary, boundary = Boundary(date),
         NEW mode, NEW go \in BOOLEAN, ~Defers(mode, s, boundary),
         NEW t, t = DecideAt(mode, s, boundary, BoundaryCash(seen, scan, boundary), go),
         t.err = "none"
  PROVE  Sound(t) /\ DecidedAt(t, s, date)
<1>1. boundary \in Nat /\ DateOf(boundary) = date
  BY BoundaryDate
<1>2. CASE mode = "observe"
  <2>1. t = s
    BY <1>2 DEF DecideAt
  <2>2. ~IsDecisionDue(s, boundary)
    BY <1>2 DEF Defers
  <2>3. date % 7 \notin Weekdays
    BY <1>1, <2>2 DEF IsDecisionDue
  <2> QED BY <2>1, <2>3 DEF DecidedAt
<1>3. CASE mode # "observe"
  <2>1. PICK cash : cash = BoundaryCash(seen, scan, boundary)
    OBVIOUS
  <2>2. PICK g \in BOOLEAN : g = (go /\ cash # Never)
    OBVIOUS
  <2>3. g => cash \in Nat
    BY <2>1, <2>2, BoundaryCashType
  <2>4. PICK d : d = Decide(s, boundary, cash, g)
    OBVIOUS
  <2>5. t = Suppressed(mode, d, date)
    BY <1>1, <1>3, <2>1, <2>2, <2>4 DEF DecideAt
  <2>6. t = d \/ (date \in DOMAIN d.dec /\ t = Settle(d, date, 0, 0))
    BY <2>5 DEF Suppressed
  <2>7. d.err = "none"
    BY <2>6, RefusedStays
  <2>8. /\ Sound(d) /\ DOMAIN d.dep = DOMAIN s.dep /\ DOMAIN d.wd = DOMAIN s.wd
        /\ date % 7 \in Weekdays => date \in DOMAIN d.dec
        /\ DOMAIN s.dec \subseteq DOMAIN d.dec /\ DOMAIN d.dec \subseteq DOMAIN s.dec \cup {date}
        /\ \A y \in DOMAIN s.dec : d.dec[y] = s.dec[y]
        /\ \A w \in DOMAIN s.wd : d.wd[w].frozen = s.wd[w].frozen
    BY <1>1, <2>3, <2>4, <2>7, DecideKeeps
  <2>9. CASE t = d
    BY <2>8, <2>9 DEF DecidedAt
  <2>10. CASE date \in DOMAIN d.dec /\ t = Settle(d, date, 0, 0)
    <3>1. /\ Sound(t) /\ DOMAIN t.dec = DOMAIN d.dec
          /\ DOMAIN t.dep = DOMAIN d.dep /\ t.wd = d.wd
          /\ \A y \in DOMAIN d.dec \ {date} : t.dec[y] = d.dec[y]
      BY <2>8, <2>10, SettleKeeps DEF SettledAt
    <3> QED BY <2>8, <3>1 DEF DecidedAt
  <2> QED BY <2>6, <2>9, <2>10
<1> QED BY <1>2, <1>3

LEMMA AtBoundaryGood ==
  ASSUME CapitalInv, NEW seen, NEW scan, Scanned(seen, scan), NEW mode, NEW go \in BOOLEAN,
         NEW boundary, boundary = Boundary(DateOf(now)), now >= boundary,
         NEW b, Batch(b, pacing, now), \A s : Batch(b, s, now),
         Batch(AsOf(b, boundary), pacing, boundary),
         DOMAIN b.dep = (DOMAIN pacing.dep \cup seen) \cap Deposits,
         DOMAIN b.wd = seen \cap Withdrawals,
         DOMAIN AsOf(b, boundary).dep = {d \in DOMAIN b.dep : occurred[d] <= boundary},
         DOMAIN AsOf(b, boundary).wd = {w \in DOMAIN b.wd : occurred[w] <= boundary},
         NEW r, r = AtBoundary(mode, scan, seen, go, b, boundary,
                               Reconcile(pacing, AsOf(b, boundary), boundary))
  PROVE  Good(r.pacing, r.cursor)
<1>1. PICK atB : atB = Reconcile(pacing, AsOf(b, boundary), boundary)
  OBVIOUS
<1>2. /\ Venue /\ Sound(pacing) /\ SlotOpen(pacing) /\ now \in Nat
      /\ DateOf(now) \in Nat /\ boundary \in Nat /\ DateOf(boundary) = DateOf(now)
  <2>1. Venue /\ Sound(pacing) /\ SlotOpen(pacing) /\ now \in Nat
    BY DEF CapitalInv, Good, Venue
  <2>2. DateOf(now) \in Nat
    BY <2>1, DateType
  <2> QED BY <2>1, <2>2, BoundaryDate
<1>3. CASE \E why : r = Stay(why)
  BY <1>3 DEF Stay, CapitalInv
<1>4. CASE ~\E why : r = Stay(why)
  <2>1. atB.err = "none"
    BY <1>1, <1>4, Zenon DEF AtBoundary
  <2>2. /\ Sound(atB) /\ atB.through = boundary
        /\ DOMAIN atB.dep = DOMAIN pacing.dep \cup DOMAIN AsOf(b, boundary).dep
        /\ DOMAIN atB.wd = DOMAIN pacing.wd \cup DOMAIN AsOf(b, boundary).wd
    BY <1>1, <1>2, <2>1, ReconcileKeeps
  <2>3. CASE Defers(mode, atB, boundary)
    <3>1. PICK events : r = Commit(atB, events, Through(scan, boundary))
      BY <1>1, <2>1, <2>3 DEF AtBoundary
    <3>2. Covers(atB, seen, boundary)
      <4>1. \A m \in seen : m \in Deposits \/ m \in Withdrawals
        BY <1>2 DEF Scanned, Venue
      <4>2. ASSUME NEW m \in seen, occurred[m] <= boundary
            PROVE  m \in DOMAIN atB.dep \cup DOMAIN atB.wd
        BY <2>2, <4>1, <4>2
      <4> QED BY <2>2, <4>2 DEF Covers
    <3>3. PICK c : c = Most(cursor, Through(scan, boundary))
      OBVIOUS
    <3>4. /\ c \in Int /\ Never <= c /\ c <= now
          /\ ListedInTime => Passed(atB, c)
      BY <1>2, <3>2, <3>3, ScanPasses
    <3>5. SlotOpen(atB) /\ atB.through <= now
      BY <1>2, <2>2 DEF SlotOpen
    <3>6. Good(atB, c)
      BY <2>2, <3>4, <3>5 DEF Good
    <3> QED BY <3>1, <3>3, <3>6, CommitGood
  <2>4. CASE ~Defers(mode, atB, boundary)
    <3>1. PICK done : done = DecideAt(mode, atB, boundary, BoundaryCash(seen, scan, boundary), go)
      OBVIOUS
    <3>2. PICK p : p = Reconcile(done, b, now)
      OBVIOUS
    <3>3. r = CommitDecided(scan, seen, boundary, atB, done, p)
      BY <1>1, <2>1, <2>4, <3>1, <3>2 DEF AtBoundary, AfterDecision
    <3>4. p.err = "none"
      BY <1>4, <3>3, Zenon DEF CommitDecided
    <3>5. PICK events : r = Commit(p, events, Through(scan, now))
      BY <3>3, <3>4 DEF CommitDecided
    <3>6. done.err = "none"
      BY <3>2, <3>4, RefusedStays
    <3>7. /\ Sound(done)
          /\ DOMAIN done.dep = DOMAIN atB.dep /\ DOMAIN done.wd = DOMAIN atB.wd
          /\ DateOf(now) % 7 \in Weekdays => DateOf(now) \in DOMAIN done.dec
      <4>1. seen \subseteq DOMAIN occurred
        BY DEF Scanned
      <4>2. Sound(done) /\ DecidedAt(done, atB, DateOf(now))
        BY <1>2, <2>2, <2>4, <3>1, <3>6, <4>1, DecideAtKeeps
      <4> QED BY <4>2, Zenon DEF DecidedAt
    <3>8. /\ Sound(p) /\ p.through = now /\ p.dec = done.dec
          /\ DOMAIN p.dep = DOMAIN done.dep \cup DOMAIN b.dep
          /\ DOMAIN p.wd = DOMAIN done.wd \cup DOMAIN b.wd
      <4>1. Batch(b, done, now)
        OBVIOUS
      <4> QED BY <1>2, <3>2, <3>4, <3>7, <4>1, ReconcileKeeps
    <3>9. Covers(p, seen, now)
      <4>1. \A m \in seen : m \in Deposits \/ m \in Withdrawals
        BY <1>2 DEF Scanned, Venue
      <4>2. \A m \in seen : m \in DOMAIN p.dep \cup DOMAIN p.wd
        BY <3>8, <4>1
      <4>3. DOMAIN pacing.dep \cup DOMAIN pacing.wd \subseteq DOMAIN p.dep \cup DOMAIN p.wd
        BY <2>2, <3>7, <3>8
      <4> QED BY <4>2, <4>3 DEF Covers
    <3>10. PICK c : c = Most(cursor, Through(scan, now))
      OBVIOUS
    <3>11. /\ c \in Int /\ Never <= c /\ c <= now
           /\ ListedInTime => Passed(p, c)
      BY <1>2, <3>9, <3>10, ScanPasses
    <3>12. SlotOpen(p) /\ p.through <= now
      BY <1>2, <3>7, <3>8 DEF SlotOpen
    <3>13. Good(p, c)
      BY <3>8, <3>11, <3>12 DEF Good
    <3> QED BY <3>5, <3>10, <3>13, CommitGood
  <2> QED BY <2>3, <2>4
<1> QED BY <1>3, <1>4

LEMMA CycleGood ==
  ASSUME CapitalInv, NEW seen, NEW scan, Scanned(seen, scan), NEW mode, NEW go \in BOOLEAN,
         NEW r, r = CycleResult(mode, scan, seen, go)
  PROVE  Good(r.pacing, r.cursor)
<1>1. PICK boundary : boundary = Boundary(DateOf(now))
  OBVIOUS
<1>2. /\ Venue /\ Sound(pacing) /\ pacing.through <= now /\ now \in Nat /\ boundary \in Nat
  <2>1. Venue /\ Sound(pacing) /\ pacing.through <= now /\ now \in Nat
    BY DEF CapitalInv, Good, Venue
  <2> QED BY <1>1, <2>1, DateType, BoundaryDate
<1>3. PICK safe \in BOOLEAN : safe = (/\ now >= boundary /\ ~(DateOf(now) \in DOMAIN pacing.dec)
                                      /\ pacing.through <= boundary)
  OBVIOUS
<1>4. PICK b : b = BatchOf(seen, safe, boundary)
  OBVIOUS
<1>5. /\ \A s : Batch(b, s, now)
      /\ safe => Batch(AsOf(b, boundary), pacing, boundary)
      /\ DOMAIN b.dep = (DOMAIN pacing.dep \cup seen) \cap Deposits
      /\ DOMAIN b.wd = seen \cap Withdrawals
      /\ DOMAIN AsOf(b, boundary).dep = {d \in DOMAIN b.dep : occurred[d] <= boundary}
      /\ DOMAIN AsOf(b, boundary).wd = {w \in DOMAIN b.wd : occurred[w] <= boundary}
  <2>1. seen \subseteq DOMAIN occurred
    BY DEF Scanned
  <2>2. ASSUME safe PROVE boundary <= now /\ pacing.through <= boundary
    <3>1. now >= boundary /\ pacing.through <= boundary
      BY <1>3, <2>2, Zenon
    <3> QED BY <1>2, <3>1
  <2>3. Undecided(safe, boundary)
    BY <2>2 DEF Undecided
  <2>4. Batched(b, seen, safe, boundary)
    BY <1>2, <1>4, <2>1, <2>3, ScanBatch
  <2> QED BY <2>4 DEF Batched
<1>6. CASE \E why : r = Stay(why)
  BY <1>6 DEF Stay, CapitalInv
<1>7. CASE ~\E why : r = Stay(why)
  <2>1. r = Reconciled(mode, scan, seen, go, safe, boundary, b)
    BY <1>1, <1>3, <1>4, <1>7 DEF CycleResult, BatchOf
  <2>2. CASE safe
    <3>1. r = AtBoundary(mode, scan, seen, go, b, boundary,
                         Reconcile(pacing, AsOf(b, boundary), boundary))
      BY <1>7, <2>1, <2>2 DEF Reconciled
    <3>2. now >= boundary /\ Batch(b, pacing, now)
      BY <1>3, <1>5, <2>2
    <3> QED BY <1>1, <1>5, <2>2, <3>1, <3>2, AtBoundaryGood
  <2>3. CASE ~safe
    <3>1. r = CommitUpToNow(scan, seen, Reconcile(pacing, b, now))
      BY <1>7, <2>1, <2>3 DEF Reconciled
    <3>2. Batch(b, pacing, now)
      BY <1>5
    <3>3. ~ /\ now >= Boundary(DateOf(now)) /\ DateOf(now) \notin DOMAIN pacing.dec
            /\ pacing.through <= Boundary(DateOf(now))
      BY <1>1, <1>3, <2>3
    <3> QED BY <1>5, <3>1, <3>2, <3>3, UpToNowGood
  <2> QED BY <2>2, <2>3
<1> QED BY <1>6, <1>7

LEMMA SettleGood ==
  ASSUME CapitalInv, NEW x \in DOMAIN pacing.dec, NEW filled \in Nat, NEW debited \in Nat,
         NEW events, NEW r, r = Commit(Settle(pacing, x, filled, debited), events, Never)
  PROVE  Good(r.pacing, r.cursor)
<1>1. PICK p : p = Settle(pacing, x, filled, debited)
  OBVIOUS
<1>2. Venue /\ Good(pacing, cursor) /\ Sound(pacing)
  BY DEF CapitalInv, Good
<1>3. Most(cursor, Never) = cursor
  BY <1>2 DEF Good, Most, Never
<1>4. ASSUME p.err = "none" PROVE Good(p, cursor)
  <2>1. /\ Sound(p) /\ p.through = pacing.through /\ DOMAIN p.dec = DOMAIN pacing.dec
        /\ DOMAIN p.dep = DOMAIN pacing.dep /\ DOMAIN p.wd = DOMAIN pacing.wd
    BY <1>1, <1>2, <1>4, SettleKeeps
  <2> QED BY <1>2, <2>1 DEF Good, SlotOpen, Passed
<1> QED BY <1>1, <1>3, <1>4, CommitGood

\* Whatever a cycle becomes, its surroundings stay as they are.
LEMMA BecomesKeeps ==
  ASSUME CapitalInv, NEW r, Good(r.pacing, r.cursor), Becomes(r)
  PROVE  CapitalInv'
<1>1. /\ pacing' = r.pacing /\ cursor' = r.cursor
      /\ world' = world /\ now' = now /\ occurred' = occurred /\ approvals' = approvals
  BY DEF Becomes
<1>2. Venue'
  BY <1>1 DEF CapitalInv, Venue
<1>3. Good(pacing, cursor)'
  <2>1. /\ Sound(r.pacing) /\ r.pacing.through <= now
        /\ r.cursor \in Int /\ Never <= r.cursor /\ r.cursor <= now
        /\ SlotOpen(r.pacing) /\ (ListedInTime => Passed(r.pacing, r.cursor))
    BY DEF Good
  <2>2. Sound(pacing)'
    BY <1>1, <2>1 DEF Sound, Known, Honoured
  <2>3. SlotOpen(pacing)'
    BY <1>1, <2>1 DEF SlotOpen
  <2>4. ListedInTime' => Passed(pacing, cursor)'
    BY <1>1, <2>1 DEF ListedInTime, Passed
  <2> QED BY <1>1, <2>1, <2>2, <2>3, <2>4 DEF Good
<1> QED BY <1>2, <1>3 DEF CapitalInv

-----------------------------------------------------------------------------
(* Every step keeps the invariant *)

\* A cycle sees every movement the venue has had the time to list.
LEMMA CycleStep ==
  ASSUME CapitalInv, NEW mode, NEW scan,
         NEW late \in SUBSET {m \in DOMAIN occurred : scan # "failed"
                                                   /\ occurred[m] > now - world.lag},
         NEW go \in BOOLEAN, Cycle(mode, scan, late, go)
  PROVE  CapitalInv'
<1>1. PICK seen : seen = IF scan = "failed" THEN {}
                         ELSE {m \in DOMAIN occurred : occurred[m] >= ScanStart} \ late
  OBVIOUS
<1>2. Scanned(seen, scan)
  <2>1. seen \subseteq DOMAIN occurred
    BY <1>1
  <2>2. ASSUME scan = "complete", NEW m \in DOMAIN occurred,
               occurred[m] >= ScanStart, occurred[m] <= now - world.lag
        PROVE  m \in seen
    <3>1. m \notin late
      <4>1. occurred[m] \in Nat /\ now \in Nat /\ world.lag \in Nat
        BY CycleConstants DEF CapitalInv, Venue
      <4>2. ~(occurred[m] > now - world.lag)
        BY <4>1, <2>2
      <4> QED BY <4>2
    <3> QED BY <1>1, <2>2, <3>1
  <2> QED BY <2>1, <2>2 DEF Scanned
<1>3. PICK r : r = CycleResult(mode, scan, seen, go)
  OBVIOUS
<1>4. Becomes(r)
  BY <1>1, <1>3 DEF Cycle
<1>5. Good(r.pacing, r.cursor)
  BY <1>2, <1>3, CycleGood
<1> QED BY <1>4, <1>5, BecomesKeeps

LEMMA SettleStep ==
  ASSUME CapitalInv, NEW x \in DOMAIN pacing.dec, NEW filled \in 0 .. pacing.dec[x].planned,
         NEW fee \in Fees, SettleLive(x, filled, IF filled = 0 THEN 0 ELSE filled + fee)
  PROVE  CapitalInv'
<1>1. PICK debited : debited = IF filled = 0 THEN 0 ELSE filled + fee
  OBVIOUS
<1>2. filled \in Nat /\ debited \in Nat
  <2>1. Decision(pacing.dec[x], DOMAIN pacing.dep)
    BY DEF CapitalInv, Good, Sound, Shape
  <2>2. pacing.dec[x].planned \in Nat
    BY <2>1 DEF Decision
  <2>3. fee \in Nat
    BY CycleConstants
  <2> QED BY <1>1, <2>2, <2>3
<1>3. PICK r : r = Commit(Settle(pacing, x, filled, debited), <<Settled(x, now, debited)>>, Never)
  OBVIOUS
<1>4. Good(r.pacing, r.cursor)
  BY <1>2, <1>3, SettleGood
<1>5. Becomes(r)
  BY <1>1, <1>3 DEF SettleLive
<1> QED BY <1>4, <1>5, BecomesKeeps

\* A day that begins leaves its boundary open: nothing is known past it yet.
LEMMA TickStep == ASSUME CapitalInv, Tick PROVE CapitalInv'
<1>1. /\ now' = now + 1 /\ world' = world /\ occurred' = occurred
      /\ approvals' = approvals /\ pacing' = pacing /\ cursor' = cursor
  BY DEF Tick, books
<1>2. /\ Venue /\ Sound(pacing) /\ SlotOpen(pacing) /\ now \in Nat
      /\ pacing.through \in Int /\ pacing.through <= now
      /\ cursor \in Int /\ Never <= cursor /\ cursor <= now
      /\ ListedInTime => Passed(pacing, cursor)
  <2>1. /\ Venue /\ Sound(pacing) /\ SlotOpen(pacing) /\ now \in Nat
    BY DEF CapitalInv, Good, Venue
  <2>2. pacing.through \in Int
    BY <2>1 DEF Sound, Shape
  <2> QED BY <2>1, <2>2 DEF CapitalInv, Good
<1>3. Venue'
  <2>1. occurred \in [DOMAIN occurred -> 0 .. now + 1]
    <3>1. 0 .. now \subseteq 0 .. now + 1
      BY <1>2
    <3>2. occurred \in [DOMAIN occurred -> 0 .. now]
      BY <1>2 DEF Venue
    <3> QED BY <3>1, <3>2
  <2> QED BY <1>1, <1>2, <2>1 DEF Venue
<1>4. Sound(pacing)'
  BY <1>1, <1>2 DEF Sound, Known, Honoured
<1>5. SlotOpen(pacing)'
  <2>1. PICK d : d = DateOf(now + 1)
    OBVIOUS
  <2>2. PICK l \in Nat : l = DayLength /\ l > 0
    BY CalendarConstants
  <2>3. now + 1 \in Nat /\ d \in Nat
    BY <1>2, <2>1, DateType
  <2>4. l * d <= now + 1 /\ now + 1 < l * d + l
    BY <2>1, <2>2, <2>3, DivBounds DEF DateOf
  <2>5. PICK b \in Nat : b = Boundary(d)
    BY <2>3, BoundaryDate
  <2>6. PICK h \in Nat : h = DecisionHour
    BY CalendarConstants
  <2>7. b = d * l + h
    BY <2>2, <2>5, <2>6 DEF Boundary
  <2>8. ASSUME now + 1 >= b, d % 7 \in Weekdays, d \notin DOMAIN pacing.dec
        PROVE  pacing.through <= b
    <3>1. CASE now >= b
      <4>1. PICK n \in Nat : n = d * l
        BY <2>2, <2>3
      <4>2. l * d = n
        BY <2>2, <2>3, <4>1
      <4>3. n <= now /\ now < n + l
        BY <1>2, <2>2, <2>3, <2>4, <2>6, <2>7, <3>1, <4>1, <4>2
      <4>4. DateOf(now) = d
        BY <1>2, <2>2, <2>3, <4>1, <4>3, DateIs
      <4> QED BY <1>2, <2>5, <2>8, <3>1, <4>4 DEF SlotOpen
    <3>2. CASE ~(now >= b)
      BY <1>2, <2>5, <3>2
    <3> QED BY <3>1, <3>2
  <2> QED BY <1>1, <2>1, <2>5, <2>8 DEF SlotOpen
<1>6. (ListedInTime => Passed(pacing, cursor))'
  BY <1>1, <1>2 DEF ListedInTime, Passed
<1>7. Good(pacing, cursor)'
  <2>1. /\ (pacing.through <= now)' /\ cursor' \in Int
        /\ Never <= cursor' /\ cursor' <= now'
    BY <1>1, <1>2 DEF Never
  <2> QED BY <1>4, <1>5, <1>6, <2>1 DEF Good
<1> QED BY <1>3, <1>7 DEF CapitalInv

\* What happens now is not long past for any scan there has been.
LEMMA MoveStep ==
  ASSUME CapitalInv, NEW m \in Deposits \cup Withdrawals, Move(m)
  PROVE  CapitalInv'
<1>1. /\ m \notin DOMAIN occurred /\ occurred' = With(occurred, m, now)
      /\ now' = now /\ world' = world
      /\ approvals' = approvals /\ pacing' = pacing /\ cursor' = cursor
  BY DEF Move, books
<1>2. /\ DOMAIN occurred' = DOMAIN occurred \cup {m} /\ occurred'[m] = now
      /\ \A x \in DOMAIN occurred : occurred'[x] = occurred[x]
      /\ occurred' = [x \in DOMAIN occurred' |-> occurred'[x]]
  BY <1>1 DEF With
<1>3. /\ Venue /\ Sound(pacing) /\ SlotOpen(pacing) /\ now \in Nat
      /\ pacing.through <= now
      /\ cursor \in Int /\ Never <= cursor /\ cursor <= now
      /\ ListedInTime => Passed(pacing, cursor)
  BY DEF CapitalInv, Good, Venue
<1>4. Venue'
  <2>1. IsFiniteSet(DOMAIN occurred')
    BY <1>2, <1>3, FS_AddElement DEF Venue
  <2>2. DOMAIN occurred' \subseteq Deposits \cup Withdrawals
    BY <1>2, <1>3 DEF Venue
  <2>3. \A x \in DOMAIN occurred' : occurred'[x] \in 0 .. now
    BY <1>2, <1>3 DEF Venue
  <2>4. occurred' \in [DOMAIN occurred' -> 0 .. now]
    BY <1>2, <2>3
  <2>5. DOMAIN approvals \subseteq DOMAIN occurred' \cap Deposits
    BY <1>2, <1>3 DEF Venue
  <2> QED BY <1>1, <1>3, <2>1, <2>2, <2>4, <2>5 DEF Venue
<1>5. Sound(pacing)'
  <2>1. Known(pacing, pacing.through)'
    BY <1>1, <1>2, <1>3 DEF Sound, Known
  <2>2. Honoured(pacing)'
    BY <1>1, <1>2, <1>3 DEF Sound, Honoured
  <2> QED BY <1>1, <1>3, <2>1, <2>2 DEF Sound
<1>6. SlotOpen(pacing)'
  BY <1>1, <1>3 DEF SlotOpen
<1>7. (ListedInTime => Passed(pacing, cursor))'
  <2>1. Most(world.lag, 1) \in Nat /\ Most(world.lag, 1) >= 1
    <3>1. world.lag \in Nat
      BY <1>3, CycleConstants DEF Venue
    <3> QED BY <3>1 DEF Most
  <2>2. ~(now + Most(world.lag, 1) <= cursor)
    BY <1>3, <2>1
  <2> QED BY <1>1, <1>2, <1>3, <2>2 DEF ListedInTime, Passed
<1>8. Good(pacing, cursor)'
  BY <1>1, <1>3, <1>5, <1>6, <1>7 DEF Good
<1> QED BY <1>4, <1>8 DEF CapitalInv

\* An approval is given once, and nothing there was refers to it yet.
LEMMA ApproveStep ==
  ASSUME CapitalInv, NEW d \in Deposits, NEW at \in 0 .. MaxTime,
         NEW max \in world.ceilings, Approve(d, at, max)
  PROVE  CapitalInv'
<1>1. /\ d \in DOMAIN occurred /\ d \notin DOMAIN approvals
      /\ approvals' = With(approvals, d, [at |-> at, max |-> max])
      /\ now' = now /\ world' = world
      /\ occurred' = occurred /\ pacing' = pacing /\ cursor' = cursor
  BY DEF Approve, books
<1>2. /\ DOMAIN approvals' = DOMAIN approvals \cup {d}
      /\ approvals'[d].at = at /\ approvals'[d].max = max
      /\ \A x \in DOMAIN approvals : approvals'[x] = approvals[x]
  BY <1>1 DEF With
<1>3. /\ Venue /\ Sound(pacing) /\ SlotOpen(pacing)
      /\ ListedInTime => Passed(pacing, cursor)
  BY DEF CapitalInv, Good
<1>4. Venue'
  <2>1. at \in Nat /\ max \in Int
    <3>1. world \in Worlds
      BY <1>3 DEF Venue
    <3>2. max \in (Nat \ {0}) \cup {NoLimit}
      BY <3>1, CycleConstants
    <3> QED BY <3>2 DEF NoLimit
  <2>2. \A x \in DOMAIN approvals' : approvals'[x].at \in Nat /\ approvals'[x].max \in Int
    BY <1>2, <1>3, <2>1 DEF Venue
  <2>3. DOMAIN approvals' \subseteq DOMAIN occurred \cap Deposits
    BY <1>1, <1>2, <1>3 DEF Venue
  <2> QED BY <1>1, <1>3, <2>2, <2>3 DEF Venue
<1>5. Sound(pacing)'
  <2>1. Known(pacing, pacing.through)'
    BY <1>1, <1>2, <1>3 DEF Sound, Known
  <2>2. Honoured(pacing)'
    BY <1>1, <1>2, <1>3 DEF Sound, Honoured
  <2> QED BY <1>1, <1>3, <2>1, <2>2 DEF Sound
<1>6. SlotOpen(pacing)'
  BY <1>1, <1>3 DEF SlotOpen
<1>7. (ListedInTime => Passed(pacing, cursor))'
  BY <1>1, <1>3 DEF ListedInTime, Passed
<1>8. Good(pacing, cursor)'
  BY <1>1, <1>5, <1>6, <1>7 DEF CapitalInv, Good
<1> QED BY <1>4, <1>8 DEF CapitalInv

LEMMA CapitalStep == ASSUME CapitalInv, [Next]_vars PROVE CapitalInv'
<1>1. CASE Tick
  BY <1>1, TickStep
<1>2. CASE \E m \in Deposits \cup Withdrawals : Move(m)
  BY <1>2, MoveStep
<1>3. CASE \E d \in Deposits, at \in 0 .. MaxTime, max \in world.ceilings : Approve(d, at, max)
  BY <1>3, ApproveStep
<1>4. CASE \E mode \in world.modes, scan \in world.scans :
             \E late \in SUBSET {m \in DOMAIN occurred : scan # "failed"
                                                      /\ occurred[m] > now - world.lag},
                go \in IF mode = "observe" THEN {FALSE} ELSE BOOLEAN :
               Cycle(mode, scan, late, go)
  <2>1. PICK mode \in world.modes, scan \in world.scans :
             \E late \in SUBSET {m \in DOMAIN occurred : scan # "failed"
                                                      /\ occurred[m] > now - world.lag},
                go \in IF mode = "observe" THEN {FALSE} ELSE BOOLEAN :
               Cycle(mode, scan, late, go)
    BY <1>4
  <2>2. PICK late \in SUBSET {m \in DOMAIN occurred : scan # "failed"
                                                   /\ occurred[m] > now - world.lag},
             go \in BOOLEAN :
               Cycle(mode, scan, late, go)
    BY <2>1
  <2> QED BY <2>2, CycleStep
<1>5. CASE \E x \in DOMAIN pacing.dec :
             \E filled \in 0 .. pacing.dec[x].planned, fee \in Fees :
               SettleLive(x, filled, IF filled = 0 THEN 0 ELSE filled + fee)
  BY <1>5, SettleStep
<1>6. CASE UNCHANGED vars
  <2>1. /\ now' = now /\ world' = world /\ occurred' = occurred
        /\ approvals' = approvals /\ pacing' = pacing /\ cursor' = cursor
    BY <1>6 DEF vars
  <2> QED BY <2>1 DEF CapitalInv, Venue, Good, Sound, Known, Honoured,
                      SlotOpen, ListedInTime, Passed
<1> QED BY <1>1, <1>2, <1>3, <1>4, <1>5, <1>6 DEF Next

LEMMA NothingYet == Shape(NewState) /\ Valid(NewState) /\ Reserve(NewState)
<1>1. DOMAIN <<>> = {}
  OBVIOUS
<1>2. PICK e : e = <<>> /\ DOMAIN e = {}
  BY <1>1
<1>3. PICK s : s = [err |-> "none", through |-> Never, dep |-> e, wd |-> e, dec |-> e]
  OBVIOUS
<1>4. s = NewState
  BY <1>2, <1>3 DEF NewState
<1>5. /\ s.err = "none" /\ s.through = Never /\ s.dep = e /\ s.wd = e /\ s.dec = e
  BY <1>3
<1>6. IsFiniteSet({})
  BY FS_EmptySet
<1>7. e \in [{} -> Tranches] /\ e = [x \in {} |-> e[x]]
  BY <1>2
<1>8. Shape(s)
  BY <1>2, <1>3, <1>5, <1>6, <1>7 DEF Shape, Never
<1>9. Admitted(s) = 0
  <2>1. DOMAIN [d \in DOMAIN s.dep |-> s.dep[d].admitted] = {}
    BY <1>2, <1>5
  <2> QED BY <2>1, SumEmpty DEF Admitted
<1>10. Valid(s)
  <2>1. Free(s) = 0
    <3>1. DOMAIN [d \in DOMAIN s.dep |-> Residual(s.dep[d])] = {}
      BY <1>2, <1>5
    <3> QED BY <3>1, SumEmpty DEF Free
  <2>2. SumFunction([d \in DOMAIN s.dep |->
                       s.dep[d].admitted - s.dep[d].invested - s.dep[d].committed]) = 0
    <3>1. DOMAIN [d \in DOMAIN s.dep |->
                    s.dep[d].admitted - s.dep[d].invested - s.dep[d].committed] = {}
      BY <1>2, <1>5
    <3> QED BY <3>1, SumEmpty
  <2>3. Least(0, FixedReserve) = 0
    BY PacingLimits DEF Least
  <2>4. WithinCaps(s)
    BY <1>2, <1>5, <1>9, PacingLimits DEF WithinCaps
  <2> QED BY <1>2, <1>5, <2>1, <2>2, <2>3, <2>4 DEF Valid
<1>11. Reserve(s)
  BY <1>2, <1>5 DEF Reserve, Unspent
<1> QED BY <1>4, <1>8, <1>10, <1>11

\* apply_cycle and settle_live_decision keep the inductive invariant: of the
\* pacing state its shape, the equations validate_invariants checks, the fixed
\* reserve, that it says of every movement and approval what happened, and that
\* what its decisions drew on was ripe; of today's boundary, that it can still be
\* decided; and of the cursor, that what it passed is known.
THEOREM CapitalSound == Spec => []CapitalInv
<1>1. Init => CapitalInv
  <2>1. SUFFICES ASSUME Init PROVE CapitalInv
    OBVIOUS
  <2>2. PICK e : e = <<>> /\ DOMAIN e = {}
    OBVIOUS
  <2>3. /\ world \in Worlds /\ now = 0 /\ occurred = e /\ approvals = e
        /\ pacing = NewState /\ cursor = Never
    BY <2>1, <2>2 DEF Init
  <2>4. /\ pacing.err = "none" /\ pacing.through = Never
        /\ DOMAIN pacing.dep = {} /\ DOMAIN pacing.wd = {} /\ DOMAIN pacing.dec = {}
    BY <2>3 DEF NewState
  <2>5. Venue
    <3>1. IsFiniteSet(DOMAIN occurred)
      BY <2>2, <2>3, FS_EmptySet
    <3>2. occurred \in [DOMAIN occurred -> 0 .. now]
      BY <2>2, <2>3
    <3> QED BY <2>2, <2>3, <3>1, <3>2 DEF Venue
  <2>6. Sound(pacing)
    BY <2>3, <2>4, NothingYet DEF Sound, Known, Honoured
  <2>7. SlotOpen(pacing)
    <3>1. DateOf(now) \in Nat
      BY <2>3, DateType
    <3>2. Boundary(DateOf(now)) \in Nat
      BY <3>1, BoundaryDate
    <3> QED BY <2>4, <3>2 DEF SlotOpen, Never
  <2>8. Passed(pacing, cursor)
    BY <2>2, <2>3 DEF Passed
  <2> QED BY <2>3, <2>4, <2>5, <2>6, <2>7, <2>8 DEF CapitalInv, Good, Never
<1>2. CapitalInv /\ [Next]_vars => CapitalInv'
  BY CapitalStep
<1> QED BY <1>1, <1>2, PTL DEF Spec

\* reconcile_capital, build_decision and the settlements: whatever is replayed,
\* drawn, released or withdrawn, in whatever order and however late it is listed,
\* the fixed reserve is free once anything was committed, spent or withdrawn.
THEOREM ReserveStays == Spec => []ReserveIntact
<1>1. CapitalInv => ReserveIntact
  <2>1. SUFFICES ASSUME CapitalInv, NEW d \in DOMAIN pacing.dep,
                        pacing.dep[d].committed + pacing.dep[d].invested
                          + pacing.dep[d].withdrawn > 0
                 PROVE  Free(pacing) >= FixedReserve
    BY Zenon DEF ReserveIntact
  <2>2. Reserve(pacing)
    BY <2>1 DEF CapitalInv, Good, Sound
  <2>3. ~Unspent(pacing)
    BY <2>1 DEF Unspent
  <2> QED BY <2>2, <2>3 DEF Reserve
<1> QED BY <1>1, CapitalSound, PTL

\* build_decision through available_tranches: what a decision drew on stays
\* approved and cooled down at its boundary, although a cycle may make the
\* decision later, from approvals and movements it has only then been told of.
THEOREM BoundariesHonoured == Spec => []BoundaryHonoured
<1>1. CapitalInv => BoundaryHonoured
  BY DEF CapitalInv, Good, Sound, Honoured, BoundaryHonoured
<1> QED BY <1>1, CapitalSound, PTL

\* apply_cycle: on a scheduled weekday neither cycle reconciles capital past a
\* boundary nobody has decided.
THEOREM ScheduledSlotStays == Spec => []ScheduledSlotKept
<1>1. CapitalInv => ScheduledSlotKept
  BY DEF CapitalInv, Good, SlotOpen, ScheduledSlotKept
<1> QED BY <1>1, CapitalSound, PTL

\* The scan's start and apply_cycle's cursor: if the venue lists within the
\* overlap, no movement is passed by, whatever scans fail, come late or stop at a
\* boundary.
THEOREM NothingIsMissed == ASSUME ListedInTime PROVE Spec => []NothingMissed
<1>1. CapitalInv => NothingMissed
  <2>1. SUFFICES ASSUME CapitalInv, NEW m \in DOMAIN occurred, cursor # Never,
                        occurred[m] + Most(world.lag, 1) <= cursor
                 PROVE  \/ m \in DOMAIN pacing.dep
                        \/ m \in DOMAIN pacing.wd /\ pacing.wd[m].applied
    BY DEF NothingMissed
  <2>2. m \in DOMAIN pacing.dep \cup DOMAIN pacing.wd
    BY <2>1 DEF CapitalInv, Good, Passed
  <2>3. ASSUME NEW w \in DOMAIN pacing.wd PROVE pacing.wd[w].applied
    <3>1. pacing.wd[w].reconciled <= pacing.through
      BY <2>1 DEF CapitalInv, Good, Sound, Known
    <3>2. pacing.wd[w].applied = (pacing.wd[w].reconciled <= pacing.through)
      BY <2>1 DEF CapitalInv, Good, Sound, Valid
    <3> QED BY <3>1, <3>2
  <2> QED BY <2>2, <2>3
<1> QED BY <1>1, CapitalSound, PTL

\* r is what FoldLeft iterates to apply the events ids to the book s.
Applies(r, s, ids, n) ==
  r = [d \in SUBSET (1..n) |-> IF d = {} THEN s ELSE ApplyEvent(r[Smaller(d)], ids[Largest(d)])]

LEMMA AppliesExist == ASSUME NEW s, NEW ids, NEW n \in Nat PROVE \E r : Applies(r, s, ids, n)
<1> DEFINE T == {k \in Nat : \E r : Applies(r, s, ids, k)}
<1>1. 0 \in T
  <2> DEFINE r == [d \in SUBSET (1..0) |-> s]
  <2>1. \A d \in SUBSET (1..0) : d = {}
    OBVIOUS
  <2>2. Applies(r, s, ids, 0)
    BY <2>1 DEF Applies
  <2> QED BY <2>2
<1>2. ASSUME NEW k \in Nat, NEW m \in Nat, k \in T, m = k + 1 PROVE m \in T
  <2>1. PICK r : Applies(r, s, ids, k)
    BY <1>2
  <2> DEFINE h == [d \in SUBSET (1..m) |-> IF d = {} THEN s ELSE ApplyEvent(r[Smaller(d)], ids[Largest(d)])]
  <2>2. ASSUME NEW d \in SUBSET (1..m), d # {} PROVE r[Smaller(d)] = h[Smaller(d)]
    <3>1. PICK e : e = Smaller(d)
      OBVIOUS
    <3>2. e \in SUBSET (1..k) /\ e \in SUBSET (1..m)
      BY <1>2, <2>2, <3>1, LastOf
    <3>3. r[e] = IF e = {} THEN s ELSE ApplyEvent(r[Smaller(e)], ids[Largest(e)])
      BY <2>1, <3>2 DEF Applies
    <3> QED BY <3>1, <3>2, <3>3
  <2>3. Applies(h, s, ids, m)
    BY <2>2 DEF Applies
  <2> QED BY <2>3
<1>3. Nat \subseteq T
  <2> HIDE DEF T
  <2> QED BY <1>1, <1>2, Inductive
<1> QED BY <1>3

\* The books of a replay, one after the other.
BookRun(st, s, ids, n) ==
  /\ st[0] = s /\ FoldLeft(ApplyEvent, s, ids) = st[n]
  /\ \A k, m \in 0..n : m = k + 1 => st[m] = ApplyEvent(st[k], ids[m])

LEMMA BookSteps ==
  ASSUME NEW s, NEW ids, NEW n \in Nat, DOMAIN ids = 1..n
  PROVE  \E st : BookRun(st, s, ids, n)
<1> DEFINE r == CHOOSE r : Applies(r, s, ids, n)
<1>1. Applies(r, s, ids, n)
  BY AppliesExist, Zenon
<1>2. FoldLeft(ApplyEvent, s, ids) = r[1..n]
  BY DEF FoldLeft, MapThenFoldSet, Applies, Largest, Smaller
<1> HIDE DEF r
<1> DEFINE st == [k \in 0..n |-> r[1..k]]
<1>3. \A d \in SUBSET (1..n) : r[d] = IF d = {} THEN s ELSE ApplyEvent(r[Smaller(d)], ids[Largest(d)])
  BY <1>1 DEF Applies
<1>4. st[0] = s
  <2>1. 1..0 = {} /\ {} \in SUBSET (1..n)
    OBVIOUS
  <2>2. r[{}] = s
    BY <1>3, <2>1
  <2>3. r[1..0] = s
    BY <2>1, <2>2, Zenon
  <2>4. 0 \in 0..n
    OBVIOUS
  <2> QED BY <2>3, <2>4, Zenon
<1>5. ASSUME NEW k \in 0..n, NEW m \in 0..n, m = k + 1
      PROVE  st[m] = ApplyEvent(st[k], ids[m])
  <2>0. k \in Nat /\ m \in Nat
    OBVIOUS
  <2>1. 1..m # {} /\ Largest(1..m) = m /\ Smaller(1..m) = 1..k
    BY <1>5, <2>0, LastUpTo, Zenon
  <2>2. 1..m \in SUBSET (1..n)
    <3>1. \A i \in 1..m : i \in 1..n
      OBVIOUS
    <3> QED BY <3>1
  <2>3. r[1..m] = ApplyEvent(r[1..k], ids[m])
    BY <1>3, <2>1, <2>2, Zenon
  <2> QED BY <2>3
<1> HIDE DEF st
<1>6. st[n] = r[1..n]
  BY DEF st
<1>7. BookRun(st, s, ids, n)
  BY <1>2, <1>4, <1>5, <1>6 DEF BookRun
<1> QED BY <1>7

\* r is what FoldLeft iterates to append the batch ids to the journal s.
Appends(r, s, ids, n) ==
  r = [d \in SUBSET (1..n) |-> IF d = {} THEN s ELSE AppendNew(r[Smaller(d)], ids[Largest(d)])]

LEMMA AppendsExist == ASSUME NEW s, NEW ids, NEW n \in Nat PROVE \E r : Appends(r, s, ids, n)
<1> DEFINE T == {k \in Nat : \E r : Appends(r, s, ids, k)}
<1>1. 0 \in T
  <2> DEFINE r == [d \in SUBSET (1..0) |-> s]
  <2>1. \A d \in SUBSET (1..0) : d = {}
    OBVIOUS
  <2>2. Appends(r, s, ids, 0)
    BY <2>1 DEF Appends
  <2> QED BY <2>2
<1>2. ASSUME NEW k \in Nat, NEW m \in Nat, k \in T, m = k + 1 PROVE m \in T
  <2>1. PICK r : Appends(r, s, ids, k)
    BY <1>2
  <2> DEFINE h == [d \in SUBSET (1..m) |-> IF d = {} THEN s ELSE AppendNew(r[Smaller(d)], ids[Largest(d)])]
  <2>2. ASSUME NEW d \in SUBSET (1..m), d # {} PROVE r[Smaller(d)] = h[Smaller(d)]
    <3>1. PICK e : e = Smaller(d)
      OBVIOUS
    <3>2. e \in SUBSET (1..k) /\ e \in SUBSET (1..m)
      BY <1>2, <2>2, <3>1, LastOf
    <3>3. r[e] = IF e = {} THEN s ELSE AppendNew(r[Smaller(e)], ids[Largest(e)])
      BY <2>1, <3>2 DEF Appends
    <3> QED BY <3>1, <3>2, <3>3
  <2>3. Appends(h, s, ids, m)
    BY <2>2 DEF Appends
  <2> QED BY <2>3
<1>3. Nat \subseteq T
  <2> HIDE DEF T
  <2> QED BY <1>1, <1>2, Inductive
<1> QED BY <1>3

\* The journals of an append, one after the other.
AppendRun(st, s, ids, n) ==
  /\ st[0] = s /\ Extended(s, ids) = st[n]
  /\ \A k, m \in 0..n : m = k + 1 => st[m] = AppendNew(st[k], ids[m])

LEMMA AppendSteps ==
  ASSUME NEW s, NEW ids, NEW n \in Nat, DOMAIN ids = 1..n
  PROVE  \E st : AppendRun(st, s, ids, n)
<1> DEFINE r == CHOOSE r : Appends(r, s, ids, n)
<1>1. Appends(r, s, ids, n)
  BY AppendsExist, Zenon
<1>2. Extended(s, ids) = r[1..n]
  BY DEF Extended, FoldLeft, MapThenFoldSet, Appends, Largest, Smaller
<1> HIDE DEF r
<1> DEFINE st == [k \in 0..n |-> r[1..k]]
<1>3. \A d \in SUBSET (1..n) : r[d] = IF d = {} THEN s ELSE AppendNew(r[Smaller(d)], ids[Largest(d)])
  BY <1>1 DEF Appends
<1>4. st[0] = s
  <2>1. 1..0 = {} /\ {} \in SUBSET (1..n)
    OBVIOUS
  <2>2. r[{}] = s
    BY <1>3, <2>1
  <2>3. r[1..0] = s
    BY <2>1, <2>2, Zenon
  <2>4. 0 \in 0..n
    OBVIOUS
  <2> QED BY <2>3, <2>4, Zenon
<1>5. ASSUME NEW k \in 0..n, NEW m \in 0..n, m = k + 1
      PROVE  st[m] = AppendNew(st[k], ids[m])
  <2>0. k \in Nat /\ m \in Nat
    OBVIOUS
  <2>1. 1..m # {} /\ Largest(1..m) = m /\ Smaller(1..m) = 1..k
    BY <1>5, <2>0, LastUpTo, Zenon
  <2>2. 1..m \in SUBSET (1..n)
    <3>1. \A i \in 1..m : i \in 1..n
      OBVIOUS
    <3> QED BY <3>1
  <2>3. r[1..m] = AppendNew(r[1..k], ids[m])
    BY <1>3, <2>1, <2>2, Zenon
  <2> QED BY <2>3
<1> HIDE DEF st
<1>6. st[n] = r[1..n]
  BY DEF st
<1>7. AppendRun(st, s, ids, n)
  BY <1>2, <1>4, <1>5, <1>6 DEF AppendRun
<1> QED BY <1>7

-----------------------------------------------------------------------------
(* What a replay makes of a set of events *)

\* j lists n events.
Listed(j, n) == n \in Nat /\ j = [i \in 1..n |-> j[i]]

\* h lists what j lists and then e.
Then(h, j, n, e) == Listed(h, n + 1) /\ h[n + 1] = e /\ \A i \in 1..n : h[i] = j[i]

LEMMA AppendIs ==
  ASSUME NEW j, NEW n, Listed(j, n), NEW e
  PROVE  Then(Append(j, e), j, n, e)
<1> DEFINE h == Append(j, e)
<1> DEFINE A == ToSet(j) \cup {e}
<1>1. DOMAIN j = 1..n /\ n \in Nat /\ j = [i \in 1..n |-> j[i]]
  BY DEF Listed
<1>2. \A i \in 1..n : j[i] \in A
  BY <1>1 DEF ToSet
<1>3. j \in [1..n -> A]
  BY <1>1, <1>2
<1> HIDE DEF A
<1>4. j \in Seq(A)
  BY <1>1, <1>3
<1>5. e \in A
  BY DEF A
<1>6. Len(j) = n
  BY <1>1, <1>4
<1>7. h \in Seq(A) /\ Len(h) = n + 1
  BY <1>4, <1>5, <1>6
<1>8. h[n + 1] = e /\ \A i \in 1..n : h[i] = j[i]
  BY <1>4, <1>5, <1>6
<1>9. h = [i \in 1..(n + 1) |-> h[i]]
  BY <1>1, <1>7
<1>10. Listed(h, n + 1)
  BY <1>1, <1>9 DEF Listed
<1> QED BY <1>8, <1>10 DEF Then

Kinds == {"deposit", "admission", "withdrawal", "commitment", "decision", "skip", "settlement"}

\* An id says the kind and the subject, and of an admission up to what.
Event(e) ==
  /\ e.id[1] \in Kinds
  /\ e.id[1] \in {"admission", "withdrawal"} => e.amount \in Int
  /\ IsFiniteSet(DOMAIN e.ret) /\ e.ret \in [DOMAIN e.ret -> Nat]
  /\ e.id = IF e.id[1] = "admission" THEN <<e.id[1], e.id[2], e.id[3]>> ELSE <<e.id[1], e.id[2]>>

OfKind(S, K) == {e \in S : e.id[1] \in K}
Names(S, K) == {e.id[2] : e \in OfKind(S, K)}

\* What an event admits of a deposit, returns of it and takes out.
AdmittedOf(e, d) == IF e.id[1] = "admission" /\ e.id[2] = d THEN e.amount ELSE 0
ReturnedOf(e, d) == IF e.id[1] = "withdrawal" /\ d \in DOMAIN e.ret THEN e.ret[d] ELSE 0
WithdrawnOf(e) == IF e.id[1] = "withdrawal" THEN e.amount - SumFunction(e.ret) ELSE 0

AdmittedBy(S, d) == SumFunction([e \in S |-> AdmittedOf(e, d)])
ReturnedBy(S, d) == SumFunction([e \in S |-> ReturnedOf(e, d)])
WithdrawnBy(S) == SumFunction([e \in S |-> WithdrawnOf(e)])

Events(S) == IsFiniteSet(S) /\ \A e \in S : Event(e)

LEMMA EventAmounts ==
  ASSUME NEW e, Event(e), NEW d
  PROVE  AdmittedOf(e, d) \in Int /\ ReturnedOf(e, d) \in Int /\ WithdrawnOf(e) \in Int
<1>1. SumFunction(e.ret) \in Int
  <2>1. e.ret \in [DOMAIN e.ret -> Int] /\ IsFiniteSet(DOMAIN e.ret)
    BY DEF Event
  <2> QED BY <2>1, SumType
<1>2. /\ e.id[1] \in {"admission", "withdrawal"} => e.amount \in Int
      /\ \A x \in DOMAIN e.ret : e.ret[x] \in Int
  BY DEF Event
<1> QED BY <1>1, <1>2 DEF AdmittedOf, ReturnedOf, WithdrawnOf

\* One event more adds what it admits, returns and takes out.
LEMMA EventSums ==
  ASSUME NEW S, Events(S), NEW e, Event(e), e \notin S, NEW T, T = S \cup {e}
  PROVE  /\ Events(T)
         /\ \A d : AdmittedBy(T, d) = AdmittedBy(S, d) + AdmittedOf(e, d) /\ AdmittedBy(S, d) \in Int
         /\ \A d : ReturnedBy(T, d) = ReturnedBy(S, d) + ReturnedOf(e, d) /\ ReturnedBy(S, d) \in Int
         /\ WithdrawnBy(T) = WithdrawnBy(S) + WithdrawnOf(e) /\ WithdrawnBy(S) \in Int
<1>1. IsFiniteSet(S) /\ IsFiniteSet(T) /\ Without(S, T, e) /\ e \in T /\ S \subseteq T
  <2>1. IsFiniteSet(S) /\ IsFiniteSet({e})
    BY FS_Singleton DEF Events
  <2>2. IsFiniteSet(T)
    BY <2>1, FS_Union
  <2> QED BY <2>1, <2>2 DEF Without
<1>2. \A f \in T : Event(f)
  BY DEF Events
<1>3. ASSUME NEW d
      PROVE  AdmittedBy(T, d) = AdmittedBy(S, d) + AdmittedOf(e, d) /\ AdmittedBy(S, d) \in Int
  <2> DEFINE f == [x \in T |-> AdmittedOf(x, d)]
             h == [x \in S |-> AdmittedOf(x, d)]
  <2>1. f \in [T -> Int] /\ h \in [S -> Int]
    BY <1>1, <1>2, EventAmounts
  <2>2. f[e] = AdmittedOf(e, d) /\ \A y \in S : h[y] = f[y]
    BY <1>1
  <2>3. AdmittedBy(T, d) = SumFunction(f) /\ AdmittedBy(S, d) = SumFunction(h)
    BY DEF AdmittedBy
  <2> HIDE DEF f, h
  <2>4. SumFunction(f) = f[e] + SumFunction(h) /\ SumFunction(h) \in Int
    BY <1>1, <2>1, <2>2, SumSplit, SumType
  <2>5. f[e] \in Int
    BY <1>1, <2>1
  <2> QED BY <2>2, <2>3, <2>4, <2>5
<1>4. ASSUME NEW d
      PROVE  ReturnedBy(T, d) = ReturnedBy(S, d) + ReturnedOf(e, d) /\ ReturnedBy(S, d) \in Int
  <2> DEFINE f == [x \in T |-> ReturnedOf(x, d)]
             h == [x \in S |-> ReturnedOf(x, d)]
  <2>1. f \in [T -> Int] /\ h \in [S -> Int]
    BY <1>1, <1>2, EventAmounts
  <2>2. f[e] = ReturnedOf(e, d) /\ \A y \in S : h[y] = f[y]
    BY <1>1
  <2>3. ReturnedBy(T, d) = SumFunction(f) /\ ReturnedBy(S, d) = SumFunction(h)
    BY DEF ReturnedBy
  <2> HIDE DEF f, h
  <2>4. SumFunction(f) = f[e] + SumFunction(h) /\ SumFunction(h) \in Int
    BY <1>1, <2>1, <2>2, SumSplit, SumType
  <2>5. f[e] \in Int
    BY <1>1, <2>1
  <2> QED BY <2>2, <2>3, <2>4, <2>5
<1>5. WithdrawnBy(T) = WithdrawnBy(S) + WithdrawnOf(e) /\ WithdrawnBy(S) \in Int
  <2> DEFINE f == [x \in T |-> WithdrawnOf(x)]
             h == [x \in S |-> WithdrawnOf(x)]
  <2>1. f \in [T -> Int] /\ h \in [S -> Int]
    BY <1>1, <1>2, EventAmounts
  <2>2. f[e] = WithdrawnOf(e) /\ \A y \in S : h[y] = f[y]
    BY <1>1
  <2>3. WithdrawnBy(T) = SumFunction(f) /\ WithdrawnBy(S) = SumFunction(h)
    BY DEF WithdrawnBy
  <2> HIDE DEF f, h
  <2>4. SumFunction(f) = f[e] + SumFunction(h) /\ SumFunction(h) \in Int
    BY <1>1, <2>1, <2>2, SumSplit, SumType
  <2>5. f[e] \in Int
    BY <1>1, <2>1
  <2> QED BY <2>2, <2>3, <2>4, <2>5
<1> QED BY <1>1, <1>2, <1>3, <1>4, <1>5 DEF Events

\* One event more names its subject.
LEMMA EventNames ==
  ASSUME NEW S, NEW e, NEW T, T = S \cup {e}, NEW K
  PROVE  Names(T, K) = IF e.id[1] \in K THEN Names(S, K) \cup {e.id[2]} ELSE Names(S, K)
BY DEF Names, OfKind

\* What a book keeps of every deposit and of every commitment.
DepositMap(D) ==
  /\ D = [d \in DOMAIN D |-> D[d]]
  /\ \A d \in DOMAIN D :
       /\ D[d] = [at |-> D[d].at, amount |-> D[d].amount,
                  admitted |-> D[d].admitted, returned |-> D[d].returned]
       /\ D[d].admitted \in Int /\ D[d].returned \in Int
CommitmentMap(C) ==
  /\ C = [x \in DOMAIN C |-> C[x]]
  /\ \A x \in DOMAIN C :
       C[x] = [at |-> C[x].at, amount |-> C[x].amount, settled |-> C[x].settled]
BookShape(b) ==
  /\ b = [err |-> b.err, dep |-> b.dep, timeline |-> b.timeline, commit |-> b.commit,
          decided |-> b.decided, admitted |-> b.admitted, withdrawn |-> b.withdrawn,
          committed |-> b.committed, spent |-> b.spent]
  /\ DepositMap(b.dep) /\ CommitmentMap(b.commit)
  /\ b.decided = [x \in DOMAIN b.decided |-> b.decided[x]]
  /\ b.withdrawn \in Int

\* What a book says of its deposits, of what went out and of the days.
DepositsAre(b, S) ==
  /\ DOMAIN b.dep = Names(S, {"deposit"})
  /\ \A d \in DOMAIN b.dep :
       b.dep[d].admitted = AdmittedBy(S, d) /\ b.dep[d].returned = ReturnedBy(S, d)
  /\ \A e \in OfKind(S, {"admission"}) : e.id[2] \in DOMAIN b.dep
  /\ \A e \in OfKind(S, {"withdrawal"}) : DOMAIN e.ret \subseteq DOMAIN b.dep
DaysAre(b, S) ==
  /\ DOMAIN b.decided = Names(S, {"decision", "skip"})
  /\ DOMAIN b.commit = Names(S, {"commitment"})
  /\ Names(S, {"settlement"}) \subseteq DOMAIN b.commit
  /\ \A x \in DOMAIN b.commit : b.commit[x].settled = (x \in Names(S, {"settlement"}))
BookIs(b, S) ==
  /\ BookShape(b) /\ DepositsAre(b, S) /\ DaysAre(b, S)
  /\ b.withdrawn = WithdrawnBy(S)

\* An entry in the timeline changes nothing else.
LEMMA EnterIs ==
  ASSUME NEW b, BookShape(b), NEW at, NEW credit, NEW debit, NEW c, c = Enter(b, at, credit, debit)
  PROVE  /\ BookShape(c)
         /\ c.dep = b.dep /\ c.commit = b.commit /\ c.decided = b.decided
         /\ c.withdrawn = b.withdrawn
<1>1. PICK l : l = Inserted(b.timeline, [at |-> at, credit |-> credit, debit |-> debit])
  OBVIOUS
<1>2. c = [b EXCEPT !.timeline = l] \/ c = [b EXCEPT !.err = "insufficient deployable capital"]
  BY <1>1 DEF Enter, Fail
<1>3. /\ c = [err |-> c.err, dep |-> b.dep, timeline |-> c.timeline, commit |-> b.commit,
              decided |-> b.decided, admitted |-> b.admitted, withdrawn |-> b.withdrawn,
              committed |-> b.committed, spent |-> b.spent]
  <2>1. PICK D, T, C, X : b = [err |-> b.err, dep |-> D, timeline |-> T, commit |-> C,
              decided |-> X, admitted |-> b.admitted, withdrawn |-> b.withdrawn,
              committed |-> b.committed, spent |-> b.spent]
    BY DEF BookShape
  <2> QED BY <1>2, <2>1
<1>4. /\ c.dep = b.dep /\ c.commit = b.commit /\ c.decided = b.decided
      /\ c.withdrawn = b.withdrawn /\ c.admitted = b.admitted
      /\ c.committed = b.committed /\ c.spent = b.spent
      /\ c = [err |-> c.err, dep |-> c.dep, timeline |-> c.timeline, commit |-> c.commit,
              decided |-> c.decided, admitted |-> c.admitted, withdrawn |-> c.withdrawn,
              committed |-> c.committed, spent |-> c.spent]
  <2>1. PICK D, C, X : /\ D = b.dep /\ C = b.commit /\ X = b.decided
    OBVIOUS
  <2>2. c = [err |-> c.err, dep |-> D, timeline |-> c.timeline, commit |-> C,
              decided |-> X, admitted |-> b.admitted, withdrawn |-> b.withdrawn,
              committed |-> b.committed, spent |-> b.spent]
    BY <1>3, <2>1
  <2> QED BY <2>1, <2>2
<1>5. BookShape(c)
  <2>1. DepositMap(c.dep) /\ CommitmentMap(c.commit)
    BY <1>4 DEF BookShape
  <2>2. c.decided = [x \in DOMAIN c.decided |-> c.decided[x]] /\ c.withdrawn \in Int
    BY <1>4 DEF BookShape
  <2> QED BY <1>4, <2>1, <2>2 DEF BookShape
<1> QED BY <1>4, <1>5

\* The same deposits, commitments, outcomes and withdrawals.
SameBut(c, b, dep, commit, decided, withdrawn) ==
  /\ c = [err |-> c.err, dep |-> c.dep, timeline |-> c.timeline, commit |-> c.commit,
          decided |-> c.decided, admitted |-> c.admitted, withdrawn |-> c.withdrawn,
          committed |-> c.committed, spent |-> c.spent]
  /\ c.dep = dep /\ c.commit = commit /\ c.decided = decided /\ c.withdrawn = withdrawn

LEMMA RefusedBook ==
  ASSUME NEW b, BookShape(b), NEW why
  PROVE  Fail(b, why).err = why
BY DEF Fail, BookShape

\* What a deposit, a commitment and an outcome put in the book.
NewDeposit(N, e) == N = [at |-> e.at, amount |-> e.amount, admitted |-> 0, returned |-> 0]
NewCommitment(N, e) == N = [at |-> e.at, amount |-> e.amount, settled |-> FALSE]
NewOutcome(N, e) == N = [at |-> e.at, amount |-> e.amount]

LEMMA DepositIs ==
  ASSUME NEW b, BookShape(b), NEW e, e.id[1] = "deposit", b.err = "none",
         NEW c, c = ApplyEvent(b, e),
         NEW N, NewDeposit(N, e),
         NEW D, D = Put(b.dep, e.id[2], N)
  PROVE  SameBut(c, b, D, b.commit, b.decided, b.withdrawn)
<1>2. c = [b EXCEPT !.dep = D]
  BY DEF ApplyEvent, RecordDeposit, NewDeposit
<1>3. PICK E, C, X : E = b.dep /\ C = b.commit /\ X = b.decided
  OBVIOUS
<1>4. b = [err |-> b.err, dep |-> E, timeline |-> b.timeline, commit |-> C,
          decided |-> X, admitted |-> b.admitted, withdrawn |-> b.withdrawn,
          committed |-> b.committed, spent |-> b.spent]
  BY <1>3, Zenon DEF BookShape
<1>5. c = [err |-> b.err, dep |-> D, timeline |-> b.timeline, commit |-> C,
          decided |-> X, admitted |-> b.admitted, withdrawn |-> b.withdrawn,
          committed |-> b.committed, spent |-> b.spent]
  BY <1>2, <1>4
<1>6. SameBut(c, b, D, C, X, b.withdrawn)
  BY <1>5 DEF SameBut
<1> QED BY <1>3, <1>6

\* A book is the record of its nine fields.
LEMMA BookFields ==
  ASSUME NEW b, BookShape(b)
  PROVE  \E F1, F2, F3, F4, F5, F6, F7, F8, F9 :
           b = [err |-> F1, dep |-> F2, timeline |-> F3, commit |-> F4, decided |-> F5,
                admitted |-> F6, withdrawn |-> F7, committed |-> F8, spent |-> F9]
BY Zenon DEF BookShape

LEMMA AdmissionIs ==
  ASSUME NEW b, BookShape(b), NEW e, e.id[1] = "admission", b.err = "none",
         NEW c, c = ApplyEvent(b, e), c.err = "none"
  PROVE  /\ e.id[2] \in DOMAIN b.dep
         /\ SameBut(c, b, [b.dep EXCEPT ![e.id[2]].admitted = @ + e.amount],
                    b.commit, b.decided, b.withdrawn)
<1>1. PICK d, n : d = e.id[2] /\ n = e.amount
  OBVIOUS
<1>2. c = RecordAdmission(b, e)
  BY DEF ApplyEvent
<1>3. PICK g : g = Enter(b, e.at, n, 0)
  OBVIOUS
<1>4. d \in DOMAIN b.dep /\ c = [g EXCEPT !.dep[d].admitted = @ + n, !.admitted = @ + n]
  <2>1. \A why \in {"bad admission", "admission exceeds deposit"} : c # Fail(b, why)
    BY RefusedBook
  <2> QED BY <1>1, <1>2, <1>3, <2>1, Zenon DEF RecordAdmission
<1>5. /\ BookShape(g)
      /\ g.dep = b.dep /\ g.commit = b.commit /\ g.decided = b.decided
      /\ g.withdrawn = b.withdrawn
  BY <1>3, EnterIs
<1>6. PICK F1, E, F3, C, X, F6, W, F8, F9 :
        g = [err |-> F1, dep |-> E, timeline |-> F3, commit |-> C, decided |-> X,
             admitted |-> F6, withdrawn |-> W, committed |-> F8, spent |-> F9]
  BY <1>5, BookFields, Zenon
<1>7. g.dep = E /\ g.commit = C /\ g.decided = X /\ g.withdrawn = W /\ g.admitted = F6
  BY <1>6
<1>8. PICK D, x : D = [E EXCEPT ![d].admitted = @ + n] /\ x = F6 + n
  OBVIOUS
<1>9. c = [g EXCEPT !.dep = D, !.admitted = x]
  BY <1>4, <1>7, <1>8, Zenon
<1>10. c = [err |-> F1, dep |-> D, timeline |-> F3, commit |-> C, decided |-> X,
            admitted |-> x, withdrawn |-> W, committed |-> F8, spent |-> F9]
  BY <1>6, <1>9
<1>11. SameBut(c, b, D, C, X, W)
  BY <1>10 DEF SameBut
<1>12. b.dep = E /\ b.commit = C /\ b.decided = X /\ b.withdrawn = W
  BY <1>5, <1>7
<1> QED BY <1>1, <1>4, <1>8, <1>11, <1>12, Zenon

LEMMA WithdrawalIs ==
  ASSUME NEW b, BookShape(b), NEW e, e.id[1] = "withdrawal", b.err = "none",
         NEW c, c = ApplyEvent(b, e), c.err = "none"
  PROVE  /\ DOMAIN e.ret \subseteq DOMAIN b.dep
         /\ SameBut(c, b, [d \in DOMAIN b.dep |->
                            IF d \in DOMAIN e.ret
                            THEN [b.dep[d] EXCEPT !.returned = @ + e.ret[d]] ELSE b.dep[d]],
                    b.commit, b.decided, b.withdrawn + (e.amount - SumFunction(e.ret)))
<1>1. PICK rest : rest = e.amount - SumFunction(e.ret)
  OBVIOUS
<1>2. PICK D : D = [d \in DOMAIN b.dep |->
                     IF d \in DOMAIN e.ret
                     THEN [b.dep[d] EXCEPT !.returned = @ + e.ret[d]] ELSE b.dep[d]]
  OBVIOUS
<1>3. PICK a : a = [b EXCEPT !.dep = D]
  OBVIOUS
<1>4. PICK g : g = Enter(a, e.at, 0, rest)
  OBVIOUS
<1>5. c = RecordWithdrawal(b, e)
  BY DEF ApplyEvent
<1>6. c # Fail(b, "return exceeds unadmitted funding")
  BY RefusedBook
<1>7. DOMAIN e.ret \subseteq DOMAIN b.dep /\ c = [g EXCEPT !.withdrawn = @ + rest]
  BY <1>1, <1>2, <1>3, <1>4, <1>5, <1>6, Zenon DEF RecordWithdrawal
<1>8. PICK C, X, W : C = b.commit /\ X = b.decided /\ W = b.withdrawn
  OBVIOUS
<1>9. /\ a = [err |-> b.err, dep |-> D, timeline |-> b.timeline, commit |-> C,
              decided |-> X, admitted |-> b.admitted, withdrawn |-> W,
              committed |-> b.committed, spent |-> b.spent]
  <2>1. PICK E : E = b.dep
    OBVIOUS
  <2>2. b = [err |-> b.err, dep |-> E, timeline |-> b.timeline, commit |-> C,
              decided |-> X, admitted |-> b.admitted, withdrawn |-> W,
              committed |-> b.committed, spent |-> b.spent]
    BY <1>8, <2>1, Zenon DEF BookShape
  <2> QED BY <1>3, <2>2
<1>10. PICK l : g = [a EXCEPT !.timeline = l] \/ g = [a EXCEPT !.err = "insufficient deployable capital"]
  BY <1>4 DEF Enter, Fail
<1>11. c = [err |-> g.err, dep |-> D, timeline |-> g.timeline, commit |-> C,
              decided |-> X, admitted |-> b.admitted, withdrawn |-> W + rest,
              committed |-> b.committed, spent |-> b.spent]
  BY ZenonT(60), <1>7, <1>9, <1>10
<1>12. SameBut(c, b, D, C, X, W + rest)
  BY <1>11 DEF SameBut
<1> QED BY <1>1, <1>2, <1>7, <1>8, <1>12

LEMMA CommitmentIs ==
  ASSUME NEW b, BookShape(b), NEW e, e.id[1] = "commitment", b.err = "none",
         NEW c, c = ApplyEvent(b, e), c.err = "none",
         NEW N, NewCommitment(N, e),
         NEW D, D = Put(b.commit, e.id[2], N)
  PROVE  /\ e.id[2] \notin DOMAIN b.commit
         /\ SameBut(c, b, b.dep, D, b.decided, b.withdrawn)
<1>1. PICK n : n = e.amount
  OBVIOUS
<1>2. c = RecordCommitment(b, e)
  BY DEF ApplyEvent
<1>3. PICK g : g = Enter(b, e.at, 0, n)
  OBVIOUS
<1>4. c # Fail(b, "commitment collision")
  BY RefusedBook
<1>5. /\ e.id[2] \notin DOMAIN b.commit
      /\ c = [g EXCEPT !.committed = @ + n, !.commit = Put(@, e.id[2], N)]
  BY <1>1, <1>2, <1>3, <1>4, Zenon DEF RecordCommitment, NewCommitment
<1>6. /\ BookShape(g)
      /\ g.dep = b.dep /\ g.commit = b.commit /\ g.decided = b.decided
      /\ g.withdrawn = b.withdrawn
  BY <1>3, EnterIs
<1>7. PICK F1, E, F3, C, X, F6, W, F8, F9 :
        g = [err |-> F1, dep |-> E, timeline |-> F3, commit |-> C, decided |-> X,
             admitted |-> F6, withdrawn |-> W, committed |-> F8, spent |-> F9]
  BY <1>6, BookFields, Zenon
<1>8. g.dep = E /\ g.commit = C /\ g.decided = X /\ g.withdrawn = W /\ g.committed = F8
  BY <1>7
<1>9. PICK k : k = F8 + n
  OBVIOUS
<1>10. c = [g EXCEPT !.committed = k, !.commit = D]
  <2>1. b.commit = C
    BY <1>6, <1>8
  <2> QED BY <1>5, <1>8, <1>9, <2>1, Zenon
<1>11. c = [err |-> F1, dep |-> E, timeline |-> F3, commit |-> D, decided |-> X,
            admitted |-> F6, withdrawn |-> W, committed |-> k, spent |-> F9]
  BY <1>7, <1>10
<1>12. SameBut(c, b, E, D, X, W)
  BY <1>11 DEF SameBut
<1>13. b.dep = E /\ b.commit = C /\ b.decided = X /\ b.withdrawn = W
  BY <1>6, <1>8
<1> QED BY <1>5, <1>12, <1>13, Zenon

LEMMA OutcomeIs ==
  ASSUME NEW b, BookShape(b), NEW e, e.id[1] \in {"decision", "skip"}, b.err = "none",
         NEW c, c = ApplyEvent(b, e), c.err = "none",
         NEW N, NewOutcome(N, e),
         NEW D, D = Put(b.decided, e.id[2], N)
  PROVE  SameBut(c, b, b.dep, b.commit, D, b.withdrawn)
<1>2. c = RecordOutcome(b, e)
  BY DEF ApplyEvent
<1>3. \A why \in {"decision date collision", "insufficient decision backing"} : c # Fail(b, why)
  BY RefusedBook
<1>4. c = [b EXCEPT !.decided = D]
  BY <1>2, <1>3, Zenon DEF RecordOutcome, NewOutcome
<1>5. PICK E, C, X : E = b.dep /\ C = b.commit /\ X = b.decided
  OBVIOUS
<1>6. b = [err |-> b.err, dep |-> E, timeline |-> b.timeline, commit |-> C,
           decided |-> X, admitted |-> b.admitted, withdrawn |-> b.withdrawn,
           committed |-> b.committed, spent |-> b.spent]
  BY <1>5, Zenon DEF BookShape
<1>7. c = [err |-> b.err, dep |-> E, timeline |-> b.timeline, commit |-> C,
           decided |-> D, admitted |-> b.admitted, withdrawn |-> b.withdrawn,
           committed |-> b.committed, spent |-> b.spent]
  BY <1>4, <1>6
<1>8. SameBut(c, b, E, C, D, b.withdrawn)
  BY <1>7 DEF SameBut
<1> QED BY <1>5, <1>8

LEMMA SettlementIs ==
  ASSUME NEW b, BookShape(b), NEW e, e.id[1] = "settlement", b.err = "none",
         NEW c, c = ApplyEvent(b, e), c.err = "none"
  PROVE  /\ e.id[2] \in DOMAIN b.commit
         /\ SameBut(c, b, b.dep, [b.commit EXCEPT ![e.id[2]].settled = TRUE],
                    b.decided, b.withdrawn)
<1>1. PICK x, n : x = e.id[2] /\ n = e.amount
  OBVIOUS
<1>2. c = RecordSettlement(b, e)
  BY DEF ApplyEvent
<1>3. PICK g : g = Enter(b, e.at, b.commit[x].amount, n)
  OBVIOUS
<1>4. \A why \in {"no open commitment", "bad settlement"} : c # Fail(b, why)
  BY ZenonT(60), RefusedBook
<1>5. PICK m : m = b.commit[x].amount
  OBVIOUS
<1>6. /\ x \in DOMAIN b.commit
      /\ c = [g EXCEPT !.committed = @ - m, !.spent = @ + n, !.commit[x].settled = TRUE]
  BY <1>1, <1>2, <1>3, <1>4, <1>5, Zenon DEF RecordSettlement
<1>7. /\ BookShape(g)
      /\ g.dep = b.dep /\ g.commit = b.commit /\ g.decided = b.decided
      /\ g.withdrawn = b.withdrawn
  BY <1>3, EnterIs
<1>8. PICK F1, E, F3, C, X, F6, W, F8, F9 :
        g = [err |-> F1, dep |-> E, timeline |-> F3, commit |-> C, decided |-> X,
             admitted |-> F6, withdrawn |-> W, committed |-> F8, spent |-> F9]
  BY <1>7, BookFields, Zenon
<1>9. /\ g.dep = E /\ g.commit = C /\ g.decided = X /\ g.withdrawn = W
      /\ g.committed = F8 /\ g.spent = F9
  BY <1>8
<1>10. PICK D, k, l : D = [C EXCEPT ![x].settled = TRUE] /\ k = F8 - m /\ l = F9 + n
  OBVIOUS
<1>11. c = [g EXCEPT !.committed = k, !.spent = l, !.commit = D]
  BY <1>6, <1>9, <1>10, Zenon
<1>12. c = [err |-> F1, dep |-> E, timeline |-> F3, commit |-> D, decided |-> X,
            admitted |-> F6, withdrawn |-> W, committed |-> k, spent |-> l]
  BY <1>8, <1>11
<1>13. SameBut(c, b, E, D, X, W)
  BY <1>12 DEF SameBut
<1>14. b.dep = E /\ b.commit = C /\ b.decided = X /\ b.withdrawn = W
  BY <1>7, <1>9
<1> QED BY <1>1, <1>6, <1>10, <1>13, <1>14, Zenon

-----------------------------------------------------------------------------
(* What one event more makes of a book *)

NewEvent(e, S) == Event(e) /\ Events(S) /\ \A f \in S : f.id # e.id

\* One event more of a kind that concerns no deposit.
LEMMA SameDeposits ==
  ASSUME NEW S, NEW e, NewEvent(e, S), e.id[1] \notin {"deposit", "admission", "withdrawal"},
         NEW b, DepositsAre(b, S), NEW c, c.dep = b.dep
  PROVE  DepositsAre(c, S \cup {e}) /\ WithdrawnBy(S \cup {e}) = WithdrawnBy(S)
<1>1. PICK T : T = S \cup {e}
  OBVIOUS
<1>2. e \notin S /\ Event(e) /\ Events(S)
  BY DEF NewEvent
<1>3. \A d : AdmittedOf(e, d) = 0 /\ ReturnedOf(e, d) = 0
  BY DEF AdmittedOf, ReturnedOf
<1>4. WithdrawnOf(e) = 0
  BY DEF WithdrawnOf
<1>5. /\ \A d : AdmittedBy(T, d) = AdmittedBy(S, d)
      /\ \A d : ReturnedBy(T, d) = ReturnedBy(S, d)
      /\ WithdrawnBy(T) = WithdrawnBy(S)
  <2>1. /\ \A d : AdmittedBy(T, d) = AdmittedBy(S, d) + AdmittedOf(e, d) /\ AdmittedBy(S, d) \in Int
        /\ \A d : ReturnedBy(T, d) = ReturnedBy(S, d) + ReturnedOf(e, d) /\ ReturnedBy(S, d) \in Int
        /\ WithdrawnBy(T) = WithdrawnBy(S) + WithdrawnOf(e) /\ WithdrawnBy(S) \in Int
    BY <1>1, <1>2, EventSums
  <2> QED BY <1>3, <1>4, <2>1
<1>6. /\ Names(T, {"deposit"}) = Names(S, {"deposit"})
      /\ OfKind(T, {"admission"}) = OfKind(S, {"admission"})
      /\ OfKind(T, {"withdrawal"}) = OfKind(S, {"withdrawal"})
  BY <1>1 DEF Names, OfKind
<1>7. DepositsAre(c, T)
  BY <1>5, <1>6 DEF DepositsAre
<1> QED BY <1>1, <1>5, <1>7

\* One event more of a kind that concerns no day.
LEMMA SameDays ==
  ASSUME NEW S, NEW e, e.id[1] \in {"deposit", "admission", "withdrawal"},
         NEW b, DaysAre(b, S), NEW c, c.commit = b.commit, c.decided = b.decided
  PROVE  DaysAre(c, S \cup {e})
<1>1. \A K \in {{"decision", "skip"}, {"commitment"}, {"settlement"}} : Names(S \cup {e}, K) = Names(S, K)
  BY DEF Names, OfKind
<1> QED BY <1>1 DEF DaysAre

LEMMA DepositGrows ==
  ASSUME NEW S, NEW e, NewEvent(e, S), e.id[1] = "deposit",
         NEW b, BookIs(b, S), b.err = "none", NEW c, c = ApplyEvent(b, e)
  PROVE  BookIs(c, S \cup {e})
<1>1. PICK T, d, N, D : /\ T = S \cup {e} /\ d = e.id[2]
                        /\ NewDeposit(N, e)
                        /\ D = Put(b.dep, e.id[2], N)
  BY DEF NewDeposit
<1>2. e \notin S /\ Event(e) /\ Events(S)
  BY DEF NewEvent
<1>3. BookShape(b) /\ DepositsAre(b, S) /\ DaysAre(b, S) /\ b.withdrawn = WithdrawnBy(S)
  BY DEF BookIs
<1>4. SameBut(c, b, D, b.commit, b.decided, b.withdrawn)
  BY <1>1, <1>3, DepositIs
<1>5. /\ DOMAIN D = DOMAIN b.dep \cup {d} /\ D = [y \in DOMAIN D |-> D[y]]
      /\ D[d] = N /\ \A y \in DOMAIN b.dep : y # d => D[y] = b.dep[y]
  <2>1. D = Put(b.dep, d, N)
    BY <1>1
  <2> QED BY <2>1 DEF Put
<1>6. \A x : AdmittedOf(e, x) = 0 /\ ReturnedOf(e, x) = 0
  BY DEF AdmittedOf, ReturnedOf
<1>7. WithdrawnOf(e) = 0
  BY DEF WithdrawnOf
<1>8. /\ \A x : AdmittedBy(T, x) = AdmittedBy(S, x)
      /\ \A x : ReturnedBy(T, x) = ReturnedBy(S, x)
      /\ WithdrawnBy(T) = WithdrawnBy(S)
  <2>1. /\ \A x : AdmittedBy(T, x) = AdmittedBy(S, x) + AdmittedOf(e, x) /\ AdmittedBy(S, x) \in Int
        /\ \A x : ReturnedBy(T, x) = ReturnedBy(S, x) + ReturnedOf(e, x) /\ ReturnedBy(S, x) \in Int
        /\ WithdrawnBy(T) = WithdrawnBy(S) + WithdrawnOf(e) /\ WithdrawnBy(S) \in Int
    BY <1>1, <1>2, EventSums
  <2> QED BY <1>6, <1>7, <2>1
<1>9. d \notin DOMAIN b.dep
  <2>1. SUFFICES ASSUME d \in DOMAIN b.dep PROVE FALSE
    OBVIOUS
  <2>2. PICK f \in S : f.id[1] = "deposit" /\ f.id[2] = d
    BY <1>3, <2>1 DEF DepositsAre, Names, OfKind
  <2>3. Event(f)
    BY <1>2 DEF Events
  <2>4. f.id = <<"deposit", d>> /\ e.id = <<"deposit", d>>
    BY <1>1, <1>2, <2>2, <2>3, Zenon DEF Event
  <2> QED BY <2>4 DEF NewEvent
<1>10. AdmittedBy(S, d) = 0 /\ ReturnedBy(S, d) = 0
  <2>1. \A f \in S : AdmittedOf(f, d) = 0 /\ ReturnedOf(f, d) = 0
    BY <1>3, <1>9 DEF DepositsAre, OfKind, AdmittedOf, ReturnedOf
  <2>2. IsFiniteSet(S)
    BY <1>2 DEF Events
  <2>3. AdmittedBy(S, d) = 0
    <3> DEFINE f == [x \in S |-> AdmittedOf(x, d)]
    <3>1. f \in [S -> Int] /\ \A x \in S : f[x] = 0
      BY <2>1
    <3>2. SumFunction(f) = 0
      <4> HIDE DEF f
      <4> QED BY <2>2, <3>1, SumZero
    <3> QED BY <3>2 DEF AdmittedBy
  <2>4. ReturnedBy(S, d) = 0
    <3> DEFINE f == [x \in S |-> ReturnedOf(x, d)]
    <3>1. f \in [S -> Int] /\ \A x \in S : f[x] = 0
      BY <2>1
    <3>2. SumFunction(f) = 0
      <4> HIDE DEF f
      <4> QED BY <2>2, <3>1, SumZero
    <3> QED BY <3>2 DEF ReturnedBy
  <2> QED BY <2>3, <2>4
<1>11. DepositMap(D)
  <2>1. N = [at |-> N.at, amount |-> N.amount, admitted |-> N.admitted, returned |-> N.returned]
        /\ N.admitted = 0 /\ N.returned = 0
    BY <1>1 DEF NewDeposit
  <2>2. DepositMap(b.dep)
    BY <1>3 DEF BookShape
  <2> QED BY <1>5, <2>1, <2>2 DEF DepositMap
<1>12. BookShape(c)
  BY <1>3, <1>4, <1>11 DEF SameBut, BookShape
<1>13. DepositsAre(c, T)
  <2>1. Names(T, {"deposit"}) = Names(S, {"deposit"}) \cup {d}
    BY <1>1, EventNames
  <2>2. OfKind(T, {"admission"}) = OfKind(S, {"admission"}) /\ OfKind(T, {"withdrawal"}) = OfKind(S, {"withdrawal"})
    BY <1>1 DEF OfKind
  <2>3. N.admitted = 0 /\ N.returned = 0
    BY <1>1 DEF NewDeposit
  <2>4. \A x \in DOMAIN D : D[x].admitted = AdmittedBy(T, x) /\ D[x].returned = ReturnedBy(T, x)
    BY <1>3, <1>5, <1>8, <1>9, <1>10, <2>3 DEF DepositsAre
  <2>5. c.dep = D
    BY <1>4 DEF SameBut
  <2> QED BY <1>3, <1>5, <2>1, <2>2, <2>4, <2>5 DEF DepositsAre
<1>14. DaysAre(c, T)
  BY <1>1, <1>3, <1>4, SameDays DEF SameBut
<1>15. c.withdrawn = WithdrawnBy(T)
  BY <1>3, <1>4, <1>8 DEF SameBut
<1> QED BY <1>1, <1>12, <1>13, <1>14, <1>15 DEF BookIs

LEMMA AdmissionGrows ==
  ASSUME NEW S, NEW e, NewEvent(e, S), e.id[1] = "admission",
         NEW b, BookIs(b, S), b.err = "none", NEW c, c = ApplyEvent(b, e), c.err = "none"
  PROVE  BookIs(c, S \cup {e})
<1>1. PICK T, d, D : T = S \cup {e} /\ d = e.id[2] /\ D = [b.dep EXCEPT ![d].admitted = @ + e.amount]
  OBVIOUS
<1>2. e \notin S /\ Event(e) /\ Events(S) /\ e.amount \in Int
  BY DEF NewEvent, Event
<1>3. BookShape(b) /\ DepositsAre(b, S) /\ DaysAre(b, S) /\ b.withdrawn = WithdrawnBy(S)
  BY DEF BookIs
<1>4. d \in DOMAIN b.dep /\ SameBut(c, b, D, b.commit, b.decided, b.withdrawn)
  BY <1>1, <1>3, AdmissionIs
<1>5. /\ DOMAIN D = DOMAIN b.dep /\ D = [y \in DOMAIN D |-> D[y]]
      /\ D[d] = [b.dep[d] EXCEPT !.admitted = @ + e.amount]
      /\ \A y \in DOMAIN b.dep : y # d => D[y] = b.dep[y]
  BY <1>1, <1>4
<1>6. /\ D[d] = [at |-> D[d].at, amount |-> D[d].amount,
                 admitted |-> D[d].admitted, returned |-> D[d].returned]
      /\ D[d].admitted = b.dep[d].admitted + e.amount /\ D[d].returned = b.dep[d].returned
      /\ D[d].admitted \in Int /\ D[d].returned \in Int
  <2>1. /\ b.dep[d] = [at |-> b.dep[d].at, amount |-> b.dep[d].amount,
                       admitted |-> b.dep[d].admitted, returned |-> b.dep[d].returned]
        /\ b.dep[d].admitted \in Int /\ b.dep[d].returned \in Int
    BY <1>3, <1>4 DEF BookShape, DepositMap
  <2> QED BY <1>2, <1>5, <2>1
<1>7. /\ \A x : AdmittedOf(e, x) = IF x = d THEN e.amount ELSE 0
      /\ \A x : ReturnedOf(e, x) = 0
      /\ WithdrawnOf(e) = 0
  BY <1>1 DEF AdmittedOf, ReturnedOf, WithdrawnOf
<1>8. /\ \A x : AdmittedBy(T, x) = AdmittedBy(S, x) + (IF x = d THEN e.amount ELSE 0)
      /\ \A x : AdmittedBy(S, x) \in Int
      /\ \A x : ReturnedBy(T, x) = ReturnedBy(S, x)
      /\ WithdrawnBy(T) = WithdrawnBy(S)
  <2>1. /\ \A x : AdmittedBy(T, x) = AdmittedBy(S, x) + AdmittedOf(e, x) /\ AdmittedBy(S, x) \in Int
        /\ \A x : ReturnedBy(T, x) = ReturnedBy(S, x) + ReturnedOf(e, x) /\ ReturnedBy(S, x) \in Int
        /\ WithdrawnBy(T) = WithdrawnBy(S) + WithdrawnOf(e) /\ WithdrawnBy(S) \in Int
    BY <1>1, <1>2, EventSums
  <2> QED BY <1>7, <2>1
<1>9. BookShape(c)
  <2>1. DepositMap(D)
    BY <1>3, <1>5, <1>6 DEF BookShape, DepositMap
  <2> QED BY <1>3, <1>4, <2>1 DEF SameBut, BookShape
<1>10. DepositsAre(c, T)
  <2>1. Names(T, {"deposit"}) = Names(S, {"deposit"})
    BY <1>1 DEF Names, OfKind
  <2>2. OfKind(T, {"admission"}) = OfKind(S, {"admission"}) \cup {e} /\ OfKind(T, {"withdrawal"}) = OfKind(S, {"withdrawal"})
    BY <1>1 DEF OfKind
  <2>3. \A x \in DOMAIN D : D[x].admitted = AdmittedBy(T, x) /\ D[x].returned = ReturnedBy(T, x)
    <3>1. TAKE x \in DOMAIN D
    <3>2. b.dep[x].admitted = AdmittedBy(S, x) /\ b.dep[x].returned = ReturnedBy(S, x)
      BY <1>3, <1>5 DEF DepositsAre
    <3>3. CASE x = d
      BY <1>6, <1>8, <3>2, <3>3
    <3>4. CASE x # d
      BY <1>5, <1>8, <3>2, <3>4
    <3> QED BY <3>3, <3>4
  <2>4. c.dep = D
    BY <1>4 DEF SameBut
  <2> QED BY ZenonT(60), <1>1, <1>3, <1>4, <1>5, <2>1, <2>2, <2>3, <2>4 DEF DepositsAre
<1>11. DaysAre(c, T)
  BY <1>1, <1>3, <1>4, SameDays DEF SameBut
<1>12. c.withdrawn = WithdrawnBy(T)
  BY <1>3, <1>4, <1>8 DEF SameBut
<1> QED BY <1>1, <1>9, <1>10, <1>11, <1>12 DEF BookIs

LEMMA WithdrawalGrows ==
  ASSUME NEW S, NEW e, NewEvent(e, S), e.id[1] = "withdrawal",
         NEW b, BookIs(b, S), b.err = "none", NEW c, c = ApplyEvent(b, e), c.err = "none"
  PROVE  BookIs(c, S \cup {e})
<1>1. PICK T, D, rest : /\ T = S \cup {e}
                        /\ D = [d \in DOMAIN b.dep |->
                                 IF d \in DOMAIN e.ret
                                 THEN [b.dep[d] EXCEPT !.returned = @ + e.ret[d]] ELSE b.dep[d]]
                        /\ rest = e.amount - SumFunction(e.ret)
  OBVIOUS
<1>2. e \notin S /\ Event(e) /\ Events(S) /\ \A d \in DOMAIN e.ret : e.ret[d] \in Int
  BY DEF NewEvent, Event
<1>3. BookShape(b) /\ DepositsAre(b, S) /\ DaysAre(b, S) /\ b.withdrawn = WithdrawnBy(S)
  BY DEF BookIs
<1>4. DOMAIN e.ret \subseteq DOMAIN b.dep /\ SameBut(c, b, D, b.commit, b.decided, b.withdrawn + rest)
  BY <1>1, <1>3, WithdrawalIs
<1>5. DOMAIN D = DOMAIN b.dep /\ D = [y \in DOMAIN D |-> D[y]]
  BY <1>1
<1>6. ASSUME NEW d \in DOMAIN D
      PROVE  /\ D[d] = [at |-> D[d].at, amount |-> D[d].amount,
                        admitted |-> D[d].admitted, returned |-> D[d].returned]
             /\ D[d].admitted = b.dep[d].admitted
             /\ D[d].returned = b.dep[d].returned + ReturnedOf(e, d)
             /\ D[d].admitted \in Int /\ D[d].returned \in Int
  <2>1. /\ b.dep[d] = [at |-> b.dep[d].at, amount |-> b.dep[d].amount,
                       admitted |-> b.dep[d].admitted, returned |-> b.dep[d].returned]
        /\ b.dep[d].admitted \in Int /\ b.dep[d].returned \in Int
    BY <1>3, <1>5, <1>6 DEF BookShape, DepositMap
  <2>2. CASE d \in DOMAIN e.ret
    <3>1. D[d] = [b.dep[d] EXCEPT !.returned = @ + e.ret[d]] /\ ReturnedOf(e, d) = e.ret[d] /\ e.ret[d] \in Int
      BY <1>1, <1>2, <1>5, <2>2 DEF ReturnedOf
    <3> QED BY <2>1, <3>1
  <2>3. CASE d \notin DOMAIN e.ret
    <3>1. D[d] = b.dep[d] /\ ReturnedOf(e, d) = 0
      BY <1>1, <1>5, <2>3 DEF ReturnedOf
    <3> QED BY <2>1, <3>1
  <2> QED BY <2>2, <2>3
<1>7. \A x : AdmittedOf(e, x) = 0
  BY DEF AdmittedOf
<1>8. WithdrawnOf(e) = rest
  BY <1>1 DEF WithdrawnOf
<1>9. /\ \A x : AdmittedBy(T, x) = AdmittedBy(S, x)
      /\ \A x : ReturnedBy(T, x) = ReturnedBy(S, x) + ReturnedOf(e, x)
      /\ WithdrawnBy(T) = WithdrawnBy(S) + rest /\ WithdrawnBy(T) \in Int
  <2>1. /\ \A x : AdmittedBy(T, x) = AdmittedBy(S, x) + AdmittedOf(e, x) /\ AdmittedBy(S, x) \in Int
        /\ \A x : ReturnedBy(T, x) = ReturnedBy(S, x) + ReturnedOf(e, x)
        /\ WithdrawnBy(T) = WithdrawnBy(S) + WithdrawnOf(e) /\ WithdrawnBy(S) \in Int
    BY <1>1, <1>2, EventSums
  <2>2. WithdrawnOf(e) \in Int
    BY <1>2, EventAmounts
  <2> QED BY <1>7, <1>8, <2>1, <2>2
<1>10. BookShape(c)
  <2>1. DepositMap(D)
    BY <1>5, <1>6 DEF DepositMap
  <2>2. b.withdrawn + rest \in Int
    BY <1>3, <1>9
  <2> QED BY <1>3, <1>4, <2>1, <2>2 DEF SameBut, BookShape
<1>11. DepositsAre(c, T)
  <2>1. Names(T, {"deposit"}) = Names(S, {"deposit"})
    BY <1>1 DEF Names, OfKind
  <2>2. OfKind(T, {"admission"}) = OfKind(S, {"admission"}) /\ OfKind(T, {"withdrawal"}) = OfKind(S, {"withdrawal"}) \cup {e}
    BY <1>1 DEF OfKind
  <2>3. \A x \in DOMAIN D : D[x].admitted = AdmittedBy(T, x) /\ D[x].returned = ReturnedBy(T, x)
    <3>1. TAKE x \in DOMAIN D
    <3>2. b.dep[x].admitted = AdmittedBy(S, x) /\ b.dep[x].returned = ReturnedBy(S, x)
      BY <1>3, <1>5 DEF DepositsAre
    <3> QED BY <1>6, <1>9, <3>2
  <2>4. c.dep = D
    BY <1>4 DEF SameBut
  <2>5. DOMAIN D = Names(T, {"deposit"})
    BY <1>3, <1>5, <2>1 DEF DepositsAre
  <2>6. \A f \in OfKind(T, {"admission"}) : f.id[2] \in DOMAIN D
    BY <1>3, <1>5, <2>2 DEF DepositsAre
  <2>7. \A f \in OfKind(T, {"withdrawal"}) : DOMAIN f.ret \subseteq DOMAIN D
    BY <1>3, <1>4, <1>5, <2>2 DEF DepositsAre
  <2> QED BY <2>3, <2>4, <2>5, <2>6, <2>7 DEF DepositsAre
<1>12. DaysAre(c, T)
  <2>1. c.commit = b.commit /\ c.decided = b.decided
    BY <1>4 DEF SameBut
  <2>2. DaysAre(c, S \cup {e})
    BY <1>3, <2>1, SameDays
  <2> QED BY <1>1, <2>2
<1>13. c.withdrawn = WithdrawnBy(T)
  BY <1>3, <1>4, <1>9 DEF SameBut
<1> QED BY <1>1, <1>10, <1>11, <1>12, <1>13 DEF BookIs

LEMMA CommitmentGrows ==
  ASSUME NEW S, NEW e, NewEvent(e, S), e.id[1] = "commitment",
         NEW b, BookIs(b, S), b.err = "none", NEW c, c = ApplyEvent(b, e), c.err = "none"
  PROVE  BookIs(c, S \cup {e})
<1>1. PICK T, x, N, C : /\ T = S \cup {e} /\ x = e.id[2]
                        /\ NewCommitment(N, e)
                        /\ C = Put(b.commit, e.id[2], N)
  BY DEF NewCommitment
<1>2. BookShape(b) /\ DepositsAre(b, S) /\ DaysAre(b, S) /\ b.withdrawn = WithdrawnBy(S)
  BY DEF BookIs
<1>3. x \notin DOMAIN b.commit /\ SameBut(c, b, b.dep, C, b.decided, b.withdrawn)
  BY <1>1, <1>2, CommitmentIs
<1>4. /\ DOMAIN C = DOMAIN b.commit \cup {x} /\ C = [y \in DOMAIN C |-> C[y]]
      /\ C[x] = N /\ \A y \in DOMAIN b.commit : y # x => C[y] = b.commit[y]
  <2>1. C = Put(b.commit, x, N)
    BY <1>1
  <2> QED BY <2>1 DEF Put
<1>5. N = [at |-> N.at, amount |-> N.amount, settled |-> N.settled] /\ N.settled = FALSE
  BY <1>1 DEF NewCommitment
<1>6. BookShape(c)
  <2>1. CommitmentMap(C)
    BY <1>2, <1>4, <1>5 DEF BookShape, CommitmentMap
  <2> QED BY <1>2, <1>3, <2>1 DEF SameBut, BookShape
<1>7. DepositsAre(c, T) /\ c.withdrawn = WithdrawnBy(T)
  BY <1>1, <1>2, <1>3, SameDeposits DEF SameBut
<1>8. DaysAre(c, T)
  <2>1. /\ Names(T, {"commitment"}) = Names(S, {"commitment"}) \cup {x}
        /\ Names(T, {"settlement"}) = Names(S, {"settlement"})
        /\ Names(T, {"decision", "skip"}) = Names(S, {"decision", "skip"})
    BY <1>1 DEF Names, OfKind
  <2>2. \A y \in DOMAIN C : C[y].settled = (y \in Names(T, {"settlement"}))
    <3>1. x \notin Names(S, {"settlement"})
      BY <1>2, <1>3 DEF DaysAre
    <3>2. TAKE y \in DOMAIN C
    <3>3. CASE y = x
      <4>1. C[y].settled = FALSE
        BY <1>4, <1>5, <3>3
      <4>2. (y \in Names(T, {"settlement"})) = FALSE
        BY <2>1, <3>1, <3>3
      <4> QED BY <4>1, <4>2, Zenon
    <3>4. CASE y # x
      <4>1. y \in DOMAIN b.commit /\ C[y] = b.commit[y]
        BY <1>4, <3>4
      <4>2. b.commit[y].settled = (y \in Names(S, {"settlement"}))
        BY <1>2, <4>1 DEF DaysAre
      <4> QED BY <2>1, <4>1, <4>2, Zenon
    <3> QED BY <3>3, <3>4
  <2>3. c.commit = C /\ c.decided = b.decided
    BY <1>3 DEF SameBut
  <2> QED BY <1>2, <1>4, <2>1, <2>2, <2>3 DEF DaysAre
<1> QED BY <1>1, <1>6, <1>7, <1>8 DEF BookIs

LEMMA OutcomeGrows ==
  ASSUME NEW S, NEW e, NewEvent(e, S), e.id[1] \in {"decision", "skip"},
         NEW b, BookIs(b, S), b.err = "none", NEW c, c = ApplyEvent(b, e), c.err = "none"
  PROVE  BookIs(c, S \cup {e})
<1>1. PICK T, x, N, X : /\ T = S \cup {e} /\ x = e.id[2]
                        /\ NewOutcome(N, e) /\ X = Put(b.decided, e.id[2], N)
  BY DEF NewOutcome
<1>2. BookShape(b) /\ DepositsAre(b, S) /\ DaysAre(b, S) /\ b.withdrawn = WithdrawnBy(S)
  BY DEF BookIs
<1>3. SameBut(c, b, b.dep, b.commit, X, b.withdrawn)
  BY <1>1, <1>2, OutcomeIs
<1>4. DOMAIN X = DOMAIN b.decided \cup {x} /\ X = [y \in DOMAIN X |-> X[y]]
  <2>1. X = Put(b.decided, x, N)
    BY <1>1
  <2> QED BY <2>1 DEF Put
<1>5. BookShape(c)
  BY <1>2, <1>3, <1>4 DEF SameBut, BookShape
<1>6. DepositsAre(c, T) /\ c.withdrawn = WithdrawnBy(T)
  BY <1>1, <1>2, <1>3, SameDeposits DEF SameBut
<1>7. DaysAre(c, T)
  <2>1. /\ Names(T, {"commitment"}) = Names(S, {"commitment"})
        /\ Names(T, {"settlement"}) = Names(S, {"settlement"})
        /\ Names(T, {"decision", "skip"}) = Names(S, {"decision", "skip"}) \cup {x}
    BY <1>1 DEF Names, OfKind
  <2> QED BY <1>2, <1>3, <1>4, <2>1 DEF DaysAre, SameBut
<1> QED BY <1>1, <1>5, <1>6, <1>7 DEF BookIs

LEMMA SettlementGrows ==
  ASSUME NEW S, NEW e, NewEvent(e, S), e.id[1] = "settlement",
         NEW b, BookIs(b, S), b.err = "none", NEW c, c = ApplyEvent(b, e), c.err = "none"
  PROVE  BookIs(c, S \cup {e})
<1>1. PICK T, x, C : T = S \cup {e} /\ x = e.id[2] /\ C = [b.commit EXCEPT ![x].settled = TRUE]
  OBVIOUS
<1>2. BookShape(b) /\ DepositsAre(b, S) /\ DaysAre(b, S) /\ b.withdrawn = WithdrawnBy(S)
  BY DEF BookIs
<1>3. x \in DOMAIN b.commit /\ SameBut(c, b, b.dep, C, b.decided, b.withdrawn)
  BY <1>1, <1>2, SettlementIs
<1>4. /\ DOMAIN C = DOMAIN b.commit /\ C = [y \in DOMAIN C |-> C[y]]
      /\ C[x] = [b.commit[x] EXCEPT !.settled = TRUE]
      /\ \A y \in DOMAIN b.commit : y # x => C[y] = b.commit[y]
  BY <1>1, <1>3
<1>5. C[x] = [at |-> C[x].at, amount |-> C[x].amount, settled |-> C[x].settled] /\ C[x].settled = TRUE
  <2>1. b.commit[x] = [at |-> b.commit[x].at, amount |-> b.commit[x].amount, settled |-> b.commit[x].settled]
    BY <1>2, <1>3 DEF BookShape, CommitmentMap
  <2> QED BY <1>4, <2>1
<1>6. BookShape(c)
  <2>1. CommitmentMap(C)
    BY <1>2, <1>4, <1>5 DEF BookShape, CommitmentMap
  <2> QED BY <1>2, <1>3, <2>1 DEF SameBut, BookShape
<1>7. DepositsAre(c, T) /\ c.withdrawn = WithdrawnBy(T)
  BY <1>1, <1>2, <1>3, SameDeposits DEF SameBut
<1>8. DaysAre(c, T)
  <2>1. /\ Names(T, {"commitment"}) = Names(S, {"commitment"})
        /\ Names(T, {"settlement"}) = Names(S, {"settlement"}) \cup {x}
        /\ Names(T, {"decision", "skip"}) = Names(S, {"decision", "skip"})
    BY <1>1 DEF Names, OfKind
  <2>2. \A y \in DOMAIN C : C[y].settled = (y \in Names(T, {"settlement"}))
    <3>1. TAKE y \in DOMAIN C
    <3>2. CASE y = x
      BY <1>5, <2>1, <3>2, Zenon
    <3>3. CASE y # x
      <4>1. y \in DOMAIN b.commit /\ C[y] = b.commit[y]
        BY <1>4, <3>3
      <4>2. b.commit[y].settled = (y \in Names(S, {"settlement"}))
        BY <1>2, <4>1 DEF DaysAre
      <4>3. (y \in Names(T, {"settlement"})) = (y \in Names(S, {"settlement"}))
        BY <2>1, <3>3
      <4> QED BY <4>1, <4>2, <4>3, Zenon
    <3> QED BY <3>2, <3>3
  <2>3. c.commit = C /\ c.decided = b.decided
    BY <1>3 DEF SameBut
  <2> QED BY <1>2, <1>3, <1>4, <2>1, <2>2, <2>3 DEF DaysAre
<1> QED BY <1>1, <1>6, <1>7, <1>8 DEF BookIs

\* A book that took one event more says what the events say, one event more.
LEMMA BookGrows ==
  ASSUME NEW S, NEW e, NewEvent(e, S),
         NEW b, BookIs(b, S), b.err = "none", NEW c, c = ApplyEvent(b, e), c.err = "none"
  PROVE  BookIs(c, S \cup {e}) /\ Events(S \cup {e})
<1>1. e.id[1] \in Kinds /\ e \notin S /\ Event(e) /\ Events(S)
  BY DEF NewEvent, Event
<1>2. Events(S \cup {e})
  BY <1>1, EventSums
<1>3. CASE e.id[1] \in {"decision", "skip"}
  BY <1>2, <1>3, OutcomeGrows
<1>4. CASE e.id[1] \in {"deposit", "admission", "withdrawal"}
  BY <1>2, <1>4, DepositGrows, AdmissionGrows, WithdrawalGrows
<1>5. CASE e.id[1] \in {"commitment", "settlement"}
  BY <1>2, <1>5, CommitmentGrows, SettlementGrows
<1> QED BY <1>1, <1>3, <1>4, <1>5 DEF Kinds

-----------------------------------------------------------------------------
(* What the journal replays to, and what it lists after a batch *)

\* j lists n events, of different ids.
Journal(j, n) ==
  /\ Listed(j, n)
  /\ \A i \in 1..n : Event(j[i])
  /\ \A i, k \in 1..n : j[i].id = j[k].id => i = k

LEMMA JournalSet ==
  ASSUME NEW j, NEW n, Listed(j, n)
  PROVE  /\ n \in Nat /\ DOMAIN j = 1..n
         /\ ToSet(j) = {j[i] : i \in 1..n} /\ IsFiniteSet(ToSet(j))
<1>1. n \in Nat /\ DOMAIN j = 1..n
  BY DEF Listed
<1>2. ToSet(j) = {j[i] : i \in 1..n}
  BY <1>1 DEF ToSet
<1>3. IsFiniteSet(1..n)
  BY <1>1, FS_Interval
<1>4. j \in Surjection(1..n, ToSet(j))
  <2>1. \A i \in 1..n : j[i] \in ToSet(j)
    BY <1>2
  <2>2. j \in [1..n -> ToSet(j)]
    BY <2>1 DEF Listed
  <2> QED BY <1>2, <2>2 DEF Surjection
<1>5. IsFiniteSet(ToSet(j))
  BY <1>3, <1>4, FS_Surjection
<1> QED BY <1>1, <1>2, <1>5

LEMMA BookStarts == BookIs(NewBook, {}) /\ Events({}) /\ NewBook.err = "none"
<1>1. Events({})
  BY FS_EmptySet DEF Events
<1>2. OfKind({}, {"admission"}) = {} /\ OfKind({}, {"withdrawal"}) = {} /\ \A K : Names({}, K) = {}
  BY DEF OfKind, Names
<1>3. DOMAIN NewBook.dep = {} /\ DOMAIN NewBook.commit = {} /\ DOMAIN NewBook.decided = {}
  BY DEF NewBook
<1>4. WithdrawnBy({}) = 0 /\ NewBook.withdrawn = 0
  BY SumEmpty DEF WithdrawnBy, NewBook
<1>5. DepositsAre(NewBook, {}) /\ DaysAre(NewBook, {})
  BY <1>2, <1>3 DEF DepositsAre, DaysAre
<1>6. BookShape(NewBook)
  BY DEF NewBook, BookShape, DepositMap, CommitmentMap
<1> QED BY <1>1, <1>4, <1>5, <1>6 DEF BookIs, NewBook

\* A journal that replays without error gives a book of its events.
LEMMA ReplayIs ==
  ASSUME NEW j, NEW n, Journal(j, n), Replay(j).err = "none"
  PROVE  BookIs(Replay(j), ToSet(j)) /\ Events(ToSet(j))
<1>1. /\ n \in Nat /\ DOMAIN j = 1..n /\ ToSet(j) = {j[i] : i \in 1..n}
      /\ \A i \in 1..n : Event(j[i])
      /\ \A i, k \in 1..n : j[i].id = j[k].id => i = k
  BY JournalSet DEF Journal
<1>2. PICK st : BookRun(st, NewBook, j, n)
  BY <1>1, BookSteps
<1> DEFINE T == {k \in Nat : k <= n /\ st[k].err = "none" =>
                    BookIs(st[k], {j[i] : i \in 1..k}) /\ Events({j[i] : i \in 1..k})}
<1>3. 0 \in T
  <2>1. {j[i] : i \in 1..0} = {}
    OBVIOUS
  <2>2. st[0] = NewBook
    BY <1>2 DEF BookRun
  <2> QED BY <2>1, <2>2, BookStarts
<1>4. ASSUME NEW k \in Nat, NEW m \in Nat, k \in T, m = k + 1 PROVE m \in T
  <2>1. SUFFICES ASSUME m <= n, st[m].err = "none"
                 PROVE  BookIs(st[m], {j[i] : i \in 1..m}) /\ Events({j[i] : i \in 1..m})
    OBVIOUS
  <2>2. k \in 0..n /\ m \in 0..n /\ m \in 1..n /\ k <= n
    BY <1>1, <1>4, <2>1
  <2>3. st[m] = ApplyEvent(st[k], j[m])
    BY <1>2, <1>4, <2>2 DEF BookRun
  <2>4. st[k].err = "none"
    BY <2>1, <2>3 DEF ApplyEvent
  <2>5. PICK S : S = {j[i] : i \in 1..k}
    OBVIOUS
  <2>6. BookIs(st[k], S) /\ Events(S)
    BY <1>4, <2>2, <2>4, <2>5
  <2>7. NewEvent(j[m], S)
    <3>1. \A i \in 1..k : i \in 1..n /\ i # m
      BY <1>1, <1>4, <2>2
    <3> QED BY <1>1, <2>2, <2>5, <2>6, <3>1 DEF NewEvent
  <2>8. BookIs(st[m], S \cup {j[m]}) /\ Events(S \cup {j[m]})
    BY <2>1, <2>3, <2>4, <2>6, <2>7, BookGrows
  <2>9. S \cup {j[m]} = {j[i] : i \in 1..m}
    <3>1. 1..m = 1..k \cup {m}
      BY <1>4
    <3> QED BY <2>5, <3>1
  <2> QED BY <2>8, <2>9
<1>5. n \in T
  <2> HIDE DEF T
  <2>1. Nat \subseteq T
    BY <1>3, <1>4, Inductive
  <2> QED BY <1>1, <2>1
<1>6. Replay(j) = st[n]
  BY <1>2 DEF BookRun, Replay
<1> QED BY <1>1, <1>5, <1>6

\* h lists what j lists and S.
Gathers(h, j, S) ==
  (\E q : Journal(h, q)) /\ ToSet(h) = ToSet(j) \cup S

LEMMA AppendNewIs ==
  ASSUME NEW h, NEW q, Journal(h, q), NEW e, Event(e), \A f \in ToSet(h) : e.id = f.id => e = f
  PROVE  /\ \E r : Journal(AppendNew(h, e), r)
         /\ ToSet(AppendNew(h, e)) = ToSet(h) \cup {e}
<1>1. CASE e \in ToSet(h)
  BY <1>1 DEF AppendNew
<1>2. CASE e \notin ToSet(h)
  <2>1. PICK g, m : g = Append(h, e) /\ m = q + 1
    OBVIOUS
  <2>2. /\ Listed(h, q) /\ q \in Nat /\ ToSet(h) = {h[i] : i \in 1..q}
        /\ \A i \in 1..q : Event(h[i])
        /\ \A i, k \in 1..q : h[i].id = h[k].id => i = k
    BY JournalSet DEF Journal
  <2>3. Listed(g, q + 1) /\ g[q + 1] = e /\ \A i \in 1..q : g[i] = h[i]
    <3>1. Then(g, h, q, e)
      BY <2>1, <2>2, AppendIs, Zenon
    <3> QED BY <3>1 DEF Then
  <2>4. Listed(g, m) /\ g[m] = e
    BY <2>1, <2>3
  <2>5. m \in Nat /\ 1..m = 1..q \cup {m}
    BY <2>1, <2>2
  <2>6. \A i \in 1..m : Event(g[i])
    BY <2>2, <2>3, <2>4, <2>5
  <2>7. \A i \in 1..q : g[i].id # e.id
    BY <1>2, <2>2, <2>3
  <2>8. \A i, k \in 1..m : g[i].id = g[k].id => i = k
    <3>1. SUFFICES ASSUME NEW i \in 1..m, NEW k \in 1..m, g[i].id = g[k].id PROVE i = k
      OBVIOUS
    <3>2. CASE i \in 1..q /\ k \in 1..q
      BY <2>2, <2>3, <3>1, <3>2
    <3>3. CASE i = m \/ k = m
      <4>1. ASSUME NEW a \in 1..m, NEW c \in 1..m, a = m, g[a].id = g[c].id PROVE a = c
        <5>1. g[c].id = e.id
          BY <2>4, <4>1
        <5>2. c \notin 1..q
          BY <2>3, <2>7, <5>1
        <5> QED BY <2>5, <4>1, <5>2
      <4> QED BY <3>1, <3>3, <4>1
    <3> QED BY <2>5, <3>2, <3>3
  <2>9. ToSet(g) = ToSet(h) \cup {e}
    <3>1. ToSet(g) = {g[i] : i \in 1..m}
      BY <2>4, JournalSet
    <3> QED BY <2>2, <2>3, <2>4, <2>5, <3>1
  <2>10. AppendNew(h, e) = g
    BY <1>2, <2>1 DEF AppendNew
  <2>11. Journal(g, m)
    BY <2>4, <2>6, <2>8 DEF Journal
  <2> QED BY <2>9, <2>10, <2>11
<1> QED BY <1>1, <1>2

LEMMA ExtendedIs ==
  ASSUME NEW j, NEW n, Journal(j, n), NEW batch, NEW m, Listed(batch, m),
         \A e \in ToSet(batch) : Event(e), ~Collides(j, batch)
  PROVE  /\ \E q : Journal(Extended(j, batch), q)
         /\ ToSet(Extended(j, batch)) = ToSet(j) \cup ToSet(batch)
<1>1. m \in Nat /\ DOMAIN batch = 1..m /\ ToSet(batch) = {batch[i] : i \in 1..m}
  BY JournalSet
<1>2. PICK st : AppendRun(st, j, batch, m)
  BY <1>1, AppendSteps
<1> DEFINE B(k) == {batch[i] : i \in 1..k}
           T == {k \in Nat : k <= m => Gathers(st[k], j, B(k))}
<1>3. 0 \in T
  <2>1. B(0) = {}
    OBVIOUS
  <2>2. st[0] = j
    BY <1>2 DEF AppendRun
  <2> QED BY <2>1, <2>2 DEF Gathers
<1>4. ASSUME NEW k \in Nat, NEW l \in Nat, k \in T, l = k + 1 PROVE l \in T
  <2>1. SUFFICES ASSUME l <= m PROVE Gathers(st[l], j, B(l))
    OBVIOUS
  <2>2. k \in 0..m /\ l \in 0..m /\ l \in 1..m /\ k <= m
    BY <1>1, <1>4, <2>1
  <2>3. st[l] = AppendNew(st[k], batch[l])
    BY <1>2, <1>4, <2>2 DEF AppendRun
  <2>4. PICK q : Journal(st[k], q)
    BY <1>4, <2>2 DEF Gathers
  <2>5. ToSet(st[k]) = ToSet(j) \cup B(k)
    BY <1>4, <2>2 DEF Gathers
  <2>6. batch[l] \in ToSet(batch) /\ Event(batch[l])
    BY <1>1, <2>2
  <2>7. B(k) \subseteq ToSet(batch)
    BY <1>1, <2>2
  <2>8. \A f \in ToSet(st[k]) : batch[l].id = f.id => batch[l] = f
    BY <2>5, <2>6, <2>7 DEF Collides
  <2>9. /\ \E r : Journal(st[l], r)
        /\ ToSet(st[l]) = ToSet(st[k]) \cup {batch[l]}
    BY <2>3, <2>4, <2>6, <2>8, AppendNewIs
  <2>10. B(l) = B(k) \cup {batch[l]}
    <3>1. 1..l = 1..k \cup {l}
      BY <1>4
    <3> QED BY <3>1
  <2> QED BY <2>5, <2>9, <2>10 DEF Gathers
<1>5. m \in T
  <2> HIDE DEF T
  <2>1. Nat \subseteq T
    BY <1>3, <1>4, Inductive
  <2> QED BY <1>1, <2>1
<1>6. Extended(j, batch) = st[m]
  BY <1>2 DEF AppendRun
<1> QED BY <1>1, <1>5, <1>6 DEF Gathers

-----------------------------------------------------------------------------
(* A batch in its order *)

\* Events of movements and admissions, of different kinds or subjects.
Batchable(S) ==
  /\ IsFiniteSet(S)
  /\ \A e \in S : /\ e.id[1] \in {"deposit", "admission", "withdrawal"}
                  /\ e.at \in Int /\ e.id[2] \in Int
  /\ \A e, f \in S : e.id[1] = f.id[1] /\ e.id[2] = f.id[2] => e = f

Placed(S, e) == {f \in S : Earlier(f, e)}

LEMMA EarlierIs ==
  ASSUME NEW S, Batchable(S)
  PROVE  /\ \A e \in S : ~Earlier(e, e)
         /\ \A e, f, g \in S : Earlier(e, f) /\ Earlier(f, g) => Earlier(e, g)
         /\ \A e, f \in S : e = f \/ Earlier(e, f) \/ Earlier(f, e)
<1> DEFINE k(e) == KindOrder(e)
<1>1. \A e \in S : k(e) \in Int /\ e.at \in Int /\ e.id[2] \in Int
  BY DEF Batchable, KindOrder
<1>2. \A e, f \in S : k(e) = k(f) => e.id[1] = f.id[1]
  BY DEF Batchable, KindOrder
<1>3. \A e, f \in S : Earlier(e, f) <=> \/ e.at < f.at
                                        \/ e.at = f.at /\ k(e) < k(f)
                                        \/ e.at = f.at /\ k(e) = k(f) /\ e.id[2] < f.id[2]
  BY DEF Earlier
<1>4. \A e, f \in S : e.id[1] = f.id[1] /\ e.id[2] = f.id[2] => e = f
  BY DEF Batchable
<1> HIDE DEF k
<1>5. \A e \in S : ~Earlier(e, e)
  BY <1>1, <1>3
<1>6. ASSUME NEW e \in S, NEW f \in S, NEW g \in S, Earlier(e, f), Earlier(f, g) PROVE Earlier(e, g)
  BY <1>1, <1>3, <1>6
<1>7. ASSUME NEW e \in S, NEW f \in S PROVE e = f \/ Earlier(e, f) \/ Earlier(f, e)
  BY <1>1, <1>2, <1>3, <1>4
<1> QED BY <1>5, <1>6, <1>7

\* Every event of the batch has a place of its own, and every place its event.
LEMMA PlacesAre ==
  ASSUME NEW S, Batchable(S), NEW n, n = Cardinality(S)
  PROVE  /\ n \in Nat
         /\ \A i \in 1..n : \E e \in S : 1 + Cardinality(Placed(S, e)) = i
         /\ \A e \in S : 1 + Cardinality(Placed(S, e)) \in 1..n
         /\ \A e, f \in S : Cardinality(Placed(S, e)) = Cardinality(Placed(S, f)) => e = f
<1>1. IsFiniteSet(S) /\ n \in Nat
  BY FS_CardinalityType DEF Batchable
<1>2. ASSUME NEW e \in S
      PROVE  Cardinality(Placed(S, e)) \in Nat /\ Cardinality(Placed(S, e)) < n
  <2>1. Placed(S, e) \subseteq S /\ Placed(S, e) # S
    BY EarlierIs DEF Placed
  <2>2. IsFiniteSet(Placed(S, e)) /\ Cardinality(Placed(S, e)) <= Cardinality(S)
        /\ Cardinality(Placed(S, e)) # Cardinality(S)
    BY <1>1, <2>1, FS_Subset
  <2>3. Cardinality(Placed(S, e)) \in Nat
    BY <2>2, FS_CardinalityType
  <2> QED BY <1>1, <2>2, <2>3
<1>3. ASSUME NEW e \in S, NEW f \in S, Earlier(e, f)
      PROVE  Cardinality(Placed(S, e)) # Cardinality(Placed(S, f))
  <2>1. Placed(S, e) \subseteq Placed(S, f)
    BY <1>3, EarlierIs DEF Placed
  <2>2. Placed(S, e) # Placed(S, f)
    BY <1>3, EarlierIs DEF Placed
  <2>3. IsFiniteSet(Placed(S, f))
    BY <1>1, FS_Subset DEF Placed
  <2> QED BY <2>1, <2>2, <2>3, FS_Subset
<1>4. \A e, f \in S : Cardinality(Placed(S, e)) = Cardinality(Placed(S, f)) => e = f
  BY <1>3, EarlierIs
<1> DEFINE p == [e \in S |-> 1 + Cardinality(Placed(S, e))]
<1>5. p \in [S -> 1..n]
  BY <1>1, <1>2
<1>6. p \in Injection(S, 1..n)
  <2>1. \A e, f \in S : p[e] = p[f] => e = f
    BY <1>2, <1>4
  <2> QED BY <1>5, <2>1 DEF Injection, IsInjective
<1>7. IsFiniteSet(1..n) /\ Cardinality(1..n) = n
  BY <1>1, FS_Interval
<1>8. p \in Surjection(S, 1..n)
  <2> HIDE DEF p
  <2> QED BY <1>6, <1>7, FS_Injection
<1>9. \A i \in 1..n : \E e \in S : p[e] = i
  BY <1>8 DEF Surjection
<1> QED BY <1>1, <1>4, <1>5, <1>9

\* The order loses no event and adds none.
LEMMA OrderedIs ==
  ASSUME NEW S, Batchable(S)
  PROVE  Listed(Ordered(S), Cardinality(S)) /\ ToSet(Ordered(S)) = S
<1>1. PICK n : n = Cardinality(S)
  OBVIOUS
<1> DEFINE place(e) == 1 + Cardinality(Placed(S, e))
           o == [i \in 1..n |-> CHOOSE e \in S : place(e) = i]
<1>2. /\ n \in Nat
      /\ \A i \in 1..n : \E e \in S : place(e) = i
      /\ \A e \in S : place(e) \in 1..n
      /\ \A e, f \in S : Cardinality(Placed(S, e)) = Cardinality(Placed(S, f)) => e = f
  BY <1>1, PlacesAre, Zenon
<1>3. \A e, f \in S : place(e) = place(f) => e = f
  <2>1. \A e \in S : Cardinality(Placed(S, e)) \in Nat
    <3>1. \A e \in S : IsFiniteSet(Placed(S, e))
      BY FS_Subset DEF Placed, Batchable
    <3> QED BY <3>1, FS_CardinalityType
  <2> QED BY <1>2, <2>1
<1>4. Ordered(S) = o
  BY <1>1 DEF Ordered, Placed
<1> HIDE DEF place
<1>5. \A i \in 1..n : o[i] \in S /\ place(o[i]) = i
  BY <1>2
<1>6. \A e \in S : place(e) \in 1..n /\ o[place(e)] = e
  BY <1>2, <1>3, <1>5
<1>7. Listed(o, n)
  BY <1>2 DEF Listed
<1> HIDE DEF o
<1>8. ToSet(o) = {o[i] : i \in 1..n}
  BY <1>7, JournalSet
<1>9. ToSet(o) = S
  BY <1>5, <1>6, <1>8
<1> QED BY <1>1, <1>4, <1>7, <1>9

-----------------------------------------------------------------------------
(* What the journal says of a pacing state *)

\* Its deposits and withdrawals, as events.
Coming(p) == {Deposited(d, p.dep[d].received, Amount[d]) : d \in DOMAIN p.dep}
Going(p) == {Withdrawn(w, p.wd[w].occurred, Amount[w], p.wd[w].frozen) : w \in DOMAIN p.wd}

MovesIn(S, p) == OfKind(S, {"deposit"}) = Coming(p) /\ OfKind(S, {"withdrawal"}) = Going(p)

\* Its admissions, none of them up to more than is admitted.
AdmitsIn(S, dep) ==
  /\ \A d \in DOMAIN dep : AdmittedBy(S, d) = dep[d].admitted
  /\ \A e \in OfKind(S, {"admission"}) :
       e.id[2] \in DOMAIN dep /\ e.id[3] \in Nat /\ e.id[3] <= dep[e.id[2]].admitted

\* Its days.
DecsIn(S, dec) ==
  /\ Names(S, {"decision", "skip"}) = DOMAIN dec
  /\ Names(S, {"commitment"}) = {x \in DOMAIN dec : dec[x].planned # 0}
  /\ Names(S, {"settlement"}) = {x \in DOMAIN dec : dec[x].planned # 0 /\ dec[x].settled}

\* One term that is not zero is the difference it makes.
LEMMA SumGrows ==
  ASSUME NEW T, IsFiniteSet(T), NEW S \in SUBSET T, NEW f \in [T -> Int], NEW h \in [S -> Int],
         \A x \in S : h[x] = f[x], NEW x \in T, x \notin S, \A y \in T \ S : y # x => f[y] = 0
  PROVE  SumFunction(f) = SumFunction(h) + f[x]
<1>1. PICK U : U = S \cup {x}
  OBVIOUS
<1>2. IsFiniteSet(U) /\ U \in SUBSET T /\ x \in U
  BY <1>1, FS_Subset
<1>3. PICK g : g = [y \in U |-> f[y]]
  OBVIOUS
<1>4. g \in [U -> Int] /\ (\A y \in U : f[y] = g[y]) /\ g[x] = f[x] /\ \A y \in S : h[y] = g[y]
  BY <1>1, <1>2, <1>3
<1>5. \A y \in T \ U : f[y] = 0
  BY <1>1
<1>6. SumFunction(f) = SumFunction(g)
  BY <1>2, <1>4, <1>5, SumPad
<1>7. Without(S, U, x)
  BY <1>1 DEF Without
<1>8. SumFunction(g) = g[x] + SumFunction(h)
  BY <1>2, <1>4, <1>7, SumSplit
<1>9. SumFunction(h) \in Int /\ f[x] \in Int
  BY FS_Subset, SumType
<1> QED BY <1>4, <1>6, <1>8, <1>9

\* The events of kinds other than admissions admit nothing.
LEMMA AdmitsSame ==
  ASSUME NEW T, Events(T), NEW S \in SUBSET T, NEW d,
         \A e \in T \ S : AdmittedOf(e, d) = 0
  PROVE  AdmittedBy(T, d) = AdmittedBy(S, d)
<1> DEFINE f == [e \in T |-> AdmittedOf(e, d)]
           h == [e \in S |-> AdmittedOf(e, d)]
<1>1. \A e \in T : AdmittedOf(e, d) \in Int
  BY EventAmounts DEF Events
<1>2. f \in [T -> Int] /\ h \in [S -> Int] /\ (\A e \in S : f[e] = h[e]) /\ \A e \in T \ S : f[e] = 0
  BY <1>1
<1>3. IsFiniteSet(T)
  BY DEF Events
<1>4. AdmittedBy(T, d) = SumFunction(f) /\ AdmittedBy(S, d) = SumFunction(h)
  BY DEF AdmittedBy
<1> HIDE DEF f, h
<1> QED BY <1>2, <1>3, <1>4, SumPad

LEMMA AdmitsOne ==
  ASSUME NEW T, Events(T), NEW S \in SUBSET T, NEW d, NEW x \in T, x \notin S,
         \A e \in T \ S : e # x => AdmittedOf(e, d) = 0
  PROVE  AdmittedBy(T, d) = AdmittedBy(S, d) + AdmittedOf(x, d)
<1> DEFINE f == [e \in T |-> AdmittedOf(e, d)]
           h == [e \in S |-> AdmittedOf(e, d)]
<1>1. \A e \in T : AdmittedOf(e, d) \in Int
  BY EventAmounts DEF Events
<1>2. /\ f \in [T -> Int] /\ h \in [S -> Int] /\ (\A e \in S : h[e] = f[e])
      /\ \A e \in T \ S : e # x => f[e] = 0
  BY <1>1
<1>3. IsFiniteSet(T)
  BY DEF Events
<1>4. AdmittedBy(T, d) = SumFunction(f) /\ AdmittedBy(S, d) = SumFunction(h) /\ f[x] = AdmittedOf(x, d)
  BY DEF AdmittedBy
<1> HIDE DEF f, h
<1> QED BY <1>2, <1>3, <1>4, SumGrows

\* p has admitted no less than before, of what there was before and more.
Grown(p, before, A) ==
  /\ DOMAIN before \subseteq DOMAIN p.dep
  /\ \A d \in DOMAIN before : before[d].admitted \in Nat
  /\ \A d \in DOMAIN p.dep : p.dep[d].admitted \in Nat
  /\ A = Admissions(p, before) /\ \A e \in A : ~(e.amount < 0)

Had(before, d) == IF d \in DOMAIN before THEN before[d].admitted ELSE 0

\* With the admissions beyond what there was before, the events admit what p does.
LEMMA AdmitsGrow ==
  ASSUME NEW S, NEW before, AdmitsIn(S, before), NEW p, NEW A, Grown(p, before, A),
         NEW T, Events(T), T = S \cup A
  PROVE  AdmitsIn(T, p.dep)
<1>1. /\ DOMAIN before \subseteq DOMAIN p.dep
      /\ \A d \in DOMAIN p.dep : p.dep[d].admitted \in Nat /\ Had(before, d) \in Nat
  BY DEF Grown, Had
<1>2. A = {Admission(d, UsableAt(p.dep[d]), p.dep[d].admitted - Had(before, d), p.dep[d].admitted) :
             d \in {x \in DOMAIN p.dep : p.dep[x].admitted # Had(before, x)}}
  BY DEF Grown, Admissions, Had
<1>3. \A e \in A : /\ e.id[1] = "admission" /\ e.id[2] \in DOMAIN p.dep
                   /\ e.id[3] = p.dep[e.id[2]].admitted
                   /\ e.amount = p.dep[e.id[2]].admitted - Had(before, e.id[2])
                   /\ p.dep[e.id[2]].admitted # Had(before, e.id[2])
  BY <1>2 DEF Admission
<1>4. \A e, f \in A : e.id[2] = f.id[2] => e = f
  <2>1. SUFFICES ASSUME NEW e \in A, NEW f \in A, e.id[2] = f.id[2] PROVE e = f
    OBVIOUS
  <2>2. PICK x \in DOMAIN p.dep : e = Admission(x, UsableAt(p.dep[x]),
                                                p.dep[x].admitted - Had(before, x), p.dep[x].admitted)
    BY <1>2
  <2>3. PICK y \in DOMAIN p.dep : f = Admission(y, UsableAt(p.dep[y]),
                                                p.dep[y].admitted - Had(before, y), p.dep[y].admitted)
    BY <1>2
  <2>4. e.id[2] = x /\ f.id[2] = y
    BY <2>2, <2>3 DEF Admission
  <2>5. x = y
    BY <2>1, <2>4
  <2> QED BY <2>2, <2>3, <2>5
<1>5. \A d \in DOMAIN p.dep : p.dep[d].admitted # Had(before, d) =>
        \E e \in A : e.id[2] = d
  <2>1. SUFFICES ASSUME NEW d \in DOMAIN p.dep, p.dep[d].admitted # Had(before, d)
                 PROVE  \E e \in A : e.id[2] = d
    OBVIOUS
  <2>2. PICK e : e = Admission(d, UsableAt(p.dep[d]), p.dep[d].admitted - Had(before, d), p.dep[d].admitted)
    OBVIOUS
  <2>3. e.id[2] = d
    BY <2>2 DEF Admission
  <2>4. e \in A
    BY <1>2, <2>1, <2>2
  <2> QED BY <2>3, <2>4
<1>6. \A e \in A : p.dep[e.id[2]].admitted > Had(before, e.id[2])
  BY <1>1, <1>3 DEF Grown
<1>7. S \in SUBSET T /\ \A e \in S : Event(e)
  BY DEF Events
<1>8. \A e \in S : e.id[1] = "admission" =>
        e.id[2] \in DOMAIN before /\ e.id[3] \in Nat /\ e.id[3] <= Had(before, e.id[2])
  BY DEF AdmitsIn, OfKind, Had
<1>9. \A e \in A : e \notin S
  <2>1. SUFFICES ASSUME NEW e \in A, e \in S PROVE FALSE
    OBVIOUS
  <2>2. e.id[3] <= Had(before, e.id[2]) /\ e.id[3] = p.dep[e.id[2]].admitted
        /\ p.dep[e.id[2]].admitted > Had(before, e.id[2]) /\ e.id[2] \in DOMAIN p.dep
    BY <1>3, <1>6, <1>8, <2>1
  <2> QED BY <1>1, <2>2
<1>10. \A d : AdmittedBy(S, d) = Had(before, d) \/ d \notin DOMAIN p.dep
  <2>1. SUFFICES ASSUME NEW d \in DOMAIN p.dep PROVE AdmittedBy(S, d) = Had(before, d)
    OBVIOUS
  <2>2. CASE d \in DOMAIN before
    BY <2>2 DEF AdmitsIn, Had
  <2>3. CASE d \notin DOMAIN before
    <3>1. \A e \in S : AdmittedOf(e, d) = 0
      BY <1>8, <2>3 DEF AdmittedOf
    <3>2. IsFiniteSet(S)
      BY FS_Subset DEF Events
    <3> DEFINE f == [e \in S |-> AdmittedOf(e, d)]
    <3>3. f \in [S -> Int] /\ \A e \in S : f[e] = 0
      BY <3>1
    <3>4. SumFunction(f) = 0
      <4> HIDE DEF f
      <4> QED BY <3>2, <3>3, SumZero
    <3> QED BY <2>3, <3>4 DEF AdmittedBy, Had
  <2> QED BY <2>2, <2>3
<1>11. ASSUME NEW d \in DOMAIN p.dep PROVE AdmittedBy(T, d) = p.dep[d].admitted
  <2>1. CASE p.dep[d].admitted = Had(before, d)
    <3>1. \A e \in T \ S : AdmittedOf(e, d) = 0
      BY <1>3, <2>1 DEF AdmittedOf
    <3> QED BY <1>7, <1>10, <2>1, <3>1, AdmitsSame
  <2>2. CASE p.dep[d].admitted # Had(before, d)
    <3>1. PICK x \in A : x.id[2] = d
      BY <1>5, <2>2
    <3>2. x \in T /\ x \notin S
      BY <1>9
    <3>3. \A e \in T \ S : e # x => AdmittedOf(e, d) = 0
      BY <1>4, <3>1 DEF AdmittedOf
    <3>4. AdmittedOf(x, d) = p.dep[d].admitted - Had(before, d)
      BY <1>3, <3>1 DEF AdmittedOf
    <3>5. AdmittedBy(T, d) = AdmittedBy(S, d) + AdmittedOf(x, d)
      BY <1>7, <3>2, <3>3, AdmitsOne
    <3> QED BY <1>1, <1>10, <3>4, <3>5
  <2> QED BY <2>1, <2>2
<1>12. ASSUME NEW e \in OfKind(T, {"admission"})
       PROVE  e.id[2] \in DOMAIN p.dep /\ e.id[3] \in Nat /\ e.id[3] <= p.dep[e.id[2]].admitted
  <2>1. CASE e \in A
    BY <1>1, <1>3, <2>1
  <2>2. CASE e \in S
    <3>1. /\ e.id[2] \in DOMAIN before /\ e.id[3] \in Nat /\ e.id[3] <= Had(before, e.id[2])
          /\ e.id[2] \in DOMAIN p.dep
      BY <1>1, <1>8, <1>12, <2>2 DEF OfKind
    <3>2. Had(before, e.id[2]) <= p.dep[e.id[2]].admitted
      <4>1. CASE p.dep[e.id[2]].admitted = Had(before, e.id[2])
        BY <1>1, <3>1, <4>1
      <4>2. CASE p.dep[e.id[2]].admitted # Had(before, e.id[2])
        <5>1. PICK x \in A : x.id[2] = e.id[2]
          BY <1>5, <3>1, <4>2
        <5>2. p.dep[e.id[2]].admitted > Had(before, e.id[2])
          BY <1>6, <5>1
        <5> QED BY <1>1, <3>1, <5>2
      <4> QED BY <4>1, <4>2
    <3> QED BY <1>1, <3>1, <3>2
  <2> QED BY <1>12, <2>1, <2>2 DEF OfKind
<1> QED BY <1>11, <1>12 DEF AdmitsIn

\* Events of other kinds leave the admissions as they are.
LEMMA AdmitsStay ==
  ASSUME NEW S, NEW dep, AdmitsIn(S, dep), NEW T, Events(T), S \subseteq T,
         \A e \in T \ S : e.id[1] # "admission"
  PROVE  AdmitsIn(T, dep)
<1>1. \A d : AdmittedBy(T, d) = AdmittedBy(S, d)
  <2>1. \A e \in T \ S : \A d : AdmittedOf(e, d) = 0
    BY DEF AdmittedOf
  <2> QED BY <2>1, AdmitsSame
<1>2. OfKind(T, {"admission"}) = OfKind(S, {"admission"})
  BY DEF OfKind
<1> QED BY <1>1, <1>2 DEF AdmitsIn

-----------------------------------------------------------------------------
(* What a cycle writes is listed *)

LEMMA ConcatIs ==
  ASSUME NEW a, NEW n, Listed(a, n), NEW b, NEW m, Listed(b, m)
  PROVE  Listed(a \o b, n + m) /\ ToSet(a \o b) = ToSet(a) \cup ToSet(b)
<1> DEFINE A == ToSet(a) \cup ToSet(b)
           c == a \o b
<1>1. /\ DOMAIN a = 1..n /\ n \in Nat /\ a = [i \in 1..n |-> a[i]]
      /\ DOMAIN b = 1..m /\ m \in Nat /\ b = [i \in 1..m |-> b[i]]
  BY DEF Listed
<1>2. (\A i \in 1..n : a[i] \in A) /\ \A i \in 1..m : b[i] \in A
  BY <1>1 DEF ToSet
<1>3. a \in [1..n -> A] /\ b \in [1..m -> A]
  BY <1>1, <1>2
<1> HIDE DEF A
<1>4. a \in Seq(A) /\ b \in Seq(A)
  BY <1>1, <1>3
<1>5. Len(a) = n /\ Len(b) = m
  BY <1>1, <1>4
<1>6. c \in Seq(A) /\ Len(c) = n + m
  BY <1>4, <1>5
<1>7. (\A i \in 1..n : c[i] = a[i]) /\ \A i \in 1..m : c[n + i] = b[i]
  <2>1. \A i \in 1..(n + m) : c[i] = IF i <= n THEN a[i] ELSE b[i - n]
    BY <1>1, <1>4, <1>5
  <2>2. ASSUME NEW i \in 1..m PROVE c[n + i] = b[i]
    <3>1. n + i \in 1..(n + m) /\ ~(n + i <= n) /\ (n + i) - n = i
      BY <1>1
    <3> QED BY <2>1, <3>1
  <2>3. ASSUME NEW i \in 1..n PROVE c[i] = a[i]
    <3>1. i \in 1..(n + m) /\ i <= n
      BY <1>1
    <3> QED BY <2>1, <3>1
  <2> QED BY <2>2, <2>3
<1> HIDE DEF c
<1>8. c = [i \in 1..(n + m) |-> c[i]]
  <2>1. c \in [1..Len(c) -> A]
    BY <1>6
  <2>2. c \in [1..(n + m) -> A]
    BY <1>6, <2>1
  <2> QED BY <2>2
<1>9. Listed(c, n + m)
  BY <1>1, <1>8 DEF Listed
<1>10. \A i \in 1..(n + m) : i \in 1..n \/ \E k \in 1..m : i = n + k
  <2>1. SUFFICES ASSUME NEW i \in 1..(n + m), i \notin 1..n PROVE \E k \in 1..m : i = n + k
    OBVIOUS
  <2>2. i - n \in 1..m /\ i = n + (i - n)
    BY <1>1, <2>1
  <2> QED BY <2>2
<1>11. (\A i \in 1..n : i \in 1..(n + m)) /\ \A i \in 1..m : n + i \in 1..(n + m)
  BY <1>1
<1>12. ToSet(c) = ToSet(a) \cup ToSet(b)
  <2>1. /\ ToSet(c) = {c[i] : i \in 1..(n + m)}
        /\ ToSet(a) = {a[i] : i \in 1..n} /\ ToSet(b) = {b[i] : i \in 1..m}
    BY <1>9, JournalSet
  <2>2. ASSUME NEW x \in ToSet(c) PROVE x \in ToSet(a) \cup ToSet(b)
    BY <1>7, <1>10, <2>1
  <2>3. ASSUME NEW x \in ToSet(a) PROVE x \in ToSet(c)
    BY <1>7, <1>11, <2>1
  <2>4. ASSUME NEW x \in ToSet(b) PROVE x \in ToSet(c)
    BY <1>7, <1>11, <2>1
  <2> QED BY <2>2, <2>3, <2>4
<1> QED BY <1>9, <1>12 DEF c

LEMMA OneIs == ASSUME NEW e PROVE Listed(<<e>>, 1) /\ ToSet(<<e>>) = {e}
BY DEF Listed, ToSet

LEMMA TwoAre == ASSUME NEW e, NEW f PROVE Listed(<<e, f>>, 2) /\ ToSet(<<e, f>>) = {e, f}
<1>1. DOMAIN <<e, f>> = 1..2
  OBVIOUS
<1>2. \A i \in 1..2 : i = 1 \/ i = 2
  OBVIOUS
<1> QED BY <1>1, <1>2 DEF Listed, ToSet

LEMMA NoneIs == Listed(<<>>, 0) /\ ToSet(<<>>) = {}
BY DEF Listed, ToSet

\* What the day's decision adds.
DayEvents(x, date) ==
  LET at == Boundary(date) IN
  IF x.planned = 0 THEN {Skipped(date, at)}
  ELSE {Committed(date, at, x.committed), Decided(date, at, x.committed)}
         \cup (IF x.settled THEN {Settled(date, at, x.debited)} ELSE {})

LEMMA DecisionEventsAre ==
  ASSUME NEW p, NEW date
  PROVE  /\ \E n : Listed(DecisionEvents(p, date), n)
         /\ ToSet(DecisionEvents(p, date)) = DayEvents(p.dec[date], date)
<1>1. PICK x, at : x = p.dec[date] /\ at = Boundary(date)
  OBVIOUS
<1>2. CASE x.planned = 0
  <2>1. DecisionEvents(p, date) = <<Skipped(date, at)>> /\ DayEvents(x, date) = {Skipped(date, at)}
    BY <1>1, <1>2 DEF DecisionEvents, DayEvents
  <2> QED BY <1>1, <2>1, OneIs
<1>3. CASE x.planned # 0
  <2>1. PICK c, d, s : /\ c = Committed(date, at, x.committed) /\ d = Decided(date, at, x.committed)
                       /\ s = Settled(date, at, x.debited)
    OBVIOUS
  <2>2. PICK t : t = IF x.settled THEN <<s>> ELSE <<>>
    OBVIOUS
  <2>3. /\ DecisionEvents(p, date) = <<c, d>> \o t
        /\ DayEvents(x, date) = {c, d} \cup (IF x.settled THEN {s} ELSE {})
    BY <1>1, <1>3, <2>1, <2>2 DEF DecisionEvents, DayEvents
  <2>4. (\E n : Listed(t, n)) /\ ToSet(t) = IF x.settled THEN {s} ELSE {}
    BY <2>2, OneIs, NoneIs
  <2>5. PICK n : Listed(t, n)
    BY <2>4
  <2>6. PICK u, v : u = <<c, d>> /\ v = u \o t
    OBVIOUS
  <2>7. Listed(u, 2) /\ ToSet(u) = {c, d}
    BY <2>6, TwoAre
  <2>8. Listed(v, 2 + n) /\ ToSet(v) = ToSet(u) \cup ToSet(t)
    BY <2>5, <2>6, <2>7, ConcatIs
  <2>9. DecisionEvents(p, date) = v
    BY <2>3, <2>6
  <2>10. ToSet(v) = DayEvents(x, date)
    BY <2>3, <2>4, <2>7, <2>8, Zenon
  <2> QED BY <1>1, <2>8, <2>9, <2>10
<1> QED BY <1>2, <1>3

LEMMA DayEventsAre ==
  ASSUME NEW x, NEW date
  PROVE  \A e \in DayEvents(x, date) : Event(e) /\ e.id[1] \in {"commitment", "decision", "skip", "settlement"}
<1>1. PICK at : at = Boundary(date)
  OBVIOUS
<1>2. \A e \in DayEvents(x, date) :
        \/ e = Skipped(date, at) \/ e = Committed(date, at, x.committed)
        \/ e = Decided(date, at, x.committed) \/ e = Settled(date, at, x.debited)
  BY <1>1 DEF DayEvents
<1>3. ASSUME NEW e, \/ e = Skipped(date, at) \/ e = Committed(date, at, x.committed)
                    \/ e = Decided(date, at, x.committed) \/ e = Settled(date, at, x.debited)
      PROVE  Event(e) /\ e.id[1] \in {"commitment", "decision", "skip", "settlement"}
  <2>1. e.id[1] \in {"commitment", "decision", "skip", "settlement"} /\ e.ret = <<>>
    BY <1>3 DEF Skipped, Committed, Decided, Settled
  <2>2. e.id = <<e.id[1], e.id[2]>>
    BY <1>3 DEF Skipped, Committed, Decided, Settled
  <2>3. IsFiniteSet(DOMAIN e.ret) /\ e.ret \in [DOMAIN e.ret -> Nat]
    BY <2>1, FS_EmptySet
  <2> QED BY <2>1, <2>2, <2>3 DEF Event, Kinds
<1> QED BY <1>2, <1>3

-----------------------------------------------------------------------------
(* What a cycle adds, and what the journal says of the new state *)

\* Events of other kinds leave those of the kinds K as they are.
LEMMA OthersStay ==
  ASSUME NEW S, NEW T, S \subseteq T, NEW K, \A e \in T \ S : e.id[1] \notin K
  PROVE  OfKind(T, K) = OfKind(S, K) /\ Names(T, K) = Names(S, K)
<1>1. OfKind(T, K) = OfKind(S, K)
  BY DEF OfKind
<1> QED BY <1>1 DEF Names

LEMMA ComingIs ==
  ASSUME NEW p, NEW at, Known(p, at)
  PROVE  /\ Coming(p) = {Deposited(d, occurred[d], Amount[d]) : d \in DOMAIN p.dep}
         /\ Going(p) = {Withdrawn(w, occurred[w], Amount[w], p.wd[w].frozen) : w \in DOMAIN p.wd}
BY DEF Coming, Going, Known

MovementsOnly(T, S, M) ==
  /\ S \subseteq T /\ M \subseteq T
  /\ \A e \in T : e \in S \/ e \in M \/ e.id[1] \notin {"deposit", "withdrawal"}

\* p has, beyond what s has, the movements ids, and keeps what s has frozen.
More(p, s, ids) ==
  /\ DOMAIN p.dep = DOMAIN s.dep \cup (ids \cap Deposits)
  /\ DOMAIN p.wd = DOMAIN s.wd \cup (ids \cap Withdrawals)
  /\ \A w \in DOMAIN s.wd : p.wd[w].frozen = s.wd[w].frozen

LEMMA MovesGrow ==
  ASSUME NEW S, NEW s, MovesIn(S, s), NEW a, Known(s, a), NEW p, NEW b, Known(p, b),
         NEW ids, More(p, s, ids),
         NEW T, MovementsOnly(T, S, Movements(ids, p))
  PROVE  MovesIn(T, p)
<1> DEFINE din(d) == Deposited(d, occurred[d], Amount[d])
           wout(w) == Withdrawn(w, occurred[w], Amount[w], p.wd[w].frozen)
<1>1. /\ DOMAIN p.dep = DOMAIN s.dep \cup (ids \cap Deposits)
      /\ DOMAIN p.wd = DOMAIN s.wd \cup (ids \cap Withdrawals)
      /\ \A w \in DOMAIN s.wd : p.wd[w].frozen = s.wd[w].frozen
  BY DEF More
<1>2. /\ OfKind(S, {"deposit"}) = {din(d) : d \in DOMAIN s.dep}
      /\ OfKind(S, {"withdrawal"}) = {wout(w) : w \in DOMAIN s.wd}
  <2>1. {Withdrawn(w, occurred[w], Amount[w], s.wd[w].frozen) : w \in DOMAIN s.wd}
          = {wout(w) : w \in DOMAIN s.wd}
    BY <1>1
  <2> QED BY <2>1, ComingIs DEF MovesIn
<1>3. /\ Coming(p) = {din(d) : d \in DOMAIN p.dep}
      /\ Going(p) = {wout(w) : w \in DOMAIN p.wd}
  BY ComingIs
<1>4. Movements(ids, p) = {din(d) : d \in ids \cap Deposits} \cup {wout(w) : w \in ids \cap Withdrawals}
  <2>1. \A w \in ids \cap Withdrawals : w \in DOMAIN p.wd
    BY <1>1
  <2> QED BY <2>1 DEF Movements
<1>5. (\A d : din(d).id[1] = "deposit") /\ \A w : wout(w).id[1] = "withdrawal"
  BY DEF Deposited, Withdrawn
<1> HIDE DEF din, wout
<1>6. OfKind(T, {"deposit"}) = {din(d) : d \in DOMAIN p.dep}
  <2>1. ASSUME NEW e \in OfKind(T, {"deposit"}) PROVE e \in {din(d) : d \in DOMAIN p.dep}
    <3>1. e \in T /\ e.id[1] = "deposit"
      BY <2>1 DEF OfKind
    <3>2. CASE e \in S
      <4>1. e \in {din(d) : d \in DOMAIN s.dep}
        BY <1>2, <3>1, <3>2 DEF OfKind
      <4> QED BY <1>1, <4>1
    <3>3. CASE e \in Movements(ids, p)
      <4>1. e \in {din(d) : d \in ids \cap Deposits}
        BY <1>4, <1>5, <3>1, <3>3
      <4> QED BY <1>1, <4>1
    <3> QED BY <3>1, <3>2, <3>3 DEF MovementsOnly
  <2>2. ASSUME NEW d \in DOMAIN p.dep PROVE din(d) \in OfKind(T, {"deposit"})
    <3>1. CASE d \in DOMAIN s.dep
      <4>1. din(d) \in S
        BY <1>2, <3>1 DEF OfKind
      <4> QED BY <1>5, <4>1 DEF OfKind, MovementsOnly
    <3>2. CASE d \in ids \cap Deposits
      <4>1. din(d) \in Movements(ids, p)
        BY <1>4, <3>2
      <4> QED BY <1>5, <4>1 DEF OfKind, MovementsOnly
    <3> QED BY <1>1, <3>1, <3>2
  <2> QED BY <2>1, <2>2
<1>7. OfKind(T, {"withdrawal"}) = {wout(w) : w \in DOMAIN p.wd}
  <2>1. ASSUME NEW e \in OfKind(T, {"withdrawal"}) PROVE e \in {wout(w) : w \in DOMAIN p.wd}
    <3>1. e \in T /\ e.id[1] = "withdrawal"
      BY <2>1 DEF OfKind
    <3>2. CASE e \in S
      <4>1. e \in {wout(w) : w \in DOMAIN s.wd}
        BY <1>2, <3>1, <3>2 DEF OfKind
      <4> QED BY <1>1, <4>1
    <3>3. CASE e \in Movements(ids, p)
      <4>1. e \in {wout(w) : w \in ids \cap Withdrawals}
        BY <1>4, <1>5, <3>1, <3>3
      <4> QED BY <1>1, <4>1
    <3> QED BY <3>1, <3>2, <3>3 DEF MovementsOnly
  <2>2. ASSUME NEW w \in DOMAIN p.wd PROVE wout(w) \in OfKind(T, {"withdrawal"})
    <3>1. CASE w \in DOMAIN s.wd
      <4>1. wout(w) \in S
        BY <1>2, <3>1 DEF OfKind
      <4> QED BY <1>5, <4>1 DEF OfKind, MovementsOnly
    <3>2. CASE w \in ids \cap Withdrawals
      <4>1. wout(w) \in Movements(ids, p)
        BY <1>4, <3>2
      <4> QED BY <1>5, <4>1 DEF OfKind, MovementsOnly
    <3> QED BY <1>1, <3>1, <3>2
  <2> QED BY <2>1, <2>2
<1> QED BY <1>3, <1>6, <1>7 DEF MovesIn

\* Movements and admissions leave the days as they are.
LEMMA DecsStay ==
  ASSUME NEW S, NEW dec, DecsIn(S, dec), NEW T, S \subseteq T,
         \A e \in T \ S : e.id[1] \in {"deposit", "admission", "withdrawal"}
  PROVE  DecsIn(T, dec)
<1>1. \A e \in T \ S : /\ e.id[1] \notin {"decision", "skip"}
                       /\ e.id[1] \notin {"commitment"} /\ e.id[1] \notin {"settlement"}
  OBVIOUS
<1>2. /\ Names(T, {"decision", "skip"}) = Names(S, {"decision", "skip"})
      /\ Names(T, {"commitment"}) = Names(S, {"commitment"})
      /\ Names(T, {"settlement"}) = Names(S, {"settlement"})
  BY <1>1, OthersStay
<1> QED BY <1>2 DEF DecsIn

LEMMA NamesJoin ==
  ASSUME NEW S, NEW E, NEW K
  PROVE  Names(S \cup E, K) = Names(S, K) \cup Names(E, K)
BY DEF Names, OfKind

\* What the events of a day name.
DayNamed(E, x, date) ==
  /\ Names(E, {"decision", "skip"}) = {date}
  /\ Names(E, {"commitment"}) = IF x.planned # 0 THEN {date} ELSE {}
  /\ Names(E, {"settlement"}) = IF x.planned # 0 /\ x.settled THEN {date} ELSE {}

LEMMA DayNames ==
  ASSUME NEW x, x.settled \in BOOLEAN, NEW date, NEW E, E = DayEvents(x, date)
  PROVE  DayNamed(E, x, date)
<1>1. PICK k, c, d, s : /\ k = Skipped(date, Boundary(date)) /\ c = Committed(date, Boundary(date), x.committed)
                        /\ d = Decided(date, Boundary(date), x.committed)
                        /\ s = Settled(date, Boundary(date), x.debited)
  OBVIOUS
<1>2. /\ k.id[1] = "skip" /\ c.id[1] = "commitment" /\ d.id[1] = "decision" /\ s.id[1] = "settlement"
      /\ k.id[2] = date /\ c.id[2] = date /\ d.id[2] = date /\ s.id[2] = date
  BY <1>1 DEF Skipped, Committed, Decided, Settled
<1>3. CASE x.planned = 0
  <2>1. E = {k}
    BY <1>1, <1>3 DEF DayEvents
  <2> QED BY <1>2, <1>3, <2>1 DEF DayNamed, Names, OfKind
<1>4. CASE x.planned # 0 /\ ~x.settled
  <2>1. E = {c, d}
    BY <1>1, <1>4 DEF DayEvents
  <2> QED BY <1>2, <1>4, <2>1 DEF DayNamed, Names, OfKind
<1>5. CASE x.planned # 0 /\ x.settled
  <2>1. E = {c, d, s}
    BY <1>1, <1>5 DEF DayEvents
  <2> QED BY <1>2, <1>5, <2>1 DEF DayNamed, Names, OfKind
<1> QED BY <1>3, <1>4, <1>5

\* t has, beyond what s has, a decision of the date.
LEMMA DecsGrow ==
  ASSUME NEW S, NEW s, DecsIn(S, s.dec), NEW date, date \notin DOMAIN s.dec,
         NEW t, DecidedAt(t, s, date), date \in DOMAIN t.dec, t.dec[date].settled \in BOOLEAN,
         NEW T, T = S \cup DayEvents(t.dec[date], date)
  PROVE  DecsIn(T, t.dec)
<1>1. PICK E, x : x = t.dec[date] /\ E = DayEvents(x, date)
  OBVIOUS
<1>2. /\ DOMAIN t.dec = DOMAIN s.dec \cup {date}
      /\ \A y \in DOMAIN s.dec : t.dec[y] = s.dec[y]
  BY DEF DecidedAt
<1>3. /\ Names(E, {"decision", "skip"}) = {date}
      /\ Names(E, {"commitment"}) = IF x.planned # 0 THEN {date} ELSE {}
      /\ Names(E, {"settlement"}) = IF x.planned # 0 /\ x.settled THEN {date} ELSE {}
  <2>1. x.settled \in BOOLEAN /\ E = DayEvents(x, date)
    BY <1>1
  <2>2. DayNamed(E, x, date)
    BY <2>1, DayNames
  <2> QED BY <2>2 DEF DayNamed
<1>4. \A K : Names(T, K) = Names(S, K) \cup Names(E, K)
  BY <1>1, NamesJoin
<1>5. Names(T, {"decision", "skip"}) = DOMAIN t.dec
  BY <1>2, <1>3, <1>4 DEF DecsIn
<1>6. Names(T, {"commitment"}) = {y \in DOMAIN t.dec : t.dec[y].planned # 0}
  <2>1. Names(T, {"commitment"}) = {y \in DOMAIN s.dec : t.dec[y].planned # 0} \cup
                                   (IF x.planned # 0 THEN {date} ELSE {})
    BY <1>2, <1>3, <1>4 DEF DecsIn
  <2> QED BY <1>1, <1>2, <2>1
<1>7. Names(T, {"settlement"}) = {y \in DOMAIN t.dec : t.dec[y].planned # 0 /\ t.dec[y].settled}
  <2>1. Names(S, {"settlement"}) = {y \in DOMAIN s.dec : t.dec[y].planned # 0 /\ t.dec[y].settled}
    BY <1>2, Zenon DEF DecsIn
  <2>2. Names(T, {"settlement"}) = {y \in DOMAIN s.dec : t.dec[y].planned # 0 /\ t.dec[y].settled} \cup
                                   (IF x.planned # 0 /\ x.settled THEN {date} ELSE {})
    BY <1>3, <1>4, <2>1
  <2> QED BY <1>1, <1>2, <2>2
<1> QED BY <1>5, <1>6, <1>7 DEF DecsIn

-----------------------------------------------------------------------------
(* A batch of movements and admissions *)

LEMMA ImageFinite ==
  ASSUME NEW D, IsFiniteSet(D), NEW f, DOMAIN f = D
  PROVE  IsFiniteSet({f[x] : x \in D})
<1> DEFINE R == {f[x] : x \in D}
           g == [x \in D |-> f[x]]
<1>1. g \in Surjection(D, R)
  BY DEF Surjection
<1> HIDE DEF R, g
<1>2. IsFiniteSet(R)
  BY <1>1, FS_Surjection
<1> QED BY <1>2 DEF R

LEMMA MovedAmounts ==
  /\ \A d \in Deposits : d \in Int /\ Amount[d] \in Nat
  /\ \A w \in Withdrawals : w \in Int /\ Amount[w] \in Nat
<1>1. Deposits \subseteq Nat /\ Withdrawals \subseteq Nat
  BY PacingLimits
<1>2. \A m \in Deposits \cup Withdrawals : Amount[m] \in Nat
  BY PacingLimits
<1> QED BY <1>1, <1>2

\* What a state has admitted before is a number.
Counted(before) == \A d \in DOMAIN before : before[d].admitted \in Nat

LEMMA MovementsAre ==
  ASSUME Venue, NEW p, Sound(p), NEW ids, ids \subseteq DOMAIN occurred
  PROVE  /\ IsFiniteSet(Movements(ids, p))
         /\ \A e \in Movements(ids, p) :
              /\ Event(e) /\ e.id[1] \in {"deposit", "withdrawal"} /\ e.at \in Int /\ e.id[2] \in Int
         /\ \A e, f \in Movements(ids, p) : e.id[1] = f.id[1] /\ e.id[2] = f.id[2] => e = f
<1> DEFINE ret(w) == IF w \in DOMAIN p.wd THEN p.wd[w].frozen ELSE <<>>
           din == [d \in ids \cap Deposits |-> Deposited(d, occurred[d], Amount[d])]
           wout == [w \in ids \cap Withdrawals |-> Withdrawn(w, occurred[w], Amount[w], ret(w))]
           I == {din[d] : d \in ids \cap Deposits}
           O == {wout[w] : w \in ids \cap Withdrawals}
<1>1. Movements(ids, p) = I \cup O
  BY DEF Movements
<1>2. \A m \in ids : occurred[m] \in Nat
  BY DEF Venue
<1>3. ASSUME NEW d \in ids \cap Deposits
      PROVE  /\ Event(din[d]) /\ din[d].id[1] = "deposit" /\ din[d].id[2] = d
             /\ din[d].at \in Int /\ d \in Int
  <2>1. /\ din[d].id = <<"deposit", d>> /\ din[d].at = occurred[d] /\ din[d].ret = <<>>
        /\ din[d].id[1] = "deposit" /\ din[d].id[2] = d
    BY DEF Deposited
  <2> HIDE DEF din
  <2>2. IsFiniteSet(DOMAIN din[d].ret) /\ din[d].ret \in [DOMAIN din[d].ret -> Nat]
    BY <2>1, FS_EmptySet
  <2>3. Event(din[d])
    BY <2>1, <2>2 DEF Event, Kinds
  <2> QED BY <1>2, <2>1, <2>3, MovedAmounts
<1>4. ASSUME NEW w \in ids \cap Withdrawals
      PROVE  /\ Event(wout[w]) /\ wout[w].id[1] = "withdrawal" /\ wout[w].id[2] = w
             /\ wout[w].at \in Int /\ w \in Int
  <2>1. /\ wout[w].id = <<"withdrawal", w>> /\ wout[w].at = occurred[w] /\ wout[w].ret = ret(w)
        /\ wout[w].id[1] = "withdrawal" /\ wout[w].id[2] = w /\ wout[w].amount = Amount[w]
    BY DEF Withdrawn
  <2>2. IsFiniteSet(DOMAIN ret(w)) /\ ret(w) \in [DOMAIN ret(w) -> Nat]
    <3>1. CASE w \in DOMAIN p.wd
      <4>1. Movement(p.wd[w], w, DOMAIN p.dep)
        BY <3>1 DEF Sound, Shape
      <4>2. ret(w) = p.wd[w].frozen
        BY <3>1
      <4>3. CASE p.wd[w].isFrozen
        BY <4>1, <4>2, <4>3 DEF Movement, Returnable
      <4>4. CASE ~p.wd[w].isFrozen
        <5>1. ret(w) = <<>>
          BY <4>1, <4>2, <4>4 DEF Movement
        <5> HIDE DEF ret
        <5> QED BY <5>1, FS_EmptySet
      <4> QED BY <4>3, <4>4
    <3>2. CASE w \notin DOMAIN p.wd
      <4>1. ret(w) = <<>>
        BY <3>2
      <4> HIDE DEF ret
      <4> QED BY <4>1, FS_EmptySet
    <3> QED BY <3>1, <3>2
  <2> HIDE DEF wout, ret
  <2>3. Amount[w] \in Int /\ w \in Int
    BY MovedAmounts
  <2>4. Event(wout[w])
    BY <2>1, <2>2, <2>3 DEF Event, Kinds
  <2> QED BY <1>2, <2>1, <2>3, <2>4
<1>5. DOMAIN din = ids \cap Deposits /\ DOMAIN wout = ids \cap Withdrawals
  OBVIOUS
<1> HIDE DEF din, wout
<1>6. IsFiniteSet(I) /\ IsFiniteSet(O)
  <2>1. IsFiniteSet(ids \cap Deposits) /\ IsFiniteSet(ids \cap Withdrawals)
    BY FS_Subset DEF Venue
  <2> QED BY <1>5, <2>1, ImageFinite
<1>7. IsFiniteSet(Movements(ids, p))
  BY <1>1, <1>6, FS_Union
<1>8. \A e \in I : \E d \in ids \cap Deposits : e = din[d] /\ e.id[2] = d /\ e.id[1] = "deposit"
  BY <1>3
<1>9. \A e \in O : \E w \in ids \cap Withdrawals : e = wout[w] /\ e.id[2] = w /\ e.id[1] = "withdrawal"
  BY <1>4
<1>10. \A e \in I \cup O :
         /\ Event(e) /\ e.id[1] \in {"deposit", "withdrawal"} /\ e.at \in Int /\ e.id[2] \in Int
  BY <1>3, <1>4
<1>11. \A e, f \in I \cup O : e.id[1] = f.id[1] /\ e.id[2] = f.id[2] => e = f
  <2>1. SUFFICES ASSUME NEW e \in I \cup O, NEW f \in I \cup O, e.id[1] = f.id[1], e.id[2] = f.id[2]
                 PROVE  e = f
    OBVIOUS
  <2>2. CASE e \in I /\ f \in I
    BY <1>8, <2>1, <2>2
  <2>3. CASE e \in O /\ f \in O
    BY <1>9, <2>1, <2>3
  <2>4. CASE (e \in I /\ f \in O) \/ (e \in O /\ f \in I)
    BY <1>8, <1>9, <2>1, <2>4
  <2> QED BY <2>2, <2>3, <2>4
<1> QED BY <1>1, <1>7, <1>10, <1>11

LEMMA AdmissionsAre ==
  ASSUME NEW p, Sound(p), NEW before, Counted(before)
  PROVE  /\ IsFiniteSet(Admissions(p, before))
         /\ \A e \in Admissions(p, before) :
              /\ Event(e) /\ e.id[1] = "admission" /\ e.at \in Int /\ e.id[2] \in Int
         /\ \A e, f \in Admissions(p, before) : e.id[2] = f.id[2] => e = f
<1>1. IsFiniteSet(DOMAIN p.dep) /\ DOMAIN p.dep \subseteq Deposits /\ p.dep \in [DOMAIN p.dep -> Tranches]
  BY DEF Sound, Shape
<1> DEFINE X == {x \in DOMAIN p.dep : p.dep[x].admitted # Had(before, x)}
           adm == [d \in X |-> Admission(d, UsableAt(p.dep[d]), p.dep[d].admitted - Had(before, d),
                                         p.dep[d].admitted)]
           A == {adm[d] : d \in X}
<1>2. Admissions(p, before) = A
  BY DEF Admissions, Had
<1>3. \A d : Had(before, d) \in Nat
  BY DEF Had, Counted
<1>4. ASSUME NEW d \in X
      PROVE  /\ Event(adm[d]) /\ adm[d].id[1] = "admission" /\ adm[d].id[2] = d
             /\ adm[d].at \in Int /\ d \in Int
  <2>1. d \in Deposits /\ p.dep[d] \in Tranches
    BY <1>1
  <2>2. UsableAt(p.dep[d]) \in Int /\ p.dep[d].admitted \in Nat
    BY <2>1, UsableType DEF Tranches
  <2>3. /\ adm[d].id = <<"admission", d, p.dep[d].admitted>> /\ adm[d].ret = <<>>
        /\ adm[d].amount = p.dep[d].admitted - Had(before, d)
        /\ adm[d].at = UsableAt(p.dep[d]) /\ adm[d].id[1] = "admission" /\ adm[d].id[2] = d
        /\ adm[d].id[3] = p.dep[d].admitted
    BY DEF Admission
  <2> HIDE DEF adm, X
  <2>4. IsFiniteSet(DOMAIN adm[d].ret) /\ adm[d].ret \in [DOMAIN adm[d].ret -> Nat]
    BY <2>3, FS_EmptySet
  <2>5. adm[d].amount \in Int
    BY <1>3, <2>2, <2>3
  <2>6. Event(adm[d])
    BY <2>3, <2>4, <2>5 DEF Event, Kinds
  <2> QED BY <2>1, <2>2, <2>3, <2>6, MovedAmounts
<1>5. DOMAIN adm = X /\ IsFiniteSet(X)
  BY <1>1, FS_Subset
<1> HIDE DEF adm, X
<1>6. IsFiniteSet(A)
  BY <1>5, ImageFinite
<1>7. \A e, f \in A : e.id[2] = f.id[2] => e = f
  BY <1>4
<1> QED BY <1>2, <1>4, <1>6, <1>7

Stage(ids, p, before) == Movements(ids, p) \cup Admissions(p, before)

\* Such a batch can be put in its order.
LEMMA StageBatch ==
  ASSUME Venue, NEW p, Sound(p), NEW ids, ids \subseteq DOMAIN occurred, NEW before, Counted(before)
  PROVE  /\ Batchable(Stage(ids, p, before))
         /\ \A e \in Stage(ids, p, before) : Event(e) /\ e.id[1] \in {"deposit", "admission", "withdrawal"}
<1>1. PICK M, A : M = Movements(ids, p) /\ A = Admissions(p, before)
  OBVIOUS
<1>2. /\ IsFiniteSet(M)
      /\ \A e \in M : /\ Event(e) /\ e.id[1] \in {"deposit", "withdrawal"} /\ e.at \in Int /\ e.id[2] \in Int
      /\ \A e, f \in M : e.id[1] = f.id[1] /\ e.id[2] = f.id[2] => e = f
  BY <1>1, MovementsAre
<1>3. /\ IsFiniteSet(A)
      /\ \A e \in A : /\ Event(e) /\ e.id[1] = "admission" /\ e.at \in Int /\ e.id[2] \in Int
      /\ \A e, f \in A : e.id[2] = f.id[2] => e = f
  BY <1>1, AdmissionsAre
<1>4. PICK B : B = M \cup A
  OBVIOUS
<1>5. IsFiniteSet(B)
  BY <1>2, <1>3, <1>4, FS_Union
<1>6. \A e \in B : /\ Event(e) /\ e.id[1] \in {"deposit", "admission", "withdrawal"}
                   /\ e.at \in Int /\ e.id[2] \in Int
  BY <1>2, <1>3, <1>4
<1>7. \A e, f \in B : e.id[1] = f.id[1] /\ e.id[2] = f.id[2] => e = f
  <2>1. \A e \in M : e.id[1] # "admission"
    BY <1>2
  <2> QED BY <1>2, <1>3, <1>4, <2>1
<1>8. Batchable(B)
  BY <1>5, <1>6, <1>7 DEF Batchable
<1> QED BY <1>1, <1>4, <1>6, <1>8 DEF Stage

-----------------------------------------------------------------------------
(* The journal and the pacing state, cycle by cycle *)

Said(S, p) == MovesIn(S, p) /\ AdmitsIn(S, p.dep) /\ DecsIn(S, p.dec)

NonNegative(S) == \A e \in S : e.id[1] = "admission" => ~(e.amount < 0)

LEMMA StageSays ==
  ASSUME Venue, NEW s, NEW a, Known(s, a), NEW p, Sound(p),
         NEW ids, ids \subseteq DOMAIN occurred, More(p, s, ids),
         NEW before, Counted(before), DOMAIN before = DOMAIN s.dep,
         NEW S, MovesIn(S, s), AdmitsIn(S, before),
         NEW T, Events(T), T = S \cup Stage(ids, p, before), NonNegative(Stage(ids, p, before))
  PROVE  MovesIn(T, p) /\ AdmitsIn(T, p.dep) /\ \A dec : DecsIn(S, dec) => DecsIn(T, dec)
<1>1. PICK M, A : M = Movements(ids, p) /\ A = Admissions(p, before)
  OBVIOUS
<1>2. T = (S \cup M) \cup A /\ Stage(ids, p, before) = M \cup A
  BY <1>1 DEF Stage
<1>3. /\ \A e \in M : e.id[1] \in {"deposit", "withdrawal"}
      /\ \A e \in A : e.id[1] = "admission"
  BY <1>1, MovementsAre, AdmissionsAre
<1>4. MovesIn(T, p)
  <2>1. MovementsOnly(T, S, M)
    BY <1>2, <1>3 DEF MovementsOnly
  <2>2. Known(p, p.through)
    BY DEF Sound
  <2> QED BY <1>1, <2>1, <2>2, MovesGrow
<1>5. AdmitsIn(T, p.dep)
  <2>1. PICK R : R = S \cup M
    OBVIOUS
  <2>2. Events(R)
    BY <1>2, <2>1, FS_Subset DEF Events
  <2>3. AdmitsIn(R, before)
    <3>1. S \subseteq R /\ \A e \in R \ S : e.id[1] # "admission"
      BY <1>3, <2>1
    <3> QED BY <2>2, <3>1, AdmitsStay
  <2>4. Grown(p, before, A)
    <3>1. p.dep \in [DOMAIN p.dep -> Tranches]
      BY DEF Sound, Shape
    <3>2. \A d \in DOMAIN p.dep : p.dep[d].admitted \in Nat
      BY <3>1 DEF Tranches
    <3>3. DOMAIN before \subseteq DOMAIN p.dep
      BY DEF More
    <3>4. \A e \in A : ~(e.amount < 0)
      BY <1>2, <1>3 DEF NonNegative
    <3> QED BY <1>1, <3>2, <3>3, <3>4 DEF Grown, Counted
  <2>5. T = R \cup A
    BY <1>2, <2>1
  <2> QED BY <2>3, <2>4, <2>5, AdmitsGrow
<1>6. ASSUME NEW dec, DecsIn(S, dec) PROVE DecsIn(T, dec)
  <2>1. S \subseteq T /\ \A e \in T \ S : e.id[1] \in {"deposit", "admission", "withdrawal"}
    BY <1>2, <1>3
  <2> QED BY <1>6, <2>1, DecsStay
<1> QED BY <1>4, <1>5, <1>6

\* The journal replays, its totals are the state's, and it says what the state does.
Booked(p, j) ==
  /\ \E n : Journal(j, n)
  /\ Replay(j).err = "none" /\ ~TotalsDiffer(p, Replay(j))
  /\ Said(ToSet(j), p)

\* With the batch the journal says what p does, if the commit finds nothing against it.
Records(p, batch) ==
  /\ \E m : Listed(batch, m)
  /\ \A e \in ToSet(batch) : Event(e)
  /\ Events(ToSet(journal) \cup ToSet(batch)) /\ NonNegative(ToSet(batch))
       => Said(ToSet(journal) \cup ToSet(batch), p)

LEMMA CommitBooked ==
  ASSUME Booked(pacing, journal), NEW p, NEW batch, p.err = "none" => Records(p, batch),
         NEW through, NEW r, r = Commit(p, batch, through)
  PROVE  Booked(r.pacing, r.journal)
<1>1. PICK h, b : h = Extended(journal, batch) /\ b = Replay(h)
  OBVIOUS
<1>2. CASE \E why : r = Stay(why)
  BY <1>2 DEF Stay
<1>3. CASE ~\E why : r = Stay(why)
  <2>1. /\ p.err = "none" /\ r = Kept(p, batch, through)
        /\ ~\E e \in ToSet(batch) : e.id[1] = "admission" /\ e.amount < 0
        /\ ~Collides(journal, batch) /\ b.err = "none" /\ ~TotalsDiffer(p, b)
    BY <1>1, <1>3, Zenon DEF Commit
  <2>2. r.pacing = p /\ r.journal = h
    BY <1>1, <2>1 DEF Kept
  <2>3. NonNegative(ToSet(batch))
    BY <2>1 DEF NonNegative
  <2>4. PICK n : Journal(journal, n)
    BY DEF Booked
  <2>5. PICK m : Listed(batch, m)
    BY <2>1 DEF Records
  <2>6. \A e \in ToSet(batch) : Event(e)
    BY <2>1 DEF Records
  <2>7. (\E q : Journal(h, q)) /\ ToSet(h) = ToSet(journal) \cup ToSet(batch)
    BY <1>1, <2>1, <2>4, <2>5, <2>6, ExtendedIs
  <2>8. Events(ToSet(h))
    BY <1>1, <2>1, <2>7, ReplayIs
  <2>9. Said(ToSet(h), p)
    BY <2>1, <2>3, <2>7, <2>8 DEF Records
  <2> QED BY <1>1, <2>1, <2>2, <2>7, <2>9 DEF Booked
<1> QED BY <1>2, <1>3

\* What the protected book has admitted is what the journal says.
LEMMA BookBefore ==
  ASSUME Booked(pacing, journal), Sound(pacing)
  PROVE  /\ Counted(Book.dep) /\ DOMAIN Book.dep = DOMAIN pacing.dep
         /\ AdmitsIn(ToSet(journal), Book.dep) /\ Events(ToSet(journal))
         /\ BookIs(Book, ToSet(journal))
<1>1. PICK S, b : S = ToSet(journal) /\ b = Book
  OBVIOUS
<1>2. BookIs(b, S) /\ Events(S)
  BY <1>1, ReplayIs DEF Booked, Book
<1>3. MovesIn(S, pacing) /\ AdmitsIn(S, pacing.dep)
  BY <1>1 DEF Booked, Said
<1>4. DOMAIN b.dep = DOMAIN pacing.dep
  <2>1. DOMAIN b.dep = {e.id[2] : e \in Coming(pacing)}
    BY <1>2, <1>3 DEF BookIs, DepositsAre, Names, MovesIn
  <2>2. \A d : Deposited(d, pacing.dep[d].received, Amount[d]).id[2] = d
    BY DEF Deposited
  <2> QED BY <2>1, <2>2 DEF Coming
<1>5. \A d \in DOMAIN b.dep : b.dep[d].admitted = pacing.dep[d].admitted
  <2>1. \A d \in DOMAIN b.dep : b.dep[d].admitted = AdmittedBy(S, d)
    BY <1>2 DEF BookIs, DepositsAre
  <2> QED BY <1>3, <1>4, <2>1 DEF AdmitsIn
<1>6. \A d \in DOMAIN pacing.dep : pacing.dep[d].admitted \in Nat
  BY DEF Sound, Shape, Tranches
<1>7. Counted(b.dep)
  BY <1>4, <1>5, <1>6 DEF Counted
<1>8. AdmitsIn(S, b.dep)
  BY <1>3, <1>4, <1>5 DEF AdmitsIn
<1> QED BY <1>1, <1>2, <1>4, <1>7, <1>8

\* One stage, put in its order, is a batch.
LEMMA StageListed ==
  ASSUME Venue, NEW p, Sound(p), NEW ids, ids \subseteq DOMAIN occurred, NEW before, Counted(before)
  PROVE  LET o == Ordered(Stage(ids, p, before)) IN
         (\E m : Listed(o, m)) /\ ToSet(o) = Stage(ids, p, before) /\ \A e \in ToSet(o) : Event(e)
<1>1. PICK B : B = Stage(ids, p, before)
  OBVIOUS
<1>2. Batchable(B) /\ \A e \in B : Event(e)
  BY <1>1, StageBatch
<1>3. Listed(Ordered(B), Cardinality(B)) /\ ToSet(Ordered(B)) = B
  BY <1>2, OrderedIs
<1> QED BY <1>1, <1>2, <1>3

LEMMA StageRecords ==
  ASSUME Venue, Booked(pacing, journal), Sound(pacing), NEW p, Sound(p), p.dec = pacing.dec,
         NEW ids, ids \subseteq DOMAIN occurred, More(p, pacing, ids),
         NEW batch, batch = Ordered(Stage(ids, p, Book.dep))
  PROVE  Records(p, batch)
<1>1. PICK before : before = Book.dep
  OBVIOUS
<1>2. /\ Counted(before) /\ DOMAIN before = DOMAIN pacing.dep
      /\ AdmitsIn(ToSet(journal), before)
  BY <1>1, BookBefore
<1>3. (\E m : Listed(batch, m)) /\ ToSet(batch) = Stage(ids, p, before) /\ \A e \in ToSet(batch) : Event(e)
  BY <1>1, <1>2, StageListed
<1>4. PICK S, T : S = ToSet(journal) /\ T = S \cup Stage(ids, p, before)
  OBVIOUS
<1>5. Known(pacing, pacing.through) /\ MovesIn(S, pacing) /\ DecsIn(S, pacing.dec)
  BY <1>4 DEF Sound, Booked, Said
<1>6. ASSUME Events(T), NonNegative(Stage(ids, p, before)) PROVE Said(T, p)
  <2>1. MovesIn(T, p) /\ AdmitsIn(T, p.dep) /\ \A dec : DecsIn(S, dec) => DecsIn(T, dec)
    BY <1>2, <1>4, <1>5, <1>6, StageSays
  <2> QED BY <1>5, <2>1 DEF Said
<1> QED BY <1>3, <1>4, <1>6 DEF Records

\* The batch of a cycle that decides: up to the boundary, the day, and after it.
LEMMA DecidedRecords ==
  ASSUME Venue, Booked(pacing, journal), Sound(pacing), NEW date, date \notin DOMAIN pacing.dec,
         NEW atB, Sound(atB), atB.dec = pacing.dec,
         NEW early, early \subseteq DOMAIN occurred, More(atB, pacing, early),
         NEW done, Sound(done), DecidedAt(done, atB, date),
         NEW p, Sound(p), p.dec = done.dec,
         NEW rest, rest \subseteq DOMAIN occurred, More(p, atB, rest),
         NEW day, day = IF date \in DOMAIN done.dec THEN DecisionEvents(done, date) ELSE <<>>,
         NEW batch, batch = Ordered(Stage(early, atB, Book.dep)) \o day \o Ordered(Stage(rest, p, atB.dep))
  PROVE  Records(p, batch)
<1>1. PICK before : before = Book.dep
  OBVIOUS
<1>2. /\ Counted(before) /\ DOMAIN before = DOMAIN pacing.dep
      /\ AdmitsIn(ToSet(journal), before)
  BY <1>1, BookBefore
<1>3. PICK B1, B2 : B1 = Stage(early, atB, before) /\ B2 = Stage(rest, p, atB.dep)
  OBVIOUS
<1>4. Counted(atB.dep)
  BY DEF Sound, Shape, Tranches, Counted
<1>5. PICK E : E = IF date \in DOMAIN done.dec THEN DayEvents(done.dec[date], date) ELSE {}
  OBVIOUS
<1>6. (\E k : Listed(day, k)) /\ ToSet(day) = E
  <2>1. CASE date \in DOMAIN done.dec
    BY <1>5, <2>1, DecisionEventsAre
  <2>2. CASE date \notin DOMAIN done.dec
    BY <1>5, <2>2, NoneIs
  <2> QED BY <2>1, <2>2
<1>7. PICK o1, o2 : o1 = Ordered(B1) /\ o2 = Ordered(B2)
  OBVIOUS
<1>8. (\E m : Listed(o1, m)) /\ ToSet(o1) = B1 /\ \A e \in B1 : Event(e)
  BY <1>2, <1>3, <1>7, StageListed
<1>9. (\E m : Listed(o2, m)) /\ ToSet(o2) = B2 /\ \A e \in B2 : Event(e)
  BY <1>3, <1>4, <1>7, StageListed
<1>10. PICK n1, k, n2 : Listed(o1, n1) /\ Listed(day, k) /\ Listed(o2, n2)
  BY <1>6, <1>8, <1>9
<1>11. (\E m : Listed(batch, m)) /\ ToSet(batch) = (B1 \cup E) \cup B2
  <2>1. PICK u, v, n : u = o1 \o day /\ v = u \o o2 /\ n = n1 + k
    OBVIOUS
  <2>2. Listed(u, n) /\ ToSet(u) = B1 \cup E
    BY <1>6, <1>8, <1>10, <2>1, ConcatIs
  <2>3. batch = v
    BY <1>1, <1>3, <1>7, <2>1
  <2>4. Listed(v, n + n2) /\ ToSet(v) = ToSet(u) \cup ToSet(o2)
    BY <1>10, <2>1, <2>2, ConcatIs
  <2> QED BY <1>9, <2>2, <2>3, <2>4
<1>12. \A e \in E : Event(e) /\ e.id[1] \in {"commitment", "decision", "skip", "settlement"}
  BY <1>5, DayEventsAre
<1>13. ASSUME Events(ToSet(journal) \cup ToSet(batch)), NonNegative(ToSet(batch))
       PROVE  Said(ToSet(journal) \cup ToSet(batch), p)
  <2>1. PICK S, S1, S2, T : /\ S = ToSet(journal) /\ S1 = S \cup B1 /\ S2 = S1 \cup E
                            /\ T = S2 \cup B2
    OBVIOUS
  <2>2. T = ToSet(journal) \cup ToSet(batch)
    BY <1>11, <2>1
  <2>3. Events(T) /\ Events(S1) /\ Events(S2)
    <3>1. S1 \subseteq T /\ S2 \subseteq T
      BY <2>1
    <3> QED BY <1>13, <2>2, <3>1, FS_Subset DEF Events
  <2>4. NonNegative(B1) /\ NonNegative(B2)
    BY <1>11, <1>13 DEF NonNegative
  <2>5. /\ Known(pacing, pacing.through) /\ Known(atB, atB.through) /\ Known(p, p.through)
        /\ MovesIn(S, pacing) /\ DecsIn(S, atB.dec)
    BY <2>1 DEF Sound, Booked, Said
  <2>6. MovesIn(S1, atB) /\ AdmitsIn(S1, atB.dep) /\ DecsIn(S1, atB.dec)
    <3>1. MovesIn(S1, atB) /\ AdmitsIn(S1, atB.dep) /\ \A dec : DecsIn(S, dec) => DecsIn(S1, dec)
      BY <1>2, <1>3, <2>1, <2>3, <2>4, <2>5, StageSays
    <3> QED BY <2>5, <3>1
  <2>7. S1 \subseteq S2 /\ \A e \in S2 \ S1 : e.id[1] \in {"commitment", "decision", "skip", "settlement"}
    BY <1>12, <2>1
  <2>8. MovesIn(S2, atB)
    <3>1. /\ \A e \in S2 \ S1 : e.id[1] \notin {"deposit"} /\ e.id[1] \notin {"withdrawal"}
      BY <2>7
    <3>2. OfKind(S2, {"deposit"}) = OfKind(S1, {"deposit"}) /\ OfKind(S2, {"withdrawal"}) = OfKind(S1, {"withdrawal"})
      BY <2>7, <3>1, OthersStay
    <3> QED BY <2>6, <3>2 DEF MovesIn
  <2>9. AdmitsIn(S2, atB.dep)
    <3>1. \A e \in S2 \ S1 : e.id[1] # "admission"
      BY <2>7
    <3> QED BY <2>3, <2>6, <2>7, <3>1, AdmitsStay
  <2>10. DecsIn(S2, done.dec)
    <3>1. CASE date \in DOMAIN done.dec
      <4>1. done.dec[date].settled \in BOOLEAN
        BY <3>1 DEF Sound, Shape, Decision
      <4>2. S2 = S1 \cup DayEvents(done.dec[date], date)
        BY <1>5, <2>1, <3>1
      <4>3. DecsIn(S1, atB.dec) /\ date \notin DOMAIN atB.dec
        BY <2>6
      <4> QED BY <3>1, <4>1, <4>2, <4>3, DecsGrow
    <3>2. CASE date \notin DOMAIN done.dec
      <4>1. S2 = S1
        BY <1>5, <2>1, <3>2
      <4>2. DOMAIN done.dec = DOMAIN atB.dec /\ \A y \in DOMAIN done.dec : done.dec[y] = atB.dec[y]
        BY <3>2 DEF DecidedAt
      <4>3. done.dec = atB.dec
        <5>1. done.dec = [y \in DOMAIN done.dec |-> done.dec[y]] /\ atB.dec = [y \in DOMAIN atB.dec |-> atB.dec[y]]
          BY DEF Sound, Shape
        <5> QED BY <4>2, <5>1
      <4> QED BY <2>6, <4>1, <4>3
    <3> QED BY <3>1, <3>2
  <2>11. MovesIn(T, p) /\ AdmitsIn(T, p.dep) /\ \A dec : DecsIn(S2, dec) => DecsIn(T, dec)
    BY <1>3, <1>4, <2>1, <2>3, <2>4, <2>5, <2>8, <2>9, StageSays
  <2>12. DecsIn(T, p.dec)
    BY <2>10, <2>11
  <2> QED BY <2>2, <2>11, <2>12 DEF Said
<1>14. \A e \in ToSet(batch) : Event(e)
  BY <1>8, <1>9, <1>11, <1>12
<1> QED BY <1>11, <1>13, <1>14 DEF Records

BooksHold == CapitalInv /\ Booked(pacing, journal)

LEMMA UpToNowBooked ==
  ASSUME BooksHold, NEW seen, seen \subseteq DOMAIN occurred,
         NEW b, Batch(b, pacing, now),
         DOMAIN b.dep = (DOMAIN pacing.dep \cup seen) \cap Deposits,
         DOMAIN b.wd = seen \cap Withdrawals,
         NEW scan, NEW r, r = CommitUpToNow(scan, seen, Reconcile(pacing, b, now))
  PROVE  Booked(r.pacing, r.journal)
<1>1. PICK p : p = Reconcile(pacing, b, now)
  OBVIOUS
<1>2. PICK batch : batch = Ordered(Stage(seen, p, Book.dep))
  OBVIOUS
<1>3. r = Commit(p, batch, Through(scan, now))
  BY <1>1, <1>2 DEF CommitUpToNow, Stage
<1>4. Venue /\ Sound(pacing) /\ now \in Nat /\ Booked(pacing, journal)
  BY DEF BooksHold, CapitalInv, Good, Venue
<1>5. ASSUME p.err = "none" PROVE Records(p, batch)
  <2>1. /\ Sound(p) /\ p.dec = pacing.dec
        /\ DOMAIN p.dep = DOMAIN pacing.dep \cup DOMAIN b.dep
        /\ DOMAIN p.wd = DOMAIN pacing.wd \cup DOMAIN b.wd
        /\ \A w \in DOMAIN pacing.wd : p.wd[w].frozen = pacing.wd[w].frozen
    BY <1>1, <1>4, <1>5, ReconcileKeeps
  <2>2. DOMAIN pacing.dep \subseteq Deposits
    BY <1>4 DEF Sound, Shape
  <2>3. More(p, pacing, seen)
    BY <2>1, <2>2 DEF More
  <2> QED BY <1>2, <1>4, <2>1, <2>3, StageRecords
<1> QED BY <1>3, <1>4, <1>5, CommitBooked

LEMMA AtBoundaryBooked ==
  ASSUME BooksHold, NEW seen, seen \subseteq DOMAIN occurred, NEW scan, NEW mode, NEW go \in BOOLEAN,
         NEW boundary, boundary = Boundary(DateOf(now)), DateOf(now) \notin DOMAIN pacing.dec,
         NEW b, \A s : Batch(b, s, now),
         Batch(AsOf(b, boundary), pacing, boundary),
         DOMAIN b.dep = (DOMAIN pacing.dep \cup seen) \cap Deposits,
         DOMAIN b.wd = seen \cap Withdrawals,
         DOMAIN AsOf(b, boundary).dep = {d \in DOMAIN b.dep : occurred[d] <= boundary},
         DOMAIN AsOf(b, boundary).wd = {w \in DOMAIN b.wd : occurred[w] <= boundary},
         NEW r, r = AtBoundary(mode, scan, seen, go, b, boundary,
                               Reconcile(pacing, AsOf(b, boundary), boundary))
  PROVE  Booked(r.pacing, r.journal)
<1>1. PICK atB : atB = Reconcile(pacing, AsOf(b, boundary), boundary)
  OBVIOUS
<1>2. /\ Venue /\ Sound(pacing) /\ now \in Nat /\ Booked(pacing, journal)
      /\ DateOf(now) \in Nat /\ boundary \in Nat /\ DateOf(boundary) = DateOf(now)
  <2>1. Venue /\ Sound(pacing) /\ now \in Nat /\ Booked(pacing, journal)
    BY DEF BooksHold, CapitalInv, Good, Venue
  <2>2. DateOf(now) \in Nat
    BY <2>1, DateType
  <2> QED BY <2>1, <2>2, BoundaryDate
<1>3. CASE \E why : r = Stay(why)
  BY <1>2, <1>3 DEF Stay
<1>4. CASE ~\E why : r = Stay(why)
  <2>1. atB.err = "none"
    BY <1>1, <1>4, Zenon DEF AtBoundary
  <2>2. /\ Sound(atB) /\ atB.dec = pacing.dec
        /\ DOMAIN atB.dep = DOMAIN pacing.dep \cup DOMAIN AsOf(b, boundary).dep
        /\ DOMAIN atB.wd = DOMAIN pacing.wd \cup DOMAIN AsOf(b, boundary).wd
        /\ \A w \in DOMAIN pacing.wd : atB.wd[w].frozen = pacing.wd[w].frozen
    BY <1>1, <1>2, <2>1, ReconcileKeeps
  <2>3. PICK early, rest : early = Early(seen, boundary) /\ rest = seen \ early
    OBVIOUS
  <2>4. early \subseteq seen /\ \A m \in seen : m \in early <=> occurred[m] <= boundary
    BY <2>3 DEF Early
  <2>5. DOMAIN pacing.dep \subseteq Deposits
    BY <1>2 DEF Sound, Shape
  <2>6. More(atB, pacing, early)
    <3>1. DOMAIN atB.dep = DOMAIN pacing.dep \cup (early \cap Deposits)
      BY <2>2, <2>4, <2>5
    <3>2. DOMAIN atB.wd = DOMAIN pacing.wd \cup (early \cap Withdrawals)
      BY <2>2, <2>4
    <3> QED BY <2>2, <3>1, <3>2 DEF More
  <2>7. CASE Defers(mode, atB, boundary)
    <3>1. r = Commit(atB, Ordered(Stage(early, atB, Book.dep)), Through(scan, boundary))
      BY <1>1, <2>1, <2>3, <2>7 DEF AtBoundary, Stage
    <3>2. Records(atB, Ordered(Stage(early, atB, Book.dep)))
      BY <1>2, <2>2, <2>4, <2>6, StageRecords
    <3> QED BY <1>2, <3>1, <3>2, CommitBooked
  <2>8. CASE ~Defers(mode, atB, boundary)
    <3>1. PICK done : done = DecideAt(mode, atB, boundary, BoundaryCash(seen, scan, boundary), go)
      OBVIOUS
    <3>2. PICK p : p = Reconcile(done, b, now)
      OBVIOUS
    <3>3. r = CommitDecided(scan, seen, boundary, atB, done, p)
      BY <1>1, <2>1, <2>8, <3>1, <3>2 DEF AtBoundary, AfterDecision
    <3>4. p.err = "none"
      BY <1>4, <3>3, Zenon DEF CommitDecided
    <3>5. PICK day, batch :
            /\ day = IF DateOf(now) \in DOMAIN done.dec THEN DecisionEvents(done, DateOf(now)) ELSE <<>>
            /\ batch = Ordered(Stage(early, atB, Book.dep)) \o day \o Ordered(Stage(rest, p, atB.dep))
      OBVIOUS
    <3>6. r = Commit(p, batch, Through(scan, now))
      BY <1>2, <2>3, <3>3, <3>4, <3>5, Zenon DEF CommitDecided, Stage
    <3>7. done.err = "none"
      BY <3>2, <3>4, RefusedStays
    <3>8. Sound(done) /\ DecidedAt(done, atB, DateOf(now))
      BY <1>2, <2>2, <2>8, <3>1, <3>7, DecideAtKeeps
    <3>9. /\ Sound(p) /\ p.dec = done.dec
          /\ DOMAIN p.dep = DOMAIN done.dep \cup DOMAIN b.dep
          /\ DOMAIN p.wd = DOMAIN done.wd \cup DOMAIN b.wd
          /\ \A w \in DOMAIN done.wd : p.wd[w].frozen = done.wd[w].frozen
      <4>1. Batch(b, done, now)
        OBVIOUS
      <4> QED BY <1>2, <3>2, <3>4, <3>8, <4>1, ReconcileKeeps
    <3>10. /\ DOMAIN done.dep = DOMAIN atB.dep /\ DOMAIN done.wd = DOMAIN atB.wd
           /\ \A w \in DOMAIN atB.wd : done.wd[w].frozen = atB.wd[w].frozen
      BY <3>8 DEF DecidedAt
    <3>11. More(p, atB, rest)
      <4>1. DOMAIN p.dep = DOMAIN atB.dep \cup (rest \cap Deposits)
        BY <2>2, <2>3, <2>4, <2>5, <3>9, <3>10
      <4>2. DOMAIN p.wd = DOMAIN atB.wd \cup (rest \cap Withdrawals)
        BY <2>2, <2>3, <2>4, <3>9, <3>10
      <4> QED BY <3>9, <3>10, <4>1, <4>2 DEF More
    <3>12. Records(p, batch)
      <4>1. early \subseteq DOMAIN occurred /\ rest \subseteq DOMAIN occurred
        BY <2>3, <2>4
      <4> QED BY <1>2, <2>2, <2>6, <3>5, <3>8, <3>9, <3>11, <4>1, DecidedRecords
    <3> QED BY <1>2, <3>6, <3>12, CommitBooked
  <2> QED BY <2>7, <2>8
<1> QED BY <1>3, <1>4

LEMMA CycleBooked ==
  ASSUME BooksHold, NEW seen, seen \subseteq DOMAIN occurred, NEW scan, NEW mode, NEW go \in BOOLEAN,
         NEW r, r = CycleResult(mode, scan, seen, go)
  PROVE  Booked(r.pacing, r.journal)
<1>1. PICK boundary : boundary = Boundary(DateOf(now))
  OBVIOUS
<1>2. /\ Venue /\ Sound(pacing) /\ pacing.through <= now /\ now \in Nat /\ boundary \in Nat
      /\ Booked(pacing, journal)
  <2>1. Venue /\ Sound(pacing) /\ pacing.through <= now /\ now \in Nat /\ Booked(pacing, journal)
    BY DEF BooksHold, CapitalInv, Good, Venue
  <2> QED BY <1>1, <2>1, DateType, BoundaryDate
<1>3. PICK safe \in BOOLEAN : safe = (/\ now >= boundary /\ ~(DateOf(now) \in DOMAIN pacing.dec)
                                      /\ pacing.through <= boundary)
  OBVIOUS
<1>4. PICK b : b = BatchOf(seen, safe, boundary)
  OBVIOUS
<1>5. Batched(b, seen, safe, boundary)
  <2>1. ASSUME safe PROVE boundary <= now /\ pacing.through <= boundary
    <3>1. now >= boundary /\ pacing.through <= boundary
      BY <1>3, <2>1, Zenon
    <3> QED BY <1>2, <3>1
  <2>2. Undecided(safe, boundary)
    BY <2>1 DEF Undecided
  <2> QED BY <1>2, <1>4, <2>2, ScanBatch
<1>6. CASE \E why : r = Stay(why)
  BY <1>2, <1>6 DEF Stay
<1>7. CASE ~\E why : r = Stay(why)
  <2>1. r = Reconciled(mode, scan, seen, go, safe, boundary, b)
    BY <1>1, <1>3, <1>4, <1>7 DEF CycleResult, BatchOf
  <2>2. CASE safe
    <3>1. r = AtBoundary(mode, scan, seen, go, b, boundary,
                         Reconcile(pacing, AsOf(b, boundary), boundary))
      BY <1>7, <2>1, <2>2 DEF Reconciled
    <3>2. DateOf(now) \notin DOMAIN pacing.dec
      BY <1>3, <2>2, Zenon
    <3> QED BY <1>1, <1>5, <2>2, <3>1, <3>2, AtBoundaryBooked DEF Batched
  <2>3. CASE ~safe
    <3>1. r = CommitUpToNow(scan, seen, Reconcile(pacing, b, now))
      BY <1>7, <2>1, <2>3 DEF Reconciled
    <3>2. /\ Batch(b, pacing, now) /\ DOMAIN b.dep = (DOMAIN pacing.dep \cup seen) \cap Deposits
          /\ DOMAIN b.wd = seen \cap Withdrawals
      BY <1>5 DEF Batched
    <3> QED BY <3>1, <3>2, UpToNowBooked
  <2> QED BY <2>2, <2>3
<1> QED BY <1>6, <1>7

\* What settles a day in the state settles it in the journal.
LEMMA SettleRecords ==
  ASSUME Venue, Booked(pacing, journal), Sound(pacing),
         NEW x \in DOMAIN pacing.dec, pacing.dec[x].planned # 0, ~pacing.dec[x].settled,
         NEW filled \in Nat, NEW debited \in Nat,
         NEW p, p = Settle(pacing, x, filled, debited), p.err = "none"
  PROVE  Records(p, <<Settled(x, now, debited)>>)
<1>1. PICK e, S, T : e = Settled(x, now, debited) /\ S = ToSet(journal) /\ T = S \cup {e}
  OBVIOUS
<1>2. Listed(<<e>>, 1) /\ ToSet(<<e>>) = {e}
  BY OneIs
<1>3. e.id = <<"settlement", x>> /\ e.id[1] = "settlement" /\ e.id[2] = x /\ e.ret = <<>>
  BY <1>1 DEF Settled
<1>4. Event(e)
  <2>1. IsFiniteSet(DOMAIN e.ret) /\ e.ret \in [DOMAIN e.ret -> Nat]
    BY <1>3, FS_EmptySet
  <2> QED BY <1>3, <2>1 DEF Event, Kinds
<1>5. /\ Sound(p) /\ DOMAIN p.dec = DOMAIN pacing.dec
      /\ DOMAIN p.dep = DOMAIN pacing.dep /\ p.wd = pacing.wd
      /\ \A d \in DOMAIN pacing.dep : p.dep[d].admitted = pacing.dep[d].admitted
      /\ SettledAt(p, pacing, x)
  BY SettleKeeps
<1>6. /\ MovesIn(S, pacing) /\ AdmitsIn(S, pacing.dep) /\ DecsIn(S, pacing.dec)
      /\ Known(pacing, pacing.through) /\ Known(p, p.through)
  BY <1>1, <1>5 DEF Booked, Said, Sound
<1>7. S \subseteq T /\ \A f \in T \ S : f.id[1] = "settlement"
  BY <1>1, <1>3
<1>8. MovesIn(T, p)
  <2>1. \A f \in T \ S : f.id[1] \notin {"deposit"} /\ f.id[1] \notin {"withdrawal"}
    BY <1>7
  <2>2. OfKind(T, {"deposit"}) = OfKind(S, {"deposit"}) /\ OfKind(T, {"withdrawal"}) = OfKind(S, {"withdrawal"})
    BY <1>7, <2>1, OthersStay
  <2>3. Coming(p) = Coming(pacing) /\ Going(p) = Going(pacing)
    BY ZenonT(60), <1>5, <1>6, ComingIs
  <2> QED BY <1>6, <2>2, <2>3 DEF MovesIn
<1>9. ASSUME Events(T) PROVE AdmitsIn(T, p.dep)
  <2>1. AdmitsIn(S, p.dep)
    BY <1>5, <1>6 DEF AdmitsIn
  <2>2. \A f \in T \ S : f.id[1] # "admission"
    BY <1>7
  <2> QED BY <1>7, <1>9, <2>1, <2>2, AdmitsStay
<1>10. DecsIn(T, p.dec)
  <2>1. \A K : Names(T, K) = Names(S, K) \cup Names({e}, K)
    BY <1>1, NamesJoin
  <2>2. /\ Names({e}, {"decision", "skip"}) = {} /\ Names({e}, {"commitment"}) = {}
        /\ Names({e}, {"settlement"}) = {x}
    BY <1>3 DEF Names, OfKind
  <2>3. /\ \A y \in DOMAIN p.dec : p.dec[y].planned = pacing.dec[y].planned
        /\ \A y \in DOMAIN p.dec : y # x => p.dec[y] = pacing.dec[y]
        /\ p.dec[x].settled
    BY <1>5 DEF SettledAt
  <2>4. Names(T, {"decision", "skip"}) = DOMAIN p.dec
    BY <1>5, <1>6, <2>1, <2>2 DEF DecsIn
  <2>5. Names(T, {"commitment"}) = {y \in DOMAIN p.dec : p.dec[y].planned # 0}
    BY ZenonT(60), <1>5, <1>6, <2>1, <2>2, <2>3 DEF DecsIn
  <2>6. Names(T, {"settlement"}) = {y \in DOMAIN p.dec : p.dec[y].planned # 0 /\ p.dec[y].settled}
    <3>1. Names(T, {"settlement"}) = {y \in DOMAIN pacing.dec : pacing.dec[y].planned # 0 /\ pacing.dec[y].settled}
                                       \cup {x}
      BY <1>6, <2>1, <2>2 DEF DecsIn
    <3>2. \A y \in DOMAIN p.dec : y # x => p.dec[y].settled = pacing.dec[y].settled
      BY <2>3
    <3> QED BY <1>5, <2>3, <3>1, <3>2, ZenonT(60)
  <2> QED BY <2>4, <2>5, <2>6 DEF DecsIn
<1>11. ASSUME Events(T) PROVE Said(T, p)
  BY <1>8, <1>9, <1>10, <1>11 DEF Said
<1> QED BY <1>1, <1>2, <1>4, <1>11 DEF Records

LEMMA SettleBooked ==
  ASSUME BooksHold, NEW x \in DOMAIN pacing.dec, pacing.dec[x].planned # 0, ~pacing.dec[x].settled,
         NEW filled \in Nat, NEW debited \in Nat,
         NEW r, r = Commit(Settle(pacing, x, filled, debited), <<Settled(x, now, debited)>>, Never)
  PROVE  Booked(r.pacing, r.journal)
<1>1. PICK p, batch : p = Settle(pacing, x, filled, debited) /\ batch = <<Settled(x, now, debited)>>
  OBVIOUS
<1>2. Venue /\ Sound(pacing) /\ Booked(pacing, journal)
  BY DEF BooksHold, CapitalInv, Good
<1>3. p.err = "none" => Records(p, batch)
  BY <1>1, <1>2, SettleRecords
<1> QED BY <1>1, <1>2, <1>3, CommitBooked

-----------------------------------------------------------------------------
(* The two books agree *)

\* The event of a movement out.
WentOut(p) == [w \in DOMAIN p.wd |-> Withdrawn(w, p.wd[w].occurred, Amount[w], p.wd[w].frozen)]

LEMMA WentOutIs ==
  ASSUME NEW p, NEW g, g = WentOut(p)
  PROVE  /\ Going(p) = {g[w] : w \in DOMAIN p.wd} /\ DOMAIN g = DOMAIN p.wd
         /\ \A w \in DOMAIN p.wd :
              /\ g[w].id[1] = "withdrawal" /\ g[w].id[2] = w
              /\ g[w].amount = Amount[w] /\ g[w].ret = p.wd[w].frozen
         /\ \A v, w \in DOMAIN p.wd : g[v] = g[w] => v = w
<1>1. ASSUME NEW w \in DOMAIN p.wd
      PROVE  /\ g[w].id[1] = "withdrawal" /\ g[w].id[2] = w
             /\ g[w].amount = Amount[w] /\ g[w].ret = p.wd[w].frozen
  BY DEF WentOut, Withdrawn
<1>2. Going(p) = {g[w] : w \in DOMAIN p.wd} /\ DOMAIN g = DOMAIN p.wd
  BY DEF WentOut, Going
<1>3. \A v, w \in DOMAIN p.wd : g[v] = g[w] => v = w
  BY <1>1
<1> QED BY <1>1, <1>2, <1>3

\* Every movement out is applied, and what is frozen of it and what the
\* tranches gave is what it moved.
LEMMA AppliedAll ==
  ASSUME NEW p, Sound(p), NEW w \in DOMAIN p.wd
  PROVE  /\ p.wd[w].applied = TRUE /\ w \in Withdrawals /\ Amount[w] \in Nat
         /\ SumFunction(p.wd[w].alloc) + SumFunction(p.wd[w].frozen) = Amount[w]
         /\ IsFiniteSet(DOMAIN p.wd[w].frozen) /\ p.wd[w].frozen \in [DOMAIN p.wd[w].frozen -> Nat]
         /\ DOMAIN p.wd[w].alloc \subseteq DOMAIN p.dep
         /\ p.wd[w].alloc \in [DOMAIN p.wd[w].alloc -> Nat]
<1>1. PICK r : r = p.wd[w]
  OBVIOUS
<1>2. Movement(r, w, DOMAIN p.dep) /\ w \in Withdrawals /\ Valid(p) /\ Known(p, p.through)
  BY <1>1 DEF Sound, Shape
<1>3. r.reconciled <= p.through
  BY <1>1, <1>2 DEF Known
<1>4. r.applied = (r.reconciled <= p.through)
  BY <1>1, <1>2, Zenon DEF Valid
<1>5. r.applied = TRUE
  <2>1. (r.reconciled <= p.through) = TRUE
    BY <1>3
  <2> QED BY <1>4, <2>1, Zenon
<1>6. SumFunction(r.alloc) + SumFunction(r.frozen) = Amount[w]
  <2>1. SumFunction(r.alloc) + SumFunction(r.frozen) = IF r.applied THEN Amount[w] ELSE 0
    BY <1>1, <1>2, Zenon DEF Valid
  <2> QED BY <1>5, <2>1, Zenon
<1>7. IsFiniteSet(DOMAIN r.frozen) /\ r.frozen \in [DOMAIN r.frozen -> Nat]
  <2>1. CASE r.isFrozen
    BY <1>2, <2>1 DEF Movement, Returnable
  <2>2. CASE ~r.isFrozen
    <3>1. r.frozen = <<>>
      BY <1>2, <2>2 DEF Movement
    <3> QED BY <3>1, FS_EmptySet
  <2> QED BY <2>1, <2>2
<1>8. DOMAIN r.alloc \subseteq DOMAIN p.dep /\ r.alloc \in [DOMAIN r.alloc -> Nat]
  BY <1>2 DEF Movement
<1> QED BY <1>1, <1>2, <1>5, <1>6, <1>7, <1>8, MovedAmounts

\* What the events return of a deposit is what the state took of it as returned.
LEMMA ReturnedAgrees ==
  ASSUME NEW p, Sound(p), NEW S, Events(S), MovesIn(S, p), NEW d
  PROVE  ReturnedBy(S, d) = Taken(p, d, "frozen")
<1> DEFINE W == {w \in DOMAIN p.wd : d \in DOMAIN p.wd[w].frozen}
           f == [e \in S |-> ReturnedOf(e, d)]
<1>1. PICK g : g = WentOut(p)
  OBVIOUS
<1>2. /\ OfKind(S, {"withdrawal"}) = {g[w] : w \in DOMAIN p.wd}
      /\ \A w \in DOMAIN p.wd : g[w].id[1] = "withdrawal" /\ g[w].ret = p.wd[w].frozen
      /\ \A v, w \in DOMAIN p.wd : g[v] = g[w] => v = w
  BY <1>1, WentOutIs DEF MovesIn
<1>3. PICK R : R = {g[w] : w \in W}
  OBVIOUS
<1>4. R \in SUBSET S
  BY <1>2, <1>3 DEF OfKind
<1>5. \A e \in S : AdmittedOf(e, d) \in Int /\ ReturnedOf(e, d) \in Int
  BY EventAmounts DEF Events
<1>6. f \in [S -> Int] /\ \A e \in S : f[e] = ReturnedOf(e, d)
  BY <1>5
<1>7. PICK k : k = [e \in R |-> ReturnedOf(e, d)]
  OBVIOUS
<1>8. k \in [R -> Int] /\ \A e \in R : k[e] = f[e]
  BY <1>4, <1>5, <1>7
<1>9. PICK h : h = [w \in W |-> p.wd[w].frozen[d]]
  OBVIOUS
<1>10. ReturnedBy(S, d) = SumFunction(f)
  BY DEF ReturnedBy
<1> HIDE DEF f
<1>11. ASSUME NEW e \in S \ R PROVE f[e] = 0
  <2>1. ~(e.id[1] = "withdrawal" /\ d \in DOMAIN e.ret)
    <3>1. SUFFICES ASSUME e.id[1] = "withdrawal", d \in DOMAIN e.ret PROVE FALSE
      OBVIOUS
    <3>2. e \in OfKind(S, {"withdrawal"})
      BY <3>1 DEF OfKind
    <3>3. PICK w \in DOMAIN p.wd : e = g[w]
      BY <1>2, <3>2
    <3>4. w \in W
      BY <1>2, <3>1, <3>3
    <3> QED BY <1>3, <1>11, <3>3, <3>4
  <2> QED BY <1>6, <2>1 DEF ReturnedOf
<1>12. SumFunction(f) = SumFunction(k)
  <2>1. IsFiniteSet(S)
    BY DEF Events
  <2> QED BY <1>4, <1>6, <1>8, <1>11, <2>1, SumPad
<1>13. ASSUME NEW w \in W PROVE g[w] \in R /\ h[w] = k[g[w]] /\ h[w] \in Int
  <2>1. g[w] \in R
    BY <1>3
  <2>2. k[g[w]] = ReturnedOf(g[w], d) /\ k[g[w]] \in Int
    BY <1>7, <1>8, <2>1
  <2>3. ReturnedOf(g[w], d) = p.wd[w].frozen[d]
    BY <1>2 DEF ReturnedOf
  <2> QED BY <1>9, <2>1, <2>2, <2>3
<1>14. PICK q : q = [w \in W |-> g[w]]
  OBVIOUS
<1>15. Pairs(q, W, R)
  <2>1. q \in [W -> R]
    BY <1>3, <1>14
  <2>2. \A v, w \in W : q[v] = q[w] => v = w
    BY <1>2, <1>14
  <2>3. \A z \in R : \E w \in W : q[w] = z
    BY <1>3, <1>14
  <2> QED BY <2>1, <2>2, <2>3 DEF Pairs
<1>16. SumFunction(h) = SumFunction(k)
  <2>1. IsFiniteSet(W)
    BY FS_Subset DEF Sound, Shape
  <2>2. h \in [W -> Int] /\ \A w \in W : h[w] = k[q[w]]
    BY <1>9, <1>13, <1>14
  <2> HIDE DEF W
  <2> QED BY <1>8, <1>15, <2>1, <2>2, SumReindex
<1>17. Taken(p, d, "frozen") = SumFunction(h)
  <2>1. \A v \in DOMAIN p.wd : p.wd[v].applied = TRUE
    BY AppliedAll
  <2>2. {v \in DOMAIN p.wd : p.wd[v].applied /\ d \in DOMAIN p.wd[v]["frozen"]} = W
    BY <2>1
  <2>3. Taken(p, d, "frozen") =
          SumFunction([w \in {v \in DOMAIN p.wd : p.wd[v].applied /\ d \in DOMAIN p.wd[v]["frozen"]}
                         |-> p.wd[w]["frozen"][d]])
    BY Zenon DEF Taken
  <2> QED BY <1>9, <2>2, <2>3
<1> QED BY <1>10, <1>12, <1>16, <1>17

\* What the events withdraw is what the state took of all its tranches.
LEMMA WithdrawnAgrees ==
  ASSUME NEW p, Sound(p), NEW S, Events(S), MovesIn(S, p)
  PROVE  WithdrawnBy(S) = SumFunction([d \in DOMAIN p.dep |-> p.dep[d].withdrawn])
<1> DEFINE W == DOMAIN p.wd
           f == [e \in S |-> WithdrawnOf(e)]
<1>1. PICK g : g = WentOut(p)
  OBVIOUS
<1>2. /\ OfKind(S, {"withdrawal"}) = {g[w] : w \in W}
      /\ \A w \in W : g[w].id[1] = "withdrawal" /\ g[w].ret = p.wd[w].frozen /\ g[w].amount = Amount[w]
      /\ \A v, w \in W : g[v] = g[w] => v = w
  BY <1>1, WentOutIs DEF MovesIn
<1>3. PICK R : R = {g[w] : w \in W}
  OBVIOUS
<1>4. R \in SUBSET S
  BY <1>2, <1>3 DEF OfKind
<1>5. \A e \in S : WithdrawnOf(e) \in Int
  BY EventAmounts DEF Events
<1>6. f \in [S -> Int] /\ \A e \in S : f[e] = WithdrawnOf(e)
  BY <1>5
<1>7. PICK k : k = [e \in R |-> WithdrawnOf(e)]
  OBVIOUS
<1>8. k \in [R -> Int] /\ \A e \in R : k[e] = f[e]
  BY <1>4, <1>5, <1>7
<1>9. PICK al : al = [w \in W |-> p.wd[w].alloc]
  OBVIOUS
<1>10. PICK h : h = [w \in W |-> SumFunction(al[w])]
  OBVIOUS
<1>11. WithdrawnBy(S) = SumFunction(f)
  BY DEF WithdrawnBy
<1> HIDE DEF f
<1>12. ASSUME NEW e \in S \ R PROVE f[e] = 0
  <2>1. e.id[1] # "withdrawal"
    BY <1>2, <1>3, <1>12 DEF OfKind
  <2> QED BY <1>6, <2>1 DEF WithdrawnOf
<1>13. SumFunction(f) = SumFunction(k)
  <2>1. IsFiniteSet(S)
    BY DEF Events
  <2> QED BY <1>4, <1>6, <1>8, <1>12, <2>1, SumPad
<1>14. \A w \in W : al[w] = p.wd[w].alloc
  BY <1>9
<1>15. IsFiniteSet(W) /\ IsFiniteSet(DOMAIN p.dep)
  BY DEF Sound, Shape
<1>16. ASSUME NEW w \in W PROVE g[w] \in R /\ h[w] = k[g[w]] /\ h[w] \in Int
  <2>1. g[w] \in R
    BY <1>3
  <2>2. k[g[w]] = WithdrawnOf(g[w]) /\ k[g[w]] \in Int
    BY <1>7, <1>8, <2>1
  <2>3. WithdrawnOf(g[w]) = Amount[w] - SumFunction(p.wd[w].frozen)
    BY <1>2 DEF WithdrawnOf
  <2>4. /\ SumFunction(p.wd[w].alloc) + SumFunction(p.wd[w].frozen) = Amount[w] /\ Amount[w] \in Nat
        /\ IsFiniteSet(DOMAIN p.wd[w].frozen) /\ p.wd[w].frozen \in [DOMAIN p.wd[w].frozen -> Nat]
        /\ DOMAIN p.wd[w].alloc \subseteq DOMAIN p.dep
        /\ p.wd[w].alloc \in [DOMAIN p.wd[w].alloc -> Nat]
    BY AppliedAll
  <2>5. SumFunction(p.wd[w].frozen) \in Nat
    BY <2>4, SumNat
  <2>6. SumFunction(p.wd[w].alloc) \in Nat
    <3>1. IsFiniteSet(DOMAIN p.wd[w].alloc)
      BY <1>15, <2>4, FS_Subset
    <3> QED BY <2>4, <3>1, SumNat
  <2>7. h[w] = SumFunction(p.wd[w].alloc)
    BY <1>10, <1>14
  <2> QED BY <2>1, <2>2, <2>3, <2>4, <2>5, <2>6, <2>7
<1>17. PICK q : q = [w \in W |-> g[w]]
  OBVIOUS
<1>18. Pairs(q, W, R)
  <2>1. q \in [W -> R]
    BY <1>3, <1>17
  <2>2. \A v, w \in W : q[v] = q[w] => v = w
    BY <1>2, <1>17
  <2>3. \A z \in R : \E w \in W : q[w] = z
    BY <1>3, <1>17
  <2> QED BY <2>1, <2>2, <2>3 DEF Pairs
<1>19. SumFunction(h) = SumFunction(k)
  <2>1. h \in [W -> Int] /\ \A w \in W : h[w] = k[q[w]]
    BY <1>10, <1>16, <1>17
  <2> HIDE DEF W
  <2> QED BY <1>8, <1>15, <1>18, <2>1, SumReindex
<1>20. PICK D : D = DOMAIN p.dep
  OBVIOUS
<1>21. Within(al, W, D)
  <2>1. \A w \in W : DOMAIN al[w] \subseteq D /\ al[w] \in [DOMAIN al[w] -> Nat]
    BY <1>14, <1>20, AppliedAll
  <2> QED BY <2>1 DEF Within
<1>22. PICK c : c = [d \in D |-> Across(al, W, d)]
  OBVIOUS
<1>23. SumFunction(c) = SumFunction(h)
  <2>1. IsFiniteSet(W) /\ IsFiniteSet(D)
    BY <1>15, <1>20
  <2> HIDE DEF W
  <2>2. SumFunction([d \in D |-> Across(al, W, d)]) = SumFunction([i \in W |-> SumFunction(al[i])])
    BY SMTT(60), <1>21, <2>1, SumAcross
  <2> QED BY <1>10, <1>22, <2>2
<1>24. ASSUME NEW d \in D PROVE c[d] = p.dep[d].withdrawn
  <2>1. p.dep[d].withdrawn = Taken(p, d, "alloc")
    BY <1>20, Zenon DEF Sound, Valid
  <2>2. \A v \in W : p.wd[v].applied = TRUE
    BY AppliedAll
  <2>3. {v \in W : p.wd[v].applied /\ d \in DOMAIN p.wd[v]["alloc"]} = {v \in W : d \in DOMAIN al[v]}
    BY <1>14, <2>2
  <2>4. Taken(p, d, "alloc") =
          SumFunction([w \in {v \in W : p.wd[v].applied /\ d \in DOMAIN p.wd[v]["alloc"]}
                         |-> p.wd[w]["alloc"][d]])
    BY Zenon DEF Taken
  <2>5. PICK V : V = {v \in W : d \in DOMAIN al[v]}
    OBVIOUS
  <2>6. [w \in V |-> p.wd[w]["alloc"][d]] = [w \in V |-> al[w][d]]
    BY <1>14, <2>5
  <2>7. Taken(p, d, "alloc") = SumFunction([w \in V |-> al[w][d]])
    BY <2>3, <2>4, <2>5, <2>6
  <2>8. c[d] = SumFunction([w \in V |-> al[w][d]])
    BY <1>22, <2>5 DEF Across
  <2> QED BY <2>1, <2>7, <2>8
<1>25. c = [d \in DOMAIN p.dep |-> p.dep[d].withdrawn]
  BY <1>20, <1>22, <1>24
<1> QED BY <1>11, <1>13, <1>19, <1>23, <1>25

\* The totals a commit compares leave as much to spend as the tranches have free.
LEMMA FreeAgrees ==
  ASSUME NEW p, Sound(p), NEW b, ~TotalsDiffer(p, b),
         b.withdrawn = SumFunction([d \in DOMAIN p.dep |-> p.dep[d].withdrawn])
  PROVE  Deployable(b) = Free(p)
<1>1. PICK D : D = DOMAIN p.dep
  OBVIOUS
<1>2. PICK a, c, v, w : /\ a = [d \in D |-> p.dep[d].admitted] /\ c = [d \in D |-> p.dep[d].committed]
                        /\ v = [d \in D |-> p.dep[d].invested] /\ w = [d \in D |-> p.dep[d].withdrawn]
  OBVIOUS
<1>3. /\ SumFunction(a) = b.admitted /\ SumFunction(c) = b.committed /\ SumFunction(v) = b.spent
      /\ SumFunction(w) = b.withdrawn
  BY <1>1, <1>2 DEF TotalsDiffer
<1>4. IsFiniteSet(D) /\ \A d \in D : p.dep[d] \in Tranches
  BY <1>1 DEF Sound, Shape
<1>5. a \in [D -> Int] /\ c \in [D -> Int] /\ v \in [D -> Int] /\ w \in [D -> Int]
  BY <1>2, <1>4 DEF Tranches
<1>6. PICK r, x, y : /\ r = [d \in D |-> Residual(p.dep[d])]
                     /\ x = [d \in D |-> v[d] + c[d]] /\ y = [d \in D |-> x[d] + w[d]]
  OBVIOUS
<1>7. ASSUME NEW d \in D PROVE Residual(p.dep[d]) \in Int /\ a[d] = r[d] + y[d]
  <2>1. p.dep[d].invested + p.dep[d].committed + p.dep[d].withdrawn <= p.dep[d].admitted
    BY <1>1 DEF Sound, Valid
  <2>2. /\ Residual(p.dep[d]) \in Nat
        /\ Residual(p.dep[d]) = p.dep[d].admitted - p.dep[d].invested - p.dep[d].committed - p.dep[d].withdrawn
    BY <1>4, <2>1, ResidualIs
  <2>3. /\ a[d] = p.dep[d].admitted /\ r[d] = Residual(p.dep[d])
        /\ y[d] = (p.dep[d].invested + p.dep[d].committed) + p.dep[d].withdrawn
        /\ p.dep[d].admitted \in Int /\ p.dep[d].invested \in Int
        /\ p.dep[d].committed \in Int /\ p.dep[d].withdrawn \in Int
    BY <1>2, <1>4, <1>6 DEF Tranches
  <2> QED BY <2>2, <2>3
<1>8. r \in [D -> Int] /\ x \in [D -> Int] /\ y \in [D -> Int]
  BY <1>5, <1>6, <1>7
<1>9. SumFunction(x) = SumFunction(v) + SumFunction(c)
  <2>1. Adds(v, c, x, D)
    BY <1>5, <1>6, <1>8 DEF Adds
  <2> QED BY <1>4, <2>1, SumAdds
<1>10. SumFunction(y) = SumFunction(x) + SumFunction(w)
  <2>1. Adds(x, w, y, D)
    BY <1>5, <1>6, <1>8 DEF Adds
  <2> QED BY <1>4, <2>1, SumAdds
<1>11. SumFunction(a) = SumFunction(r) + SumFunction(y)
  <2>1. Adds(r, y, a, D)
    BY <1>5, <1>7, <1>8 DEF Adds
  <2> QED BY <1>4, <2>1, SumAdds
<1>12. SumFunction(r) = Free(p)
  BY <1>1, <1>6 DEF Free
<1>13. /\ SumFunction(v) \in Int /\ SumFunction(c) \in Int /\ SumFunction(w) \in Int
       /\ SumFunction(r) \in Int
  BY <1>4, <1>5, <1>8, SumType
<1> QED BY <1>3, <1>9, <1>10, <1>11, <1>12, <1>13 DEF Deployable

\* What the journal says of a state is all the books have to agree on.
LEMMA BookedAgree == ASSUME Booked(pacing, journal), Sound(pacing) PROVE BooksAgree
<1>1. PICK p, b, S : p = pacing /\ b = Book /\ S = ToSet(journal)
  OBVIOUS
<1>2. /\ Events(S) /\ BookIs(b, S) /\ DOMAIN b.dep = DOMAIN p.dep
      /\ MovesIn(S, p) /\ AdmitsIn(S, p.dep) /\ DecsIn(S, p.dec)
      /\ ~TotalsDiffer(p, b) /\ Sound(p)
  BY <1>1, BookBefore DEF Booked, Said, Book
<1>3. ASSUME NEW d \in DOMAIN p.dep
      PROVE  /\ b.dep[d].admitted = p.dep[d].admitted
             /\ b.dep[d].returned = p.dep[d].returned
  <2>1. b.dep[d].admitted = AdmittedBy(S, d) /\ b.dep[d].returned = ReturnedBy(S, d)
    BY <1>2 DEF BookIs, DepositsAre
  <2>2. AdmittedBy(S, d) = p.dep[d].admitted
    BY <1>2 DEF AdmitsIn
  <2>3. p.dep[d].returned = Taken(p, d, "frozen")
    BY <1>2, Zenon DEF Sound, Valid
  <2>4. ReturnedBy(S, d) = Taken(p, d, "frozen")
    BY <1>2, ReturnedAgrees
  <2> QED BY <2>1, <2>2, <2>3, <2>4
<1>4. b.withdrawn = SumFunction([d \in DOMAIN p.dep |-> p.dep[d].withdrawn])
  <2>1. b.withdrawn = WithdrawnBy(S)
    BY <1>2 DEF BookIs
  <2>2. WithdrawnBy(S) = SumFunction([d \in DOMAIN p.dep |-> p.dep[d].withdrawn])
    BY <1>2, WithdrawnAgrees
  <2> QED BY <2>1, <2>2, Zenon
<1>5. Deployable(b) = Free(p)
  BY <1>2, <1>4, FreeAgrees
<1>6. /\ DOMAIN b.decided = DOMAIN p.dec
      /\ DOMAIN b.commit = {x \in DOMAIN p.dec : p.dec[x].planned # 0}
  BY <1>2 DEF BookIs, DaysAre, DecsIn
<1>7. ASSUME NEW x \in DOMAIN b.commit PROVE b.commit[x].settled = p.dec[x].settled
  <2>1. b.commit[x].settled = (x \in Names(S, {"settlement"}))
    BY <1>2, Zenon DEF BookIs, DaysAre
  <2>2. x \in DOMAIN p.dec /\ p.dec[x].planned # 0
    BY <1>6
  <2>3. p.dec[x].settled \in BOOLEAN
    BY <1>2, <2>2 DEF Sound, Shape, Decision
  <2>4. x \in Names(S, {"settlement"}) <=> p.dec[x].settled
    BY <1>2, <2>2, <2>3, Zenon DEF DecsIn
  <2>5. (x \in Names(S, {"settlement"})) \in BOOLEAN
    OBVIOUS
  <2> QED BY <2>1, <2>3, <2>4, <2>5, Zenon
<1> QED BY <1>1, <1>2, <1>3, <1>4, <1>5, <1>6, <1>7, Zenon DEF BooksAgree

LEMMA CycleBooks ==
  ASSUME BooksHold, NEW mode, NEW scan,
         NEW late \in SUBSET {m \in DOMAIN occurred : scan # "failed"
                                                   /\ occurred[m] > now - world.lag},
         NEW go \in BOOLEAN, Cycle(mode, scan, late, go)
  PROVE  Booked(pacing, journal)'
<1>1. PICK seen : seen = IF scan = "failed" THEN {}
                         ELSE {m \in DOMAIN occurred : occurred[m] >= ScanStart} \ late
  OBVIOUS
<1>2. seen \subseteq DOMAIN occurred
  BY <1>1
<1>3. PICK r : r = CycleResult(mode, scan, seen, go)
  OBVIOUS
<1>4. pacing' = r.pacing /\ journal' = r.journal
  BY <1>1, <1>3 DEF Cycle, Becomes
<1>5. Booked(r.pacing, r.journal)
  BY <1>2, <1>3, CycleBooked
<1> QED BY <1>4, <1>5

LEMMA SettleBooks ==
  ASSUME BooksHold, NEW x \in DOMAIN pacing.dec, NEW filled \in 0 .. pacing.dec[x].planned,
         NEW fee \in Fees, SettleLive(x, filled, IF filled = 0 THEN 0 ELSE filled + fee)
  PROVE  Booked(pacing, journal)'
<1>1. PICK debited : debited = IF filled = 0 THEN 0 ELSE filled + fee
  OBVIOUS
<1>2. filled \in Nat /\ debited \in Nat
  <2>1. pacing.dec[x].planned \in Nat
    BY DEF BooksHold, CapitalInv, Good, Sound, Shape, Decision
  <2>2. fee \in Nat
    BY CycleConstants
  <2> QED BY <1>1, <2>1, <2>2
<1>3. PICK r : r = Commit(Settle(pacing, x, filled, debited), <<Settled(x, now, debited)>>, Never)
  OBVIOUS
<1>4. /\ ~pacing.dec[x].settled /\ pacing.dec[x].planned # 0
      /\ pacing' = r.pacing /\ journal' = r.journal
  BY <1>1, <1>3 DEF SettleLive, Becomes
<1>5. Booked(r.pacing, r.journal)
  BY <1>2, <1>3, <1>4, SettleBooked
<1> QED BY <1>4, <1>5

LEMMA BooksStep == ASSUME BooksHold, [Next]_vars PROVE BooksHold'
<1>1. CapitalInv'
  BY CapitalStep DEF BooksHold
<1>2. CASE pacing' = pacing /\ journal' = journal
  <2>1. Booked(pacing, journal)'
    BY <1>2 DEF BooksHold
  <2> QED BY <1>1, <2>1 DEF BooksHold
<1>3. CASE \E mode \in world.modes, scan \in world.scans:
             \E late \in SUBSET {m \in DOMAIN occurred: scan # "failed"
                                                      /\ occurred[m] > now - world.lag},
                go \in IF mode = "observe" THEN {FALSE} ELSE BOOLEAN:
               Cycle(mode, scan, late, go)
  <2>1. PICK mode, scan :
          \E late \in SUBSET {m \in DOMAIN occurred: scan # "failed"
                                                   /\ occurred[m] > now - world.lag},
             go \in IF mode = "observe" THEN {FALSE} ELSE BOOLEAN:
            Cycle(mode, scan, late, go)
    BY <1>3
  <2>2. PICK late \in SUBSET {m \in DOMAIN occurred: scan # "failed"
                                                   /\ occurred[m] > now - world.lag},
             go \in IF mode = "observe" THEN {FALSE} ELSE BOOLEAN:
          Cycle(mode, scan, late, go)
    BY <2>1
  <2>3. go \in BOOLEAN
    BY <2>2
  <2>4. Booked(pacing, journal)'
    BY <2>2, <2>3, CycleBooks
  <2> QED BY <1>1, <2>4 DEF BooksHold
<1>4. CASE \E x \in DOMAIN pacing.dec:
             \E filled \in 0 .. pacing.dec[x].planned, fee \in Fees:
               SettleLive(x, filled, IF filled = 0 THEN 0 ELSE filled + fee)
  BY <1>1, <1>4, SettleBooks DEF BooksHold
<1>5. Tick => pacing' = pacing /\ journal' = journal
  BY DEF Tick, books
<1>6. \A m : Move(m) => pacing' = pacing /\ journal' = journal
  BY DEF Move, books
<1>7. \A d, at, max : Approve(d, at, max) => pacing' = pacing /\ journal' = journal
  BY DEF Approve, books
<1>8. UNCHANGED vars => pacing' = pacing /\ journal' = journal
  BY DEF vars
<1> QED BY <1>2, <1>3, <1>4, <1>5, <1>6, <1>7, <1>8 DEF Next

\* Nothing is in either book at first.
LEMMA BooksStart == ASSUME Init PROVE Booked(pacing, journal)
<1>1. PICK e : e = <<>> /\ DOMAIN e = {}
  OBVIOUS
<1>2. pacing = NewState /\ journal = e
  BY <1>1 DEF Init
<1>3. Listed(journal, 0) /\ ToSet(journal) = {}
  BY <1>1, <1>2, NoneIs
<1>4. \E n : Journal(journal, n)
  BY <1>3 DEF Journal
<1>5. Replay(journal) = NewBook
  <2>1. PICK st : BookRun(st, NewBook, journal, 0)
    <3>1. DOMAIN journal = 1..0
      BY <1>1, <1>2
    <3> QED BY <3>1, BookSteps
  <2> QED BY <2>1 DEF BookRun, Replay
<1>6. DOMAIN pacing.dep = {} /\ DOMAIN pacing.wd = {} /\ DOMAIN pacing.dec = {}
  BY <1>1, <1>2 DEF NewState
<1>7. ~TotalsDiffer(pacing, NewBook)
  <2>1. PICK f : f = [d \in DOMAIN pacing.dep |-> pacing.dep[d]["admitted"]]
    OBVIOUS
  <2>2. PICK g : g = [d \in DOMAIN pacing.dep |-> pacing.dep[d]["committed"]]
    OBVIOUS
  <2>3. PICK h : h = [d \in DOMAIN pacing.dep |-> pacing.dep[d]["invested"]]
    OBVIOUS
  <2>4. SumFunction(f) = 0 /\ SumFunction(g) = 0 /\ SumFunction(h) = 0
    BY <1>6, <2>1, <2>2, <2>3, SumEmpty
  <2>5. NewBook.admitted = 0 /\ NewBook.committed = 0 /\ NewBook.spent = 0
    BY DEF NewBook
  <2> QED BY <2>1, <2>2, <2>3, <2>4, <2>5 DEF TotalsDiffer
<1>8. Said({}, pacing)
  <2>1. \A K : OfKind({}, K) = {} /\ Names({}, K) = {}
    BY DEF OfKind, Names
  <2>2. MovesIn({}, pacing)
    BY <1>6, <2>1 DEF MovesIn, Coming, Going
  <2>3. AdmitsIn({}, pacing.dep)
    BY <1>6, <2>1 DEF AdmitsIn
  <2>4. DecsIn({}, pacing.dec)
    BY <1>6, <2>1 DEF DecsIn
  <2> QED BY <2>2, <2>3, <2>4 DEF Said
<1> QED BY <1>3, <1>4, <1>5, <1>7, <1>8, BookStarts DEF Booked

\* commit_state_change compares three totals of the two books; they agree on
\* every deposit, movement and day, whatever the cycles have seen so far.
THEOREM BooksStay == Spec => []BooksAgree
<1>1. Init => Booked(pacing, journal)
  BY BooksStart
<1>2. BooksHold /\ [Next]_vars => BooksHold'
  BY BooksStep
<1>3. BooksHold => BooksAgree
  BY BookedAgree DEF BooksHold, CapitalInv, Good
<1>4. CapitalInv /\ Booked(pacing, journal) => BooksHold
  BY DEF BooksHold
<1>5. Spec => CapitalInv
  BY CapitalSound, PTL
<1> QED BY <1>1, <1>2, <1>3, <1>4, <1>5, PTL DEF Spec
=============================================================================
