------------------------------ MODULE StoreProofs ------------------------------
(***************************************************************************)
(* What the files of the capital ledger and of the runtime keep, for any   *)
(* number of cycles of any size, of kills and of backups.                  *)
(***************************************************************************)
EXTENDS StoreSystem, FiniteSetTheorems, SequenceTheorems,
        WellFoundedInduction, TLAPS

-----------------------------------------------------------------------------
(* Induction over the naturals, on a set of numbers *)

LessThan == {ss \in Nat \X Nat : ss[1] < ss[2]}

LEMMA LeastOf ==
  ASSUME NEW T, T \subseteq Nat, T # {}
  PROVE  \E x \in T : \A y \in T : x <= y
<1>1. IsWellFoundedOn(LessThan, Nat)
  BY NatLessThanWellFounded, Zenon DEF OpToRel, LessThan
<1>2. PICK x \in T : \A y \in T : ~(<<y, x>> \in LessThan)
  BY <1>1, WFMin
<1>3. ASSUME NEW y \in T PROVE x <= y
  <2>1. y \in Nat /\ x \in Nat
    OBVIOUS
  <2>2. y < x => <<y, x>> \in LessThan
    BY <2>1 DEF LessThan
  <2> QED BY <1>2, <2>1, <2>2
<1> QED BY <1>3

LEMMA Inductive ==
  ASSUME NEW T, 0 \in T, \A n, m \in Nat : n \in T /\ m = n + 1 => m \in T
  PROVE  Nat \subseteq T
<1> DEFINE Missed == Nat \ T
<1>1. SUFFICES ASSUME Missed # {} PROVE FALSE
  OBVIOUS
<1>2. PICK n \in Missed : \A m \in Missed : n <= m
  <2> Missed \subseteq Nat OBVIOUS
  <2> HIDE DEF Missed
  <2> QED BY <1>1, LeastOf
<1>3. n # 0 /\ n - 1 \in Nat /\ n - 1 \notin Missed /\ n = (n - 1) + 1
  BY <1>2
<1> QED BY <1>2, <1>3

-----------------------------------------------------------------------------
(* FlattenSeq, which is a function defined by recursion *)

Flattens(f, ss, n) == f = [i \in 1..n |-> IF i = 1 THEN ss[i] ELSE f[i - 1] \o ss[i]]

LEMMA FlattensExists == ASSUME NEW ss, NEW n \in Nat PROVE \E f : Flattens(f, ss, n)
<1> DEFINE T == {k \in Nat : \E f : Flattens(f, ss, k)}
<1>1. 0 \in T
  <2> DEFINE g == [i \in 1..0 |-> <<>>]
  <2>1. Flattens(g, ss, 0)
    BY DEF Flattens
  <2> QED BY <2>1
<1>2. ASSUME NEW k \in Nat, NEW m \in Nat, k \in T, m = k + 1 PROVE m \in T
  <2>1. PICK f : Flattens(f, ss, k)
    BY <1>2
  <2> DEFINE g == [i \in 1..m |->
                     IF i \in 1..k THEN f[i] ELSE IF i = 1 THEN ss[i] ELSE f[i - 1] \o ss[i]]
  <2>2. \A i \in 1..m : g[i] = IF i = 1 THEN ss[i] ELSE g[i - 1] \o ss[i]
    <3>1. \A i \in 1..k : f[i] = IF i = 1 THEN ss[i] ELSE f[i - 1] \o ss[i]
      BY <2>1 DEF Flattens
    <3> QED BY <1>2, <3>1
  <2>3. Flattens(g, ss, m)
    BY <2>2 DEF Flattens
  <2> QED BY <2>3
<1>3. Nat \subseteq T
  <2> HIDE DEF T
  <2> QED BY <1>1, <1>2, Inductive
<1> QED BY <1>3

LEMMA FlattensFirst ==
  ASSUME NEW f, NEW ss, NEW n \in Nat, Flattens(f, ss, n), n # 0
  PROVE  f[1] = ss[1]
<1>1. \A i \in 1..n : f[i] = IF i = 1 THEN ss[i] ELSE f[i - 1] \o ss[i]
  BY DEF Flattens
<1> QED BY <1>1

Joined(z, x, y) == z = x \o y

LEMMA FlattensNext ==
  ASSUME NEW f, NEW ss, NEW n \in Nat, Flattens(f, ss, n),
         NEW i \in Nat, NEW j \in 1..n, i # 0, j = i + 1
  PROVE  Joined(f[j], f[i], ss[j])
<1>1. \A k \in 1..n : f[k] = IF k = 1 THEN ss[k] ELSE f[k - 1] \o ss[k]
  BY DEF Flattens
<1>2. j - 1 = i /\ j # 1
  OBVIOUS
<1>3. f[j] = f[j - 1] \o ss[j]
  BY <1>1, <1>2, Zenon
<1> QED BY <1>2, <1>3, Zenon DEF Joined

LEMMA FlattensAgree ==
  ASSUME NEW f, NEW g, NEW ss, NEW tt, NEW n \in Nat, NEW m \in Nat, n <= m,
         Flattens(f, ss, n), Flattens(g, tt, m), \A i \in 1..n : ss[i] = tt[i]
  PROVE  \A i \in 1..n : f[i] = g[i]
<1> DEFINE T == {i \in Nat : i \in 1..n => f[i] = g[i]}
<1>1. 0 \in T
  OBVIOUS
<1>2. ASSUME NEW i \in Nat, NEW j \in Nat, i \in T, j = i + 1 PROVE j \in T
  <2>1. SUFFICES ASSUME j \in 1..n PROVE f[j] = g[j]
    OBVIOUS
  <2>2. j \in 1..m /\ ss[j] = tt[j] /\ n # 0 /\ m # 0
    BY <2>1
  <2>3. CASE i = 0
    <3>1. f[1] = ss[1] /\ g[1] = tt[1] /\ j = 1
      BY <1>2, <2>2, <2>3, FlattensFirst
    <3> QED BY <2>2, <3>1
  <2>4. CASE i # 0
    <3>1. f[j] = f[i] \o ss[j] /\ g[j] = g[i] \o tt[j]
      <4>1. Joined(f[j], f[i], ss[j])
        BY <1>2, <2>1, <2>4, FlattensNext
      <4>2. Joined(g[j], g[i], tt[j])
        BY <1>2, <2>2, <2>4, FlattensNext
      <4> QED BY <4>1, <4>2, Zenon DEF Joined
    <3>2. f[i] = g[i]
      BY <1>2, <2>1, <2>4
    <3> QED BY <2>2, <3>1, <3>2, Zenon
  <2> QED BY <2>3, <2>4
<1>3. Nat \subseteq T
  <2> HIDE DEF T
  <2> QED BY <1>1, <1>2, Inductive
<1> QED BY <1>3

LEMMA FlattensType ==
  ASSUME NEW f, NEW S, NEW ss, NEW n \in Nat, Flattens(f, ss, n),
         \A i \in 1..n : ss[i] \in Seq(S)
  PROVE  \A i \in 1..n : f[i] \in Seq(S)
<1> DEFINE T == {i \in Nat : i \in 1..n => f[i] \in Seq(S)}
<1>1. 0 \in T
  OBVIOUS
<1>2. ASSUME NEW i \in Nat, NEW j \in Nat, i \in T, j = i + 1 PROVE j \in T
  <2>1. SUFFICES ASSUME j \in 1..n PROVE f[j] \in Seq(S)
    OBVIOUS
  <2>2. ss[j] \in Seq(S) /\ n # 0
    BY <2>1
  <2>3. CASE i = 0
    <3>1. f[1] = ss[1] /\ j = 1
      BY <1>2, <2>2, <2>3, FlattensFirst
    <3> QED BY <2>2, <3>1
  <2>4. CASE i # 0
    <3>1. f[j] = f[i] \o ss[j]
      <4>1. Joined(f[j], f[i], ss[j])
        BY <1>2, <2>1, <2>4, FlattensNext
      <4> QED BY <4>1, Zenon DEF Joined
    <3>2. f[i] \in Seq(S)
      BY <1>2, <2>1, <2>4
    <3> QED BY <2>2, <3>1, <3>2
  <2> QED BY <2>3, <2>4
<1>3. Nat \subseteq T
  <2> HIDE DEF T
  <2> QED BY <1>1, <1>2, Inductive
<1> QED BY <1>3

LEMMA FlattenEmpty == FlattenSeq(<<>>) = <<>>
BY DEF FlattenSeq

LEMMA FlattenIs ==
  ASSUME NEW S, NEW ss \in Seq(Seq(S)), Len(ss) # 0
  PROVE  \E f : Flattens(f, ss, Len(ss)) /\ FlattenSeq(ss) = f[Len(ss)]
<1> DEFINE f == CHOOSE f : Flattens(f, ss, Len(ss))
<1>1. \E h : Flattens(h, ss, Len(ss))
  <2>1. Len(ss) \in Nat
    OBVIOUS
  <2> QED BY <2>1, FlattensExists
<1>2. Flattens(f, ss, Len(ss))
  BY <1>1, Zenon
<1>3. FlattenSeq(ss) = f[Len(ss)]
  BY DEF FlattenSeq, Flattens
<1> HIDE DEF f
<1> QED BY <1>2, <1>3

LEMMA FlattenAppend ==
  ASSUME NEW S, NEW ss \in Seq(Seq(S)), NEW x \in Seq(S)
  PROVE  /\ FlattenSeq(ss) \in Seq(S)
         /\ FlattenSeq(Append(ss, x)) = FlattenSeq(ss) \o x
<1>1. PICK n : n = Len(ss)
  OBVIOUS
<1>2. PICK m : m = n + 1
  OBVIOUS
<1>3. PICK tt : tt = Append(ss, x)
  OBVIOUS
<1>4. /\ n \in Nat /\ m \in Nat /\ n <= m /\ m # 0 /\ m \in 1..m
      /\ tt \in Seq(Seq(S)) /\ Len(tt) = m
      /\ \A i \in 1..n : ss[i] = tt[i] /\ ss[i] \in Seq(S)
      /\ tt[m] = x
  BY <1>1, <1>2, <1>3
<1>5. PICK g : Flattens(g, tt, m) /\ FlattenSeq(tt) = g[m]
  BY <1>4, FlattenIs
<1>6. CASE n = 0
  <2>1. ss = <<>>
    BY <1>1, <1>6, EmptySeq
  <2>2. FlattenSeq(ss) = <<>>
    BY <2>1, FlattenEmpty
  <2>3. g[1] = tt[1] /\ m = 1
    BY <1>2, <1>4, <1>5, <1>6, FlattensFirst
  <2>4. FlattenSeq(tt) = x
    BY <1>4, <1>5, <2>3
  <2>5. <<>> \in Seq(S) /\ <<>> \o x = x
    OBVIOUS
  <2> QED BY <1>3, <2>2, <2>4, <2>5, Zenon
<1>7. CASE n # 0
  <2>1. PICK f : Flattens(f, ss, n) /\ FlattenSeq(ss) = f[n]
    BY <1>1, <1>7, FlattenIs
  <2>2. \A i \in 1..n : f[i] = g[i]
    BY SMTT(60), <1>4, <1>5, <2>1, FlattensAgree
  <2>3. \A i \in 1..n : f[i] \in Seq(S)
    BY <1>4, <2>1, FlattensType
  <2>4. n \in 1..n
    BY <1>4, <1>7
  <2>5. g[m] = g[n] \o tt[m]
    <3>1. Joined(g[m], g[n], tt[m])
      BY <1>2, <1>4, <1>5, <1>7, FlattensNext
    <3> QED BY <3>1, Zenon DEF Joined
  <2>6. f[n] = g[n] /\ f[n] \in Seq(S)
    BY <2>2, <2>3, <2>4
  <2> QED BY <1>3, <1>4, <1>5, <2>1, <2>5, <2>6, Zenon
<1> QED BY <1>6, <1>7

-----------------------------------------------------------------------------
(* The events of a cycle, and the ledger of a sequence of cycles *)

Events == [kind : {"prepared", "body", "committed"}, cycle : Cycles, nth : Nat]
Logs == Seq(Events)

Size(c) == BodySize[c] + 2

EventAt(c, i) ==
  IF i = 1 THEN Event("prepared", c, 0)
  ELSE IF i = Size(c) THEN Event("committed", c, 0)
  ELSE Event("body", c, i - 1)

LEMMA SizeType == ASSUME NEW c \in Cycles PROVE Size(c) \in Nat /\ Size(c) >= 2
BY RuntimeStoreAssumption DEF Cycles, Size

LEMMA EventsAt ==
  ASSUME NEW c \in Cycles
  PROVE  /\ EventsOf(c) \in Logs
         /\ Len(EventsOf(c)) = Size(c)
         /\ \A i \in 1..Size(c) : EventsOf(c)[i] = EventAt(c, i) /\ EventAt(c, i) \in Events
<1> DEFINE first == <<Event("prepared", c, 0)>>
           body  == [n \in 1..BodySize[c] |-> Event("body", c, n)]
           last  == <<Event("committed", c, 0)>>
<1>1. BodySize[c] \in Nat
  BY RuntimeStoreAssumption DEF Cycles
<1>2. first \in Logs /\ Len(first) = 1 /\ first[1] = Event("prepared", c, 0)
  BY DEF Logs, Events, Event
<1>3. last \in Logs /\ Len(last) = 1 /\ last[1] = Event("committed", c, 0)
  BY DEF Logs, Events, Event
<1>4. /\ body \in Logs /\ Len(body) = BodySize[c]
      /\ \A n \in 1..BodySize[c] : body[n] = Event("body", c, n)
  <2>1. \A n \in 1..BodySize[c] : Event("body", c, n) \in Events
    BY <1>1 DEF Events, Event
  <2> QED BY <1>1, <2>1 DEF Logs
<1> HIDE DEF first, body, last
<1>5. /\ first \o body \in Logs /\ Len(first \o body) = BodySize[c] + 1
      /\ \A i \in 1..(BodySize[c] + 1) :
           (first \o body)[i] = IF i = 1 THEN first[1] ELSE body[i - 1]
  <2>1. /\ first \o body \in Logs /\ Len(first \o body) = Len(first) + Len(body)
        /\ \A i \in 1..(Len(first) + Len(body)) :
             (first \o body)[i] = IF i <= Len(first) THEN first[i] ELSE body[i - Len(first)]
    BY <1>2, <1>4, ConcatProperties DEF Logs
  <2> QED BY <1>1, <1>2, <1>4, <2>1
<1>6. PICK head : head = first \o body
  OBVIOUS
<1>7. /\ head \o last \in Logs /\ Len(head \o last) = BodySize[c] + 2
      /\ \A i \in 1..(BodySize[c] + 2) :
           (head \o last)[i] = IF i <= BodySize[c] + 1 THEN head[i] ELSE last[1]
  <2>1. /\ head \o last \in Logs /\ Len(head \o last) = Len(head) + Len(last)
        /\ \A i \in 1..(Len(head) + Len(last)) :
             (head \o last)[i] = IF i <= Len(head) THEN head[i] ELSE last[i - Len(head)]
    <3>1. head \in Seq(Events) /\ last \in Seq(Events)
      BY <1>3, <1>5, <1>6 DEF Logs
    <3> QED BY <3>1, ConcatProperties DEF Logs
  <2> QED BY <1>1, <1>3, <1>5, <1>6, <2>1
<1>8. EventsOf(c) = head \o last
  BY <1>6 DEF EventsOf, first, body, last
<1>9. ASSUME NEW i \in 1..Size(c)
      PROVE  (head \o last)[i] = EventAt(c, i) /\ EventAt(c, i) \in Events
  <2>1. i \in Nat /\ Size(c) = BodySize[c] + 2
    BY <1>1 DEF Size
  <2>2. EventAt(c, i) \in Events
    BY <1>1, <2>1 DEF EventAt, Events, Event
  <2>3. CASE i = 1
    BY <1>1, <1>2, <1>5, <1>6, <1>7, <2>1, <2>2, <2>3 DEF EventAt
  <2>4. CASE i = Size(c)
    BY <1>1, <1>3, <1>7, <2>1, <2>2, <2>4 DEF EventAt
  <2>5. CASE i # 1 /\ i # Size(c)
    <3>1. i <= BodySize[c] + 1 /\ i - 1 \in 1..BodySize[c] /\ i \in 1..(BodySize[c] + 1)
      BY <1>1, <2>1, <2>5
    <3> QED BY <1>1, <1>4, <1>5, <1>6, <1>7, <2>1, <2>2, <2>5, <3>1 DEF EventAt
  <2> QED BY <2>3, <2>4, <2>5
<1> QED BY <1>7, <1>8, <1>9 DEF Size

LEMMA EventParts ==
  ASSUME NEW c \in Cycles, NEW i \in 1..Size(c)
  PROVE  /\ EventAt(c, i).cycle = c
         /\ EventAt(c, i).kind = "prepared" <=> i = 1
         /\ EventAt(c, i).kind = "committed" <=> i = Size(c)
         /\ \A j \in 1..Size(c) : EventAt(c, i) = EventAt(c, j) => i = j
BY SizeType DEF EventAt, Event

LEMMA LedgerAppend ==
  ASSUME NEW S \in Seq(Cycles), NEW c \in Cycles
  PROVE  /\ LedgerOf(S) \in Logs
         /\ LedgerOf(Append(S, c)) = LedgerOf(S) \o EventsOf(c)
<1> DEFINE ss == [i \in DOMAIN S |-> EventsOf(S[i])]
           tt == [i \in DOMAIN Append(S, c) |-> EventsOf(Append(S, c)[i])]
<1>1. \A e \in Cycles : EventsOf(e) \in Seq(Events)
  BY EventsAt DEF Logs
<1>2. ss \in Seq(Seq(Events)) /\ Len(ss) = Len(S)
  <2>1. DOMAIN S = 1..Len(S) /\ \A i \in 1..Len(S) : EventsOf(S[i]) \in Seq(Events)
    BY <1>1
  <2> QED BY <2>1
<1>3. tt = Append(ss, EventsOf(c))
  <2>1. /\ tt \in Seq(Seq(Events)) /\ Len(tt) = Len(S) + 1
        /\ Append(ss, EventsOf(c)) \in Seq(Seq(Events)) /\ Len(Append(ss, EventsOf(c))) = Len(S) + 1
    BY <1>1, <1>2
  <2>2. ASSUME NEW i \in 1..(Len(S) + 1) PROVE tt[i] = Append(ss, EventsOf(c))[i]
    BY <1>1, <1>2
  <2> HIDE DEF tt, ss
  <2> QED BY <2>1, <2>2, SeqEqual
<1>4. FlattenSeq(ss) \in Seq(Events) /\ FlattenSeq(Append(ss, EventsOf(c))) = FlattenSeq(ss) \o EventsOf(c)
  <2> HIDE DEF ss
  <2> QED BY <1>1, <1>2, FlattenAppend
<1> QED BY <1>3, <1>4, Zenon DEF LedgerOf, Logs

LEMMA LedgerNone == LedgerOf(<<>>) = <<>>
<1>1. [i \in DOMAIN <<>> |-> EventsOf(<<>>[i])] = <<>>
  OBVIOUS
<1> QED BY <1>1, FlattenEmpty DEF LedgerOf

\* The first k events of cycle c after the log L.
Part(L, c, k) == L \o SubSeq(EventsOf(c), 1, k)

LEMMA PartAt ==
  ASSUME NEW L \in Logs, NEW c \in Cycles, NEW k \in 0..Size(c)
  PROVE  /\ Part(L, c, k) \in Logs
         /\ Len(Part(L, c, k)) = Len(L) + k
         /\ \A i \in 1..Len(L) : Part(L, c, k)[i] = L[i]
         /\ \A i \in (Len(L) + 1)..(Len(L) + k) : Part(L, c, k)[i] = EventAt(c, i - Len(L))
<1>1. PICK E : E = EventsOf(c)
  OBVIOUS
<1>2. PICK F : F = SubSeq(E, 1, k)
  OBVIOUS
<1>3. Size(c) \in Nat /\ k \in Nat /\ k <= Size(c)
  BY SizeType
<1>4. /\ F \in Logs /\ Len(F) = k
      /\ \A i \in 1..k : F[i] = EventAt(c, i)
  <2>1. /\ E \in Logs /\ Len(E) = Size(c)
        /\ \A i \in 1..Size(c) : E[i] = EventAt(c, i)
    BY <1>1, EventsAt
  <2> QED BY <1>2, <1>3, <2>1 DEF Logs
<1>5. /\ L \o F \in Logs /\ Len(L \o F) = Len(L) + Len(F)
      /\ \A i \in 1..(Len(L) + Len(F)) :
           (L \o F)[i] = IF i <= Len(L) THEN L[i] ELSE F[i - Len(L)]
  BY <1>4, ConcatProperties DEF Logs
<1>6. Part(L, c, k) = L \o F
  BY <1>1, <1>2 DEF Part
<1>7. Len(L) \in Nat
  BY DEF Logs
<1>8. ASSUME NEW i \in (Len(L) + 1)..(Len(L) + k)
      PROVE  (L \o F)[i] = EventAt(c, i - Len(L))
  <2>1. i - Len(L) \in 1..k /\ ~(i <= Len(L)) /\ i \in 1..(Len(L) + Len(F))
    BY <1>3, <1>4, <1>7
  <2> QED BY <1>4, <1>5, <2>1
<1> QED BY <1>3, <1>4, <1>5, <1>6, <1>7, <1>8

LEMMA PartFull ==
  ASSUME NEW L \in Logs, NEW c \in Cycles
  PROVE  Part(L, c, 0) = L /\ Part(L, c, Size(c)) = L \o EventsOf(c)
<1>1. SubSeq(EventsOf(c), 1, 0) = <<>>
  BY SubSeqEmpty
<1>2. SubSeq(EventsOf(c), 1, Size(c)) = EventsOf(c)
  BY EventsAt DEF Logs
<1>3. L \o <<>> = L
  BY ConcatEmptySeq DEF Logs
<1> QED BY <1>1, <1>2, <1>3, Zenon DEF Part

LEMMA PartNext ==
  ASSUME NEW L \in Logs, NEW c \in Cycles, NEW k \in 0..Size(c), k # Size(c)
  PROVE  Part(L, c, k + 1) = Append(Part(L, c, k), EventAt(c, k + 1))
<1>1. PICK n : n = k + 1
  OBVIOUS
<1>2. n \in 1..Size(c) /\ n \in 0..Size(c) /\ k \in Nat /\ Size(c) \in Nat /\ Len(L) \in Nat
  BY <1>1, SizeType DEF Logs
<1>3. PICK P, Q, e : P = Part(L, c, k) /\ Q = Part(L, c, n) /\ e = EventAt(c, n)
  OBVIOUS
<1>4. /\ P \in Logs /\ Len(P) = Len(L) + k
      /\ \A i \in 1..Len(L) : P[i] = L[i]
      /\ \A i \in (Len(L) + 1)..(Len(L) + k) : P[i] = EventAt(c, i - Len(L))
  BY <1>3, PartAt
<1>5. /\ Q \in Logs /\ Len(Q) = Len(L) + n
      /\ \A i \in 1..Len(L) : Q[i] = L[i]
      /\ \A i \in (Len(L) + 1)..(Len(L) + n) : Q[i] = EventAt(c, i - Len(L))
  BY <1>2, <1>3, PartAt
<1>6. e \in Events
  BY <1>2, <1>3, EventsAt
<1>7. Append(P, e) \in Seq(Events) /\ Len(Append(P, e)) = Len(Q) /\ Q \in Seq(Events)
  BY SMTT(60), <1>1, <1>2, <1>4, <1>5, <1>6 DEF Logs
<1>8. ASSUME NEW i \in 1..Len(Q) PROVE Q[i] = Append(P, e)[i]
  <2>1. CASE i \in 1..Len(L)
    BY <1>2, <1>4, <1>5, <1>6, <2>1 DEF Logs
  <2>2. CASE i \in (Len(L) + 1)..(Len(L) + k)
    BY <1>1, <1>2, <1>4, <1>5, <1>6, <2>2 DEF Logs
  <2>3. CASE i = Len(L) + n
    <3>1. i \in (Len(L) + 1)..(Len(L) + n) /\ i - Len(L) = n /\ i = Len(P) + 1
      BY <1>1, <1>2, <1>4, <2>3
    <3>2. Q[i] = e
      BY <1>3, <1>5, <3>1
    <3> QED BY <1>4, <1>6, <3>1, <3>2 DEF Logs
  <2>4. i \in Nat /\ 1 <= i /\ i <= Len(L) + (k + 1)
    BY <1>1, <1>2, <1>5
  <2>5. i \in 1..Len(L) \/ i \in (Len(L) + 1)..(Len(L) + k) \/ i = Len(L) + n
    BY <1>1, <1>2, <2>4
  <2> QED BY <2>1, <2>2, <2>3, <2>5
<1>9. Q = Append(P, e)
  BY <1>7, <1>8, SeqEqual
<1> QED BY <1>1, <1>3, <1>9

\* What the runtime and the ledger's replay ask of the log of the cycles S.
Sound(L, S) ==
  /\ \A i \in DOMAIN L : Holds(S, L[i].cycle)
  /\ Unrepeated(L)
  /\ Replayable(L)
  /\ ~Uncommitted(L)
  /\ HeadCycle(L) = LastOf(S)
  /\ TotalsMatch(S, L)

\* A log that has all of the cycles S and the first k events of the next one.
Under(P, L, S, c, k) ==
  /\ L \in Logs /\ S \in Seq(Cycles) /\ Sound(L, S)
  /\ c \in Cycles /\ ~Holds(S, c) /\ k \in 0..Size(c)
  /\ P = Part(L, c, k)

LEMMA PartSplit ==
  ASSUME NEW P, NEW L, NEW S, NEW c, NEW k, Under(P, L, S, c, k), NEW i \in 1..Len(P)
  PROVE  \/ /\ i \in DOMAIN L /\ P[i] = L[i] /\ P[i].cycle # c
         \/ /\ i - Len(L) \in 1..k /\ P[i] = EventAt(c, i - Len(L)) /\ P[i].cycle = c
            /\ P[i].kind = "prepared" <=> i - Len(L) = 1
            /\ P[i].kind = "committed" <=> i - Len(L) = Size(c)
<1>1. /\ L \in Logs /\ c \in Cycles /\ k \in 0..Size(c) /\ P = Part(L, c, k)
      /\ \A j \in DOMAIN L : Holds(S, L[j].cycle)
      /\ ~Holds(S, c)
  BY DEF Under, Sound
<1>2. /\ Len(P) = Len(L) + k
      /\ \A j \in 1..Len(L) : P[j] = L[j]
      /\ \A j \in (Len(L) + 1)..(Len(L) + k) : P[j] = EventAt(c, j - Len(L))
  BY <1>1, PartAt
<1>3. Len(L) \in Nat /\ DOMAIN L = 1..Len(L) /\ k \in Nat /\ Size(c) \in Nat /\ k <= Size(c)
  BY <1>1, SizeType DEF Logs
<1>4. CASE i <= Len(L)
  BY <1>1, <1>2, <1>3, <1>4
<1>5. CASE ~(i <= Len(L))
  <2>1. PICK j : j = i - Len(L)
    OBVIOUS
  <2>2. j \in 1..k /\ j \in 1..Size(c) /\ P[i] = EventAt(c, j)
    BY <1>2, <1>3, <1>5, <2>1
  <2>3. /\ P[i].cycle = c
        /\ P[i].kind = "prepared" <=> j = 1
        /\ P[i].kind = "committed" <=> j = Size(c)
    BY <1>1, <2>2, EventParts
  <2> QED BY <2>1, <2>2, <2>3
<1> QED BY <1>4, <1>5

LEMMA PartTypes ==
  ASSUME NEW P, NEW L, NEW S, NEW c, NEW k, Under(P, L, S, c, k)
  PROVE  /\ P \in Logs /\ Len(P) \in Nat /\ DOMAIN P = 1..Len(P) /\ Len(P) = Len(L) + k
         /\ L \in Logs /\ Len(L) \in Nat /\ DOMAIN L = 1..Len(L)
         /\ \A i \in DOMAIN L : i \in DOMAIN P /\ P[i] = L[i]
         /\ \A i \in 1..k : Len(L) + i \in DOMAIN P /\ P[Len(L) + i] = EventAt(c, i)
         /\ c \in Cycles /\ k \in Nat /\ Size(c) \in Nat /\ 2 <= Size(c) /\ k <= Size(c)
<1>1. /\ L \in Logs /\ c \in Cycles /\ k \in 0..Size(c) /\ P = Part(L, c, k)
  BY DEF Under
<1>2. /\ P \in Logs /\ Len(P) = Len(L) + k
      /\ \A j \in 1..Len(L) : P[j] = L[j]
      /\ \A j \in (Len(L) + 1)..(Len(L) + k) : P[j] = EventAt(c, j - Len(L))
  BY <1>1, PartAt
<1>3. /\ Len(L) \in Nat /\ DOMAIN L = 1..Len(L) /\ k \in Nat /\ Size(c) \in Nat /\ k <= Size(c)
      /\ 2 <= Size(c) /\ Len(P) \in Nat /\ DOMAIN P = 1..Len(P)
  BY <1>1, <1>2, SizeType DEF Logs
<1>4. ASSUME NEW i \in 1..k
      PROVE  Len(L) + i \in DOMAIN P /\ P[Len(L) + i] = EventAt(c, i)
  <2>1. PICK j : j = Len(L) + i
    OBVIOUS
  <2>2. j \in (Len(L) + 1)..(Len(L) + k) /\ j \in DOMAIN P /\ j - Len(L) = i
    BY <1>2, <1>3, <2>1
  <2> QED BY <1>2, <2>1, <2>2
<1> QED BY <1>1, <1>2, <1>3, <1>4

LEMMA PartUnrepeated ==
  ASSUME NEW P, NEW L, NEW S, NEW c, NEW k, Under(P, L, S, c, k)
  PROVE  Unrepeated(P)
<1>1. Unrepeated(L)
  BY DEF Under, Sound
<1>2. ASSUME NEW i \in DOMAIN P, NEW j \in DOMAIN P, P[i] = P[j] PROVE i = j
  <2>1. i \in 1..Len(P) /\ j \in 1..Len(P) /\ Len(L) \in Nat
    BY PartTypes
  <2>2. CASE P[i].cycle # c
    <3>1. i \in DOMAIN L /\ P[i] = L[i] /\ j \in DOMAIN L /\ P[j] = L[j]
      BY <1>2, <2>1, <2>2, PartSplit
    <3> QED BY <1>1, <1>2, <3>1 DEF Unrepeated
  <2>3. CASE P[i].cycle = c
    <3>1. PICK m, n : m = i - Len(L) /\ n = j - Len(L)
      OBVIOUS
    <3>2. m \in 1..k /\ P[i] = EventAt(c, m) /\ n \in 1..k /\ P[j] = EventAt(c, n)
      BY SMTT(60), <1>2, <2>1, <2>3, <3>1, PartSplit
    <3>3. m \in 1..Size(c) /\ n \in 1..Size(c) /\ c \in Cycles
      BY SMTT(60), <3>2, PartTypes
    <3>4. m = n
      <4>1. EventAt(c, m) = EventAt(c, n)
        BY <1>2, <3>2
      <4> QED BY <3>3, <4>1, EventParts
    <3> QED BY <2>1, <3>1, <3>4
  <2> QED BY <2>2, <2>3
<1> QED BY <1>2 DEF Unrepeated

LEMMA PartReplayable ==
  ASSUME NEW P, NEW L, NEW S, NEW c, NEW k, Under(P, L, S, c, k)
  PROVE  Replayable(P)
<1>1. Replayable(L)
  BY DEF Under, Sound
<1>2. ASSUME NEW i \in DOMAIN P, P[i].kind = "committed"
      PROVE  \E j \in 1..(i - 1) : P[j] = [P[i] EXCEPT !.kind = "prepared"]
  <2>1. i \in 1..Len(P) /\ Len(L) \in Nat /\ Len(P) = Len(L) + k
    BY PartTypes
  <2>2. CASE i \in DOMAIN L /\ P[i] = L[i]
    <3>1. PICK j \in 1..(i - 1) : L[j] = [L[i] EXCEPT !.kind = "prepared"]
      BY <1>1, <1>2, <2>2 DEF Replayable
    <3>2. j \in DOMAIN L
      BY <2>1, <2>2, PartTypes
    <3>3. P[j] = L[j]
      BY <3>2, PartTypes
    <3> QED BY <2>2, <3>1, <3>3
  <2>3. CASE ~(i \in DOMAIN L /\ P[i] = L[i])
    <3>1. /\ i - Len(L) \in 1..k /\ P[i] = EventAt(c, i - Len(L)) /\ i - Len(L) = Size(c)
      BY <1>2, <2>1, <2>3, PartSplit
    <3>2. Size(c) \in Nat /\ 2 <= Size(c) /\ 1 \in 1..k
      BY <3>1, PartTypes
    <3>3. P[Len(L) + 1] = EventAt(c, 1) /\ Len(L) + 1 \in 1..(i - 1)
      BY SMTT(60), <2>1, <3>1, <3>2, PartTypes
    <3>4. EventAt(c, 1) = [EventAt(c, Size(c)) EXCEPT !.kind = "prepared"]
      BY <3>2 DEF EventAt, Event
    <3> QED BY <3>1, <3>3, <3>4
  <2> QED BY <2>2, <2>3
<1> QED BY <1>2 DEF Replayable

LEMMA PartHolds ==
  ASSUME NEW P, NEW L, NEW S, NEW c, NEW k, Under(P, L, S, c, k), NEW i \in 1..Size(c)
  PROVE  Holds(P, EventAt(c, i)) <=> i <= k
<1>1. CASE i <= k
  <2>1. i \in 1..k
    BY <1>1, PartTypes
  <2>2. Len(L) + i \in DOMAIN P /\ P[Len(L) + i] = EventAt(c, i)
    BY <2>1, PartTypes
  <2> QED BY <1>1, <2>2 DEF Holds
<1>2. ASSUME NEW n \in DOMAIN P, P[n] = EventAt(c, i) PROVE i <= k
  <2>1. n \in 1..Len(P) /\ c \in Cycles /\ k \in Nat /\ Size(c) \in Nat /\ k <= Size(c)
    BY PartTypes
  <2>2. P[n].cycle = c
    BY <1>2, <2>1, EventParts
  <2>3. PICK j : j = n - Len(L)
    OBVIOUS
  <2>4. j \in 1..k /\ P[n] = EventAt(c, j)
    BY <2>1, <2>2, <2>3, PartSplit
  <2>5. i = j
    <3>1. EventAt(c, j) = EventAt(c, i) /\ j \in 1..Size(c)
      BY <1>2, <2>1, <2>4
    <3> QED BY <2>1, <3>1, EventParts
  <2> QED BY <2>1, <2>4, <2>5
<1> QED BY <1>1, <1>2 DEF Holds

LEMMA PartStages ==
  ASSUME NEW P, NEW L, NEW S, NEW c, NEW k, Under(P, L, S, c, k)
  PROVE  /\ Prepared(P, c) <=> k # 0
         /\ Committed(P, c) <=> k = Size(c)
         /\ Uncommitted(P) => k # 0 /\ k # Size(c)
<1>1. c \in Cycles /\ k \in Nat /\ Size(c) \in Nat /\ 2 <= Size(c) /\ k <= Size(c) /\ Len(L) \in Nat
  BY PartTypes
<1>2. ~Uncommitted(L)
  BY DEF Under, Sound
<1>3. ASSUME k # 0 PROVE Prepared(P, c)
  <2>1. 1 \in 1..k /\ 1 \in 1..Size(c)
    BY <1>1, <1>3
  <2>2. Len(L) + 1 \in DOMAIN P /\ P[Len(L) + 1] = EventAt(c, 1)
    BY <2>1, PartTypes
  <2>3. EventAt(c, 1).kind = "prepared" /\ EventAt(c, 1).cycle = c
    BY <1>1, <2>1, EventParts
  <2> QED BY <2>2, <2>3 DEF Prepared
<1>4. ASSUME k = Size(c) PROVE Committed(P, c)
  <2>1. k \in 1..k /\ k \in 1..Size(c)
    BY <1>1, <1>4
  <2>2. Len(L) + k \in DOMAIN P /\ P[Len(L) + k] = EventAt(c, k)
    BY <2>1, PartTypes
  <2>3. EventAt(c, k).kind = "committed" /\ EventAt(c, k).cycle = c
    BY <1>1, <1>4, <2>1, EventParts
  <2> QED BY <2>2, <2>3 DEF Committed
<1>5. ASSUME NEW i \in DOMAIN P, P[i].cycle = c
      PROVE  /\ k # 0
             /\ P[i].kind = "committed" => k = Size(c)
  <2>1. i \in 1..Len(P)
    BY PartTypes
  <2>2. i - Len(L) \in 1..k /\ (P[i].kind = "committed" <=> i - Len(L) = Size(c))
    BY <1>5, <2>1, PartSplit
  <2> QED BY <1>1, <2>2
<1>6. ASSUME NEW i \in DOMAIN P, P[i].kind = "prepared", ~Committed(P, P[i].cycle)
      PROVE  k # 0 /\ k # Size(c)
  <2>1. CASE P[i].cycle = c
    BY <1>4, <1>5, <1>6, <2>1
  <2>2. CASE P[i].cycle # c
    <3>1. i \in DOMAIN L /\ P[i] = L[i]
      BY <2>2, PartSplit, PartTypes
    <3>2. Committed(L, L[i].cycle)
      BY <1>2, <1>6, <3>1 DEF Uncommitted
    <3>3. PICK j \in DOMAIN L : L[j].kind = "committed" /\ L[j].cycle = L[i].cycle
      BY <3>2 DEF Committed
    <3>4. j \in DOMAIN P /\ P[j] = L[j]
      BY PartTypes
    <3>5. Committed(P, P[i].cycle)
      BY <3>1, <3>3, <3>4 DEF Committed
    <3> QED BY <1>6, <3>5
  <2> QED BY <2>1, <2>2
<1>7. Prepared(P, c) => k # 0
  BY <1>5 DEF Prepared
<1>8. Committed(P, c) => k = Size(c)
  BY <1>5 DEF Committed
<1>9. Uncommitted(P) => k # 0 /\ k # Size(c)
  BY <1>6 DEF Uncommitted
<1> QED BY <1>3, <1>4, <1>7, <1>8, <1>9

\* Position j holds the last committed event of the log.
Heads(L, j) ==
  /\ j \in DOMAIN L /\ L[j].kind = "committed"
  /\ \A n \in DOMAIN L : L[n].kind = "committed" => n <= j

LEMMA HeadIs == ASSUME NEW L PROVE HeadCycle(L) = {L[j].cycle : j \in {n \in DOMAIN L : Heads(L, n)}}
BY DEF HeadCycle, Heads

LEMMA PartHead ==
  ASSUME NEW P, NEW L, NEW S, NEW c, NEW k, Under(P, L, S, c, k)
  PROVE  HeadCycle(P) = IF k = Size(c) THEN {c} ELSE LastOf(S)
<1>1. /\ c \in Cycles /\ k \in Nat /\ Size(c) \in Nat /\ 2 <= Size(c) /\ k <= Size(c)
      /\ Len(L) \in Nat /\ DOMAIN L = 1..Len(L) /\ DOMAIN P = 1..Len(P) /\ Len(P) = Len(L) + k
  BY PartTypes
<1>2. HeadCycle(L) = LastOf(S)
  BY DEF Under, Sound
<1>3. CASE k = Size(c)
  <2>1. k \in 1..k /\ k \in 1..Size(c)
    BY <1>1, <1>3
  <2>2. Len(L) + k \in DOMAIN P /\ P[Len(L) + k] = EventAt(c, k)
    BY <2>1, PartTypes
  <2>3. EventAt(c, k).kind = "committed" /\ EventAt(c, k).cycle = c
    BY <1>1, <1>3, <2>1, EventParts
  <2>4. PICK m : m = Len(L) + k
    OBVIOUS
  <2>5. Heads(P, m) /\ P[m].cycle = c /\ \A n \in DOMAIN P : Heads(P, n) => n = m
    BY <1>1, <2>2, <2>3, <2>4 DEF Heads
  <2>6. HeadCycle(P) = {c}
    BY <2>5, HeadIs DEF Heads
  <2> QED BY <1>3, <2>6
<1>4. CASE k # Size(c)
  <2>1. ASSUME NEW n \in DOMAIN P, P[n].kind = "committed"
        PROVE  n \in DOMAIN L /\ P[n] = L[n]
    <3>1. n \in 1..Len(P) /\ ~(n - Len(L) \in 1..k /\ n - Len(L) = Size(c))
      BY <1>1, <1>4
    <3> QED BY <2>1, <3>1, PartSplit
  <2>2. \A n \in DOMAIN L : n \in DOMAIN P /\ P[n] = L[n]
    BY PartTypes
  <2>3. \A n : Heads(P, n) <=> Heads(L, n)
    BY <2>1, <2>2 DEF Heads
  <2>4. HeadCycle(P) = HeadCycle(L)
    BY <2>2, <2>3, HeadIs DEF Heads
  <2> QED BY <1>2, <1>4, <2>4
<1> QED BY <1>3, <1>4

LEMMA HoldsAppend ==
  ASSUME NEW T, NEW S \in Seq(T), NEW c \in T, NEW e
  PROVE  Holds(Append(S, c), e) <=> Holds(S, e) \/ e = c
<1>1. /\ Append(S, c) \in Seq(T) /\ Len(Append(S, c)) = Len(S) + 1
      /\ \A i \in 1..Len(S) : Append(S, c)[i] = S[i]
      /\ Append(S, c)[Len(S) + 1] = c
      /\ DOMAIN S = 1..Len(S) /\ DOMAIN Append(S, c) = 1..(Len(S) + 1) /\ Len(S) \in Nat
  OBVIOUS
<1>2. PICK R : R = Append(S, c)
  OBVIOUS
<1>3. ASSUME NEW i \in DOMAIN R, R[i] = e PROVE Holds(S, e) \/ e = c
  <2>1. i \in 1..Len(S) \/ i = Len(S) + 1
    BY <1>1, <1>2
  <2> QED BY <1>1, <1>2, <1>3, <2>1 DEF Holds
<1>4. ASSUME NEW i \in DOMAIN S, S[i] = e PROVE Holds(R, e)
  <2>1. i \in DOMAIN R /\ R[i] = e
    BY <1>1, <1>2, <1>4
  <2> QED BY <2>1 DEF Holds
<1>5. Len(S) + 1 \in DOMAIN R /\ R[Len(S) + 1] = c
  BY <1>1, <1>2
<1>6. Holds(R, c)
  BY <1>5 DEF Holds
<1>7. Holds(R, e) => Holds(S, e) \/ e = c
  BY <1>3 DEF Holds
<1>8. Holds(S, e) => Holds(R, e)
  BY <1>4 DEF Holds
<1> QED BY <1>2, <1>6, <1>7, <1>8

LEMMA PartTotals ==
  ASSUME NEW P, NEW L, NEW S, NEW c, NEW k, Under(P, L, S, c, k), k = Size(c)
  PROVE  TotalsMatch(Append(S, c), P)
<1>1. /\ c \in Cycles /\ k \in Nat /\ Size(c) \in Nat /\ 2 <= Size(c)
      /\ Len(L) \in Nat /\ DOMAIN L = 1..Len(L) /\ DOMAIN P = 1..Len(P) /\ Len(P) = Len(L) + k
  BY PartTypes
<1>2. TotalsMatch(S, L) /\ ~Holds(S, c) /\ S \in Seq(Cycles)
  BY DEF Under, Sound
<1>3. ASSUME NEW e \in Cycles
      PROVE  BodyCount(P, e) = IF Holds(Append(S, c), e) THEN BodySize[e] ELSE 0
  <2>1. CASE e = c
    <3> DEFINE B == {i \in DOMAIN P : P[i].kind = "body" /\ P[i].cycle = c}
               lo == Len(L) + 2
               hi == Len(L) + Size(c) - 1
    <3>1. lo \in Int /\ hi \in Int
      BY <1>1
    <3>2. ASSUME NEW i \in B PROVE i \in lo..hi
      <4>1. i \in 1..Len(P) /\ P[i].kind = "body" /\ P[i].cycle = c
        BY <1>1
      <4>2. /\ i - Len(L) \in 1..k
            /\ P[i].kind = "prepared" <=> i - Len(L) = 1
            /\ P[i].kind = "committed" <=> i - Len(L) = Size(c)
        BY <4>1, PartSplit
      <4>3. i - Len(L) # 1 /\ i - Len(L) # Size(c)
        BY <4>1, <4>2
      <4> QED BY <1>1, <4>1, <4>2, <4>3
    <3>3. ASSUME NEW i \in lo..hi PROVE i \in B
      <4>1. PICK j : j = i - Len(L)
        OBVIOUS
      <4>2. j \in 1..k /\ j \in 1..Size(c) /\ j # 1 /\ j # Size(c) /\ Len(L) + j = i
        BY <1>1, <4>1
      <4>3. i \in DOMAIN P /\ P[i] = EventAt(c, j)
        BY <4>2, PartTypes
      <4>4. EventAt(c, j).kind = "body" /\ EventAt(c, j).cycle = c
        BY <4>2 DEF EventAt, Event
      <4> QED BY <4>3, <4>4
    <3>4. B = lo..hi
      <4> HIDE DEF B, lo, hi
      <4> QED BY <3>1, <3>2, <3>3
    <3>5. Cardinality(lo..hi) = BodySize[c]
      <4>1. Cardinality(lo..hi) = IF lo > hi THEN 0 ELSE hi - lo + 1
        <5> HIDE DEF lo, hi
        <5> QED BY <3>1, FS_Interval
      <4>2. BodySize[c] \in Nat
        BY <1>1, RuntimeStoreAssumption DEF Cycles
      <4>3. (IF lo > hi THEN 0 ELSE hi - lo + 1) = BodySize[c]
        BY SMTT(60), <1>1, <4>2 DEF Size
      <4> HIDE DEF lo, hi
      <4> QED BY <4>1, <4>3
    <3>6. BodyCount(P, c) = BodySize[c]
      <4>1. BodyCount(P, c) = Cardinality(B)
        BY DEF BodyCount
      <4> QED BY <3>4, <3>5, <4>1
    <3>7. Holds(Append(S, c), c)
      BY <1>1, <1>2, HoldsAppend
    <3> QED BY <2>1, <3>6, <3>7
  <2>2. CASE e # c
    <3>1. {i \in DOMAIN P : P[i].kind = "body" /\ P[i].cycle = e}
          = {i \in DOMAIN L : L[i].kind = "body" /\ L[i].cycle = e}
      <4>1. ASSUME NEW i \in DOMAIN P, P[i].cycle = e PROVE i \in DOMAIN L /\ P[i] = L[i]
        <5>1. i \in 1..Len(P)
          BY <1>1
        <5> QED BY <2>2, <4>1, <5>1, PartSplit
      <4>2. \A i \in DOMAIN L : i \in DOMAIN P /\ P[i] = L[i]
        BY PartTypes
      <4> QED BY <4>1, <4>2
    <3>2. BodyCount(P, e) = BodyCount(L, e)
      BY <3>1 DEF BodyCount
    <3>3. BodyCount(L, e) = IF Holds(S, e) THEN BodySize[e] ELSE 0
      BY <1>2 DEF TotalsMatch
    <3>4. Holds(Append(S, c), e) <=> Holds(S, e)
      BY <1>1, <1>2, <2>2, HoldsAppend
    <3> QED BY <3>2, <3>3, <3>4
  <2> QED BY <2>1, <2>2
<1> QED BY <1>3 DEF TotalsMatch

LEMMA PartSound ==
  ASSUME NEW P, NEW L, NEW S, NEW c, NEW k, Under(P, L, S, c, k), k = Size(c)
  PROVE  Sound(P, Append(S, c))
<1>1. c \in Cycles /\ S \in Seq(Cycles) /\ \A i \in DOMAIN L : Holds(S, L[i].cycle)
  BY DEF Under, Sound
<1>2. ASSUME NEW i \in DOMAIN P PROVE Holds(Append(S, c), P[i].cycle)
  <2>1. i \in 1..Len(P)
    BY PartTypes
  <2>2. P[i].cycle = c \/ Holds(S, P[i].cycle)
    BY <1>1, <2>1, PartSplit
  <2> QED BY <1>1, <2>2, HoldsAppend
<1>3. LastOf(Append(S, c)) = {c}
  BY <1>1 DEF LastOf
<1>4. Unrepeated(P) /\ Replayable(P) /\ ~Uncommitted(P)
  BY PartUnrepeated, PartReplayable, PartStages
<1>5. HeadCycle(P) = {c} /\ TotalsMatch(Append(S, c), P)
  BY PartHead, PartTotals
<1> QED BY <1>2, <1>3, <1>4, <1>5 DEF Sound

LEMMA SoundNone == Sound(<<>>, <<>>)
<1>1. HeadCycle(<<>>) = {} /\ LastOf(<<>>) = {}
  BY DEF HeadCycle, LastOf
<1>2. ASSUME NEW c \in Cycles PROVE BodyCount(<<>>, c) = 0 /\ ~Holds(<<>>, c)
  <2>1. {i \in DOMAIN <<>> : <<>>[i].kind = "body" /\ <<>>[i].cycle = c} = {}
    OBVIOUS
  <2> QED BY <2>1, FS_EmptySet DEF BodyCount, Holds
<1>3. TotalsMatch(<<>>, <<>>)
  BY <1>2 DEF TotalsMatch
<1> QED BY <1>1, <1>3 DEF Sound, Unrepeated, Replayable, Uncommitted

LEMMA SoundLedger ==
  ASSUME NEW S \in Seq(Cycles), Unrepeated(S)
  PROVE  LedgerOf(S) \in Logs /\ Sound(LedgerOf(S), S)
<1> DEFINE T == {n \in Nat : \A R \in Seq(Cycles) :
                   Len(R) = n /\ Unrepeated(R) => LedgerOf(R) \in Logs /\ Sound(LedgerOf(R), R)}
<1>1. 0 \in T
  <2>1. SUFFICES ASSUME NEW R \in Seq(Cycles), Len(R) = 0
                 PROVE  LedgerOf(R) \in Logs /\ Sound(LedgerOf(R), R)
    OBVIOUS
  <2>2. R = <<>>
    BY <2>1, EmptySeq
  <2>3. <<>> \in Logs
    BY EmptySeq DEF Logs
  <2> QED BY <2>2, <2>3, LedgerNone, SoundNone
<1>2. ASSUME NEW n \in Nat, NEW m \in Nat, n \in T, m = n + 1 PROVE m \in T
  <2>1. SUFFICES ASSUME NEW R \in Seq(Cycles), Len(R) = m, Unrepeated(R)
                 PROVE  LedgerOf(R) \in Logs /\ Sound(LedgerOf(R), R)
    OBVIOUS
  <2>2. PICK Q \in Seq(Cycles), c \in Cycles : R = Append(Q, c)
    BY SMTT(60), <1>2, <2>1, SequenceEmptyOrAppend
  <2>3. /\ Len(Q) = n /\ DOMAIN Q = 1..n /\ DOMAIN R = 1..m /\ R[m] = c
        /\ \A i \in 1..n : i \in 1..m /\ R[i] = Q[i]
    BY <1>2, <2>1, <2>2
  <2>4. Unrepeated(Q) /\ ~Holds(Q, c)
    BY <1>2, <2>1, <2>3 DEF Unrepeated, Holds
  <2>5. LedgerOf(Q) \in Logs /\ Sound(LedgerOf(Q), Q)
    BY <1>2, <2>3, <2>4
  <2>6. LedgerOf(R) = Part(LedgerOf(Q), c, Size(c))
    <3>1. LedgerOf(R) = LedgerOf(Q) \o EventsOf(c)
      BY <2>2, LedgerAppend, Zenon
    <3>2. Part(LedgerOf(Q), c, Size(c)) = LedgerOf(Q) \o EventsOf(c)
      BY <2>5, PartFull, Zenon
    <3> QED BY <3>1, <3>2, Zenon
  <2>7. Size(c) \in 0..Size(c)
    BY SizeType
  <2>8. Under(LedgerOf(R), LedgerOf(Q), Q, c, Size(c))
    BY <2>4, <2>5, <2>6, <2>7 DEF Under
  <2>9. LedgerOf(R) \in Logs
    BY <2>8, PartTypes
  <2> QED BY <2>2, <2>8, <2>9, PartSound
<1>3. Nat \subseteq T
  <2> HIDE DEF T
  <2> QED BY <1>1, <1>2, Inductive
<1> QED BY <1>3

-----------------------------------------------------------------------------
(* The inductive invariant *)

\* A cycle under way and what a rollback or roll-forward starts from.
Attempts == [cycle : Cycles, state : Seq(Cycles)]
Appends == [prior : Logs, event : Events]

Disks ==
  [journal : Logs, torn : SUBSET Events, snapshot : SUBSET Logs, pending : SUBSET Appends,
   anchor : Logs, state : Seq(Cycles), proof : SUBSET Attempts, cycle : SUBSET Attempts]

PartOf(q, k) == Part(LedgerOf(q.state), q.cycle, k)

\* The ledger's files: the head has what the journal has, or the pending file
\* says what the journal lacks and that nothing else follows it.
Covered(d, p) ==
  \/ d.anchor = p.prior /\ d.journal = p.prior /\ d.torn = {}
  \/ d.anchor = Target(p) /\ d.journal = p.prior /\ d.torn \subseteq {p.event}
  \/ d.anchor = Target(p) /\ d.journal = Target(p) /\ d.torn = {}

LedgerKept(d) ==
  \/ d.pending = {} /\ d.journal = d.anchor /\ d.torn = {} /\ SnapshotCurrent(d)
  \/ \E p \in d.pending : d.pending = {p} /\ Covered(d, p)

\* The proof of the last cycle taken in.
Proves(proof, state) ==
  IF state = <<>> THEN proof = {} ELSE \E q \in proof : proof = {q} /\ state = Taken(q)

\* The cycle q is under way, k of its events are under the head, and the state
\* has it only when all of them are.
UnderWay(d, q, k) ==
  /\ Unrepeated(q.state) /\ ~Holds(q.state, q.cycle)
  /\ d.anchor = PartOf(q, k)
  /\ \/ d.state = q.state /\ Proves(d.proof, q.state)
     \/ /\ d.state = Taken(q) /\ k = Size(q.cycle)
        /\ Proves(d.proof, q.state) \/ d.proof = {q}

BooksKept(d) ==
  \/ d.cycle = {} /\ Unrepeated(d.state) /\ d.anchor = LedgerOf(d.state) /\ Proves(d.proof, d.state)
  \/ \E q \in d.cycle : d.cycle = {q} /\ \E k \in 0..Size(q.cycle) : UnderWay(d, q, k)

\* Every cycle on disk is one that was minted.
Minted(d, n) ==
  /\ \A i \in DOMAIN d.state : d.state[i] <= n
  /\ \A q \in d.cycle : q.cycle <= n

\* ... and so is the one in memory.
Within(m, n) == \A q \in m.todo : q.cycle <= n

\* What is left of a recovery.
RecoveryLeft(d, plan) ==
  \/ plan = <<>> /\ d.pending = {}
  \/ \E p \in d.pending : d.pending = {p} /\
       \/ /\ d.anchor = p.prior
          /\ plan = <<Replace("snapshot", SnapshotOf(p.prior)), Replace("pending", {})>>
       \/ /\ d.anchor = p.prior /\ d.snapshot = SnapshotOf(p.prior)
          /\ plan = <<Replace("pending", {})>>
       \/ d.anchor = Target(p) /\ plan = RollforwardPlan(p)
       \/ /\ d.anchor = Target(p) /\ d.journal = Target(p) /\ d.torn = {}
          /\ plan = <<Replace("snapshot", SnapshotOf(Target(p))), Replace("pending", {})>>
       \/ /\ d.anchor = Target(p) /\ d.journal = Target(p) /\ d.torn = {}
          /\ d.snapshot = SnapshotOf(Target(p))
          /\ plan = <<Replace("pending", {})>>

\* What is left of appending e to the log J, before the head has it ...
HeadAhead(d, plan, J, e) ==
  /\ d.anchor = J
  /\ \/ d.pending = {} /\ plan =
          << Replace("pending", {PendingAppend(J, e)}), IfStill("anchor", J, "anchor", Append(J, e)),
             IfStill("journal", J, "torn", {e}), Replace("journal", Append(J, e)),
             Replace("snapshot", {Append(J, e)}), Replace("pending", {}) >>
     \/ d.pending = {PendingAppend(J, e)} /\ plan =
          << IfStill("anchor", J, "anchor", Append(J, e)),
             IfStill("journal", J, "torn", {e}), Replace("journal", Append(J, e)),
             Replace("snapshot", {Append(J, e)}), Replace("pending", {}) >>

\* ... and after.
HeadDone(d, plan, J, e) ==
  /\ d.anchor = Append(J, e)
  /\ \/ d.pending = {PendingAppend(J, e)} /\ d.journal = J /\ d.torn = {} /\ plan =
          << IfStill("journal", J, "torn", {e}), Replace("journal", Append(J, e)),
             Replace("snapshot", {Append(J, e)}), Replace("pending", {}) >>
     \/ d.pending = {PendingAppend(J, e)} /\ plan =
          << Replace("journal", Append(J, e)), Replace("snapshot", {Append(J, e)}),
             Replace("pending", {}) >>
     \/ d.pending = {PendingAppend(J, e)} /\ d.journal = Append(J, e) /\ d.torn = {} /\ plan =
          << Replace("snapshot", {Append(J, e)}), Replace("pending", {}) >>
     \/ /\ d.pending = {PendingAppend(J, e)} /\ d.journal = Append(J, e) /\ d.torn = {}
        /\ d.snapshot = {Append(J, e)} /\ plan = << Replace("pending", {}) >>

\* The runtime appends the event n of the cycle q.
Appending(d, plan, q, n) ==
  /\ n \in 1..Size(q.cycle)
  /\ \/ plan = <<>> /\ d.pending = {} /\ \E k \in n..Size(q.cycle) : d.anchor = PartOf(q, k)
     \/ HeadAhead(d, plan, PartOf(q, n - 1), EventAt(q.cycle, n))
     \/ HeadDone(d, plan, PartOf(q, n - 1), EventAt(q.cycle, n))

\* The runtime is past opening: it has the ledger that is there.
Opened(d, r) == d.pending = {} /\ r.view = d.anchor

\* The cycle q is written ahead, or about to be.
Committing(d, plan, q) ==
  \/ plan = <<>> /\ d.cycle = {q}
  \/ /\ plan = <<Replace("cycle", {q})>> /\ d.cycle = {}
     /\ q.state = d.state /\ ~Holds(q.state, q.cycle)

Publishing(d, plan, q) ==
  /\ d.anchor = PartOf(q, Size(q.cycle))
  /\ \/ d.cycle = {q} /\ plan = CommitPlan(q)
     \/ /\ d.cycle = {q} /\ d.state = Taken(q)
        /\ plan = <<Replace("proof", {q}), Replace("cycle", {})>>
     \/ d.cycle = {q} /\ d.state = Taken(q) /\ d.proof = {q} /\ plan = <<Replace("cycle", {})>>
     \/ d.cycle = {} /\ d.state = Taken(q) /\ plan = <<>>

\* An attempt that no record of the ledger knows is dropped.
Dropping(d, plan) ==
  \/ plan = <<>> /\ d.cycle = {}
  \/ plan = <<Replace("cycle", {})>> /\ \E q \in d.cycle :
       d.cycle = {q} /\ d.state = q.state /\ d.anchor = LedgerOf(q.state)

RuntimeKept(d, r, m, h) ==
  \/ r.pc \in {"idle", "gone"} /\ r.plan = <<>>
  \/ r.pc = "opening" /\ r.plan = <<>> /\ m.state = d.state
  \/ r.pc = "recovering" /\ RecoveryLeft(d, r.plan) /\ m.state = d.state /\ h = {"runtime"}
  \/ r.pc = "resuming" /\ r.plan = <<>> /\ Opened(d, r) /\ m.state = d.state
  \/ /\ r.pc = "committing" /\ Opened(d, r)
     /\ \E q \in Attempts \cap m.todo : m.todo = {q} /\ Committing(d, r.plan, q)
  \/ /\ r.pc = "appending" /\ r.plan = <<>> /\ Opened(d, r)
     /\ \E q \in d.cycle : \E k \in 0..Size(q.cycle) :
          d.cycle = {q} /\ m.todo = {q} /\ d.anchor = PartOf(q, k) /\ m.next \in 1..(k + 1)
  \/ /\ r.pc = "writing" /\ h = {"runtime"}
     /\ \E q \in d.cycle : d.cycle = {q} /\ m.todo = {q} /\ Appending(d, r.plan, q, m.next)
  \/ /\ r.pc = "publishing" /\ Opened(d, r)
     /\ \E q \in Attempts \cap m.todo : m.todo = {q} /\ Publishing(d, r.plan, q)
  \/ r.pc = "checking" /\ Opened(d, r) /\ m.state = d.state /\ Dropping(d, r.plan)
  \/ r.pc = "ready" /\ r.plan = <<>> /\ Opened(d, r) /\ m.state = d.state /\ d.cycle = {}

BackupKept(d, b, g, h) ==
  \/ b.pc \in {"idle", "gone", "opening", "refused"} /\ b.plan = <<>>
  \/ b.pc = "recovering" /\ RecoveryLeft(d, b.plan) /\ h = {"backup"}
  \/ b.pc = "checkpointing" /\ RecoveryLeft(d, b.plan) /\ h = {"backup"} /\ Prefix(b.view, d.anchor)
  \/ /\ b.pc = "checkpointed" /\ d.pending = {} /\ b.view = d.anchor /\ h = {"backup"}
     /\ b.plan = <<>> \/ b.plan = <<Replace("snapshot", {b.view})>>
  \/ /\ b.pc \in {"opened", "anchored", "journaled", "staging"} /\ b.plan = <<>>
     /\ Prefix(b.view, d.anchor)
  \/ /\ b.pc = "exporting" /\ b.plan = <<>>
     /\ Opens(g) /\ g.journal \in Logs /\ Prefix(g.journal, d.anchor)

BundlesKept(d, bs) ==
  \A x \in bs : Opens(x) /\ x.journal \in Logs /\ Prefix(x.journal, d.anchor)

Tallies == [cycles : 0..MaxCycles, crashes : Nat, backups : Nat]

Shaped(P) ==
  /\ P = [p \in Procs |-> [pc |-> P[p].pc, plan |-> P[p].plan, view |-> P[p].view]]
  /\ \A p \in Procs : P[p].view \in Logs

Remembered(m) ==
  /\ m = [state |-> m.state, todo |-> m.todo, next |-> m.next, opened |-> m.opened]
  /\ m.state \in Seq(Cycles)

IInv ==
  /\ disk \in Disks
  /\ Shaped(proc)
  /\ Remembered(run)
  /\ tally \in Tallies
  /\ LedgerKept(disk)
  /\ BooksKept(disk)
  /\ Minted(disk, tally.cycles)
  /\ Within(run, tally.cycles)
  /\ RuntimeKept(disk, proc["runtime"], run, holder)
  /\ BackupKept(disk, proc["backup"], grab, holder)
  /\ BundlesKept(disk, bundles)

-----------------------------------------------------------------------------
(* One write *)

\* d2 is d but for the named files.
SameLedger(d2, d) ==
  /\ d2.journal = d.journal /\ d2.torn = d.torn /\ d2.snapshot = d.snapshot
  /\ d2.pending = d.pending /\ d2.anchor = d.anchor

SameBooks(d2, d) == d2.state = d.state /\ d2.proof = d.proof /\ d2.cycle = d.cycle

LEMMA PutJournal ==
  ASSUME NEW d \in Disks, NEW x \in Logs, NEW d2, d2 = Put(d, Replace("journal", x))
  PROVE  /\ InTime(d, Replace("journal", x))
         /\ d2 \in Disks /\ SameBooks(d2, d)
         /\ d2.journal = x /\ d2.torn = {}
         /\ d2.snapshot = d.snapshot /\ d2.pending = d.pending /\ d2.anchor = d.anchor
BY DEF Put, Replace, InTime, Disks, SameBooks

LEMMA PutSnapshot ==
  ASSUME NEW d \in Disks, NEW x \in SUBSET Logs, NEW d2, d2 = Put(d, Replace("snapshot", x))
  PROVE  /\ InTime(d, Replace("snapshot", x))
         /\ d2 \in Disks /\ SameBooks(d2, d)
         /\ d2.snapshot = x
         /\ d2.journal = d.journal /\ d2.torn = d.torn /\ d2.pending = d.pending /\ d2.anchor = d.anchor
BY DEF Put, Replace, InTime, Disks, SameBooks

LEMMA PutPending ==
  ASSUME NEW d \in Disks, NEW x \in SUBSET Appends, NEW d2, d2 = Put(d, Replace("pending", x))
  PROVE  /\ InTime(d, Replace("pending", x))
         /\ d2 \in Disks /\ SameBooks(d2, d)
         /\ d2.pending = x
         /\ d2.journal = d.journal /\ d2.torn = d.torn /\ d2.snapshot = d.snapshot /\ d2.anchor = d.anchor
BY DEF Put, Replace, InTime, Disks, SameBooks

LEMMA PutAnchor ==
  ASSUME NEW d \in Disks, NEW x \in Logs, NEW J, d.anchor = J,
         NEW d2, d2 = Put(d, IfStill("anchor", J, "anchor", x))
  PROVE  /\ InTime(d, IfStill("anchor", J, "anchor", x))
         /\ d2 \in Disks /\ SameBooks(d2, d)
         /\ d2.anchor = x
         /\ d2.journal = d.journal /\ d2.torn = d.torn /\ d2.snapshot = d.snapshot /\ d2.pending = d.pending
BY DEF Put, IfStill, InTime, Disks, SameBooks

LEMMA PutState ==
  ASSUME NEW d \in Disks, NEW x \in Seq(Cycles), NEW d2, d2 = Put(d, Replace("state", x))
  PROVE  /\ InTime(d, Replace("state", x))
         /\ d2 \in Disks /\ SameLedger(d2, d)
         /\ d2.state = x /\ d2.proof = d.proof /\ d2.cycle = d.cycle
BY DEF Put, Replace, InTime, Disks, SameLedger

LEMMA PutProof ==
  ASSUME NEW d \in Disks, NEW x \in SUBSET Attempts, NEW d2, d2 = Put(d, Replace("proof", x))
  PROVE  /\ InTime(d, Replace("proof", x))
         /\ d2 \in Disks /\ SameLedger(d2, d)
         /\ d2.proof = x /\ d2.state = d.state /\ d2.cycle = d.cycle
BY DEF Put, Replace, InTime, Disks, SameLedger

LEMMA PutCycle ==
  ASSUME NEW d \in Disks, NEW x \in SUBSET Attempts, NEW d2, d2 = Put(d, Replace("cycle", x))
  PROVE  /\ InTime(d, Replace("cycle", x))
         /\ d2 \in Disks /\ SameLedger(d2, d)
         /\ d2.cycle = x /\ d2.state = d.state /\ d2.proof = d.proof
BY DEF Put, Replace, InTime, Disks, SameLedger

LEMMA DiskTypes ==
  ASSUME NEW d \in Disks
  PROVE  /\ d.journal \in Logs /\ d.torn \subseteq Events /\ d.snapshot \subseteq Logs
         /\ d.pending \subseteq Appends /\ d.anchor \in Logs
         /\ d.state \in Seq(Cycles) /\ d.proof \subseteq Attempts /\ d.cycle \subseteq Attempts
         /\ \A p \in d.pending : /\ p.prior \in Logs /\ p.event \in Events /\ Target(p) \in Logs
                                 /\ p = PendingAppend(p.prior, p.event)
                                 /\ Target(p) # p.prior /\ Target(p) # <<>>
         /\ \A q \in d.cycle : q.cycle \in Cycles /\ q.state \in Seq(Cycles)
<1>1. ASSUME NEW p \in Appends
      PROVE  /\ p.prior \in Logs /\ p.event \in Events /\ Target(p) \in Logs
             /\ p = PendingAppend(p.prior, p.event)
             /\ Target(p) # p.prior /\ Target(p) # <<>>
  <2>1. p.prior \in Logs /\ p.event \in Events /\ p = PendingAppend(p.prior, p.event)
    BY DEF Appends, PendingAppend
  <2>2. Target(p) \in Logs /\ Target(p) # <<>> /\ Len(Target(p)) = Len(p.prior) + 1
    BY <2>1, AppendProperties DEF Target, Logs
  <2>3. Len(p.prior) \in Nat
    BY <2>1 DEF Logs
  <2> QED BY <2>1, <2>2, <2>3
<1>2. ASSUME NEW q \in Attempts PROVE q.cycle \in Cycles /\ q.state \in Seq(Cycles)
  BY DEF Attempts
<1> QED BY <1>1, <1>2 DEF Disks

-----------------------------------------------------------------------------
(* Recovering *)

LEMMA WayUnder ==
  ASSUME NEW d, NEW q \in Attempts, NEW k \in 0..Size(q.cycle), UnderWay(d, q, k)
  PROVE  Under(d.anchor, LedgerOf(q.state), q.state, q.cycle, k)
<1>1. q.cycle \in Cycles /\ q.state \in Seq(Cycles)
  BY DEF Attempts
<1>2. LedgerOf(q.state) \in Logs /\ Sound(LedgerOf(q.state), q.state)
  BY <1>1, SoundLedger DEF UnderWay
<1> QED BY <1>1, <1>2 DEF Under, UnderWay, PartOf

LEMMA AnchorSound ==
  ASSUME NEW d \in Disks, BooksKept(d)
  PROVE  Replayable(d.anchor) /\ Unrepeated(d.anchor)
<1>1. CASE d.cycle = {} /\ Unrepeated(d.state) /\ d.anchor = LedgerOf(d.state)
  BY <1>1, DiskTypes, SoundLedger DEF Sound
<1>2. ASSUME NEW q \in d.cycle, NEW k \in 0..Size(q.cycle), UnderWay(d, q, k)
      PROVE  Replayable(d.anchor) /\ Unrepeated(d.anchor)
  <2>1. q \in Attempts
    BY DiskTypes
  <2> QED BY <1>2, <2>1, WayUnder, PartUnrepeated, PartReplayable
<1> QED BY <1>1, <1>2 DEF BooksKept

LEMMA TheOne == ASSUME NEW x PROVE The({x}) = x
BY DEF The

\* What recovering keeps is what the head covers, and the plan to recover is
\* one that RecoveryLeft knows.
LEMMA RecoveryBegins ==
  ASSUME NEW d \in Disks, LedgerKept(d), BooksKept(d)
  PROVE  /\ Recoverable(d)
         /\ Recovered(d).journal = d.anchor
         /\ Opens(Recovered(d))
         /\ RecoveryLeft(d, RecoveryPlan(d))
         /\ d.pending = {} => RecoveryPlan(d) = <<>> /\ Recovered(d) = d /\ Opens(d)
<1>1. Replayable(d.anchor) /\ Unrepeated(d.anchor)
  BY AnchorSound
<1>2. CASE d.pending = {}
  <2>1. d.journal = d.anchor /\ d.torn = {} /\ SnapshotCurrent(d)
    BY <1>2 DEF LedgerKept
  <2>2. Opens(d)
    BY <1>1, <2>1 DEF Opens, Whole, HeadMatches
  <2> QED BY <1>2, <2>1, <2>2 DEF Recoverable, Recovered, RecoveryPlan, RecoveryLeft
<1>3. ASSUME NEW p \in d.pending, d.pending = {p}, Covered(d, p)
      PROVE  /\ Recoverable(d)
             /\ Recovered(d).journal = d.anchor
             /\ Opens(Recovered(d))
             /\ RecoveryLeft(d, RecoveryPlan(d))
             /\ d.pending # {}
  <2>1. The(d.pending) = p
    BY <1>3, TheOne
  <2>2. p.prior \in Logs /\ Target(p) \in Logs /\ Target(p) # p.prior /\ Target(p) # <<>>
    BY DiskTypes
  <2>3. Recoverable(d)
    BY <1>3 DEF Recoverable, TailExplained, Covered
  <2>4. d.anchor \in {p.prior, Target(p)}
    BY <1>3 DEF Covered
  <2>5. PICK R : R = Recovered(d)
    OBVIOUS
  <2>6. /\ R.journal = d.anchor /\ R.torn = {} /\ R.anchor = d.anchor
        /\ R.snapshot = SnapshotOf(d.anchor)
    BY <1>3, <2>1, <2>2, <2>4, <2>5 DEF Recovered, RollsBack, Disks
  <2>7. SnapshotCurrent(R)
    BY <2>6 DEF SnapshotCurrent, SnapshotOf
  <2>8. Opens(R)
    BY <1>1, <2>6, <2>7 DEF Opens, Whole, HeadMatches
  <2>9. RecoveryLeft(d, RecoveryPlan(d))
    <3>1. CASE d.anchor = p.prior
      <4>1. d.journal = p.prior /\ d.torn = {}
        BY <1>3, <2>2, <3>1 DEF Covered
      <4>2. RecoveryPlan(d) = RollbackPlan(d, p)
        BY <1>3, <2>1, <3>1 DEF RecoveryPlan, RollsBack
      <4>3. RollbackPlan(d, p) = <<Replace("snapshot", SnapshotOf(p.prior)), Replace("pending", {})>>
        BY <4>1 DEF RollbackPlan, JournalTouched
      <4> QED BY <1>3, <3>1, <4>2, <4>3, Zenon DEF RecoveryLeft
    <3>2. CASE d.anchor = Target(p)
      <4>1. RecoveryPlan(d) = RollforwardPlan(p)
        BY <1>3, <2>1, <2>2, <3>2 DEF RecoveryPlan, RollsBack
      <4> QED BY <1>3, <3>2, <4>1, Zenon DEF RecoveryLeft
    <3> QED BY <2>4, <3>1, <3>2
  <2> QED BY <1>3, <2>3, <2>5, <2>6, <2>8, <2>9
<1> QED BY <1>2, <1>3 DEF LedgerKept

LEMMA PlanSteps ==
  /\ \A a : <<a>> # <<>> /\ Head(<<a>>) = a /\ Tail(<<a>>) = <<>>
  /\ \A a, b : <<a, b>> # <<>> /\ Head(<<a, b>>) = a /\ Tail(<<a, b>>) = <<b>>
  /\ \A a, b, c : <<a, b, c>> # <<>> /\ Head(<<a, b, c>>) = a /\ Tail(<<a, b, c>>) = <<b, c>>
  /\ \A a, b, c, d : <<a, b, c, d>> # <<>> /\ Head(<<a, b, c, d>>) = a
                     /\ Tail(<<a, b, c, d>>) = <<b, c, d>>
  /\ \A a, b, c, d, e : <<a, b, c, d, e>> # <<>> /\ Head(<<a, b, c, d, e>>) = a
                        /\ Tail(<<a, b, c, d, e>>) = <<b, c, d, e>>
  /\ \A a, b, c, d, e, f : <<a, b, c, d, e, f>> # <<>> /\ Head(<<a, b, c, d, e, f>>) = a
                           /\ Tail(<<a, b, c, d, e, f>>) = <<b, c, d, e, f>>
OBVIOUS

LEMMA SnapshotOfLog == ASSUME NEW L \in Logs PROVE SnapshotOf(L) \in SUBSET Logs
BY DEF SnapshotOf

\* One write of a recovery, whoever makes it.
LEMMA RecoveryStep ==
  ASSUME NEW d \in Disks, LedgerKept(d), NEW plan, RecoveryLeft(d, plan), plan # <<>>,
         NEW d2, d2 = Put(d, Head(plan))
  PROVE  /\ InTime(d, Head(plan))
         /\ d2 \in Disks /\ SameBooks(d2, d) /\ d2.anchor = d.anchor
         /\ LedgerKept(d2) /\ RecoveryLeft(d2, Tail(plan))
         /\ d.pending # {}
<1>1. PICK p \in d.pending : /\ d.pending = {p} /\ Covered(d, p)
  BY DEF LedgerKept, RecoveryLeft
<1>2. /\ d.pending # {}
      /\ p.prior \in Logs /\ Target(p) \in Logs /\ Target(p) # p.prior /\ Target(p) # <<>>
      /\ SnapshotOf(p.prior) \in SUBSET Logs /\ SnapshotOf(Target(p)) \in SUBSET Logs
      /\ {} \in SUBSET Appends
  BY <1>1, DiskTypes, SnapshotOfLog
<1>3. \A x \in Logs : SnapshotOf(x) = {x} \/ (SnapshotOf(x) = {} /\ x = <<>>)
  BY DEF SnapshotOf
<1>4. CASE /\ d.anchor = p.prior
           /\ plan = <<Replace("snapshot", SnapshotOf(p.prior)), Replace("pending", {})>>
  <2>1. /\ Head(plan) = Replace("snapshot", SnapshotOf(p.prior))
        /\ Tail(plan) = <<Replace("pending", {})>>
    BY <1>4, PlanSteps, Zenon
  <2>2. /\ InTime(d, Head(plan)) /\ d2 \in Disks /\ SameBooks(d2, d)
        /\ d2.snapshot = SnapshotOf(p.prior)
        /\ d2.journal = d.journal /\ d2.torn = d.torn /\ d2.pending = d.pending /\ d2.anchor = d.anchor
    BY <1>2, <2>1, PutSnapshot
  <2>3. Covered(d2, p) /\ d2.pending = {p}
    BY <1>1, <2>2 DEF Covered
  <2>4. LedgerKept(d2)
    BY <2>3 DEF LedgerKept
  <2>5. RecoveryLeft(d2, Tail(plan))
    BY <1>4, <2>1, <2>2, <2>3 DEF RecoveryLeft
  <2> QED BY <1>2, <2>2, <2>4, <2>5
<1>5. CASE /\ \/ d.anchor = p.prior /\ d.snapshot = SnapshotOf(p.prior)
              \/ /\ d.anchor = Target(p) /\ d.journal = Target(p) /\ d.torn = {}
                 /\ d.snapshot = SnapshotOf(Target(p))
           /\ plan = <<Replace("pending", {})>>
  <2>1. Head(plan) = Replace("pending", {}) /\ Tail(plan) = <<>>
    BY <1>5, PlanSteps, Zenon
  <2>2. /\ InTime(d, Head(plan)) /\ d2 \in Disks /\ SameBooks(d2, d)
        /\ d2.pending = {}
        /\ d2.journal = d.journal /\ d2.torn = d.torn /\ d2.snapshot = d.snapshot /\ d2.anchor = d.anchor
    BY <1>2, <2>1, PutPending
  <2>3. d.journal = d.anchor /\ d.torn = {} /\ d.snapshot = SnapshotOf(d.anchor)
    BY <1>1, <1>2, <1>5 DEF Covered
  <2>4. LedgerKept(d2)
    BY <1>2, <1>3, <2>2, <2>3, DiskTypes DEF LedgerKept, SnapshotCurrent
  <2>5. RecoveryLeft(d2, Tail(plan))
    BY <2>1, <2>2 DEF RecoveryLeft
  <2> QED BY <1>2, <2>2, <2>4, <2>5
<1>6. CASE d.anchor = Target(p) /\ plan = RollforwardPlan(p)
  <2>1. /\ Head(plan) = Replace("journal", Target(p))
        /\ Tail(plan) = <<Replace("snapshot", SnapshotOf(Target(p))), Replace("pending", {})>>
    <3>1. plan = << Replace("journal", Target(p)), Replace("snapshot", SnapshotOf(Target(p))),
                    Replace("pending", {}) >>
      BY <1>6 DEF RollforwardPlan
    <3> QED BY <3>1
  <2>2. /\ InTime(d, Head(plan)) /\ d2 \in Disks /\ SameBooks(d2, d)
        /\ d2.journal = Target(p) /\ d2.torn = {}
        /\ d2.snapshot = d.snapshot /\ d2.pending = d.pending /\ d2.anchor = d.anchor
    BY <1>2, <2>1, PutJournal
  <2>3. Covered(d2, p) /\ d2.pending = {p}
    BY <1>1, <1>6, <2>2 DEF Covered
  <2>4. LedgerKept(d2)
    BY <2>3 DEF LedgerKept
  <2>5. RecoveryLeft(d2, Tail(plan))
    BY <1>6, <2>1, <2>2, <2>3 DEF RecoveryLeft
  <2> QED BY <1>2, <2>2, <2>4, <2>5
<1>7. CASE /\ d.anchor = Target(p) /\ d.journal = Target(p) /\ d.torn = {}
           /\ plan = <<Replace("snapshot", SnapshotOf(Target(p))), Replace("pending", {})>>
  <2>1. /\ Head(plan) = Replace("snapshot", SnapshotOf(Target(p)))
        /\ Tail(plan) = <<Replace("pending", {})>>
    BY <1>7, PlanSteps, Zenon
  <2>2. /\ InTime(d, Head(plan)) /\ d2 \in Disks /\ SameBooks(d2, d)
        /\ d2.snapshot = SnapshotOf(Target(p))
        /\ d2.journal = d.journal /\ d2.torn = d.torn /\ d2.pending = d.pending /\ d2.anchor = d.anchor
    BY <1>2, <2>1, PutSnapshot
  <2>3. Covered(d2, p) /\ d2.pending = {p}
    BY <1>1, <2>2 DEF Covered
  <2>4. LedgerKept(d2)
    BY <2>3 DEF LedgerKept
  <2>5. RecoveryLeft(d2, Tail(plan))
    BY <1>7, <2>1, <2>2, <2>3 DEF RecoveryLeft
  <2> QED BY <1>2, <2>2, <2>4, <2>5
<1>8. \/ d.anchor = p.prior /\
           plan = <<Replace("snapshot", SnapshotOf(p.prior)), Replace("pending", {})>>
      \/ /\ \/ d.anchor = p.prior /\ d.snapshot = SnapshotOf(p.prior)
            \/ /\ d.anchor = Target(p) /\ d.journal = Target(p) /\ d.torn = {}
               /\ d.snapshot = SnapshotOf(Target(p))
         /\ plan = <<Replace("pending", {})>>
      \/ d.anchor = Target(p) /\ plan = RollforwardPlan(p)
      \/ /\ d.anchor = Target(p) /\ d.journal = Target(p) /\ d.torn = {}
         /\ plan = <<Replace("snapshot", SnapshotOf(Target(p))), Replace("pending", {})>>
  <2>1. PICK r \in d.pending : d.pending = {r} /\
           \/ /\ d.anchor = r.prior
              /\ plan = <<Replace("snapshot", SnapshotOf(r.prior)), Replace("pending", {})>>
           \/ /\ d.anchor = r.prior /\ d.snapshot = SnapshotOf(r.prior)
              /\ plan = <<Replace("pending", {})>>
           \/ d.anchor = Target(r) /\ plan = RollforwardPlan(r)
           \/ /\ d.anchor = Target(r) /\ d.journal = Target(r) /\ d.torn = {}
              /\ plan = <<Replace("snapshot", SnapshotOf(Target(r))), Replace("pending", {})>>
           \/ /\ d.anchor = Target(r) /\ d.journal = Target(r) /\ d.torn = {}
              /\ d.snapshot = SnapshotOf(Target(r))
              /\ plan = <<Replace("pending", {})>>
    BY Zenon DEF RecoveryLeft
  <2>2. r = p
    BY <1>1, <2>1
  <2> HIDE DEF RollforwardPlan
  <2> QED BY <2>1, <2>2, Zenon
<1> QED BY <1>4, <1>5, <1>6, <1>7, <1>8

-----------------------------------------------------------------------------
(* Appending the next event of a cycle *)

LEMMA PartOfFacts ==
  ASSUME NEW q \in Attempts
  PROVE  /\ q.cycle \in Cycles /\ q.state \in Seq(Cycles) /\ LedgerOf(q.state) \in Logs
         /\ Size(q.cycle) \in Nat /\ 2 <= Size(q.cycle)
         /\ Taken(q) \in Seq(Cycles) /\ Taken(q) # q.state /\ Taken(q) # <<>>
         /\ PartOf(q, 0) = LedgerOf(q.state)
         /\ PartOf(q, Size(q.cycle)) = LedgerOf(Taken(q))
         /\ \A k \in 0..Size(q.cycle) : PartOf(q, k) \in Logs
         /\ \A n \in 1..Size(q.cycle) : /\ PartOf(q, n) = Append(PartOf(q, n - 1), EventAt(q.cycle, n))
                                        /\ EventAt(q.cycle, n) \in Events
<1>1. q.cycle \in Cycles /\ q.state \in Seq(Cycles)
  BY DEF Attempts
<1>2. LedgerOf(q.state) \in Logs /\ LedgerOf(Taken(q)) = LedgerOf(q.state) \o EventsOf(q.cycle)
  BY <1>1, LedgerAppend, Zenon DEF Taken
<1>3. Size(q.cycle) \in Nat /\ 2 <= Size(q.cycle)
  BY <1>1, SizeType
<1>4. Taken(q) \in Seq(Cycles) /\ Taken(q) # <<>> /\ Len(Taken(q)) = Len(q.state) + 1 /\ Len(q.state) \in Nat
  BY <1>1, AppendProperties DEF Taken
<1>5. PartOf(q, 0) = LedgerOf(q.state) /\ PartOf(q, Size(q.cycle)) = LedgerOf(Taken(q))
  <2>1. Part(LedgerOf(q.state), q.cycle, 0) = LedgerOf(q.state)
    BY <1>1, <1>2, PartFull
  <2>2. Part(LedgerOf(q.state), q.cycle, Size(q.cycle)) = LedgerOf(q.state) \o EventsOf(q.cycle)
    BY <1>1, <1>2, PartFull, Zenon
  <2> QED BY <1>2, <2>1, <2>2, Zenon DEF PartOf
<1>6. \A k \in 0..Size(q.cycle) : PartOf(q, k) \in Logs
  BY <1>1, <1>2, PartAt DEF PartOf
<1>7. ASSUME NEW n \in 1..Size(q.cycle)
      PROVE  /\ PartOf(q, n) = Append(PartOf(q, n - 1), EventAt(q.cycle, n))
             /\ EventAt(q.cycle, n) \in Events
  <2>1. PICK m : m = n - 1
    OBVIOUS
  <2>2. m \in 0..Size(q.cycle) /\ m # Size(q.cycle) /\ m + 1 = n
    BY <1>3, <2>1
  <2>3. Part(LedgerOf(q.state), q.cycle, m + 1)
        = Append(Part(LedgerOf(q.state), q.cycle, m), EventAt(q.cycle, m + 1))
    BY <1>1, <1>2, <2>2, PartNext
  <2>4. PartOf(q, n) = Append(PartOf(q, m), EventAt(q.cycle, n))
    BY <2>2, <2>3 DEF PartOf
  <2> QED BY <1>1, <2>1, <2>4, EventsAt
<1> QED BY <1>1, <1>2, <1>3, <1>4, <1>5, <1>6, <1>7

\* The runtime opens an append: the event is already there, or it is the next.
LEMMA AppendBegins ==
  ASSUME NEW d \in Disks, LedgerKept(d), BooksKept(d), d.pending = {},
         NEW q \in d.cycle, d.cycle = {q}, NEW k \in 0..Size(q.cycle), d.anchor = PartOf(q, k),
         NEW n \in 1..Size(q.cycle), n <= k + 1
  PROVE  /\ Appendable(d, EventsOf(q.cycle)[n])
         /\ Appending(d, AppendPlan(d, EventsOf(q.cycle)[n]), q, n)
<1> DEFINE e == EventAt(q.cycle, n)
<1>1. q \in Attempts
  BY DiskTypes
<1>2. /\ q.cycle \in Cycles /\ Size(q.cycle) \in Nat
      /\ PartOf(q, n) = Append(PartOf(q, n - 1), e) /\ e \in Events
  BY <1>1, PartOfFacts
<1>3. EventsOf(q.cycle)[n] = e
  BY <1>2, EventsAt
<1>4. /\ Recoverable(d) /\ Opens(d) /\ RecoveryPlan(d) = <<>> /\ Recovered(d) = d
      /\ d.journal = d.anchor
  BY RecoveryBegins
<1>5. PICK j \in 0..Size(q.cycle) : UnderWay(d, q, j)
  BY <1>1 DEF BooksKept
<1>6. Under(d.anchor, LedgerOf(q.state), q.state, q.cycle, j)
  BY <1>1, <1>5, WayUnder
<1>7. j = k
  <2>1. PartOf(q, j) = PartOf(q, k)
    BY <1>5 DEF UnderWay
  <2>2. /\ Len(PartOf(q, j)) = Len(LedgerOf(q.state)) + j
        /\ Len(PartOf(q, k)) = Len(LedgerOf(q.state)) + k
        /\ Len(LedgerOf(q.state)) \in Nat
    BY SMTT(60), <1>1, PartOfFacts, PartAt DEF PartOf, Logs
  <2> QED BY <2>1, <2>2
<1>8. Holds(d.anchor, e) <=> n <= k
  BY <1>6, <1>7, PartHolds
<1>9. AppendPlan(d, e) = <<>> \o IF Holds(d.anchor, e) THEN <<>> ELSE WriteAhead(d, e)
  BY <1>4, Zenon DEF AppendPlan
<1> HIDE DEF e
<1>10. CASE n <= k
  <2>1. Holds(d.anchor, e)
    BY <1>8, <1>10
  <2>2. AppendPlan(d, e) = <<>>
    BY <1>9, <2>1
  <2>3. k \in n..Size(q.cycle)
    BY <1>2, <1>10
  <2>4. Appending(d, <<>>, q, n)
    BY <2>3 DEF Appending
  <2> QED BY <1>3, <1>4, <2>1, <2>2, <2>4 DEF Appendable
<1>11. CASE ~(n <= k)
  <2>1. n = k + 1 /\ n - 1 = k
    BY <1>2, <1>11
  <2>2. ~Holds(d.anchor, e)
    BY <1>8, <1>11
  <2>3. AppendPlan(d, e) = WriteAhead(d, e)
    <3>1. AppendPlan(d, e) = <<>> \o WriteAhead(d, e)
      BY <1>9, <2>2
    <3> QED BY <3>1 DEF WriteAhead
  <2>4. HeadAhead(d, WriteAhead(d, e), PartOf(q, n - 1), e)
    BY <1>4, <2>1 DEF HeadAhead, WriteAhead
  <2>5. Replayable(Append(d.anchor, e))
    <3>1. PICK D : D = [d EXCEPT !.anchor = PartOf(q, n)]
      OBVIOUS
    <3>2. D.anchor = PartOf(q, n) /\ n \in 0..Size(q.cycle)
      BY <1>2, <3>1 DEF Disks
    <3>3. Under(D.anchor, LedgerOf(q.state), q.state, q.cycle, n)
      BY <1>6, <3>2 DEF Under, PartOf
    <3>4. Replayable(D.anchor)
      BY <3>3, PartReplayable
    <3> QED BY <1>2, <2>1, <3>2, <3>4
  <2>6. Appending(d, WriteAhead(d, e), q, n)
    BY <2>4 DEF Appending, e
  <2> QED BY <1>3, <1>4, <2>3, <2>5, <2>6 DEF Appendable
<1> QED BY <1>10, <1>11

\* One write of an append.
LEMMA AppendStep ==
  ASSUME NEW d \in Disks, LedgerKept(d), NEW q \in d.cycle, NEW n, NEW plan,
         Appending(d, plan, q, n), plan # <<>>, NEW d2, d2 = Put(d, Head(plan))
  PROVE  /\ InTime(d, Head(plan))
         /\ d2 \in Disks /\ SameBooks(d2, d)
         /\ LedgerKept(d2) /\ Appending(d2, Tail(plan), q, n)
         /\ \/ d2.anchor = d.anchor
            \/ d.anchor = PartOf(q, n - 1) /\ d2.anchor = PartOf(q, n)
<1>1. /\ q \in Attempts /\ n \in 1..Size(q.cycle)
      /\ \/ HeadAhead(d, plan, PartOf(q, n - 1), EventAt(q.cycle, n))
         \/ HeadDone(d, plan, PartOf(q, n - 1), EventAt(q.cycle, n))
  BY DiskTypes DEF Appending
<1>2. PICK J, e, T, p : /\ J = PartOf(q, n - 1) /\ e = EventAt(q.cycle, n)
                        /\ T = Append(J, e) /\ p = PendingAppend(J, e)
  OBVIOUS
<1>3. /\ J \in Logs /\ e \in Events /\ T = PartOf(q, n) /\ T \in Logs
  <2>1. Size(q.cycle) \in Nat /\ n - 1 \in 0..Size(q.cycle) /\ n \in 0..Size(q.cycle)
    BY <1>1, PartOfFacts
  <2> QED BY <1>1, <1>2, <2>1, PartOfFacts
<1>4. /\ p \in Appends /\ p.prior = J /\ p.event = e /\ Target(p) = T /\ T # J /\ T # <<>>
      /\ {p} \in SUBSET Appends /\ {T} \in SUBSET Logs /\ {e} \in SUBSET Events
      /\ {} \in SUBSET Appends /\ d.pending \subseteq Appends
  <2>1. p \in Appends /\ p.prior = J /\ p.event = e /\ Target(p) = T
    BY <1>2, <1>3 DEF Appends, PendingAppend, Target
  <2>2. Len(T) = Len(J) + 1 /\ Len(J) \in Nat /\ T # <<>>
    BY <1>2, <1>3, AppendProperties DEF Logs
  <2> QED BY <1>3, <2>1, <2>2, DiskTypes
<1>5. ASSUME d.pending = {p} PROVE Covered(d, p)
  BY <1>5 DEF LedgerKept
<1>6. CASE HeadAhead(d, plan, J, e)
  <2>1. d.anchor = J
    BY <1>6 DEF HeadAhead
  <2>2. d.journal = J /\ d.torn = {}
    BY <1>2, <1>4, <1>5, <1>6, <2>1 DEF HeadAhead, LedgerKept, Covered
  <2>3. CASE d.pending = {} /\ plan =
          << Replace("pending", {p}), IfStill("anchor", J, "anchor", T),
             IfStill("journal", J, "torn", {e}), Replace("journal", T),
             Replace("snapshot", {T}), Replace("pending", {}) >>
    <3>1. /\ Head(plan) = Replace("pending", {p})
          /\ Tail(plan) = << IfStill("anchor", J, "anchor", T), IfStill("journal", J, "torn", {e}),
               Replace("journal", T), Replace("snapshot", {T}), Replace("pending", {}) >>
      BY <2>3
    <3>2. /\ InTime(d, Head(plan)) /\ d2 \in Disks /\ SameBooks(d2, d)
          /\ d2.pending = {p}
          /\ d2.journal = d.journal /\ d2.torn = d.torn /\ d2.snapshot = d.snapshot /\ d2.anchor = d.anchor
      BY <1>4, <3>1, PutPending
    <3>3. LedgerKept(d2)
      BY <1>4, <2>1, <2>2, <3>2 DEF LedgerKept, Covered
    <3>4. HeadAhead(d2, Tail(plan), J, e)
      BY <1>2, <2>1, <3>1, <3>2 DEF HeadAhead
    <3>5. Appending(d2, Tail(plan), q, n)
      BY <1>1, <1>2, <3>4 DEF Appending
    <3> QED BY <3>2, <3>3, <3>5
  <2>4. CASE d.pending = {p} /\ plan =
          << IfStill("anchor", J, "anchor", T), IfStill("journal", J, "torn", {e}),
             Replace("journal", T), Replace("snapshot", {T}), Replace("pending", {}) >>
    <3>1. /\ Head(plan) = IfStill("anchor", J, "anchor", T)
          /\ Tail(plan) = << IfStill("journal", J, "torn", {e}),
               Replace("journal", T), Replace("snapshot", {T}), Replace("pending", {}) >>
      BY <2>4
    <3>2. /\ InTime(d, Head(plan)) /\ d2 \in Disks /\ SameBooks(d2, d)
          /\ d2.anchor = T
          /\ d2.journal = d.journal /\ d2.torn = d.torn /\ d2.snapshot = d.snapshot /\ d2.pending = d.pending
      BY <1>3, <2>1, <3>1, PutAnchor
    <3>3. LedgerKept(d2)
      BY <1>4, <2>2, <2>4, <3>2 DEF LedgerKept, Covered
    <3>4. HeadDone(d2, Tail(plan), J, e)
      BY <1>2, <2>2, <2>4, <3>1, <3>2 DEF HeadDone
    <3>5. Appending(d2, Tail(plan), q, n)
      BY <1>1, <1>2, <3>4 DEF Appending
    <3> QED BY <1>2, <1>3, <2>1, <3>2, <3>3, <3>5
  <2> QED BY <1>2, <1>6, <2>3, <2>4 DEF HeadAhead
<1>7. CASE HeadDone(d, plan, J, e)
  <2>1. d.anchor = T /\ d.pending = {p}
    BY <1>2, <1>7 DEF HeadDone
  <2>2. CASE d.journal = J /\ d.torn = {} /\ plan =
          << IfStill("journal", J, "torn", {e}), Replace("journal", T),
             Replace("snapshot", {T}), Replace("pending", {}) >>
    <3>1. /\ Head(plan) = IfStill("journal", J, "torn", {e})
          /\ Tail(plan) = << Replace("journal", T), Replace("snapshot", {T}), Replace("pending", {}) >>
      BY <2>2
    <3>2. /\ InTime(d, Head(plan)) /\ d2 \in Disks /\ SameBooks(d2, d)
          /\ d2.torn = {e}
          /\ d2.journal = d.journal /\ d2.anchor = d.anchor /\ d2.snapshot = d.snapshot /\ d2.pending = d.pending
      <4>1. d2 = Put(d, IfStill("journal", J, "torn", {e})) /\ d.journal = J
        BY <2>2, <3>1
      <4>2. /\ InTime(d, IfStill("journal", J, "torn", {e})) /\ d2 \in Disks /\ SameBooks(d2, d)
            /\ d2.torn = {e} /\ d2.journal = d.journal /\ d2.anchor = d.anchor
            /\ d2.snapshot = d.snapshot /\ d2.pending = d.pending
        BY ZenonT(60), <1>4, <4>1 DEF Put, IfStill, InTime, Disks, SameBooks
      <4> QED BY <3>1, <4>2
    <3>3. LedgerKept(d2)
      BY <1>4, <2>1, <2>2, <3>2 DEF LedgerKept, Covered
    <3>4. HeadDone(d2, Tail(plan), J, e)
      BY <1>2, <2>1, <3>1, <3>2 DEF HeadDone
    <3>5. Appending(d2, Tail(plan), q, n)
      BY <1>1, <1>2, <3>4 DEF Appending
    <3> QED BY <3>2, <3>3, <3>5
  <2>3. CASE plan = << Replace("journal", T), Replace("snapshot", {T}), Replace("pending", {}) >>
    <3>1. /\ Head(plan) = Replace("journal", T)
          /\ Tail(plan) = << Replace("snapshot", {T}), Replace("pending", {}) >>
      BY <2>3
    <3>2. /\ InTime(d, Head(plan)) /\ d2 \in Disks /\ SameBooks(d2, d)
          /\ d2.journal = T /\ d2.torn = {}
          /\ d2.snapshot = d.snapshot /\ d2.pending = d.pending /\ d2.anchor = d.anchor
      BY <1>3, <3>1, PutJournal
    <3>3. LedgerKept(d2)
      BY <1>4, <2>1, <3>2 DEF LedgerKept, Covered
    <3>4. HeadDone(d2, Tail(plan), J, e)
      BY <1>2, <2>1, <3>1, <3>2 DEF HeadDone
    <3>5. Appending(d2, Tail(plan), q, n)
      BY <1>1, <1>2, <3>4 DEF Appending
    <3> QED BY <3>2, <3>3, <3>5
  <2>4. CASE d.journal = T /\ d.torn = {} /\ plan = << Replace("snapshot", {T}), Replace("pending", {}) >>
    <3>1. Head(plan) = Replace("snapshot", {T}) /\ Tail(plan) = << Replace("pending", {}) >>
      BY <2>4
    <3>2. /\ InTime(d, Head(plan)) /\ d2 \in Disks /\ SameBooks(d2, d)
          /\ d2.snapshot = {T}
          /\ d2.journal = d.journal /\ d2.torn = d.torn /\ d2.pending = d.pending /\ d2.anchor = d.anchor
      BY <1>4, <3>1, PutSnapshot
    <3>3. LedgerKept(d2)
      BY <1>4, <2>1, <2>4, <3>2 DEF LedgerKept, Covered
    <3>4. HeadDone(d2, Tail(plan), J, e)
      BY <1>2, <2>1, <2>4, <3>1, <3>2 DEF HeadDone
    <3>5. Appending(d2, Tail(plan), q, n)
      BY <1>1, <1>2, <3>4 DEF Appending
    <3> QED BY <3>2, <3>3, <3>5
  <2>5. CASE /\ d.journal = T /\ d.torn = {} /\ d.snapshot = {T}
             /\ plan = << Replace("pending", {}) >>
    <3>1. Head(plan) = Replace("pending", {}) /\ Tail(plan) = <<>>
      BY <2>5
    <3>2. /\ InTime(d, Head(plan)) /\ d2 \in Disks /\ SameBooks(d2, d)
          /\ d2.pending = {}
          /\ d2.journal = d.journal /\ d2.torn = d.torn /\ d2.snapshot = d.snapshot /\ d2.anchor = d.anchor
      BY <1>4, <3>1, PutPending
    <3>3. LedgerKept(d2)
      BY <2>1, <2>5, <3>2 DEF LedgerKept, SnapshotCurrent
    <3>4. n \in n..Size(q.cycle) /\ d2.anchor = PartOf(q, n)
      BY <1>1, <1>3, <2>1, <3>2, PartOfFacts
    <3>5. Appending(d2, Tail(plan), q, n)
      BY <1>1, <3>1, <3>2, <3>4 DEF Appending
    <3> QED BY <3>2, <3>3, <3>5
  <2> QED BY <1>2, <1>7, <2>2, <2>3, <2>4, <2>5 DEF HeadDone
<1> QED BY <1>1, <1>2, <1>6, <1>7

LEMMA PartOfOnce ==
  ASSUME NEW q \in Attempts, NEW j \in 0..Size(q.cycle), NEW k \in 0..Size(q.cycle),
         PartOf(q, j) = PartOf(q, k)
  PROVE  j = k
<1>1. /\ Len(PartOf(q, j)) = Len(LedgerOf(q.state)) + j
      /\ Len(PartOf(q, k)) = Len(LedgerOf(q.state)) + k
      /\ Len(LedgerOf(q.state)) \in Nat
  BY PartOfFacts, PartAt DEF PartOf, Logs
<1> QED BY <1>1

LEMMA BooksAppended ==
  ASSUME NEW d \in Disks, BooksKept(d), NEW d2, SameBooks(d2, d),
         \/ d2.anchor = d.anchor
         \/ \E q \in d.cycle : \E n \in 1..Size(q.cycle) :
              d.anchor = PartOf(q, n - 1) /\ d2.anchor = PartOf(q, n)
  PROVE  BooksKept(d2)
<1>1. CASE d2.anchor = d.anchor
  BY <1>1 DEF BooksKept, UnderWay, SameBooks
<1>2. ASSUME NEW q \in d.cycle, NEW n \in 1..Size(q.cycle),
             d.anchor = PartOf(q, n - 1), d2.anchor = PartOf(q, n)
      PROVE  BooksKept(d2)
  <2>1. q \in Attempts /\ Size(q.cycle) \in Nat
    BY DiskTypes, PartOfFacts
  <2>2. d.cycle = {q} /\ \E k \in 0..Size(q.cycle) : UnderWay(d, q, k)
    BY DEF BooksKept
  <2>3. PICK k \in 0..Size(q.cycle) : UnderWay(d, q, k)
    BY <2>2
  <2>4. PICK m : m = n - 1
    OBVIOUS
  <2>5. m \in 0..Size(q.cycle) /\ m # Size(q.cycle) /\ n \in 0..Size(q.cycle)
    BY <2>1, <2>4
  <2>6. k = m
    BY <1>2, <2>1, <2>3, <2>4, <2>5, PartOfOnce DEF UnderWay
  <2>7. UnderWay(d2, q, n)
    BY <1>2, <2>3, <2>5, <2>6 DEF UnderWay, SameBooks
  <2>8. d2.cycle = {q}
    BY <2>2 DEF SameBooks
  <2> QED BY <2>5, <2>7, <2>8 DEF BooksKept
<1> QED BY <1>1, <1>2

LEMMA PrefixSame == ASSUME NEW L \in Logs PROVE Prefix(L, L)
BY DEF Prefix, Logs

LEMMA PrefixAppend ==
  ASSUME NEW K \in Logs, NEW L \in Logs, NEW e \in Events, Prefix(K, L)
  PROVE  Prefix(K, Append(L, e))
<1>1. Len(K) \in Nat /\ Len(L) \in Nat /\ Len(K) <= Len(L) /\ K = SubSeq(L, 1, Len(K))
  BY DEF Prefix, Logs
<1>2. SubSeq(Append(L, e), 1, Len(K)) = SubSeq(L, 1, Len(K))
  BY <1>1 DEF Logs
<1> QED BY <1>1, <1>2, AppendProperties DEF Prefix, Logs

-----------------------------------------------------------------------------
(* What one process does leaves the other where it was *)

\* The ledger's records may have grown by one.
Grown(d2, d) == d2.anchor = d.anchor \/ \E e \in Events : d2.anchor = Append(d.anchor, e)

LEMMA PrefixGrown ==
  ASSUME NEW d \in Disks, NEW d2, Grown(d2, d), NEW K \in Logs, Prefix(K, d.anchor)
  PROVE  Prefix(K, d2.anchor)
BY DiskTypes, PrefixAppend DEF Grown

LEMMA BundlesGrown ==
  ASSUME NEW d \in Disks, NEW d2, Grown(d2, d), NEW bs, BundlesKept(d, bs)
  PROVE  BundlesKept(d2, bs)
BY PrefixGrown DEF BundlesKept

LEMMA BackupElsewhere ==
  ASSUME NEW d \in Disks, NEW d2, Grown(d2, d),
         NEW b, b.view \in Logs, NEW g, NEW h, NEW h2, h # {"backup"}, BackupKept(d, b, g, h)
  PROVE  BackupKept(d2, b, g, h2)
BY PrefixGrown DEF BackupKept

LEMMA BackupBeside ==
  ASSUME NEW d \in Disks, NEW d2, SameLedger(d2, d),
         NEW b, NEW g, NEW h, BackupKept(d, b, g, h)
  PROVE  BackupKept(d2, b, g, h)
<1>1. RecoveryLeft(d, b.plan) => RecoveryLeft(d2, b.plan)
  BY DEF RecoveryLeft, SameLedger
<1> QED BY <1>1 DEF BackupKept, SameLedger

LEMMA RuntimeElsewhere ==
  ASSUME NEW d, NEW d2, SameBooks(d2, d), d2.anchor = d.anchor,
         d.pending = {} => d2.pending = {},
         NEW r, NEW m, NEW h, NEW h2, h # {"runtime"}, RuntimeKept(d, r, m, h)
  PROVE  RuntimeKept(d2, r, m, h2)
<1>1. Opened(d, r) => Opened(d2, r)
  BY DEF Opened
<1>2. \A q : Committing(d, r.plan, q) => Committing(d2, r.plan, q)
  BY DEF Committing, SameBooks
<1>3. \A q : Publishing(d, r.plan, q) => Publishing(d2, r.plan, q)
  BY DEF Publishing, SameBooks
<1>4. Dropping(d, r.plan) => Dropping(d2, r.plan)
  BY DEF Dropping, SameBooks
<1> QED BY <1>1, <1>2, <1>3, <1>4 DEF RuntimeKept, SameBooks

-----------------------------------------------------------------------------
(* One step of a process *)

\* P2 is P with process p moved on, the other process where it was.
Moves(P2, P, p, pc, plan, view) ==
  /\ Shaped(P2)
  /\ P2[p].pc = pc /\ P2[p].plan = plan /\ P2[p].view = view
  /\ \A o \in Procs : o # p => P2[o] = P[o]

LEMMA OneMove ==
  ASSUME NEW P, Shaped(P), NEW p \in Procs, NEW x, NEW v \in Logs
  PROVE  /\ Moves([P EXCEPT ![p].pc = x], P, p, x, P[p].plan, P[p].view)
         /\ Moves([P EXCEPT ![p].plan = x], P, p, P[p].pc, x, P[p].view)
         /\ Moves([P EXCEPT ![p].view = v], P, p, P[p].pc, P[p].plan, v)
         /\ Moves([P EXCEPT ![p] = Idle], P, p, "idle", <<>>, <<>>)
<1> <<>> \in Logs
  BY EmptySeq DEF Logs
<1>1. Moves([P EXCEPT ![p].pc = x], P, p, x, P[p].plan, P[p].view)
  BY DEF Moves, Shaped
<1>2. Moves([P EXCEPT ![p].plan = x], P, p, P[p].pc, x, P[p].view)
  BY DEF Moves, Shaped
<1>3. Moves([P EXCEPT ![p].view = v], P, p, P[p].pc, P[p].plan, v)
  BY DEF Moves, Shaped
<1>4. Moves([P EXCEPT ![p] = Idle], P, p, "idle", <<>>, <<>>)
  BY DEF Moves, Shaped, Idle
<1> QED BY <1>1, <1>2, <1>3, <1>4

LEMMA TwoMoves ==
  ASSUME NEW P, Shaped(P), NEW p \in Procs, NEW x, NEW y, NEW v \in Logs
  PROVE  /\ Moves([P EXCEPT ![p].pc = x, ![p].plan = y], P, p, x, y, P[p].view)
         /\ Moves([P EXCEPT ![p].view = v, ![p].pc = x], P, p, x, P[p].plan, v)
         /\ Moves([P EXCEPT ![p].pc = x, ![p].view = v], P, p, x, P[p].plan, v)
<1>1. PICK Q : Q = [P EXCEPT ![p].pc = x]
  OBVIOUS
<1>2. PICK R : R = [P EXCEPT ![p].view = v]
  OBVIOUS
<1>3. Moves(Q, P, p, x, P[p].plan, P[p].view) /\ Moves(R, P, p, P[p].pc, P[p].plan, v)
  BY <1>1, <1>2, OneMove
<1>4. Shaped(Q) /\ Shaped(R)
  BY <1>3 DEF Moves
<1>5. /\ Moves([Q EXCEPT ![p].plan = y], Q, p, Q[p].pc, y, Q[p].view)
      /\ Moves([R EXCEPT ![p].pc = x], R, p, x, R[p].plan, R[p].view)
      /\ Moves([Q EXCEPT ![p].view = v], Q, p, Q[p].pc, Q[p].plan, v)
  BY <1>4, OneMove
<1>6. /\ Moves([Q EXCEPT ![p].plan = y], P, p, x, y, P[p].view)
      /\ Moves([R EXCEPT ![p].pc = x], P, p, x, P[p].plan, v)
      /\ Moves([Q EXCEPT ![p].view = v], P, p, x, P[p].plan, v)
  BY <1>3, <1>5 DEF Moves
<1>7. /\ [Q EXCEPT ![p].plan = y] = [P EXCEPT ![p].pc = x, ![p].plan = y]
      /\ [R EXCEPT ![p].pc = x] = [P EXCEPT ![p].view = v, ![p].pc = x]
      /\ [Q EXCEPT ![p].view = v] = [P EXCEPT ![p].pc = x, ![p].view = v]
  BY <1>1, <1>2, Zenon
<1> QED BY <1>6, <1>7, Zenon

LEMMA RuntimeMoves ==
  ASSUME IInv, NEW pc, NEW plan, NEW view,
         UNCHANGED <<disk, grab, bundles>>,
         Moves(proc', proc, "runtime", pc, plan, view),
         \/ holder' = holder
         \/ holder = {} /\ holder' = {"runtime"}
         \/ holder' = holder \ {"runtime"},
         Remembered(run'), tally' \in Tallies, tally.cycles <= tally'.cycles,
         \/ UNCHANGED tally /\ run'.todo \subseteq run.todo \cup disk.cycle
         \/ Within(run', tally'.cycles),
         RuntimeKept(disk, proc'["runtime"], run', holder')
  PROVE  IInv'
<1>1. proc'["backup"] = proc["backup"] /\ Shaped(proc')
  BY DEF Moves, Procs
<1>2. holder' = holder \/ holder # {"backup"}
  OBVIOUS
<1>3. BackupKept(disk, proc["backup"], grab, holder) /\ disk \in Disks /\ proc["backup"].view \in Logs
  BY DEF IInv, Shaped, Procs
<1>4. BackupKept(disk, proc["backup"], grab, holder')
  BY <1>2, <1>3, BackupElsewhere DEF Grown
<1>5. Minted(disk, tally'.cycles)
  <2>1. Minted(disk, tally.cycles) /\ tally.cycles \in Nat /\ tally'.cycles \in Nat
    BY DEF IInv, Tallies
  <2>2. /\ \A i \in DOMAIN disk.state : disk.state[i] \in Nat
        /\ \A q \in disk.cycle : q.cycle \in Nat
    <3>1. Cycles \subseteq Nat
      BY DEF Cycles
    <3>2. disk.state \in Seq(Cycles) /\ \A q \in disk.cycle : q.cycle \in Cycles
      BY <1>3, DiskTypes
    <3>3. \A s \in Seq(Cycles) : \A i \in DOMAIN s : s[i] \in Cycles
      BY ElementOfSeq, LenProperties
    <3> QED BY <3>1, <3>2, <3>3
  <2> QED BY <2>1, <2>2 DEF Minted
<1>6. Within(run', tally'.cycles)
  BY DEF IInv, Minted, Within
<1> QED BY <1>1, <1>4, <1>5, <1>6 DEF IInv

LEMMA BackupMoves ==
  ASSUME IInv, NEW pc, NEW plan, NEW view,
         UNCHANGED <<disk, run>>,
         Moves(proc', proc, "backup", pc, plan, view),
         \/ holder' = holder
         \/ holder = {} /\ holder' = {"backup"}
         \/ holder' = holder \ {"backup"},
         tally' \in Tallies, tally.cycles = tally'.cycles,
         BundlesKept(disk, bundles'),
         BackupKept(disk, proc'["backup"], grab', holder')
  PROVE  IInv'
<1>1. proc'["runtime"] = proc["runtime"] /\ Shaped(proc')
  BY DEF Moves, Procs
<1>2. holder' = holder \/ holder # {"runtime"}
  OBVIOUS
<1>3. RuntimeKept(disk, proc["runtime"], run, holder)
  BY DEF IInv
<1>4. RuntimeKept(disk, proc["runtime"], run, holder')
  BY <1>2, <1>3, RuntimeElsewhere DEF SameBooks
<1> QED BY <1>1, <1>4 DEF IInv

\* Whoever opens the ledger, recovering it begins; refused only if it cannot be.
LEMMA OpenStep ==
  ASSUME IInv, NEW p \in Procs, OpenLedger(p)
  PROVE  IInv'
<1>1. /\ disk \in Disks /\ LedgerKept(disk) /\ BooksKept(disk) /\ Shaped(proc)
      /\ Remembered(run) /\ tally \in Tallies /\ BundlesKept(disk, bundles)
      /\ RuntimeKept(disk, proc["runtime"], run, holder)
  BY DEF IInv
<1>2. Recoverable(disk) /\ RecoveryLeft(disk, RecoveryPlan(disk))
  BY <1>1, RecoveryBegins
<1>3. proc[p].pc = "opening" /\ holder = {} /\ holder' = {p}
  BY DEF OpenLedger, At, Acquire
<1>4. Moves(proc', proc, p, "recovering", RecoveryPlan(disk), proc[p].view)
  <2>1. proc' = [proc EXCEPT ![p].pc = "recovering", ![p].plan = RecoveryPlan(disk)]
    BY <1>2 DEF OpenLedger, GoWith
  <2>2. proc[p].view \in Logs
    BY <1>1 DEF Shaped
  <2> QED BY <1>1, <2>1, <2>2, TwoMoves
<1>5. UNCHANGED <<disk, run, grab, bundles, tally>>
  BY DEF OpenLedger
<1>6. tally.cycles \in Nat
  BY <1>1 DEF Tallies
<1>7. CASE p = "runtime"
  <2>1. run.state = disk.state
    BY <1>1, <1>3, <1>7 DEF RuntimeKept
  <2>2. RuntimeKept(disk, proc'["runtime"], run', holder')
    BY <1>2, <1>3, <1>4, <1>5, <1>7, <2>1 DEF RuntimeKept, Moves
  <2> QED BY <1>1, <1>3, <1>4, <1>5, <1>6, <1>7, <2>2, RuntimeMoves
<1>8. CASE p = "backup"
  <2>1. BackupKept(disk, proc'["backup"], grab', holder')
    BY <1>2, <1>3, <1>4, <1>8 DEF BackupKept, Moves
  <2> QED BY <1>1, <1>3, <1>4, <1>5, <1>6, <1>8, <2>1, BackupMoves
<1> QED BY <1>7, <1>8 DEF Procs

LEMMA Kept ==
  ASSUME IInv
  PROVE  /\ disk \in Disks /\ LedgerKept(disk) /\ BooksKept(disk) /\ Shaped(proc)
         /\ Remembered(run) /\ tally \in Tallies /\ BundlesKept(disk, bundles)
         /\ RuntimeKept(disk, proc["runtime"], run, holder)
         /\ BackupKept(disk, proc["backup"], grab, holder)
         /\ tally.cycles \in Nat
         /\ proc["runtime"].view \in Logs /\ proc["backup"].view \in Logs
         /\ disk.anchor \in Logs /\ disk.journal \in Logs
         /\ Minted(disk, tally.cycles)
BY DiskTypes DEF IInv, Shaped, Procs, Tallies

LEMMA Still ==
  ASSUME NEW d \in Disks, LedgerKept(d), BooksKept(d), d.pending = {}
  PROVE  /\ d.journal = d.anchor /\ Opens(d) /\ Current(d, d.anchor)
BY RecoveryBegins DEF LedgerKept, Opens, Current

LEMMA RecoveryDone == ASSUME NEW d, RecoveryLeft(d, <<>>) PROVE d.pending = {}
BY DEF RecoveryLeft, RollforwardPlan

LEMMA OpenedStep ==
  ASSUME IInv, NEW p \in Procs, OpenedLedger(p)
  PROVE  IInv'
<1>1. proc[p].pc = "recovering" /\ proc[p].plan = <<>>
  BY DEF OpenedLedger, At
<1>2. disk.pending = {} /\ holder = {p}
  <2>1. RecoveryLeft(disk, proc[p].plan) /\ holder = {p}
    BY <1>1, Kept DEF RuntimeKept, BackupKept, Procs
  <2> QED BY <1>1, <2>1, RecoveryDone
<1>3. disk.journal = disk.anchor /\ Opens(disk)
  BY <1>2, Kept, Still
<1>4. Moves(proc', proc, p, IF p = "runtime" THEN "resuming" ELSE "opened", <<>>, disk.anchor)
  <2>1. proc' = [proc EXCEPT ![p].view = disk.journal,
                             ![p].pc = IF p = "runtime" THEN "resuming" ELSE "opened"]
    BY <1>3 DEF OpenedLedger
  <2> QED BY ZenonT(60), <1>1, <1>3, <2>1, Kept, TwoMoves
<1>5. UNCHANGED <<disk, run, grab, bundles, tally>> /\ holder' = holder \ {p}
  BY DEF OpenedLedger, Release
<1>6. CASE p = "runtime"
  <2>1. RuntimeKept(disk, proc'["runtime"], run', holder')
    <3>1. run.state = disk.state
      BY <1>1, <1>6, Kept DEF RuntimeKept
    <3>2. Opened(disk, proc'["runtime"])
      BY <1>2, <1>4, <1>6 DEF Opened, Moves
    <3> QED BY <1>4, <1>5, <1>6, <3>1, <3>2 DEF RuntimeKept, Moves
  <2>2. Moves(proc', proc, "runtime", "resuming", <<>>, disk.anchor)
    BY <1>4, <1>6
  <2>3. /\ holder' = holder \ {"runtime"} /\ Remembered(run') /\ tally' \in Tallies
        /\ tally.cycles <= tally'.cycles /\ UNCHANGED <<disk, grab, bundles, run, tally>>
    BY <1>5, <1>6, Kept
  <2> QED BY <2>1, <2>2, <2>3, RuntimeMoves
<1>7. CASE p = "backup"
  <2>1. BackupKept(disk, proc'["backup"], grab', holder')
    BY <1>4, <1>7, Kept, PrefixSame DEF BackupKept, Moves
  <2> QED BY <1>4, <1>5, <1>7, <2>1, Kept, BackupMoves
<1> QED BY <1>6, <1>7 DEF Procs

LEMMA StartStep == ASSUME IInv, Start PROVE IInv'
<1>1. At("runtime", "idle") /\ UNCHANGED <<disk, holder, grab, bundles, tally>>
  BY DEF Start
<1>2. Moves(proc', proc, "runtime", "opening", <<>>, proc["runtime"].view)
  BY <1>1, Kept, OneMove DEF Start, Go, At, Procs
<1>3. Remembered(run') /\ run'.state = disk.state /\ run'.todo = {}
  BY Kept, DiskTypes DEF Start, Asleep, Remembered
<1>4. RuntimeKept(disk, proc'["runtime"], run', holder')
  BY <1>2, <1>3 DEF RuntimeKept, Moves
<1> QED BY <1>1, <1>2, <1>3, <1>4, Kept, RuntimeMoves

\* What the books say of the view of a runtime past opening.
LEMMA SettledView ==
  ASSUME IInv, disk.cycle = {}
  PROVE  /\ Sound(disk.anchor, disk.state) /\ disk.state \in Seq(Cycles)
         /\ Unrepeated(disk.state) /\ disk.anchor = LedgerOf(disk.state)
         /\ Proves(disk.proof, disk.state)
<1>1. Unrepeated(disk.state) /\ disk.anchor = LedgerOf(disk.state) /\ Proves(disk.proof, disk.state)
  BY Kept DEF BooksKept
<1>2. disk.state \in Seq(Cycles)
  BY Kept, DiskTypes
<1> QED BY <1>1, <1>2, SoundLedger

LEMMA AttemptView ==
  ASSUME IInv, NEW q \in disk.cycle
  PROVE  /\ q \in Attempts /\ disk.cycle = {q}
         /\ \E k \in 0..Size(q.cycle) :
              /\ UnderWay(disk, q, k)
              /\ Under(disk.anchor, LedgerOf(q.state), q.state, q.cycle, k)
<1>1. q \in Attempts
  BY Kept, DiskTypes
<1>2. disk.cycle = {q} /\ \E k \in 0..Size(q.cycle) : UnderWay(disk, q, k)
  BY Kept DEF BooksKept
<1> QED BY <1>1, <1>2, WayUnder

LEMMA ResumeStep == ASSUME IInv, ResumeCycle PROVE IInv'
<1>1. /\ At("runtime", "resuming") /\ UNCHANGED <<disk, holder, grab, bundles, tally>>
      /\ Opened(disk, proc["runtime"]) /\ run.state = disk.state
  BY Kept DEF ResumeCycle, At, RuntimeKept
<1>2. PICK T : T = {q \in disk.cycle : Prepared(disk.anchor, q.cycle)}
  OBVIOUS
<1>3. /\ run' = [run EXCEPT !.todo = T]
      /\ IF T # {} THEN Go("runtime", "committing")
         ELSE IF Uncommitted(disk.anchor) THEN Go("runtime", "refused")
         ELSE GoWith("runtime", "checking", IF disk.cycle = {} THEN <<>> ELSE <<Replace("cycle", {})>>)
  <2>1. run' = [run EXCEPT !.todo = T]
    BY <1>1, <1>2 DEF ResumeCycle, Opened
  <2>2. run'.todo = T
    BY <2>1, Kept DEF Remembered
  <2> QED BY <1>1, <2>1, <2>2 DEF ResumeCycle, Opened
<1>4. Remembered(run') /\ run'.state = run.state /\ run'.todo = T /\ T \subseteq disk.cycle
  BY <1>2, <1>3, Kept DEF Remembered
<1>5. CASE T # {}
  <2>1. PICK q \in disk.cycle : q \in T
    BY <1>2, <1>5
  <2>2. q \in Attempts /\ disk.cycle = {q} /\ T = {q}
    BY <1>2, <2>1, AttemptView
  <2>3. Moves(proc', proc, "runtime", "committing", <<>>, proc["runtime"].view)
    BY <1>1, <1>3, <1>5, Kept, OneMove DEF Go, At, Procs
  <2>4. RuntimeKept(disk, proc'["runtime"], run', holder')
    <3>1. Committing(disk, <<>>, q)
      BY <2>2 DEF Committing
    <3>2. Opened(disk, proc'["runtime"])
      BY <1>1, <2>3 DEF Opened, Moves
    <3>3. q \in Attempts \cap run'.todo /\ run'.todo = {q}
      BY <1>4, <2>2
    <3> QED BY <2>3, <3>1, <3>2, <3>3 DEF RuntimeKept, Moves
  <2> QED BY <1>1, <1>4, <2>3, <2>4, Kept, RuntimeMoves
<1>6. CASE T = {}
  <2>1. ~Uncommitted(disk.anchor) /\ \A q \in disk.cycle :
          disk.cycle = {q} /\ disk.state = q.state /\ disk.anchor = LedgerOf(q.state)
    <3>1. CASE disk.cycle = {}
      BY <3>1, SettledView DEF Sound
    <3>2. ASSUME NEW q \in disk.cycle
          PROVE  ~Uncommitted(disk.anchor) /\ disk.cycle = {q} /\ disk.state = q.state
                 /\ disk.anchor = LedgerOf(q.state)
      <4>1. PICK k \in 0..Size(q.cycle) :
              /\ UnderWay(disk, q, k)
              /\ Under(disk.anchor, LedgerOf(q.state), q.state, q.cycle, k)
        BY AttemptView
      <4>2. ~Prepared(disk.anchor, q.cycle)
        BY <1>2, <1>6
      <4>3. k = 0 /\ ~Uncommitted(disk.anchor)
        BY <4>1, <4>2, PartStages
      <4>4. q \in Attempts /\ disk.cycle = {q}
        BY AttemptView
      <4> QED BY <4>1, <4>3, <4>4, PartOfFacts DEF UnderWay
    <3> QED BY <3>1, <3>2
  <2>2. PICK plan : plan = IF disk.cycle = {} THEN <<>> ELSE <<Replace("cycle", {})>>
    OBVIOUS
  <2>3. Moves(proc', proc, "runtime", "checking", plan, proc["runtime"].view)
    <3>1. proc' = [proc EXCEPT !["runtime"].pc = "checking", !["runtime"].plan = plan]
      BY <1>3, <1>6, <2>1, <2>2 DEF GoWith
    <3> QED BY <3>1, Kept, TwoMoves DEF Procs
  <2>4. Dropping(disk, plan)
    BY <2>1, <2>2 DEF Dropping
  <2>5. RuntimeKept(disk, proc'["runtime"], run', holder')
    <3>1. Opened(disk, proc'["runtime"])
      BY <1>1, <2>3 DEF Opened, Moves
    <3> QED BY <1>1, <1>4, <2>3, <2>4, <3>1 DEF RuntimeKept, Moves
  <2> QED BY <1>1, <1>4, <2>3, <2>5, Kept, RuntimeMoves
<1> QED BY <1>5, <1>6

\* The attempt a runtime is about to commit, once it is written ahead.
LEMMA CommitStep == ASSUME IInv, Commit PROVE IInv'
<1>1. /\ At("runtime", "committing") /\ UNCHANGED <<disk, holder, grab, bundles, tally>>
      /\ Opened(disk, proc["runtime"]) /\ proc["runtime"].view = disk.anchor
      /\ proc["runtime"].plan = <<>> /\ proc["runtime"].pc = "committing"
  BY Kept DEF Commit, At, RuntimeKept, Opened
<1>2. PICK q \in disk.cycle : disk.cycle = {q} /\ run.todo = {q}
  <2>1. PICK q \in Attempts \cap run.todo : run.todo = {q} /\ Committing(disk, <<>>, q)
    BY <1>1, Kept DEF RuntimeKept
  <2>2. disk.cycle = {q}
    BY <2>1, PlanSteps DEF Committing
  <2> QED BY <2>1, <2>2
<1>3. PICK k \in 0..Size(q.cycle) :
        /\ UnderWay(disk, q, k)
        /\ Under(disk.anchor, LedgerOf(q.state), q.state, q.cycle, k)
  BY AttemptView
<1>4. q \in Attempts /\ disk.anchor = PartOf(q, k) /\ k \in Nat
  BY <1>3, AttemptView, PartOfFacts DEF UnderWay
<1>5. /\ ~Committed(disk.anchor, q.cycle) => LastOf(q.state) = HeadCycle(disk.anchor)
      /\ Uncommitted(disk.anchor) => Prepared(disk.anchor, q.cycle)
  BY <1>3, PartStages, PartHead
<1>6. The(run.todo) = q
  BY <1>2, TheOne
<1>7. Go("runtime", "appending")
  BY <1>1, <1>5, <1>6 DEF Commit
<1>8. Moves(proc', proc, "runtime", "appending", <<>>, proc["runtime"].view)
  BY <1>1, <1>7, Kept, OneMove DEF Go, Procs
<1>9. Remembered(run') /\ run'.todo = {q} /\ run'.next = 1
  BY <1>2, Kept DEF Commit, Remembered
<1>10. RuntimeKept(disk, proc'["runtime"], run', holder')
  <2>1. Opened(disk, proc'["runtime"])
    BY <1>1, <1>8 DEF Opened, Moves
  <2>2. run'.next \in 1..(k + 1)
    BY <1>4, <1>9
  <2> QED BY <1>2, <1>4, <1>8, <1>9, <2>1, <2>2 DEF RuntimeKept, Moves
<1> QED BY <1>1, <1>8, <1>9, <1>10, Kept, RuntimeMoves

LEMMA AppendingView ==
  ASSUME IInv, proc["runtime"].pc = "appending"
  PROVE  /\ Opened(disk, proc["runtime"]) /\ proc["runtime"].view = disk.anchor
         /\ disk.pending = {} /\ proc["runtime"].plan = <<>>
         /\ \E q \in disk.cycle : \E k \in 0..Size(q.cycle) :
              /\ disk.cycle = {q} /\ run.todo = {q} /\ q \in Attempts
              /\ disk.anchor = PartOf(q, k) /\ run.next \in 1..(k + 1)
              /\ Under(disk.anchor, LedgerOf(q.state), q.state, q.cycle, k)
<1>1. PICK q \in disk.cycle : \E k \in 0..Size(q.cycle) :
          disk.cycle = {q} /\ run.todo = {q} /\ disk.anchor = PartOf(q, k) /\ run.next \in 1..(k + 1)
  BY Kept DEF RuntimeKept
<1>2. PICK k \in 0..Size(q.cycle) :
          disk.cycle = {q} /\ run.todo = {q} /\ disk.anchor = PartOf(q, k) /\ run.next \in 1..(k + 1)
  BY <1>1
<1>3. PICK j \in 0..Size(q.cycle) :
        /\ UnderWay(disk, q, j)
        /\ Under(disk.anchor, LedgerOf(q.state), q.state, q.cycle, j)
  BY AttemptView
<1>4. q \in Attempts /\ j = k
  <2>1. PartOf(q, j) = PartOf(q, k) /\ q \in Attempts
    BY <1>2, <1>3, AttemptView DEF UnderWay
  <2> QED BY <2>1, PartOfOnce
<1>5. Opened(disk, proc["runtime"]) /\ proc["runtime"].plan = <<>>
  BY Kept DEF RuntimeKept
<1> QED BY <1>2, <1>3, <1>4, <1>5 DEF Opened

LEMMA AppendNextStep == ASSUME IInv, AppendNext PROVE IInv'
<1>1. At("runtime", "appending") /\ UNCHANGED <<disk, run, grab, bundles, tally>>
  BY DEF AppendNext
<1>2. PICK q \in disk.cycle : \E k \in 0..Size(q.cycle) :
        /\ disk.cycle = {q} /\ run.todo = {q} /\ q \in Attempts
        /\ disk.anchor = PartOf(q, k) /\ run.next \in 1..(k + 1)
  BY <1>1, AppendingView DEF At
<1>3. PICK k \in 0..Size(q.cycle) :
        /\ disk.cycle = {q} /\ run.todo = {q} /\ q \in Attempts
        /\ disk.anchor = PartOf(q, k) /\ run.next \in 1..(k + 1)
  BY <1>2
<1>4. PICK e : e = EventsOf(q.cycle)[run.next]
  OBVIOUS
<1>5. /\ run.next <= Len(EventsOf(q.cycle)) /\ Acquire("runtime")
      /\ IF Appendable(disk, e) THEN GoWith("runtime", "writing", AppendPlan(disk, e))
                                ELSE Go("runtime", "refused")
  BY <1>3, <1>4 DEF AppendNext
<1>6. run.next \in 1..Size(q.cycle) /\ run.next <= k + 1 /\ disk.pending = {}
  <2>1. Len(EventsOf(q.cycle)) = Size(q.cycle) /\ Size(q.cycle) \in Nat
    BY <1>3, PartOfFacts, EventsAt
  <2>2. disk.pending = {}
    BY <1>1, AppendingView DEF At
  <2> QED BY <1>3, <1>5, <2>1, <2>2
<1>7. Appendable(disk, e) /\ Appending(disk, AppendPlan(disk, e), q, run.next)
  BY <1>3, <1>4, <1>6, Kept, AppendBegins
<1>8. Moves(proc', proc, "runtime", "writing", AppendPlan(disk, e), proc["runtime"].view)
  <2>1. proc' = [proc EXCEPT !["runtime"].pc = "writing", !["runtime"].plan = AppendPlan(disk, e)]
    BY <1>5, <1>7 DEF GoWith
  <2> QED BY <2>1, Kept, TwoMoves DEF Procs
<1>9. holder = {} /\ holder' = {"runtime"}
  BY <1>5 DEF Acquire
<1>10. RuntimeKept(disk, proc'["runtime"], run', holder')
  BY <1>1, <1>3, <1>7, <1>8, <1>9 DEF RuntimeKept, Moves
<1> QED BY <1>1, <1>8, <1>9, <1>10, Kept, RuntimeMoves

LEMMA AppendedStep == ASSUME IInv, Appended PROVE IInv'
<1>1. /\ proc["runtime"].pc = "writing" /\ proc["runtime"].plan = <<>>
      /\ UNCHANGED <<disk, grab, bundles, tally>>
  BY DEF Appended, At
<1>2. PICK q \in disk.cycle : /\ disk.cycle = {q} /\ run.todo = {q}
                              /\ Appending(disk, <<>>, q, run.next)
  BY <1>1, Kept DEF RuntimeKept
<1>3. PICK k \in run.next..Size(q.cycle) : disk.anchor = PartOf(q, k) /\ disk.pending = {}
  BY <1>2, PlanSteps DEF Appending, HeadAhead, HeadDone
<1>4. run.next \in 1..Size(q.cycle) /\ q \in Attempts
  BY <1>2, AttemptView DEF Appending
<1>5. k \in 0..Size(q.cycle) /\ run.next + 1 \in 1..(k + 1)
  BY <1>3, <1>4, PartOfFacts
<1>6. disk.journal = disk.anchor
  BY <1>3, Kept, Still
<1>7. Moves(proc', proc, "runtime", "appending", <<>>, disk.anchor)
  BY <1>1, <1>6, Kept, TwoMoves DEF Appended, Procs
<1>8. Remembered(run') /\ run'.todo = {q} /\ run'.next = run.next + 1
  BY <1>2, Kept DEF Appended, Remembered
<1>9. RuntimeKept(disk, proc'["runtime"], run', holder')
  BY <1>1, <1>2, <1>3, <1>5, <1>7, <1>8 DEF RuntimeKept, Moves, Opened
<1>10. holder' = holder \ {"runtime"}
  BY DEF Appended, Release
<1> QED BY <1>1, <1>7, <1>8, <1>9, <1>10, Kept, RuntimeMoves

LEMMA PublishStep == ASSUME IInv, Publish PROVE IInv'
<1>1. At("runtime", "appending") /\ UNCHANGED <<disk, holder, run, grab, bundles, tally>>
  BY DEF Publish
<1>2. PICK q \in disk.cycle : \E k \in 0..Size(q.cycle) :
        /\ disk.cycle = {q} /\ run.todo = {q} /\ q \in Attempts
        /\ disk.anchor = PartOf(q, k) /\ run.next \in 1..(k + 1)
        /\ Under(disk.anchor, LedgerOf(q.state), q.state, q.cycle, k)
  BY <1>1, AppendingView DEF At
<1>3. PICK k \in 0..Size(q.cycle) :
        /\ disk.cycle = {q} /\ run.todo = {q} /\ q \in Attempts
        /\ disk.anchor = PartOf(q, k) /\ run.next \in 1..(k + 1)
        /\ Under(disk.anchor, LedgerOf(q.state), q.state, q.cycle, k)
  BY <1>2
<1>4. Opened(disk, proc["runtime"]) /\ proc["runtime"].view = disk.anchor
  BY <1>1, AppendingView DEF At
<1>5. /\ run.next > Len(EventsOf(q.cycle))
      /\ IF /\ Committed(disk.anchor, q.cycle)
            /\ TotalsMatch(Taken(q), disk.anchor)
            /\ HeadCycle(disk.anchor) = {q.cycle}
         THEN GoWith("runtime", "publishing", CommitPlan(q))
         ELSE Go("runtime", "refused")
  BY <1>3, <1>4 DEF Publish
<1>6. k = Size(q.cycle)
  <2>1. Len(EventsOf(q.cycle)) = Size(q.cycle) /\ Size(q.cycle) \in Nat
    BY <1>3, PartOfFacts, EventsAt
  <2> QED BY <1>3, <1>5, <2>1
<1>7. /\ Committed(disk.anchor, q.cycle)
      /\ TotalsMatch(Taken(q), disk.anchor)
      /\ HeadCycle(disk.anchor) = {q.cycle}
  BY <1>3, <1>6, PartStages, PartTotals, PartHead DEF Taken
<1>8. Moves(proc', proc, "runtime", "publishing", CommitPlan(q), proc["runtime"].view)
  <2>1. proc' = [proc EXCEPT !["runtime"].pc = "publishing", !["runtime"].plan = CommitPlan(q)]
    BY <1>5, <1>7 DEF GoWith
  <2> QED BY <2>1, Kept, TwoMoves DEF Procs
<1>9. RuntimeKept(disk, proc'["runtime"], run', holder')
  <2>1. Publishing(disk, CommitPlan(q), q)
    BY <1>3, <1>6 DEF Publishing
  <2>2. Opened(disk, proc'["runtime"]) /\ q \in Attempts \cap run'.todo /\ run'.todo = {q}
    BY <1>1, <1>3, <1>4, <1>8 DEF Opened, Moves
  <2> QED BY <1>8, <2>1, <2>2 DEF RuntimeKept, Moves
<1> QED BY <1>1, <1>8, <1>9, Kept, RuntimeMoves

LEMMA PublishedStep == ASSUME IInv, Published PROVE IInv'
<1>1. /\ proc["runtime"].pc = "publishing" /\ proc["runtime"].plan = <<>>
      /\ UNCHANGED <<disk, holder, grab, bundles, tally>>
  BY DEF Published, At
<1>2. PICK q \in Attempts \cap run.todo : run.todo = {q} /\ Publishing(disk, <<>>, q)
  BY <1>1, Kept DEF RuntimeKept
<1>3. disk.cycle = {} /\ disk.state = Taken(q)
  BY <1>2, PlanSteps DEF Publishing, CommitPlan
<1>4. Opened(disk, proc["runtime"])
  BY <1>1, Kept DEF RuntimeKept
<1>5. The(run.todo) = q
  BY <1>2, TheOne
<1>6. Remembered(run') /\ run'.state = disk.state /\ run'.todo = {}
  BY <1>3, <1>5, Kept, DiskTypes DEF Published, Remembered
<1>7. PICK pc \in {"ready", "checking"} : Go("runtime", pc)
  BY DEF Published
<1>8. Moves(proc', proc, "runtime", pc, <<>>, proc["runtime"].view)
  BY <1>1, <1>7, Kept, OneMove DEF Go, Procs
<1>9. RuntimeKept(disk, proc'["runtime"], run', holder')
  <2>1. Opened(disk, proc'["runtime"]) /\ Dropping(disk, <<>>)
    BY <1>3, <1>4, <1>8 DEF Opened, Moves, Dropping
  <2> QED BY <1>3, <1>6, <1>7, <1>8, <2>1 DEF RuntimeKept, Moves
<1> QED BY <1>1, <1>6, <1>8, <1>9, Kept, RuntimeMoves

LEMMA CheckStep == ASSUME IInv, Check PROVE IInv'
<1>1. /\ proc["runtime"].pc = "checking" /\ proc["runtime"].plan = <<>>
      /\ UNCHANGED <<disk, holder, grab, bundles, tally>>
  BY DEF Check, At
<1>2. /\ Opened(disk, proc["runtime"]) /\ proc["runtime"].view = disk.anchor
      /\ run.state = disk.state /\ disk.cycle = {}
  BY <1>1, Kept, PlanSteps DEF RuntimeKept, Dropping, Opened
<1>3. /\ Sound(disk.anchor, disk.state) /\ disk.anchor = LedgerOf(disk.state)
      /\ Proves(disk.proof, disk.state)
  BY <1>2, SettledView
<1>4. Authenticated(disk.state, disk.anchor, disk.proof)
  <2>1. CASE disk.state = <<>>
    BY <1>3, <2>1, LedgerNone DEF Authenticated, Proves
  <2>2. CASE disk.state # <<>>
    <3>1. PICK q \in disk.proof : disk.proof = {q} /\ disk.state = Taken(q)
      BY <1>3, <2>2 DEF Proves
    <3>2. q \in Attempts
      BY Kept, DiskTypes
    <3>3. LastOf(Taken(q)) = {q.cycle}
      <4>1. q.cycle \in Cycles /\ q.state \in Seq(Cycles)
        BY <3>2, PartOfFacts
      <4> QED BY <4>1 DEF LastOf, Taken
    <3>4. HeadCycle(disk.anchor) = {q.cycle}
      BY <1>3, <3>1, <3>3 DEF Sound
    <3> QED BY <3>1, <3>4 DEF Authenticated
  <2> QED BY <2>1, <2>2
<1>5. Go("runtime", "ready")
  BY <1>2, <1>3, <1>4 DEF Check, Sound
<1>6. Moves(proc', proc, "runtime", "ready", <<>>, proc["runtime"].view)
  BY <1>1, <1>5, Kept, OneMove DEF Go, Procs
<1>7. Remembered(run') /\ run'.state = run.state /\ run'.todo = run.todo
  BY Kept DEF Check, Remembered
<1>8. RuntimeKept(disk, proc'["runtime"], run', holder')
  <2>1. Opened(disk, proc'["runtime"])
    BY <1>2, <1>6 DEF Opened, Moves
  <2> QED BY <1>2, <1>6, <1>7, <2>1 DEF RuntimeKept, Moves
<1> QED BY <1>1, <1>6, <1>7, <1>8, Kept, RuntimeMoves

LEMMA DecideStep == ASSUME IInv, Decide PROVE IInv'
<1>1. /\ proc["runtime"].pc = "ready" /\ proc["runtime"].plan = <<>>
      /\ UNCHANGED <<disk, holder, grab, bundles>>
      /\ tally.cycles < MaxCycles /\ tally' = [tally EXCEPT !.cycles = @ + 1]
  BY DEF Decide, At
<1>2. /\ Opened(disk, proc["runtime"]) /\ proc["runtime"].view = disk.anchor
      /\ run.state = disk.state /\ disk.cycle = {} /\ disk.pending = {}
  BY <1>1, Kept DEF RuntimeKept, Opened
<1>3. Current(disk, proc["runtime"].view)
  BY <1>2, Kept, Still
<1>4. PICK q : q = [cycle |-> tally.cycles + 1, state |-> run.state]
  OBVIOUS
<1>5. run' = [run EXCEPT !.todo = {q}] /\ GoWith("runtime", "committing", <<Replace("cycle", {q})>>)
  BY <1>3, <1>4 DEF Decide
<1>6. tally' \in Tallies /\ tally.cycles <= tally'.cycles
  BY <1>1, Kept, RuntimeStoreAssumption DEF Tallies
<1>7. q \in Attempts /\ q.state = disk.state /\ q.cycle = tally.cycles + 1
  BY <1>1, <1>2, <1>4, Kept, RuntimeStoreAssumption DEF Attempts, Cycles, Remembered
<1>8. ~Holds(q.state, q.cycle)
  <2>1. ASSUME NEW i \in DOMAIN disk.state PROVE disk.state[i] <= tally.cycles /\ disk.state[i] \in Nat
    <3>1. disk.state \in Seq(Cycles)
      BY Kept, DiskTypes
    <3>2. disk.state[i] \in Cycles
      BY <3>1, ElementOfSeq, LenProperties
    <3> QED BY <3>2, Kept DEF Minted, Cycles
  <2>2. tally.cycles \in Nat
    BY Kept
  <2> QED BY <1>7, <2>1, <2>2 DEF Holds
<1>9. Moves(proc', proc, "runtime", "committing", <<Replace("cycle", {q})>>, proc["runtime"].view)
  BY <1>5, Kept, TwoMoves DEF GoWith, Procs
<1>10. Remembered(run') /\ run'.todo = {q}
  BY <1>5, Kept DEF Remembered
<1>11. RuntimeKept(disk, proc'["runtime"], run', holder')
  <2>1. Opened(disk, proc'["runtime"])
    BY <1>2, <1>9 DEF Opened, Moves
  <2>2. Committing(disk, <<Replace("cycle", {q})>>, q)
    BY <1>2, <1>7, <1>8 DEF Committing
  <2>3. q \in Attempts \cap run'.todo /\ run'.todo = {q}
    BY <1>7, <1>10
  <2> QED BY <1>9, <2>1, <2>2, <2>3 DEF RuntimeKept, Moves
<1>12. Within(run', tally'.cycles)
  BY <1>1, <1>7, <1>10, Kept DEF Within, Tallies
<1> QED BY <1>1, <1>6, <1>9, <1>10, <1>11, <1>12, RuntimeMoves

LEMMA ExitStep == ASSUME IInv, Exit PROVE IInv'
<1>1. UNCHANGED <<disk, grab, bundles, tally>> /\ holder' = holder \ {"runtime"}
  BY DEF Exit, Release
<1>2. Moves(proc', proc, "runtime", "idle", <<>>, <<>>)
  BY Kept, OneMove DEF Exit, Procs
<1>3. Remembered(run') /\ run'.todo = {}
  BY EmptySeq DEF Exit, Asleep, Remembered
<1>4. RuntimeKept(disk, proc'["runtime"], run', holder')
  BY <1>2 DEF RuntimeKept, Moves
<1>5. tally' \in Tallies /\ tally.cycles <= tally'.cycles
  BY <1>1, Kept
<1> QED BY <1>1, <1>2, <1>3, <1>4, <1>5, RuntimeMoves

-----------------------------------------------------------------------------
(* A write of a plan *)

LEMMA UnrepeatedAppend ==
  ASSUME NEW s \in Seq(Cycles), NEW x \in Cycles, Unrepeated(s), ~Holds(s, x)
  PROVE  Unrepeated(Append(s, x))
<1>1. /\ Len(s) \in Nat /\ DOMAIN s = 1..Len(s) /\ DOMAIN Append(s, x) = 1..(Len(s) + 1)
      /\ Append(s, x)[Len(s) + 1] = x
      /\ \A i \in 1..Len(s) : Append(s, x)[i] = s[i]
  BY AppendProperties, LenProperties
<1>2. \A i \in 1..(Len(s) + 1) : i \in 1..Len(s) \/ i = Len(s) + 1
  BY <1>1
<1> QED BY <1>1, <1>2 DEF Unrepeated, Holds

LEMMA TakenMinted ==
  ASSUME NEW q \in Attempts, NEW n
  PROVE  (\A i \in DOMAIN Taken(q) : Taken(q)[i] <= n)
           <=> (q.cycle <= n /\ \A i \in DOMAIN q.state : q.state[i] <= n)
<1>1. q.cycle \in Cycles /\ q.state \in Seq(Cycles)
  BY PartOfFacts
<1>2. /\ Len(q.state) \in Nat /\ DOMAIN q.state = 1..Len(q.state)
      /\ DOMAIN Taken(q) = 1..(Len(q.state) + 1) /\ Taken(q)[Len(q.state) + 1] = q.cycle
      /\ \A i \in 1..Len(q.state) : Taken(q)[i] = q.state[i]
  BY <1>1, AppendProperties, LenProperties DEF Taken
<1>3. \A i \in 1..(Len(q.state) + 1) : i \in 1..Len(q.state) \/ i = Len(q.state) + 1
  BY <1>2
<1>4. 1..Len(q.state) \subseteq 1..(Len(q.state) + 1) /\ Len(q.state) + 1 \in 1..(Len(q.state) + 1)
  BY <1>2
<1> QED BY <1>2, <1>3, <1>4

\* What a write of the runtime's does to the head and to the state file: nothing,
\* or one more event of the cycle under way, or that cycle, all its events there.
Effect(d2, d) ==
  \/ d2.anchor = d.anchor /\ d2.state = d.state
  \/ d2.state = d.state /\ \E q \in d.cycle : \E n \in 1..Size(q.cycle) :
       d.anchor = PartOf(q, n - 1) /\ d2.anchor = PartOf(q, n)
  \/ d2.anchor = d.anchor /\ \E q \in d.cycle :
       d.anchor = PartOf(q, Size(q.cycle)) /\ d2.state = Taken(q)

\* The three writes to the runtime's own files.
LEMMA CommittingWrite ==
  ASSUME NEW d \in Disks, BooksKept(d), NEW q \in Attempts, NEW plan, Committing(d, plan, q),
         plan # <<>>, NEW n, Minted(d, n), q.cycle <= n, NEW d2, d2 = Put(d, Head(plan))
  PROVE  /\ InTime(d, Head(plan)) /\ d2 \in Disks /\ SameLedger(d2, d)
         /\ BooksKept(d2) /\ Minted(d2, n) /\ Committing(d2, Tail(plan), q)
         /\ d2.state = d.state
<1>1. /\ plan = <<Replace("cycle", {q})>> /\ d.cycle = {}
      /\ q.state = d.state /\ ~Holds(q.state, q.cycle)
  BY DEF Committing
<1>2. Head(plan) = Replace("cycle", {q}) /\ Tail(plan) = <<>>
  BY <1>1, PlanSteps
<1>3. /\ InTime(d, Head(plan)) /\ d2 \in Disks /\ SameLedger(d2, d)
      /\ d2.cycle = {q} /\ d2.state = d.state /\ d2.proof = d.proof
  BY <1>2, PutCycle
<1>4. UnderWay(d2, q, 0)
  BY <1>1, <1>3, PartOfFacts DEF BooksKept, UnderWay, SameLedger
<1>5. BooksKept(d2)
  <2>1. 0 \in 0..Size(q.cycle)
    BY PartOfFacts
  <2> QED BY <1>3, <1>4, <2>1 DEF BooksKept
<1>6. Minted(d2, n) /\ Committing(d2, Tail(plan), q)
  BY <1>2, <1>3 DEF Minted, Committing
<1> QED BY <1>3, <1>5, <1>6

LEMMA PublishingWrite ==
  ASSUME NEW d \in Disks, BooksKept(d), NEW q \in Attempts, NEW plan, Publishing(d, plan, q),
         plan # <<>>, NEW n \in Nat, Minted(d, n), NEW d2, d2 = Put(d, Head(plan))
  PROVE  /\ InTime(d, Head(plan)) /\ d2 \in Disks /\ SameLedger(d2, d)
         /\ BooksKept(d2) /\ Minted(d2, n) /\ Publishing(d2, Tail(plan), q)
         /\ Effect(d2, d)
<1>1. d.cycle = {q} /\ d.anchor = PartOf(q, Size(q.cycle))
  BY DEF Publishing
<1>2. UnderWay(d, q, Size(q.cycle)) /\ Size(q.cycle) \in 0..Size(q.cycle)
  <2>1. PICK k \in 0..Size(q.cycle) : UnderWay(d, q, k)
    BY <1>1 DEF BooksKept
  <2>2. Size(q.cycle) \in 0..Size(q.cycle)
    BY PartOfFacts
  <2>3. PartOf(q, k) = PartOf(q, Size(q.cycle))
    BY <1>1, <2>1 DEF UnderWay
  <2>4. k = Size(q.cycle)
    BY <2>2, <2>3, PartOfOnce
  <2> QED BY <2>1, <2>2, <2>4
<1>3. Taken(q) \in Seq(Cycles) /\ Taken(q) # q.state /\ Taken(q) # <<>>
  BY PartOfFacts
<1>4. ASSUME SameLedger(d2, d), d2.state \in {d.state, Taken(q)} PROVE Effect(d2, d)
  BY <1>1, <1>4 DEF Effect, SameLedger
<1>5. CASE plan = CommitPlan(q)
  <2>1. /\ Head(plan) = Replace("state", Taken(q))
        /\ Tail(plan) = <<Replace("proof", {q}), Replace("cycle", {})>>
    BY <1>5, PlanSteps DEF CommitPlan
  <2>2. /\ InTime(d, Head(plan)) /\ d2 \in Disks /\ SameLedger(d2, d)
        /\ d2.state = Taken(q) /\ d2.proof = d.proof /\ d2.cycle = d.cycle
    BY <1>3, <2>1, PutState
  <2>3. UnderWay(d2, q, Size(q.cycle))
    BY <1>2, <2>2 DEF UnderWay, SameLedger
  <2>4. Minted(d2, n)
    <3>1. \A i \in DOMAIN q.state : q.state[i] <= n
      BY <1>2, <1>3, TakenMinted DEF UnderWay, Minted
    <3> QED BY <1>1, <2>2, <3>1, TakenMinted DEF Minted
  <2>5. Publishing(d2, Tail(plan), q)
    BY <1>1, <2>1, <2>2 DEF Publishing, SameLedger
  <2> QED BY <1>1, <1>2, <1>4, <2>2, <2>3, <2>4, <2>5 DEF BooksKept
<1>6. CASE d.state = Taken(q) /\ plan = <<Replace("proof", {q}), Replace("cycle", {})>>
  <2>1. Head(plan) = Replace("proof", {q}) /\ Tail(plan) = <<Replace("cycle", {})>>
    BY <1>6, PlanSteps
  <2>2. /\ InTime(d, Head(plan)) /\ d2 \in Disks /\ SameLedger(d2, d)
        /\ d2.proof = {q} /\ d2.state = d.state /\ d2.cycle = d.cycle
    BY <2>1, PutProof
  <2>3. UnderWay(d2, q, Size(q.cycle))
    BY <1>2, <1>3, <1>6, <2>2 DEF UnderWay, SameLedger
  <2>4. Minted(d2, n) /\ Publishing(d2, Tail(plan), q)
    BY <1>1, <1>6, <2>1, <2>2 DEF Publishing, SameLedger, Minted
  <2> QED BY <1>1, <1>2, <1>4, <2>2, <2>3, <2>4 DEF BooksKept
<1>7. CASE d.state = Taken(q) /\ d.proof = {q} /\ plan = <<Replace("cycle", {})>>
  <2>1. Head(plan) = Replace("cycle", {}) /\ Tail(plan) = <<>>
    BY <1>7, PlanSteps
  <2>2. /\ InTime(d, Head(plan)) /\ d2 \in Disks /\ SameLedger(d2, d)
        /\ d2.cycle = {} /\ d2.state = d.state /\ d2.proof = d.proof
    BY <2>1, PutCycle
  <2>3. Unrepeated(Taken(q))
    BY <1>2, UnrepeatedAppend, PartOfFacts DEF UnderWay, Taken
  <2>4. d2.anchor = LedgerOf(Taken(q))
    BY <1>1, <2>2, PartOfFacts DEF SameLedger
  <2>5. Proves(d2.proof, Taken(q))
    BY <1>3, <1>7, <2>2 DEF Proves
  <2>6. Minted(d2, n) /\ Publishing(d2, Tail(plan), q)
    BY <1>1, <1>7, <2>1, <2>2 DEF Publishing, SameLedger, Minted
  <2> QED BY <1>7, <1>4, <2>2, <2>3, <2>4, <2>5, <2>6 DEF BooksKept
<1> QED BY <1>5, <1>6, <1>7 DEF Publishing

LEMMA DroppingWrite ==
  ASSUME NEW d \in Disks, BooksKept(d), NEW plan, Dropping(d, plan),
         plan # <<>>, NEW n, Minted(d, n), NEW d2, d2 = Put(d, Head(plan))
  PROVE  /\ InTime(d, Head(plan)) /\ d2 \in Disks /\ SameLedger(d2, d) /\ d2.state = d.state
         /\ BooksKept(d2) /\ Minted(d2, n) /\ Dropping(d2, Tail(plan))
<1>1. PICK q \in d.cycle : d.cycle = {q} /\ d.state = q.state /\ d.anchor = LedgerOf(q.state)
  BY DEF Dropping
<1>2. Head(plan) = Replace("cycle", {}) /\ Tail(plan) = <<>>
  BY PlanSteps DEF Dropping
<1>3. /\ InTime(d, Head(plan)) /\ d2 \in Disks /\ SameLedger(d2, d)
      /\ d2.cycle = {} /\ d2.state = d.state /\ d2.proof = d.proof
  BY <1>2, PutCycle
<1>4. Taken(q) # q.state
  BY DiskTypes, PartOfFacts
<1>5. BooksKept(d2)
  BY <1>1, <1>3, <1>4 DEF BooksKept, UnderWay, SameLedger
<1>6. Minted(d2, n) /\ Dropping(d2, Tail(plan))
  BY <1>2, <1>3 DEF Minted, Dropping
<1> QED BY <1>3, <1>5, <1>6

\* Nothing in any plan comes too late: the write is made.
LEMMA WriteMade ==
  ASSUME IInv, NEW p \in Procs, Write(p), InTime(disk, Head(proc[p].plan))
  PROVE  /\ proc[p].plan # <<>> /\ disk' = Put(disk, Head(proc[p].plan))
         /\ Moves(proc', proc, p, proc[p].pc, Tail(proc[p].plan), proc[p].view)
         /\ UNCHANGED <<holder, run, grab, bundles, tally>>
<1>1. /\ proc[p].plan # <<>> /\ disk' = Put(disk, Head(proc[p].plan))
      /\ proc' = [proc EXCEPT ![p].plan = Tail(@)]
      /\ UNCHANGED <<holder, run, grab, bundles, tally>>
  BY DEF Write
<1>2. Shaped(proc) /\ proc[p].view \in Logs
  BY Kept DEF Shaped
<1>3. PICK x : x = Tail(proc[p].plan)
  OBVIOUS
<1>4. proc' = [proc EXCEPT ![p].plan = x]
  BY <1>1, <1>3
<1>5. Moves(proc', proc, p, proc[p].pc, x, proc[p].view)
  BY <1>2, <1>4, OneMove
<1> QED BY <1>1, <1>3, <1>5

LEMMA RuntimeWrites ==
  ASSUME IInv, NEW plan,
         Moves(proc', proc, "runtime", proc["runtime"].pc, plan, proc["runtime"].view),
         UNCHANGED <<holder, run, grab, bundles, tally>>,
         disk' \in Disks, LedgerKept(disk'), BooksKept(disk'), Minted(disk', tally.cycles),
         \/ Grown(disk', disk) /\ holder = {"runtime"}
         \/ SameLedger(disk', disk),
         RuntimeKept(disk', proc'["runtime"], run, holder)
  PROVE  IInv'
<1>1. proc'["backup"] = proc["backup"] /\ Shaped(proc')
  BY DEF Moves, Procs
<1>2. Grown(disk', disk) /\ BackupKept(disk', proc["backup"], grab, holder)
  <2>1. /\ disk \in Disks /\ proc["backup"].view \in Logs
        /\ BackupKept(disk, proc["backup"], grab, holder)
    BY Kept
  <2>2. CASE Grown(disk', disk) /\ holder = {"runtime"}
    <3>1. holder # {"backup"}
      BY <2>2
    <3> QED BY <2>1, <2>2, <3>1, BackupElsewhere
  <2>3. CASE SameLedger(disk', disk)
    BY <2>1, <2>3, BackupBeside DEF Grown, SameLedger
  <2> QED BY <2>2, <2>3
<1>3. BundlesKept(disk', bundles)
  BY <1>2, Kept, BundlesGrown
<1> QED BY <1>1, <1>2, <1>3 DEF IInv

LEMMA RuntimeWriteStep == ASSUME IInv, Write("runtime") PROVE IInv' /\ Effect(disk', disk)
<1> DEFINE plan == proc["runtime"].plan
<1>1. plan # <<>> /\ RuntimeKept(disk, proc["runtime"], run, holder) /\ disk \in Disks
      /\ LedgerKept(disk) /\ BooksKept(disk) /\ Minted(disk, tally.cycles)
  BY Kept DEF Write
<1>2. PICK d2 : d2 = Put(disk, Head(plan))
  OBVIOUS
<1>3. CASE proc["runtime"].pc = "recovering"
  <2>1. RecoveryLeft(disk, plan) /\ run.state = disk.state /\ holder = {"runtime"}
    BY <1>1, <1>3 DEF RuntimeKept
  <2>2. /\ InTime(disk, Head(plan))
        /\ d2 \in Disks /\ SameBooks(d2, disk) /\ d2.anchor = disk.anchor
        /\ LedgerKept(d2) /\ RecoveryLeft(d2, Tail(plan))
    BY <1>1, <1>2, <2>1, RecoveryStep
  <2>3. /\ disk' = d2 /\ UNCHANGED <<holder, run, grab, bundles, tally>>
        /\ Moves(proc', proc, "runtime", proc["runtime"].pc, Tail(plan), proc["runtime"].view)
    BY <1>2, <2>2, WriteMade DEF Procs
  <2>4. BooksKept(d2) /\ Minted(d2, tally.cycles)
    BY <1>1, <2>2, BooksAppended DEF Minted, SameBooks
  <2>5. RuntimeKept(disk', proc'["runtime"], run, holder)
    BY <1>3, <2>1, <2>2, <2>3 DEF RuntimeKept, Moves, SameBooks
  <2>6. Grown(disk', disk)
    BY <2>2, <2>3 DEF Grown
  <2>7. disk' \in Disks /\ LedgerKept(disk') /\ BooksKept(disk') /\ Minted(disk', tally.cycles)
    BY <2>2, <2>3, <2>4
  <2>8. Effect(disk', disk)
    BY <2>2, <2>3 DEF Effect, SameBooks
  <2> QED BY <2>1, <2>3, <2>5, <2>6, <2>7, <2>8, RuntimeWrites
<1>4. CASE proc["runtime"].pc = "writing"
  <2>1. PICK q \in disk.cycle : /\ disk.cycle = {q} /\ run.todo = {q} /\ holder = {"runtime"}
                                /\ Appending(disk, plan, q, run.next)
    BY <1>1, <1>4 DEF RuntimeKept
  <2>2. /\ InTime(disk, Head(plan))
        /\ d2 \in Disks /\ SameBooks(d2, disk)
        /\ LedgerKept(d2) /\ Appending(d2, Tail(plan), q, run.next)
        /\ \/ d2.anchor = disk.anchor
           \/ disk.anchor = PartOf(q, run.next - 1) /\ d2.anchor = PartOf(q, run.next)
    BY <1>1, <1>2, <2>1, AppendStep
  <2>3. /\ disk' = d2 /\ UNCHANGED <<holder, run, grab, bundles, tally>>
        /\ Moves(proc', proc, "runtime", proc["runtime"].pc, Tail(plan), proc["runtime"].view)
    BY <1>2, <2>2, WriteMade DEF Procs
  <2>4. BooksKept(d2) /\ Minted(d2, tally.cycles)
    <3>1. run.next \in 1..Size(q.cycle)
      BY <2>1 DEF Appending
    <3>2. BooksKept(d2)
      BY <1>1, <2>1, <2>2, <3>1, BooksAppended
    <3> QED BY <1>1, <2>2, <3>2 DEF Minted, SameBooks
  <2>5. RuntimeKept(disk', proc'["runtime"], run, holder)
    BY <1>4, <2>1, <2>2, <2>3 DEF RuntimeKept, Moves, SameBooks
  <2>6. Grown(disk', disk)
    <3>1. q \in Attempts /\ run.next \in 1..Size(q.cycle)
      BY <1>1, <2>1, DiskTypes DEF Appending
    <3>2. /\ PartOf(q, run.next) = Append(PartOf(q, run.next - 1), EventAt(q.cycle, run.next))
          /\ EventAt(q.cycle, run.next) \in Events
      BY <3>1, PartOfFacts
    <3> QED BY <2>2, <2>3, <3>2 DEF Grown
  <2>7. disk' \in Disks /\ LedgerKept(disk') /\ BooksKept(disk') /\ Minted(disk', tally.cycles)
    BY <2>2, <2>3, <2>4
  <2>8. Effect(disk', disk)
    <3>1. run.next \in 1..Size(q.cycle)
      BY <2>1 DEF Appending
    <3> QED BY <2>2, <2>3, <3>1 DEF Effect, SameBooks
  <2> QED BY <2>1, <2>3, <2>5, <2>6, <2>7, <2>8, RuntimeWrites
<1>5. CASE proc["runtime"].pc \in {"committing", "publishing", "checking"}
  <2>1. Opened(disk, proc["runtime"]) /\ plan = proc["runtime"].plan
    BY <1>1, <1>5 DEF RuntimeKept
  <2>2. ASSUME InTime(disk, Head(plan)), d2 \in Disks, SameLedger(d2, disk), BooksKept(d2),
               Minted(d2, tally.cycles), Effect(d2, disk),
               \A r : (/\ r.pc = proc["runtime"].pc /\ r.plan = Tail(plan)
                       /\ r.view = proc["runtime"].view) => RuntimeKept(d2, r, run, holder)
        PROVE  IInv' /\ Effect(disk', disk)
    <3>1. /\ disk' = d2 /\ UNCHANGED <<holder, run, grab, bundles, tally>>
          /\ Moves(proc', proc, "runtime", proc["runtime"].pc, Tail(plan), proc["runtime"].view)
      BY <1>2, <2>2, WriteMade DEF Procs
    <3>2. RuntimeKept(disk', proc'["runtime"], run, holder)
      BY <2>2, <3>1 DEF Moves
    <3>3. LedgerKept(disk')
      BY <1>1, <2>2, <3>1 DEF LedgerKept, SameLedger, Covered, SnapshotCurrent
    <3> QED BY <2>2, <3>1, <3>2, <3>3, RuntimeWrites
  <2>3. CASE proc["runtime"].pc = "committing"
    <3>1. PICK q \in Attempts \cap run.todo : run.todo = {q} /\ Committing(disk, plan, q)
      BY <1>1, <2>3 DEF RuntimeKept
    <3>2. q.cycle <= tally.cycles
      BY <3>1 DEF IInv, Within
    <3>3. /\ InTime(disk, Head(plan)) /\ d2 \in Disks /\ SameLedger(d2, disk)
          /\ BooksKept(d2) /\ Minted(d2, tally.cycles) /\ Committing(d2, Tail(plan), q)
          /\ Effect(d2, disk)
      BY <1>1, <1>2, <3>1, <3>2, CommittingWrite DEF Effect, SameLedger
    <3>4. ASSUME NEW r, r.pc = proc["runtime"].pc, r.plan = Tail(plan), r.view = proc["runtime"].view
          PROVE  RuntimeKept(d2, r, run, holder)
      <4>1. Opened(d2, r)
        BY <2>1, <3>3, <3>4 DEF Opened, SameLedger
      <4> QED BY <2>3, <3>1, <3>3, <3>4, <4>1 DEF RuntimeKept
    <3> QED BY <2>2, <3>3, <3>4
  <2>4. CASE proc["runtime"].pc = "publishing"
    <3>1. PICK q \in Attempts \cap run.todo : run.todo = {q} /\ Publishing(disk, plan, q)
      BY <1>1, <2>4 DEF RuntimeKept
    <3>2. tally.cycles \in Nat
      BY Kept
    <3>3. /\ InTime(disk, Head(plan)) /\ d2 \in Disks /\ SameLedger(d2, disk)
          /\ BooksKept(d2) /\ Minted(d2, tally.cycles) /\ Publishing(d2, Tail(plan), q)
          /\ Effect(d2, disk)
      BY <1>1, <1>2, <3>1, <3>2, PublishingWrite
    <3>4. ASSUME NEW r, r.pc = proc["runtime"].pc, r.plan = Tail(plan), r.view = proc["runtime"].view
          PROVE  RuntimeKept(d2, r, run, holder)
      <4>1. Opened(d2, r)
        BY <2>1, <3>3, <3>4 DEF Opened, SameLedger
      <4> QED BY <2>4, <3>1, <3>3, <3>4, <4>1 DEF RuntimeKept
    <3> QED BY <2>2, <3>3, <3>4
  <2>5. CASE proc["runtime"].pc = "checking"
    <3>1. Dropping(disk, plan) /\ run.state = disk.state
      BY <1>1, <2>5 DEF RuntimeKept
    <3>2. /\ InTime(disk, Head(plan)) /\ d2 \in Disks /\ SameLedger(d2, disk) /\ d2.state = disk.state
          /\ BooksKept(d2) /\ Minted(d2, tally.cycles) /\ Dropping(d2, Tail(plan))
          /\ Effect(d2, disk)
      BY <1>1, <1>2, <3>1, DroppingWrite DEF Effect, SameLedger
    <3>3. ASSUME NEW r, r.pc = proc["runtime"].pc, r.plan = Tail(plan), r.view = proc["runtime"].view
          PROVE  RuntimeKept(d2, r, run, holder)
      <4>1. Opened(d2, r)
        BY <2>1, <3>2, <3>3 DEF Opened, SameLedger
      <4> QED BY <2>5, <3>1, <3>2, <3>3, <4>1 DEF RuntimeKept
    <3> QED BY <2>2, <3>2, <3>3
  <2> QED BY <1>5, <2>3, <2>4, <2>5
<1> QED BY <1>1, <1>3, <1>4, <1>5 DEF RuntimeKept

LEMMA BackupWrites ==
  ASSUME IInv, NEW plan,
         Moves(proc', proc, "backup", proc["backup"].pc, plan, proc["backup"].view),
         UNCHANGED <<holder, run, grab, bundles, tally>>, holder = {"backup"},
         disk' \in Disks, LedgerKept(disk'), SameBooks(disk', disk), disk'.anchor = disk.anchor,
         disk.pending = {} => disk'.pending = {},
         BackupKept(disk', proc'["backup"], grab, holder)
  PROVE  IInv'
<1>1. proc'["runtime"] = proc["runtime"] /\ Shaped(proc')
  BY DEF Moves, Procs
<1>2. /\ disk \in Disks /\ BooksKept(disk) /\ Minted(disk, tally.cycles)
      /\ RuntimeKept(disk, proc["runtime"], run, holder) /\ BundlesKept(disk, bundles)
  BY Kept
<1>3. holder # {"runtime"}
  OBVIOUS
<1>4. RuntimeKept(disk', proc["runtime"], run, holder)
  BY <1>2, <1>3, RuntimeElsewhere
<1>5. BooksKept(disk') /\ Minted(disk', tally.cycles)
  BY <1>2, BooksAppended DEF Minted, SameBooks
<1>6. BundlesKept(disk', bundles)
  BY <1>2 DEF BundlesKept
<1> QED BY <1>1, <1>4, <1>5, <1>6 DEF IInv

LEMMA BackupWriteStep == ASSUME IInv, Write("backup") PROVE IInv' /\ Effect(disk', disk)
<1> DEFINE plan == proc["backup"].plan
           view == proc["backup"].view
<1>1. plan # <<>> /\ BackupKept(disk, proc["backup"], grab, holder) /\ disk \in Disks
      /\ LedgerKept(disk) /\ BooksKept(disk) /\ view \in Logs
  BY Kept DEF Write
<1>2. PICK d2 : d2 = Put(disk, Head(plan))
  OBVIOUS
<1>3. ASSUME InTime(disk, Head(plan)), d2 \in Disks, SameBooks(d2, disk), d2.anchor = disk.anchor,
             LedgerKept(d2), disk.pending = {} => d2.pending = {}, holder = {"backup"},
             \A b : (/\ b.pc = proc["backup"].pc /\ b.plan = Tail(plan)
                     /\ b.view = view) => BackupKept(d2, b, grab, holder)
      PROVE  IInv' /\ Effect(disk', disk)
  <2>1. /\ disk' = d2 /\ UNCHANGED <<holder, run, grab, bundles, tally>>
        /\ Moves(proc', proc, "backup", proc["backup"].pc, Tail(plan), view)
    BY <1>2, <1>3, WriteMade DEF Procs
  <2>2. BackupKept(disk', proc'["backup"], grab, holder)
    BY <1>3, <2>1 DEF Moves
  <2>3. Effect(disk', disk)
    BY <1>3, <2>1 DEF Effect, SameBooks
  <2> QED BY <1>3, <2>1, <2>2, <2>3, BackupWrites
<1>4. CASE proc["backup"].pc \in {"recovering", "checkpointing"}
  <2>1. /\ RecoveryLeft(disk, plan) /\ holder = {"backup"}
        /\ proc["backup"].pc = "checkpointing" => Prefix(view, disk.anchor)
    BY <1>1, <1>4 DEF BackupKept
  <2>2. /\ InTime(disk, Head(plan))
        /\ d2 \in Disks /\ SameBooks(d2, disk) /\ d2.anchor = disk.anchor
        /\ LedgerKept(d2) /\ RecoveryLeft(d2, Tail(plan)) /\ disk.pending # {}
    BY <1>1, <1>2, <2>1, RecoveryStep
  <2>3. ASSUME NEW b, b.pc = proc["backup"].pc, b.plan = Tail(plan), b.view = view
        PROVE  BackupKept(d2, b, grab, holder)
    BY <1>4, <2>1, <2>2, <2>3 DEF BackupKept
  <2> QED BY <1>3, <2>1, <2>2, <2>3
<1>5. CASE proc["backup"].pc = "checkpointed"
  <2>1. /\ disk.pending = {} /\ view = disk.anchor /\ holder = {"backup"}
        /\ plan = <<Replace("snapshot", {view})>>
    BY <1>1, <1>5 DEF BackupKept
  <2>2. Head(plan) = Replace("snapshot", {view}) /\ Tail(plan) = <<>>
    BY <2>1, PlanSteps
  <2>3. /\ InTime(disk, Head(plan)) /\ d2 \in Disks /\ SameBooks(d2, disk)
        /\ d2.snapshot = {view}
        /\ d2.journal = disk.journal /\ d2.torn = disk.torn /\ d2.pending = disk.pending
        /\ d2.anchor = disk.anchor
    BY <1>1, <1>2, <2>2, PutSnapshot
  <2>4. LedgerKept(d2)
    BY <1>1, <2>1, <2>3 DEF LedgerKept, SnapshotCurrent
  <2>5. ASSUME NEW b, b.pc = proc["backup"].pc, b.plan = Tail(plan), b.view = view
        PROVE  BackupKept(d2, b, grab, holder)
    BY <1>5, <2>1, <2>2, <2>3, <2>5 DEF BackupKept
  <2> QED BY <1>3, <2>1, <2>3, <2>4, <2>5
<1> QED BY <1>1, <1>4, <1>5 DEF BackupKept

LEMMA BackupStartStep == ASSUME IInv, BackupStart PROVE IInv'
<1>1. /\ proc["backup"].pc = "idle" /\ proc["backup"].plan = <<>>
      /\ UNCHANGED <<disk, holder, run, grab, bundles>>
      /\ tally' = [tally EXCEPT !.backups = @ + 1]
  BY DEF BackupStart, At
<1>2. tally' \in Tallies /\ tally.cycles = tally'.cycles
  BY <1>1, Kept DEF Tallies
<1>3. Moves(proc', proc, "backup", "opening", <<>>, proc["backup"].view)
  BY <1>1, Kept, OneMove DEF BackupStart, Go, Procs
<1>4. BackupKept(disk, proc'["backup"], grab', holder')
  BY <1>3 DEF BackupKept, Moves
<1>5. BundlesKept(disk, bundles')
  BY <1>1, Kept
<1> QED BY <1>1, <1>2, <1>3, <1>4, <1>5, BackupMoves

LEMMA CheckpointStep == ASSUME IInv, Checkpoint PROVE IInv'
<1>1. /\ proc["backup"].pc = "opened" /\ proc["backup"].plan = <<>>
      /\ holder = {} /\ holder' = {"backup"}
      /\ UNCHANGED <<disk, run, grab, bundles, tally>>
  BY DEF Checkpoint, At, Acquire
<1>2. RecoveryLeft(disk, RecoveryPlan(disk)) /\ Prefix(proc["backup"].view, disk.anchor)
  BY <1>1, Kept, RecoveryBegins DEF BackupKept
<1>3. tally' \in Tallies /\ tally.cycles = tally'.cycles /\ BundlesKept(disk, bundles')
  BY <1>1, Kept
<1>4. CASE Recoverable(disk) /\ ~RecoveryReplaces(disk)
  <2>1. PICK plan : plan = RecoveryPlan(disk)
    OBVIOUS
  <2>2. Moves(proc', proc, "backup", "checkpointing", plan, proc["backup"].view)
    <3>1. proc' = [proc EXCEPT !["backup"].pc = "checkpointing", !["backup"].plan = plan]
      BY <1>4, <2>1 DEF Checkpoint, GoWith
    <3> QED BY <3>1, Kept, TwoMoves DEF Procs
  <2>3. BackupKept(disk, proc'["backup"], grab', holder')
    BY <1>1, <1>2, <2>1, <2>2 DEF BackupKept, Moves
  <2> QED BY <1>1, <1>3, <2>2, <2>3, BackupMoves
<1>5. CASE ~(Recoverable(disk) /\ ~RecoveryReplaces(disk))
  <2>1. Moves(proc', proc, "backup", "refused", <<>>, proc["backup"].view)
    <3>1. proc' = [proc EXCEPT !["backup"].pc = "refused"]
      BY <1>5 DEF Checkpoint, Go
    <3> QED BY <1>1, <3>1, Kept, OneMove DEF Procs
  <2>2. BackupKept(disk, proc'["backup"], grab', holder')
    BY <2>1 DEF BackupKept, Moves
  <2> QED BY <1>1, <1>3, <2>1, <2>2, BackupMoves
<1> QED BY <1>4, <1>5

LEMMA CheckpointCurrentStep == ASSUME IInv, CheckpointCurrent PROVE IInv'
<1> DEFINE view == proc["backup"].view
<1>1. /\ proc["backup"].pc = "checkpointing" /\ proc["backup"].plan = <<>>
      /\ UNCHANGED <<disk, holder, run, grab, bundles, tally>>
  BY DEF CheckpointCurrent, At
<1>2. disk.pending = {} /\ holder = {"backup"}
  BY <1>1, Kept, RecoveryDone DEF BackupKept
<1>3. tally' \in Tallies /\ tally.cycles = tally'.cycles /\ BundlesKept(disk, bundles')
  BY <1>1, Kept
<1>4. CASE Current(disk, view)
  <2>1. view = disk.anchor
    BY <1>4 DEF Current, HeadMatches
  <2>2. PICK plan : plan = <<Replace("snapshot", {view})>>
    OBVIOUS
  <2>3. Moves(proc', proc, "backup", "checkpointed", plan, view)
    <3>1. proc' = [proc EXCEPT !["backup"].pc = "checkpointed", !["backup"].plan = plan]
      BY <1>4, <2>2 DEF CheckpointCurrent, GoWith
    <3> QED BY <3>1, Kept, TwoMoves DEF Procs
  <2>4. BackupKept(disk, proc'["backup"], grab', holder')
    BY <1>1, <1>2, <2>1, <2>2, <2>3 DEF BackupKept, Moves
  <2> QED BY <1>1, <1>3, <2>3, <2>4, BackupMoves
<1>5. CASE ~Current(disk, view)
  <2>1. Moves(proc', proc, "backup", "refused", <<>>, view)
    <3>1. proc' = [proc EXCEPT !["backup"].pc = "refused"]
      BY <1>5 DEF CheckpointCurrent, Go
    <3> QED BY <1>1, <3>1, Kept, OneMove DEF Procs
  <2>2. BackupKept(disk, proc'["backup"], grab', holder')
    BY <2>1 DEF BackupKept, Moves
  <2> QED BY <1>1, <1>3, <2>1, <2>2, BackupMoves
<1> QED BY <1>4, <1>5

\* The three reads: what is grabbed does not matter until it is verified.
LEMMA ReadStep ==
  ASSUME IInv, ReadAnchor \/ ReadJournal \/ ReadSnapshot
  PROVE  IInv'
<1>1. /\ proc["backup"].pc \in {"checkpointed", "anchored", "journaled"} /\ proc["backup"].plan = <<>>
      /\ UNCHANGED <<disk, run, bundles, tally>>
      /\ holder' = holder \/ holder' = holder \ {"backup"}
  BY DEF ReadAnchor, ReadJournal, ReadSnapshot, At, Release
<1>2. PICK pc \in {"anchored", "journaled", "staging"} : proc' = [proc EXCEPT !["backup"].pc = pc]
  BY DEF ReadAnchor, ReadJournal, ReadSnapshot, Go
<1>3. Moves(proc', proc, "backup", pc, <<>>, proc["backup"].view)
  BY <1>1, <1>2, Kept, OneMove DEF Procs
<1>4. Prefix(proc["backup"].view, disk.anchor)
  BY <1>1, Kept, PrefixSame DEF BackupKept
<1>5. BackupKept(disk, proc'["backup"], grab', holder')
  BY <1>2, <1>3, <1>4 DEF BackupKept, Moves
<1>6. tally' \in Tallies /\ tally.cycles = tally'.cycles /\ BundlesKept(disk, bundles')
  BY <1>1, Kept
<1> QED BY <1>1, <1>3, <1>5, <1>6, BackupMoves

\* Verifying the copy is what makes it a head the source once had.
LEMMA PublishBundleStep == ASSUME IInv, PublishBundle PROVE IInv'
<1> DEFINE view == proc["backup"].view
<1>1. /\ proc["backup"].pc = "staging" /\ proc["backup"].plan = <<>>
      /\ UNCHANGED <<disk, holder, run, grab, bundles, tally>>
  BY DEF PublishBundle, At
<1>2. Prefix(view, disk.anchor) /\ view \in Logs
  BY <1>1, Kept DEF BackupKept
<1>3. tally' \in Tallies /\ tally.cycles = tally'.cycles /\ BundlesKept(disk, bundles')
  BY <1>1, Kept
<1>4. PICK pc \in {"exporting", "refused"} :
        /\ proc' = [proc EXCEPT !["backup"].pc = pc]
        /\ pc = "exporting" => Verified(view, grab)
  BY DEF PublishBundle, Go
<1>5. Moves(proc', proc, "backup", pc, <<>>, view)
  BY <1>1, <1>4, Kept, OneMove DEF Procs
<1>6. BackupKept(disk, proc'["backup"], grab', holder')
  BY <1>1, <1>2, <1>4, <1>5 DEF BackupKept, Moves, Verified
<1> QED BY <1>1, <1>3, <1>5, <1>6, BackupMoves

LEMMA PublishExportStep == ASSUME IInv, PublishExport PROVE IInv'
<1>1. /\ proc["backup"].pc = "exporting" /\ proc["backup"].plan = <<>>
      /\ UNCHANGED <<disk, holder, run, tally>> /\ bundles' = bundles \cup {grab}
  BY DEF PublishExport, At
<1>2. Opens(grab) /\ grab.journal \in Logs /\ Prefix(grab.journal, disk.anchor)
  BY <1>1, Kept DEF BackupKept
<1>3. tally' \in Tallies /\ tally.cycles = tally'.cycles /\ BundlesKept(disk, bundles')
  BY <1>1, <1>2, Kept DEF BundlesKept
<1>4. Moves(proc', proc, "backup", "idle", <<>>, <<>>)
  BY Kept, OneMove DEF PublishExport, Procs
<1>5. BackupKept(disk, proc'["backup"], grab', holder')
  BY <1>4 DEF BackupKept, Moves
<1> QED BY <1>1, <1>3, <1>4, <1>5, BackupMoves

LEMMA BackupFailsStep == ASSUME IInv, BackupFails PROVE IInv'
<1>1. UNCHANGED <<disk, run, bundles, tally>> /\ holder' = holder \ {"backup"}
  BY DEF BackupFails, Release
<1>2. tally' \in Tallies /\ tally.cycles = tally'.cycles /\ BundlesKept(disk, bundles')
  BY <1>1, Kept
<1>3. Moves(proc', proc, "backup", "idle", <<>>, <<>>)
  BY Kept, OneMove DEF BackupFails, Procs
<1>4. BackupKept(disk, proc'["backup"], grab', holder')
  BY <1>3 DEF BackupKept, Moves
<1> QED BY <1>1, <1>2, <1>3, <1>4, BackupMoves

LEMMA CrashStep == ASSUME IInv, NEW p \in Procs, Crash(p) PROVE IInv'
<1>1. /\ UNCHANGED <<disk, bundles>> /\ holder' = holder \ {p}
      /\ tally' = [tally EXCEPT !.crashes = @ + 1]
      /\ run' = IF p = "runtime" THEN Asleep ELSE run
      /\ grab' = IF p = "backup" THEN Nothing ELSE grab
  BY DEF Crash, Release
<1>2. tally' \in Tallies /\ tally.cycles = tally'.cycles /\ tally.cycles <= tally'.cycles
  BY <1>1, Kept DEF Tallies
<1>3. Moves(proc', proc, p, "idle", <<>>, <<>>)
  BY Kept, OneMove DEF Crash
<1>4. CASE p = "runtime"
  <2>1. Remembered(run') /\ Within(run', tally'.cycles)
    BY <1>1, <1>4, EmptySeq DEF Asleep, Remembered, Within
  <2>2. RuntimeKept(disk, proc'["runtime"], run', holder')
    BY <1>3, <1>4 DEF RuntimeKept, Moves
  <2>3. UNCHANGED <<disk, grab, bundles>> /\ holder' = holder \ {"runtime"}
        /\ Moves(proc', proc, "runtime", "idle", <<>>, <<>>)
    BY <1>1, <1>3, <1>4
  <2> QED BY <1>2, <2>1, <2>2, <2>3, RuntimeMoves
<1>5. CASE p = "backup"
  <2>1. BackupKept(disk, proc'["backup"], grab', holder')
    BY <1>3, <1>5 DEF BackupKept, Moves
  <2>2. UNCHANGED <<disk, run>> /\ holder' = holder \ {"backup"} /\ BundlesKept(disk, bundles')
        /\ Moves(proc', proc, "backup", "idle", <<>>, <<>>)
    BY <1>1, <1>3, <1>5, Kept
  <2> QED BY <1>2, <2>1, <2>2, BackupMoves
<1> QED BY <1>4, <1>5 DEF Procs

-----------------------------------------------------------------------------
(* The theorems *)

\* A clean disk, whether the host is new or gone.
LEMMA CleanStart ==
  ASSUME disk = CleanDisk, NEW pc \in {"idle", "gone"},
         proc = [p \in Procs |-> [Idle EXCEPT !.pc = pc]], run = Asleep, bundles = {},
         tally = [cycles |-> 0, crashes |-> 0, backups |-> 0]
  PROVE  IInv
<1>1. <<>> \in Logs /\ <<>> \in Seq(Cycles)
  BY EmptySeq DEF Logs
<1>2. disk \in Disks /\ disk.cycle = {} /\ disk.state = <<>> /\ disk.proof = {}
      /\ disk.anchor = <<>> /\ disk.journal = <<>> /\ disk.pending = {} /\ disk.torn = {}
      /\ disk.snapshot = {}
  BY <1>1 DEF CleanDisk, Disks
<1>3. /\ proc["runtime"].pc = pc /\ proc["runtime"].plan = <<>>
      /\ proc["backup"].pc = pc /\ proc["backup"].plan = <<>>
      /\ Shaped(proc)
  <2>1. \A p \in Procs : proc[p] = [pc |-> pc, plan |-> <<>>, view |-> <<>>]
    BY DEF Idle
  <2>2. proc = [p \in Procs |-> [pc |-> proc[p].pc, plan |-> proc[p].plan, view |-> proc[p].view]]
    BY DEF Idle
  <2> QED BY <1>1, <2>1, <2>2 DEF Shaped, Procs
<1>4. Remembered(run) /\ run.todo = {}
  BY <1>1 DEF Asleep, Remembered
<1>5. tally \in Tallies
  BY RuntimeStoreAssumption DEF Tallies
<1>6. LedgerKept(disk)
  BY <1>2 DEF LedgerKept, SnapshotCurrent
<1>7. BooksKept(disk)
  BY <1>2, LedgerNone DEF BooksKept, Unrepeated, Proves
<1>8. Minted(disk, tally.cycles) /\ Within(run, tally.cycles)
  BY <1>2, <1>4 DEF Minted, Within
<1>9. RuntimeKept(disk, proc["runtime"], run, holder) /\ BackupKept(disk, proc["backup"], grab, holder)
  BY <1>3 DEF RuntimeKept, BackupKept
<1> QED BY <1>2, <1>3, <1>4, <1>5, <1>6, <1>7, <1>8, <1>9 DEF IInv, BundlesKept

LEMMA RuntimeNextStep == ASSUME IInv, RuntimeNext PROVE IInv'
<1> "runtime" \in Procs
  BY DEF Procs
<1>1. CASE Start
  BY <1>1, StartStep
<1>2. CASE OpenLedger("runtime")
  BY <1>2, OpenStep
<1>3. CASE OpenedLedger("runtime")
  BY <1>3, OpenedStep
<1>4. CASE ResumeCycle
  BY <1>4, ResumeStep
<1>5. CASE Commit
  BY <1>5, CommitStep
<1>6. CASE AppendNext
  BY <1>6, AppendNextStep
<1>7. CASE Appended
  BY <1>7, AppendedStep
<1>8. CASE Publish
  BY <1>8, PublishStep
<1>9. CASE Published
  BY <1>9, PublishedStep
<1>10. CASE Check
  BY <1>10, CheckStep
<1>11. CASE Decide
  BY <1>11, DecideStep
<1>12. CASE Exit
  BY <1>12, ExitStep
<1>13. CASE Write("runtime")
  BY <1>13, RuntimeWriteStep
<1> QED BY <1>1, <1>2, <1>3, <1>4, <1>5, <1>6, <1>7, <1>8, <1>9, <1>10, <1>11, <1>12, <1>13
        DEF RuntimeNext

LEMMA BackupNextStep == ASSUME IInv, BackupNext PROVE IInv'
<1> "backup" \in Procs
  BY DEF Procs
<1>1. CASE BackupStart
  BY <1>1, BackupStartStep
<1>2. CASE OpenLedger("backup")
  BY <1>2, OpenStep
<1>3. CASE OpenedLedger("backup")
  BY <1>3, OpenedStep
<1>4. CASE Checkpoint
  BY <1>4, CheckpointStep
<1>5. CASE CheckpointCurrent
  BY <1>5, CheckpointCurrentStep
<1>6. CASE ReadAnchor \/ ReadJournal \/ ReadSnapshot
  BY <1>6, ReadStep
<1>7. CASE PublishBundle
  BY <1>7, PublishBundleStep
<1>8. CASE PublishExport
  BY <1>8, PublishExportStep
<1>9. CASE BackupFails
  BY <1>9, BackupFailsStep
<1>10. CASE Write("backup")
  BY <1>10, BackupWriteStep
<1> QED BY <1>1, <1>2, <1>3, <1>4, <1>5, <1>6, <1>7, <1>8, <1>9, <1>10 DEF BackupNext

LEMMA NextStep == ASSUME IInv, [Next]_vars PROVE IInv'
<1>1. CASE RuntimeNext
  BY <1>1, RuntimeNextStep
<1>2. CASE BackupNext
  BY <1>2, BackupNextStep
<1>3. CASE \E p \in Procs : Crash(p)
  BY Zenon, <1>3, CrashStep
<1>4. CASE UNCHANGED vars
  BY ZenonT(60), <1>4 DEF vars, IInv, Shaped, RuntimeKept, BackupKept, BundlesKept
<1> QED BY <1>1, <1>2, <1>3, <1>4 DEF Next

\* The inductive invariant holds of the runtime and the backup command on their
\* host, and on the host the restore runs on, where the source's is gone.
THEOREM StoreInvariant == SystemSpec => []IInv
<1>1. Init => IInv
  <2>1. Init => proc = [p \in Procs |-> [Idle EXCEPT !.pc = "idle"]]
    BY DEF Init, Idle
  <2> QED BY <2>1, CleanStart DEF Init
<1>2. SourceGone => IInv
  BY CleanStart DEF SourceGone
<1>3. SystemInit => IInv
  BY <1>1, <1>2 DEF SystemInit
<1>4. [SystemNext]_systemVars => [Next]_vars
  BY DEF SystemNext, systemVars
<1>5. IInv /\ [SystemNext]_systemVars => IInv'
  BY <1>4, NextStep
<1> QED BY <1>3, <1>5, PTL DEF SystemSpec

-----------------------------------------------------------------------------
(* What the head's records decide, and CycleLog *)

LEMMA DecidedAppend ==
  ASSUME NEW L \in Logs, NEW e \in Events
  PROVE  /\ DecidedIn(L) \in Seq(Cycles)
         /\ e.kind = "prepared" => DecidedIn(Append(L, e)) = Append(DecidedIn(L), e.cycle)
         /\ e.kind # "prepared" => DecidedIn(Append(L, e)) = DecidedIn(L)
<1> DEFINE ss == [i \in DOMAIN L |-> PreparedBy(L[i])]
           tt == [i \in DOMAIN Append(L, e) |-> PreparedBy(Append(L, e)[i])]
<1>1. \A x \in Events : PreparedBy(x) \in Seq(Cycles)
  BY DEF PreparedBy, Events
<1>2. ss \in Seq(Seq(Cycles)) /\ Len(ss) = Len(L)
  <2>1. DOMAIN L = 1..Len(L) /\ \A i \in 1..Len(L) : PreparedBy(L[i]) \in Seq(Cycles)
    BY <1>1 DEF Logs
  <2> QED BY <2>1 DEF Logs
<1>3. tt = Append(ss, PreparedBy(e))
  <2>1. /\ tt \in Seq(Seq(Cycles)) /\ Len(tt) = Len(L) + 1
        /\ Append(ss, PreparedBy(e)) \in Seq(Seq(Cycles))
        /\ Len(Append(ss, PreparedBy(e))) = Len(L) + 1
    BY <1>1, <1>2 DEF Logs
  <2>2. ASSUME NEW i \in 1..(Len(L) + 1) PROVE tt[i] = Append(ss, PreparedBy(e))[i]
    BY <1>1, <1>2 DEF Logs
  <2> HIDE DEF tt, ss
  <2> QED BY <2>1, <2>2, SeqEqual
<1>4. FlattenSeq(ss) \in Seq(Cycles) /\ FlattenSeq(Append(ss, PreparedBy(e))) = FlattenSeq(ss) \o PreparedBy(e)
  <2> HIDE DEF ss
  <2> QED BY <1>1, <1>2, FlattenAppend
<1>5. PICK D : D = DecidedIn(L)
  OBVIOUS
<1>6. D \in Seq(Cycles) /\ DecidedIn(Append(L, e)) = D \o PreparedBy(e)
  BY <1>3, <1>4, <1>5, Zenon DEF DecidedIn
<1>7. e.cycle \in Cycles
  BY DEF Events
<1>8. CASE e.kind = "prepared"
  <2>1. PreparedBy(e) = <<e.cycle>>
    BY <1>8 DEF PreparedBy
  <2>2. Append(D, e.cycle) = D \o <<e.cycle>>
    BY <1>6, <1>7, AppendIsConcat
  <2> QED BY <1>5, <1>6, <1>8, <2>1, <2>2, Zenon
<1>9. CASE e.kind # "prepared"
  <2>1. PreparedBy(e) = <<>>
    BY <1>9 DEF PreparedBy
  <2>2. D \o <<>> = D
    BY <1>6, ConcatEmptySeq
  <2> QED BY <1>5, <1>6, <1>9, <2>1, <2>2, Zenon
<1> QED BY <1>5, <1>6, <1>8, <1>9

\* A cycle is decided by its first event and by no other.
LEMMA PartDecides ==
  ASSUME NEW L \in Logs, NEW c \in Cycles, NEW k \in 0..Size(c)
  PROVE  DecidedIn(Part(L, c, k)) = IF k = 0 THEN DecidedIn(L) ELSE Append(DecidedIn(L), c)
<1> DEFINE T == {n \in Nat : n \in 0..Size(c) =>
                   DecidedIn(Part(L, c, n)) = IF n = 0 THEN DecidedIn(L) ELSE Append(DecidedIn(L), c)}
<1>1. 0 \in T
  BY PartFull
<1>2. ASSUME NEW n \in Nat, NEW m \in Nat, n \in T, m = n + 1 PROVE m \in T
  <2>1. SUFFICES ASSUME m \in 0..Size(c)
                 PROVE  DecidedIn(Part(L, c, m)) = Append(DecidedIn(L), c)
    <3>1. m # 0
      BY <1>2
    <3> QED BY <3>1
  <2>2. n \in 0..Size(c) /\ n # Size(c) /\ m \in 1..Size(c)
    BY <1>2, <2>1, SizeType
  <2>3. DecidedIn(Part(L, c, n)) = IF n = 0 THEN DecidedIn(L) ELSE Append(DecidedIn(L), c)
    BY <1>2, <2>2
  <2>4. Part(L, c, m) = Append(Part(L, c, n), EventAt(c, m))
    BY <1>2, <2>2, PartNext
  <2>5. PICK P, e : P = Part(L, c, n) /\ e = EventAt(c, m)
    OBVIOUS
  <2>6. P \in Logs /\ e \in Events
    BY <2>2, <2>5, PartAt, EventsAt
  <2>7. e.cycle = c /\ (e.kind = "prepared" <=> m = 1)
    BY <2>2, <2>5, EventParts
  <2>8. /\ e.kind = "prepared" => DecidedIn(Append(P, e)) = Append(DecidedIn(P), e.cycle)
        /\ e.kind # "prepared" => DecidedIn(Append(P, e)) = DecidedIn(P)
    BY <2>6, DecidedAppend
  <2>9. /\ Part(L, c, m) = Append(P, e)
        /\ DecidedIn(P) = IF n = 0 THEN DecidedIn(L) ELSE Append(DecidedIn(L), c)
    BY <2>3, <2>4, <2>5, Zenon
  <2>10. m = 1 <=> n = 0
    BY <1>2
  <2> QED BY <2>7, <2>8, <2>9, <2>10
<1>3. Nat \subseteq T
  <2> HIDE DEF T
  <2> QED BY <1>1, <1>2, Inductive
<1> QED BY <1>3, SizeType

\* The ledger of a state decides that state.
LEMMA LedgerDecides == ASSUME NEW S \in Seq(Cycles) PROVE DecidedIn(LedgerOf(S)) = S
<1> DEFINE T == {n \in Nat : \A R \in Seq(Cycles) : Len(R) = n => DecidedIn(LedgerOf(R)) = R}
<1>1. 0 \in T
  <2>1. SUFFICES ASSUME NEW R \in Seq(Cycles), Len(R) = 0 PROVE DecidedIn(LedgerOf(R)) = R
    OBVIOUS
  <2>2. R = <<>>
    BY <2>1, EmptySeq
  <2>3. [i \in DOMAIN <<>> |-> PreparedBy(<<>>[i])] = <<>>
    OBVIOUS
  <2>4. DecidedIn(<<>>) = <<>>
    BY <2>3, FlattenEmpty DEF DecidedIn
  <2> QED BY <2>2, <2>4, LedgerNone
<1>2. ASSUME NEW n \in Nat, NEW m \in Nat, n \in T, m = n + 1 PROVE m \in T
  <2>1. SUFFICES ASSUME NEW R \in Seq(Cycles), Len(R) = m PROVE DecidedIn(LedgerOf(R)) = R
    OBVIOUS
  <2>2. PICK Q \in Seq(Cycles), c \in Cycles : R = Append(Q, c)
    <3>1. R # <<>>
      BY <1>2, <2>1, EmptySeq
    <3> QED BY <3>1, SequenceEmptyOrAppend
  <2>3. Len(Q) = n
    BY <1>2, <2>1, <2>2
  <2>4. LedgerOf(Q) \in Logs /\ DecidedIn(LedgerOf(Q)) = Q
    BY <1>2, <2>3, LedgerAppend
  <2>5. LedgerOf(R) = Part(LedgerOf(Q), c, Size(c))
    <3>1. LedgerOf(R) = LedgerOf(Q) \o EventsOf(c)
      BY <2>2, LedgerAppend, Zenon
    <3>2. Part(LedgerOf(Q), c, Size(c)) = LedgerOf(Q) \o EventsOf(c)
      BY <2>4, PartFull, Zenon
    <3> QED BY <3>1, <3>2, Zenon
  <2>6. Size(c) \in 0..Size(c) /\ Size(c) # 0
    BY SizeType
  <2>7. DecidedIn(Part(LedgerOf(Q), c, Size(c))) = Append(DecidedIn(LedgerOf(Q)), c)
    BY <2>4, <2>6, PartDecides
  <2> QED BY <2>2, <2>4, <2>5, <2>7
<1>3. Nat \subseteq T
  <2> HIDE DEF T
  <2> QED BY <1>1, <1>2, Inductive
<1>4. Len(S) \in Nat
  OBVIOUS
<1> QED BY <1>3, <1>4

LEMMA DecidedUnderWay ==
  ASSUME NEW q \in Attempts, NEW k \in 0..Size(q.cycle)
  PROVE  DecidedIn(PartOf(q, k)) = IF k = 0 THEN q.state ELSE Taken(q)
<1>1. q.cycle \in Cycles /\ q.state \in Seq(Cycles) /\ LedgerOf(q.state) \in Logs
  BY PartOfFacts
<1>2. DecidedIn(LedgerOf(q.state)) = q.state
  BY <1>1, LedgerDecides
<1> QED BY <1>1, <1>2, PartDecides DEF PartOf, Taken

\* One more event under the head decides its cycle if it is the first, and the
\* state file applies what is decided.
LEMMA EffectMaps ==
  ASSUME IInv, Effect(disk', disk)
  PROVE  [CycleLog!Next]_(CycleLog!vars)
<1>1. CASE disk'.anchor = disk.anchor /\ disk'.state = disk.state
  BY <1>1 DEF CycleLog!vars
<1>2. ASSUME NEW q \in disk.cycle, NEW n \in 1..Size(q.cycle), disk'.state = disk.state,
             disk.anchor = PartOf(q, n - 1), disk'.anchor = PartOf(q, n)
      PROVE  [CycleLog!Next]_(CycleLog!vars)
  <2>1. PICK k : k = n - 1
    OBVIOUS
  <2>2. q \in Attempts /\ Size(q.cycle) \in Nat /\ q.cycle \in Cycles
    BY AttemptView, PartOfFacts
  <2>3. k \in 0..Size(q.cycle) /\ k # Size(q.cycle) /\ n \in 0..Size(q.cycle) /\ n # 0
    BY <2>1, <2>2
  <2>4. /\ DecidedIn(disk.anchor) = IF k = 0 THEN q.state ELSE Taken(q)
        /\ DecidedIn(disk'.anchor) = Taken(q)
    BY <1>2, <2>1, <2>2, <2>3, DecidedUnderWay
  <2>5. UnderWay(disk, q, k)
    <3>1. PICK j \in 0..Size(q.cycle) : UnderWay(disk, q, j)
      BY AttemptView
    <3>2. PartOf(q, j) = PartOf(q, k)
      BY <1>2, <2>1, <3>1 DEF UnderWay
    <3>3. j = k
      BY <2>2, <2>3, <3>2, PartOfOnce
    <3> QED BY <3>1, <3>3
  <2>6. disk.state = q.state /\ ~Holds(q.state, q.cycle)
    BY <2>3, <2>5 DEF UnderWay
  <2>7. CASE k = 0
    <3>1. DecidedIn(disk.anchor) = q.state /\ DecidedIn(disk'.anchor) = Append(q.state, q.cycle)
      BY <2>4, <2>7 DEF Taken
    <3>2. CycleLog!Decide(q.cycle)
      BY <1>2, <2>6, <3>1 DEF CycleLog!Decide, Holds
    <3> QED BY <2>2, <3>2 DEF CycleLog!Next
  <2>8. CASE k # 0
    BY <1>2, <2>4, <2>8 DEF CycleLog!vars
  <2> QED BY <2>7, <2>8
<1>3. ASSUME NEW q \in disk.cycle, disk'.anchor = disk.anchor,
             disk.anchor = PartOf(q, Size(q.cycle)), disk'.state = Taken(q)
      PROVE  [CycleLog!Next]_(CycleLog!vars)
  <2>1. q \in Attempts
    BY AttemptView
  <2>2. Size(q.cycle) \in 0..Size(q.cycle) /\ Size(q.cycle) # 0
    BY <2>1, PartOfFacts
  <2>3. DecidedIn(disk.anchor) = Taken(q)
    BY <1>3, <2>1, <2>2, DecidedUnderWay
  <2> QED BY <1>3, <2>3 DEF CycleLog!Next, CycleLog!Apply, CycleLog!vars
<1> QED BY <1>1, <1>2, <1>3 DEF Effect

\* What is not a write leaves the files as they are.
LEMMA StoreStepMaps ==
  ASSUME IInv, [Next]_vars
  PROVE  [CycleLog!Next]_(CycleLog!vars)
<1>1. CASE UNCHANGED disk
  BY <1>1 DEF CycleLog!vars
<1>2. CASE Write("runtime")
  BY <1>2, RuntimeWriteStep, EffectMaps
<1>3. CASE Write("backup")
  BY <1>3, BackupWriteStep, EffectMaps
<1>4. RuntimeNext => UNCHANGED disk \/ Write("runtime")
  BY DEF RuntimeNext, Start, OpenLedger, OpenedLedger, ResumeCycle, Commit, AppendNext, Appended,
         Publish, Published, Check, Decide, Exit
<1>5. BackupNext => UNCHANGED disk \/ Write("backup")
  BY DEF BackupNext, BackupStart, OpenLedger, OpenedLedger, Checkpoint, CheckpointCurrent,
         ReadAnchor, ReadJournal, ReadSnapshot, PublishBundle, PublishExport, BackupFails
<1>6. (\E p \in Procs : Crash(p)) => UNCHANGED disk
  BY DEF Crash
<1> QED BY <1>1, <1>2, <1>3, <1>4, <1>5, <1>6 DEF Next, vars

\* Whatever is killed, whenever, and whatever the backup command does meanwhile,
\* the files step as CycleLog does: a cycle is decided once, on top of a state
\* that has all before it, and only what is decided is applied.
THEOREM RuntimeImplementsCycleLog == SystemSpec => CycleLog!Spec
<1>1. SystemInit => CycleLog!Init
  <2>1. <<>> \in Seq(Cycles)
    BY EmptySeq
  <2>2. DecidedIn(<<>>) = <<>>
    BY <2>1, LedgerDecides, LedgerNone
  <2> QED BY <2>2 DEF SystemInit, Init, SourceGone, CleanDisk, CycleLog!Init
<1>2. [SystemNext]_systemVars => [Next]_vars
  BY DEF SystemNext, systemVars
<1>3. IInv /\ [SystemNext]_systemVars => [CycleLog!Next]_(CycleLog!vars)
  BY <1>2, StoreStepMaps
<1>4. SystemSpec => []IInv
  BY StoreInvariant
<1> QED BY <1>1, <1>3, <1>4, PTL DEF SystemSpec, CycleLog!Spec

\* Runtime: no files that kills and backups can leave make it refuse to open or
\* to commit.
THEOREM StoreNeverRefuses == SystemSpec => []NeverRefused
<1>1. IInv => NeverRefused
  BY DEF IInv, RuntimeKept, NeverRefused
<1> QED BY <1>1, StoreInvariant, PTL

\* Recovery, from whatever a kill left, gives the records under the head.
THEOREM StoreHeadRecovers == SystemSpec => []HeadRecovers
<1>1. IInv => HeadRecovers
  BY Kept, RecoveryBegins DEF HeadRecovers
<1> QED BY <1>1, StoreInvariant, PTL

\* A runtime ready to decide has its state file, and whole cycles in the ledger.
THEOREM StoreWholeCycles == SystemSpec => []WholeCycles
<1>1. IInv => WholeCycles
  <2>1. SUFFICES ASSUME IInv, proc["runtime"].pc = "ready"
                 PROVE  disk.state = run.state /\ disk.journal = LedgerOf(run.state)
    BY DEF WholeCycles, At
  <2>2. run.state = disk.state /\ disk.cycle = {} /\ disk.pending = {}
    BY <2>1, Kept DEF RuntimeKept, Opened
  <2>3. disk.anchor = LedgerOf(disk.state) /\ disk.journal = disk.anchor
    BY <2>1, <2>2, Kept, SettledView, Still
  <2> QED BY <2>2, <2>3
<1> QED BY <1>1, StoreInvariant, PTL

\* Every published backup opens under its own head, which the source once had.
THEOREM StoreBackupIsAHead == SystemSpec => []BackupIsAHead
<1>1. IInv => BackupIsAHead
  BY DEF IInv, BundlesKept, BackupIsAHead
<1> QED BY <1>1, StoreInvariant, PTL

-----------------------------------------------------------------------------
(* The host that restores *)

\* What a restore of t may begin from, but for the temporaries.
Unwritten(c, t) ==
  /\ c.snapshot = {}
  /\ \/ c.journal = {} /\ c.anchor \in {<<>>, t}
     \/ c.journal = {<<>>} /\ c.anchor = t /\ t # <<>>

\* No more than t was written, and the journal before the snapshot.
Half(c, t) ==
  \/ c.snapshot = {} /\ c.journal \in {{}, {<<>>}, {t}}
  \/ c.snapshot = {t} /\ c.journal = {t}

WholeOf(c, t) == c.intent = {} /\ c.temps = {} /\ c.journal = {t} /\ c.snapshot = {t} /\ c.anchor = t

Intended(c, t) == c.intent = {t} /\ Half(c, t) /\ (c.anchor = t \/ Unwritten(c, t))

\* Nothing yet, or nothing any more.
Fresh(c, r) ==
  /\ c.intent = {} /\ c.snapshot = {}
  /\ \/ c.journal = {} /\ (c.anchor = <<>> \/ c.anchor \in r.tried)
     \/ c.journal = {<<>>} /\ c.anchor \in r.tried /\ r.losses > 0

TempsKept(c, r) ==
  \/ c.temps = {}
  \/ \E t \in r.tried, w \in BOOLEAN :
       \/ c.temps = {Temp("intent", t, w)} /\ c.intent = {} /\ Unwritten(c, t)
       \/ \E f \in {"journal", "snapshot"} :
            c.temps = {Temp(f, t, w)} /\ c.intent = {t} /\ c.anchor = t

\* What is left of restoring t.
RestoreLeft(c, plan, t) ==
  \/ /\ plan = << Replace("intent", {t}), Replace("anchor", t), Replace("journal", {t}),
                  Replace("snapshot", {t}), Replace("intent", {}) >>
     /\ c.intent = {} /\ Unwritten(c, t)
  \/ /\ plan = << Replace("anchor", t), Replace("journal", {t}),
                  Replace("snapshot", {t}), Replace("intent", {}) >>
     /\ Intended(c, t)
  \/ /\ plan = << Replace("journal", {t}), Replace("snapshot", {t}), Replace("intent", {}) >>
     /\ Intended(c, t) /\ c.anchor = t
  \/ /\ plan = << Replace("snapshot", {t}), Replace("intent", {}) >>
     /\ Intended(c, t) /\ c.anchor = t /\ c.journal = {t}
  \/ /\ plan = << Replace("intent", {}) >>
     /\ Intended(c, t) /\ c.anchor = t /\ c.journal = {t} /\ c.snapshot = {t}
  \/ plan = <<>> /\ WholeOf(c, t)

\* RefusedForCause, of a restore that is refused.
ForCause(c, r) == r.tried = {r.bundle} =>
  \/ \E t \in c.temps : ~t.whole
  \/ r.bundle = <<>> /\ (c.temps # {} \/ r.losses > 0)

CopyKept(c, r) ==
  \/ Fresh(c, r)
  \/ \E t \in r.tried : WholeOf(c, t) \/ Intended(c, t)

CommandKept(c, r) ==
  \/ r.pc = "idle" 
  \/ r.pc = "writing" /\ c.temps = {} /\ r.bundle \in r.tried /\ \E t \in r.tried : RestoreLeft(c, r.plan, t)
  \/ r.pc = "restored" /\ r.bundle \in r.tried /\ WholeOf(c, r.bundle)
  \/ r.pc = "refused" /\ r.bundle \in r.tried /\ ForCause(c, r)

Copied(c) == c = [journal |-> c.journal, snapshot |-> c.snapshot, intent |-> c.intent,
                  temps |-> c.temps, anchor |-> c.anchor]

Commanded(r) ==
  /\ r = [pc |-> r.pc, bundle |-> r.bundle, plan |-> r.plan, tried |-> r.tried,
          kills |-> r.kills, losses |-> r.losses]
  /\ r.losses \in Nat

RInv ==
  /\ Copied(copy) /\ Commanded(rst)
  /\ \A b \in shelf : Prefix(b, b)
  /\ CopyKept(copy, rst)
  /\ TempsKept(copy, rst)
  /\ CommandKept(copy, rst)

\* What a restore of b finds, its temporaries looked at: c.  A destination it
\* goes on from is one of the known kinds; one it refuses, it refuses for cause.
Found(c, b, r) ==
  /\ Copied(c) /\ CopyKept(c, r) /\ TempsKept(c, r)
  /\ Resumable(c, b) => c.temps = {} /\ \E t \in r.tried : Intended(c, t)
  /\ Beginnable(c, b) => c.intent = {} /\ c.temps = {} /\ Unwritten(c, b)
  /\ ~Resumable(c, b) /\ ~Beginnable(c, b) =>
       IF c.intent = {} /\ Complete(c, b) THEN WholeOf(c, b) ELSE ForCause(c, r)

\* The command the restore of b becomes.
Trying(r2, b, r) == r2.tried = r.tried \cup {b} /\ r2.losses = r.losses /\ r2.bundle = b

LEMMA NothingProven ==
  ASSUME NEW c, Copied(c), NEW b, Proven(c, b) = {}
  PROVE  Renamed(c, b) = c
BY DEF Renamed, Copied

LEMMA FoundNothing ==
  ASSUME NEW c, Copied(c), NEW r, CopyKept(c, r), c.intent = {}, c.temps = {},
         NEW b, NEW r2, Trying(r2, b, r)
  PROVE  /\ ~(Cardinality(Proven(c, b)) > 1)
         /\ Swept(Renamed(c, b), b) = c /\ Found(c, b, r2)
<1>1. Proven(c, b) = {} /\ Cardinality(Proven(c, b)) = 0
  BY FS_EmptySet DEF Proven
<1>2. Swept(Renamed(c, b), b) = c
  BY <1>1, NothingProven DEF Swept
<1>3. CopyKept(c, r2) /\ TempsKept(c, r2)
  BY DEF CopyKept, Fresh, TempsKept, Trying
<1>4. ~Resumable(c, b)
  BY DEF Resumable
<1>5. Beginnable(c, b) => Unwritten(c, b)
  BY DEF Beginnable, Empty, OnlyEmptyJournal, Unwritten
<1>6. CASE Fresh(c, r)
  <2>1. ASSUME ~Beginnable(c, b), r2.tried = {b} PROVE b = <<>> /\ r2.losses > 0
    BY <1>6, <2>1 DEF Fresh, Trying, Beginnable, Empty, OnlyEmptyJournal
  <2>2. ~Complete(c, b)
    BY <1>6 DEF Fresh, Complete
  <2> QED BY <1>1, <1>2, <1>3, <1>4, <1>5, <2>1, <2>2 DEF Found, ForCause, Trying
<1>7. ASSUME NEW t \in r.tried, WholeOf(c, t) PROVE Found(c, b, r2)
  <2>1. Complete(c, b) => WholeOf(c, b)
    BY <1>7 DEF WholeOf, Complete
  <2>2. r2.tried = {b} => Complete(c, b)
    BY <1>7 DEF WholeOf, Complete, Trying
  <2> QED BY <1>3, <1>4, <1>5, <2>1, <2>2 DEF Found, ForCause, Trying
<1> QED BY <1>1, <1>2, <1>6, <1>7 DEF CopyKept, Intended

\* An intent that was not renamed into place: it is now, if it proves itself.
LEMMA FoundTemporary ==
  ASSUME NEW c, Copied(c), NEW r, CopyKept(c, r), NEW t \in r.tried, NEW w \in BOOLEAN,
         c.temps = {Temp("intent", t, w)}, c.intent = {}, Unwritten(c, t),
         NEW b, Prefix(b, b), NEW r2, Trying(r2, b, r)
  PROVE  /\ ~(Cardinality(Proven(c, b)) > 1)
         /\ Found(Swept(Renamed(c, b), b), b, r2)
<1>1. t \in r2.tried /\ CopyKept(c, r2)
  BY DEF Trying, CopyKept, Fresh
<1>2. PICK x : x = Temp("intent", t, w)
  OBVIOUS
<1>3. x.file = "intent" /\ x.holds = t /\ x.whole = w /\ c.temps = {x}
  BY <1>2 DEF Temp
<1>4. CASE w /\ Prefix(t, b)
  <2>1. Proven(c, b) = {x}
    BY <1>3, <1>4 DEF Proven
  <2>2. Cardinality(Proven(c, b)) = 1
    BY <2>1, FS_Singleton
  <2>3. PICK d : d = [c EXCEPT !.intent = {t}, !.temps = {}]
    OBVIOUS
  <2>4. Renamed(c, b) = d
    <3>1. {y.holds : y \in {x}} = {t} /\ c.temps \ {x} = {}
      BY <1>3
    <3> QED BY <2>1, <2>3, <3>1 DEF Renamed
  <2>5. /\ d.journal = c.journal /\ d.snapshot = c.snapshot /\ d.anchor = c.anchor
        /\ d.intent = {t} /\ d.temps = {} /\ Copied(d)
    BY <2>3 DEF Copied
  <2>6. Swept(d, b) = d
    BY <2>5 DEF Swept, Copied
  <2>7. Intended(d, t)
    BY <2>5 DEF Intended, Unwritten, Half
  <2>8. CopyKept(d, r2) /\ TempsKept(d, r2)
    BY <1>1, <2>5, <2>7 DEF CopyKept, TempsKept
  <2>9. r2.tried = {b} => Resumable(d, b)
    <3>1. SUFFICES ASSUME t = b PROVE Resumable(d, b)
      BY <1>1
    <3> QED BY <2>5, <2>7, <3>1 DEF Resumable, Known, OnlyIntent, Intended, Unwritten
  <2>10. ~Beginnable(d, b)
    BY <2>5 DEF Beginnable
  <2>11. Found(d, b, r2)
    BY <1>1, <2>5, <2>7, <2>8, <2>9, <2>10 DEF Found, ForCause, Trying
  <2> QED BY <2>2, <2>4, <2>6, <2>11
<1>5. CASE ~(w /\ Prefix(t, b))
  <2>1. Proven(c, b) = {}
    BY <1>3, <1>5 DEF Proven
  <2>2. Cardinality(Proven(c, b)) = 0
    BY <2>1, FS_EmptySet
  <2>3. Renamed(c, b) = c /\ Swept(c, b) = c
    BY <2>1, NothingProven DEF Swept
  <2>4. TempsKept(c, r2)
    BY <1>1 DEF TempsKept
  <2>5. ~Resumable(c, b) /\ ~Beginnable(c, b) /\ ~Complete(c, b)
    BY <1>3 DEF Resumable, Beginnable, Empty, OnlyEmptyJournal, Complete
  <2>6. r2.tried = {b} => ~x.whole
    <3>1. r2.tried = {b} => t = b
      BY <1>1
    <3> QED BY <1>3, <1>5, <3>1
  <2>7. ForCause(c, r2)
    BY <1>3, <2>6 DEF ForCause, Trying
  <2> QED BY <1>1, <2>2, <2>3, <2>4, <2>5, <2>7 DEF Found
<1> QED BY <1>4, <1>5

\* An intent in its place, with at most a payload's temporary beside it.
LEMMA FoundIntent ==
  ASSUME NEW c, Copied(c), NEW r, NEW t \in r.tried, Intended(c, t), TempsKept(c, r),
         NEW b, Prefix(b, b), NEW r2, Trying(r2, b, r)
  PROVE  Found(Swept(Renamed(c, b), b), b, r2)
<1>1. t \in r2.tried /\ c.intent = {t} /\ c.intent # {}
  BY DEF Trying, Intended
<1>2. Renamed(c, b) = c
  BY <1>1 DEF Renamed
<1>3. PICK d : d = Swept(c, b)
  OBVIOUS
<1>4. /\ Copied(d) /\ Intended(d, t)
      /\ d.journal = c.journal /\ d.snapshot = c.snapshot /\ d.anchor = c.anchor /\ d.intent = {t}
      /\ d.temps = IF Known(c, b) THEN c.temps \ Stale(c, t) ELSE c.temps
  <2>1. The(c.intent) = t
    BY <1>1, TheOne
  <2>2. d = IF Known(c, b) THEN [c EXCEPT !.temps = @ \ Stale(c, t)] ELSE c
    BY <1>1, <1>3, <2>1 DEF Swept
  <2> QED BY <2>2 DEF Copied, Intended, Half, Unwritten
<1>5. c.temps = {} \/ \E w \in BOOLEAN, f \in {"journal", "snapshot"} :
        c.temps = {Temp(f, t, w)} /\ c.anchor = t
  BY <1>1 DEF TempsKept
<1>6. CopyKept(d, r2) /\ TempsKept(d, r2)
  <2>1. CopyKept(d, r2)
    BY <1>1, <1>4 DEF CopyKept
  <2>2. d.temps = {} \/ d.temps = c.temps
    BY <1>4, <1>5
  <2>3. TempsKept(d, r2)
    BY <1>1, <1>4, <1>5, <2>2 DEF TempsKept
  <2> QED BY <2>1, <2>3
<1>7. ~Beginnable(d, b)
  BY <1>1, <1>4 DEF Beginnable
<1>8. Resumable(d, b) => d.temps = {}
  BY DEF Resumable
<1>9. ASSUME t = b, ~Resumable(d, b)
      PROVE  (\E x \in d.temps : ~x.whole) \/ (b = <<>> /\ d.temps # {})
  <2>1. ASSUME d.temps = {} PROVE FALSE
    BY <1>4, <1>9, <2>1 DEF Resumable, Known, OnlyIntent, Intended, Half, Unwritten
  <2>2. b # <<>> => Known(c, b)
    <3>1. CASE c.temps = {}
      BY <1>1, <1>9, <3>1 DEF Known, OnlyIntent, Intended, Half, Unwritten
    <3>2. CASE c.anchor = t
      BY <1>1, <1>9, <3>2 DEF Known
    <3> QED BY <1>5, <3>1, <3>2
  <2>3. PICK w \in BOOLEAN, f \in {"journal", "snapshot"} : c.temps = {Temp(f, t, w)}
    BY <1>4, <1>5, <2>1
  <2>4. PICK x : x = Temp(f, t, w)
    OBVIOUS
  <2>5. x.file = f /\ x.holds = t /\ x.whole = w /\ c.temps = {x}
    BY <2>3, <2>4 DEF Temp
  <2>6. CASE b # <<>>
    <3>1. d.temps = c.temps \ Stale(c, t)
      BY <1>4, <2>2, <2>6
    <3>2. x \notin Stale(c, t)
      BY <2>1, <2>5, <3>1
    <3>3. ~x.whole
      BY <2>5, <3>2 DEF Stale
    <3> QED BY <2>5, <3>1, <3>2, <3>3
  <2>7. CASE b = <<>>
    BY <2>1, <2>7
  <2> QED BY <2>6, <2>7
<1>10. ~Resumable(d, b) => ForCause(d, r2)
  BY <1>1, <1>9 DEF ForCause, Trying
<1>11. Found(d, b, r2)
  BY <1>1, <1>4, <1>6, <1>7, <1>8, <1>10 DEF Found
<1> QED BY <1>2, <1>3, <1>11

LEMMA FirstOfFive ==
  ASSUME NEW v, NEW w, NEW x, NEW y, NEW z
  PROVE  <<v>> \o <<w, x, y, z>> = <<v, w, x, y, z>>
<1>1. PICK S : S = {v, w, x, y, z}
  OBVIOUS
<1>2. PICK s, t, u : s = <<v>> /\ t = <<w, x, y, z>> /\ u = <<v, w, x, y, z>>
  OBVIOUS
<1>3. /\ s \in Seq(S) /\ Len(s) = 1 /\ s[1] = v
      /\ t \in Seq(S) /\ Len(t) = 4 /\ t[1] = w /\ t[2] = x /\ t[3] = y /\ t[4] = z
      /\ u \in Seq(S) /\ Len(u) = 5
      /\ u[1] = v /\ u[2] = w /\ u[3] = x /\ u[4] = y /\ u[5] = z
  BY <1>1, <1>2
<1>4. /\ s \o t \in Seq(S) /\ Len(s \o t) = 5
      /\ (s \o t)[1] = v /\ (s \o t)[2] = w /\ (s \o t)[3] = x
      /\ (s \o t)[4] = y /\ (s \o t)[5] = z
  <2>1. PICK j : j = s \o t
    OBVIOUS
  <2>2. /\ j \in Seq(S) /\ Len(j) = Len(s) + Len(t)
        /\ \A i \in 1..(Len(s) + Len(t)) : j[i] = IF i <= Len(s) THEN s[i] ELSE t[i - Len(s)]
    BY <1>3, <2>1, ConcatProperties, Zenon
  <2>3. Len(j) = 5 /\ \A i \in 1..5 : j[i] = IF i <= 1 THEN s[i] ELSE t[i - 1]
    BY <1>3, <2>2
  <2>4. j[1] = v /\ j[2] = w /\ j[3] = x /\ j[4] = y /\ j[5] = z
    BY <1>3, <2>3
  <2> QED BY <2>1, <2>2, <2>3, <2>4, Zenon
<1>5. \A i \in 1..5 : (s \o t)[i] = u[i]
  <2>1. \A i \in 1..5 : i \in {1, 2, 3, 4, 5}
    OBVIOUS
  <2> QED BY <1>3, <1>4, <2>1
<1>6. s \o t = u
  BY <1>3, <1>4, <1>5, SeqEqual
<1> QED BY <1>2, <1>6, Zenon

LEMMA RestoreStep == ASSUME RInv, NEW b \in shelf, Restore(b) PROVE RInv'
<1>1. /\ Copied(copy) /\ Commanded(rst) /\ Prefix(b, b)
      /\ CopyKept(copy, rst) /\ TempsKept(copy, rst)
  BY DEF RInv
<1>2. PICK r2 : r2 = [rst EXCEPT !.bundle = b, !.tried = @ \cup {b}]
  OBVIOUS
<1>3. Trying(r2, b, rst)
  BY <1>1, <1>2 DEF Trying, Commanded
<1>4. PICK c : c = Swept(Renamed(copy, b), b)
  OBVIOUS
<1>5. Found(c, b, r2) /\ ~(copy.intent = {} /\ Cardinality(Proven(copy, b)) > 1)
  <2>1. CASE copy.intent = {} /\ copy.temps = {}
    BY <1>1, <1>3, <1>4, <2>1, FoundNothing
  <2>2. ASSUME NEW t \in rst.tried, NEW w \in BOOLEAN,
               copy.temps = {Temp("intent", t, w)}, copy.intent = {}, Unwritten(copy, t)
        PROVE  Found(c, b, r2) /\ ~(Cardinality(Proven(copy, b)) > 1)
    BY <1>1, <1>3, <1>4, <2>2, FoundTemporary
  <2>3. ASSUME NEW t \in rst.tried, Intended(copy, t)
        PROVE  Found(c, b, r2) /\ copy.intent # {}
    <3>1. Found(c, b, r2)
      BY <1>1, <1>3, <1>4, <2>3, FoundIntent
    <3> QED BY <2>3, <3>1 DEF Intended
  <2>4. CASE copy.intent # {}
    <3>1. PICK t \in rst.tried : Intended(copy, t)
      BY <1>1, <2>4 DEF CopyKept, Fresh, WholeOf
    <3> QED BY <2>3, <3>1
  <2> QED BY <1>1, <2>1, <2>2, <2>4 DEF TempsKept
<1>6. PICK plan : plan = RestorePlan(c, b)
  OBVIOUS
<1>7. PICK pc : pc = IF plan # <<>> THEN "writing"
                     ELSE IF c.intent = {} /\ Complete(c, b) THEN "restored" ELSE "refused"
  OBVIOUS
<1>8. copy' = c /\ UNCHANGED shelf
      /\ rst' = [rst EXCEPT !.bundle = b, !.plan = plan, !.tried = @ \cup {b}, !.pc = pc]
  BY <1>4, <1>5, <1>6, <1>7 DEF Restore
<1>9. /\ Commanded(rst') /\ rst'.pc = pc /\ rst'.plan = plan /\ rst'.bundle = b
      /\ rst'.tried = r2.tried /\ rst'.losses = r2.losses /\ r2.bundle = b /\ b \in r2.tried
  BY <1>1, <1>2, <1>8 DEF Commanded
<1>10. Copied(c) /\ CopyKept(c, rst') /\ TempsKept(c, rst')
  BY <1>5, <1>9 DEF Found, CopyKept, TempsKept, Fresh
<1>11. CASE Resumable(c, b)
  <2>1. PICK t \in r2.tried : Intended(c, t) /\ c.temps = {}
    BY <1>5, <1>11 DEF Found
  <2>2. The(c.intent) = t
    BY <2>1, TheOne DEF Intended
  <2>3. plan = << Replace("anchor", t), Replace("journal", {t}),
                  Replace("snapshot", {t}), Replace("intent", {}) >>
    BY <1>6, <1>11, <2>2 DEF RestorePlan, PayloadPlan
  <2>4. plan # <<>> /\ RestoreLeft(c, plan, t)
    BY <2>1, <2>3 DEF RestoreLeft
  <2>5. CommandKept(c, rst')
    BY <1>7, <1>9, <2>1, <2>4 DEF CommandKept
  <2> QED BY <1>1, <1>8, <1>9, <1>10, <2>5 DEF RInv
<1>12. CASE ~Resumable(c, b) /\ Beginnable(c, b)
  <2>1. c.intent = {} /\ c.temps = {} /\ Unwritten(c, b)
    BY <1>5, <1>12 DEF Found
  <2>2. plan = << Replace("intent", {b}), Replace("anchor", b), Replace("journal", {b}),
                  Replace("snapshot", {b}), Replace("intent", {}) >>
    BY <1>6, <1>12, FirstOfFive, Zenon DEF RestorePlan, PayloadPlan
  <2>3. plan # <<>> /\ RestoreLeft(c, plan, b)
    BY <2>1, <2>2 DEF RestoreLeft
  <2>4. CommandKept(c, rst')
    BY <1>7, <1>9, <2>1, <2>3 DEF CommandKept
  <2> QED BY <1>1, <1>8, <1>9, <1>10, <2>4 DEF RInv
<1>13. CASE ~Resumable(c, b) /\ ~Beginnable(c, b)
  <2>1. plan = <<>>
    BY <1>6, <1>13 DEF RestorePlan
  <2>2. CASE c.intent = {} /\ Complete(c, b)
    <3>1. WholeOf(c, b) /\ pc = "restored"
      BY <1>5, <1>7, <1>13, <2>1, <2>2 DEF Found
    <3>2. CommandKept(c, rst')
      BY <1>9, <3>1 DEF CommandKept
    <3> QED BY <1>1, <1>8, <1>9, <1>10, <3>2 DEF RInv
  <2>3. CASE ~(c.intent = {} /\ Complete(c, b))
    <3>1. ForCause(c, r2) /\ pc = "refused"
      BY <1>5, <1>7, <1>13, <2>1, <2>3 DEF Found
    <3>2. CommandKept(c, rst')
      BY <1>9, <3>1 DEF CommandKept, ForCause
    <3> QED BY <1>1, <1>8, <1>9, <1>10, <3>2 DEF RInv
  <2> QED BY <2>2, <2>3
<1> QED BY <1>11, <1>12, <1>13

\* What is being written, and that there is no temporary meanwhile.
LEMMA Restoring ==
  ASSUME RInv, rst.pc = "writing"
  PROVE  /\ Copied(copy) /\ Commanded(rst) /\ CopyKept(copy, rst) /\ copy.temps = {}
         /\ rst.bundle \in rst.tried /\ \E t \in rst.tried : RestoreLeft(copy, rst.plan, t)
         /\ \A b \in shelf : Prefix(b, b)
BY DEF RInv, CommandKept

\* One write of a restore.
LEMMA RestoreLeftStep ==
  ASSUME NEW c, Copied(c), c.temps = {}, NEW t, NEW plan, RestoreLeft(c, plan, t), plan # <<>>,
         NEW d, d = [c EXCEPT ![Head(plan).file] = Head(plan).now]
  PROVE  /\ Copied(d) /\ d.temps = {}
         /\ RestoreLeft(d, Tail(plan), t)
         /\ Intended(d, t) \/ WholeOf(d, t)
<1>1. CASE /\ plan = << Replace("intent", {t}), Replace("anchor", t), Replace("journal", {t}),
                        Replace("snapshot", {t}), Replace("intent", {}) >>
           /\ c.intent = {} /\ Unwritten(c, t)
  <2>1. /\ Head(plan) = Replace("intent", {t})
        /\ Tail(plan) = << Replace("anchor", t), Replace("journal", {t}),
                           Replace("snapshot", {t}), Replace("intent", {}) >>
    BY <1>1, PlanSteps
  <2>2. Head(plan).file = "intent" /\ Head(plan).now = {t}
    BY <2>1 DEF Replace
  <2>3. Copied(d) /\ d.temps = c.temps /\ d.intent = {t} /\ d.journal = c.journal
        /\ d.snapshot = c.snapshot /\ d.anchor = c.anchor
    BY <2>2 DEF Copied
  <2>4. Intended(d, t)
    BY <1>1, <2>3 DEF Intended, Unwritten, Half
  <2> QED BY <2>1, <2>3, <2>4 DEF RestoreLeft
<1>2. CASE /\ plan = << Replace("anchor", t), Replace("journal", {t}),
                        Replace("snapshot", {t}), Replace("intent", {}) >>
           /\ Intended(c, t)
  <2>1. /\ Head(plan) = Replace("anchor", t)
        /\ Tail(plan) = << Replace("journal", {t}), Replace("snapshot", {t}), Replace("intent", {}) >>
    BY <1>2, PlanSteps
  <2>2. Head(plan).file = "anchor" /\ Head(plan).now = t
    BY <2>1 DEF Replace
  <2>3. Copied(d) /\ d.temps = c.temps /\ d.intent = c.intent /\ d.journal = c.journal
        /\ d.snapshot = c.snapshot /\ d.anchor = t
    BY <2>2 DEF Copied
  <2>4. Intended(d, t)
    BY <1>2, <2>3 DEF Intended, Half
  <2> QED BY <2>1, <2>3, <2>4 DEF RestoreLeft
<1>3. CASE /\ plan = << Replace("journal", {t}), Replace("snapshot", {t}), Replace("intent", {}) >>
           /\ Intended(c, t) /\ c.anchor = t
  <2>1. /\ Head(plan) = Replace("journal", {t})
        /\ Tail(plan) = << Replace("snapshot", {t}), Replace("intent", {}) >>
    BY <1>3, PlanSteps
  <2>2. Head(plan).file = "journal" /\ Head(plan).now = {t}
    BY <2>1 DEF Replace
  <2>3. Copied(d) /\ d.temps = c.temps /\ d.intent = c.intent /\ d.journal = {t}
        /\ d.snapshot = c.snapshot /\ d.anchor = c.anchor
    BY <2>2 DEF Copied
  <2>4. Intended(d, t)
    BY <1>3, <2>3 DEF Intended, Half
  <2> QED BY <1>3, <2>1, <2>3, <2>4 DEF RestoreLeft
<1>4. CASE /\ plan = << Replace("snapshot", {t}), Replace("intent", {}) >>
           /\ Intended(c, t) /\ c.anchor = t /\ c.journal = {t}
  <2>1. Head(plan) = Replace("snapshot", {t}) /\ Tail(plan) = << Replace("intent", {}) >>
    BY <1>4, PlanSteps
  <2>2. Head(plan).file = "snapshot" /\ Head(plan).now = {t}
    BY <2>1 DEF Replace
  <2>3. Copied(d) /\ d.temps = c.temps /\ d.intent = c.intent /\ d.journal = c.journal
        /\ d.snapshot = {t} /\ d.anchor = c.anchor
    BY <2>2 DEF Copied
  <2>4. Intended(d, t)
    BY <1>4, <2>3 DEF Intended, Half
  <2> QED BY <1>4, <2>1, <2>3, <2>4 DEF RestoreLeft
<1>5. CASE /\ plan = << Replace("intent", {}) >>
           /\ Intended(c, t) /\ c.anchor = t /\ c.journal = {t} /\ c.snapshot = {t}
  <2>1. Head(plan) = Replace("intent", {}) /\ Tail(plan) = <<>>
    BY <1>5, PlanSteps
  <2>2. Head(plan).file = "intent" /\ Head(plan).now = {}
    BY <2>1 DEF Replace
  <2>3. Copied(d) /\ d.temps = c.temps /\ d.intent = {} /\ d.journal = c.journal
        /\ d.snapshot = c.snapshot /\ d.anchor = c.anchor
    BY <2>2 DEF Copied
  <2> QED BY <1>5, <2>1, <2>3 DEF RestoreLeft, WholeOf
<1> QED BY <1>1, <1>2, <1>3, <1>4, <1>5 DEF RestoreLeft

LEMMA RestoreWriteStep == ASSUME RInv, RestoreWrite PROVE RInv'
<1>1. rst.pc = "writing" /\ rst.plan # <<>> /\ UNCHANGED shelf
      /\ copy' = [copy EXCEPT ![Head(rst.plan).file] = Head(rst.plan).now]
      /\ rst' = [rst EXCEPT !.plan = Tail(@)]
  BY DEF RestoreWrite
<1>2. PICK t \in rst.tried : RestoreLeft(copy, rst.plan, t)
  BY <1>1, Restoring
<1>3. Copied(copy) /\ Commanded(rst) /\ copy.temps = {} /\ rst.bundle \in rst.tried
  BY <1>1, Restoring
<1>4. /\ Copied(copy') /\ copy'.temps = {} /\ RestoreLeft(copy', Tail(rst.plan), t)
      /\ Intended(copy', t) \/ WholeOf(copy', t)
  BY <1>1, <1>2, <1>3, RestoreLeftStep
<1>5. Commanded(rst') /\ rst'.pc = "writing" /\ rst'.plan = Tail(rst.plan)
      /\ rst'.bundle = rst.bundle /\ rst'.tried = rst.tried
  BY <1>1, <1>3 DEF Commanded
<1>6. CopyKept(copy', rst') /\ TempsKept(copy', rst') /\ CommandKept(copy', rst')
  BY <1>2, <1>3, <1>4, <1>5 DEF CopyKept, TempsKept, CommandKept
<1> QED BY <1>1, <1>4, <1>5, <1>6, Restoring DEF RInv

LEMMA RestoreDoneStep == ASSUME RInv, RestoreDone PROVE RInv'
<1>1. rst.pc = "writing" /\ rst.plan = <<>> /\ UNCHANGED <<shelf, copy>>
  BY DEF RestoreDone
<1>2. PICK t \in rst.tried : WholeOf(copy, t)
  BY <1>1, Restoring, PlanSteps DEF RestoreLeft
<1>3. PICK pc : pc = IF copy.journal = {rst.bundle} THEN "restored" ELSE "refused"
  OBVIOUS
<1>4. rst' = [rst EXCEPT !.pc = pc]
  BY <1>3 DEF RestoreDone
<1>5. Commanded(rst') /\ rst'.pc = pc /\ rst'.bundle = rst.bundle /\ rst'.tried = rst.tried
      /\ rst'.bundle \in rst'.tried /\ copy' = copy
  BY <1>1, <1>4, Restoring DEF Commanded
<1>6. CASE rst.bundle = t
  <2>1. pc = "restored"
    BY <1>2, <1>3, <1>6 DEF WholeOf
  <2>2. CommandKept(copy', rst')
    BY <1>2, <1>5, <1>6, <2>1 DEF CommandKept
  <2> QED BY <1>1, <1>2, <1>5, <2>2, Restoring DEF RInv, CopyKept, TempsKept
<1>7. CASE rst.bundle # t
  <2>1. pc = "refused"
    BY <1>2, <1>3, <1>7 DEF WholeOf
  <2>2. rst'.tried # {rst'.bundle}
    BY <1>2, <1>5, <1>7
  <2>3. CommandKept(copy', rst')
    BY <1>5, <2>1, <2>2 DEF CommandKept, ForCause
  <2> QED BY <1>1, <1>2, <1>5, <2>3, Restoring DEF RInv, CopyKept, TempsKept
<1> QED BY <1>6, <1>7

\* A kill leaves at most the temporary of the write it fell in.
LEMMA RestoreKilledStep == ASSUME RInv, RestoreKilled PROVE RInv'
<1>1. /\ rst.pc = "writing" /\ UNCHANGED shelf
      /\ rst' = [rst EXCEPT !.pc = "idle", !.plan = <<>>, !.bundle = <<>>, !.kills = @ + 1]
  BY DEF RestoreKilled
<1>2. Copied(copy) /\ Commanded(rst) /\ CopyKept(copy, rst) /\ copy.temps = {}
  BY <1>1, Restoring
<1>3. PICK t \in rst.tried : RestoreLeft(copy, rst.plan, t)
  BY <1>1, Restoring
<1>4. Commanded(rst') /\ rst'.pc = "idle" /\ rst'.tried = rst.tried /\ rst'.losses = rst.losses
  BY <1>1, <1>2 DEF Commanded
<1>5. CASE UNCHANGED copy
  BY <1>1, <1>2, <1>4, <1>5, Restoring DEF RInv, CopyKept, Fresh, TempsKept, CommandKept
<1>6. ASSUME rst.plan # <<>>, Head(rst.plan).file # "anchor", Head(rst.plan).now # {},
             NEW w \in BOOLEAN,
             copy' = [copy EXCEPT !.temps =
               @ \cup {Temp(Head(rst.plan).file, The(Head(rst.plan).now), w)}]
      PROVE  RInv'
  <2>1. \/ Head(rst.plan) = Replace("intent", {t}) /\ copy.intent = {} /\ Unwritten(copy, t)
        \/ \E f \in {"journal", "snapshot"} :
             Head(rst.plan) = Replace(f, {t}) /\ copy.intent = {t} /\ copy.anchor = t
    BY <1>3, <1>6, PlanSteps DEF RestoreLeft, Replace, Intended
  <2>2. PICK f \in {"intent", "journal", "snapshot"} :
          /\ Head(rst.plan) = Replace(f, {t})
          /\ f = "intent" => copy.intent = {} /\ Unwritten(copy, t)
          /\ f # "intent" => copy.intent = {t} /\ copy.anchor = t
    BY <2>1
  <2>3. Head(rst.plan).file = f /\ Head(rst.plan).now = {t} /\ The({t}) = t
    <3>1. Head(rst.plan).file = f /\ Head(rst.plan).now = {t}
      BY <2>2 DEF Replace
    <3> QED BY <3>1, TheOne
  <2>4. PICK x : x = Temp(f, t, w)
    OBVIOUS
  <2>5. copy' = [copy EXCEPT !.temps = {x}]
    BY <1>2, <1>6, <2>3, <2>4
  <2>6. /\ Copied(copy') /\ copy'.temps = {x} /\ copy'.journal = copy.journal
        /\ copy'.snapshot = copy.snapshot /\ copy'.intent = copy.intent /\ copy'.anchor = copy.anchor
    BY <1>2, <2>5 DEF Copied
  <2>7. TempsKept(copy', rst')
    BY <1>4, <2>2, <2>4, <2>6 DEF TempsKept, Unwritten
  <2>8. CopyKept(copy', rst')
    <3>1. ASSUME NEW s \in rst.tried, WholeOf(copy, s) PROVE FALSE
      BY <2>2, <3>1 DEF WholeOf, Unwritten
    <3> QED BY <1>2, <1>4, <2>6, <3>1 DEF CopyKept, Fresh, Intended, Half, Unwritten
  <2> QED BY <1>1, <1>4, <2>6, <2>7, <2>8, Restoring DEF RInv, CommandKept
<1> QED BY <1>5, <1>6 DEF RestoreKilled

LEMMA CopyLostStep == ASSUME RInv, CopyLost PROVE RInv'
<1>1. /\ rst.pc = "restored" /\ UNCHANGED shelf
      /\ rst' = [rst EXCEPT !.losses = @ + 1, !.pc = "idle"]
  BY DEF CopyLost
<1>2. PICK left \in {{}, {<<>>}} : copy' = [copy EXCEPT !.journal = left, !.snapshot = {}]
  BY DEF CopyLost
<1>3. /\ Copied(copy) /\ Commanded(rst) /\ rst.bundle \in rst.tried /\ WholeOf(copy, rst.bundle)
  BY <1>1 DEF RInv, CommandKept
<1>4. Commanded(rst') /\ rst'.pc = "idle" /\ rst'.tried = rst.tried /\ rst'.losses > 0
  <2>1. PICK n \in Nat : n = rst.losses + 1 /\ n > 0
    BY <1>3 DEF Commanded
  <2>2. rst' = [rst EXCEPT !.losses = n, !.pc = "idle"]
    BY <1>1, <2>1
  <2>3. Commanded(rst') /\ rst'.pc = "idle" /\ rst'.tried = rst.tried /\ rst'.losses = n
    BY <1>3, <2>2 DEF Commanded
  <2> QED BY <2>1, <2>3
<1>5. /\ Copied(copy') /\ copy'.temps = {} /\ copy'.journal = left /\ copy'.snapshot = {}
      /\ copy'.intent = {} /\ copy'.anchor = rst.bundle
  BY <1>2, <1>3 DEF Copied, WholeOf
<1>6. Fresh(copy', rst')
  BY <1>3, <1>4, <1>5 DEF Fresh
<1> QED BY <1>1, <1>4, <1>5, <1>6 DEF RInv, CopyKept, TempsKept, CommandKept

LEMMA RestoreNextStep == ASSUME RInv, [RestoreNext]_restoreVars PROVE RInv'
<1>1. CASE RestoreWrite
  BY <1>1, RestoreWriteStep
<1>2. CASE RestoreDone
  BY <1>2, RestoreDoneStep
<1>3. CASE RestoreKilled
  BY <1>3, RestoreKilledStep
<1>4. CASE CopyLost
  BY <1>4, CopyLostStep
<1>5. CASE \E b \in shelf : Restore(b)
  BY <1>5, RestoreStep
<1>6. CASE UNCHANGED restoreVars
  BY <1>6 DEF restoreVars, RInv
<1> QED BY <1>1, <1>2, <1>3, <1>4, <1>5, <1>6 DEF RestoreNext

\* The second inductive invariant: of the destination, its temporaries and the
\* restore command, whatever bundles it was run with.
THEOREM RestoreInvariant == SystemSpec => []RInv
<1>1. ASSUME copy = CleanCopy, rst = RestoreAsleep, shelf = {} \/ shelf \in Shelves PROVE RInv
  <2>1. Copied(copy) /\ Commanded(rst) /\ Fresh(copy, rst) /\ copy.temps = {} /\ rst.pc = "idle"
    BY <1>1 DEF CleanCopy, RestoreAsleep, Copied, Commanded, Fresh
  <2>2. ASSUME NEW b \in shelf PROVE Prefix(b, b)
    <3>1. b \in Seq({b[i] : i \in DOMAIN b})
      BY <1>1, LedgerRestoreAssumption
    <3> QED BY <3>1 DEF Prefix
  <2> QED BY <2>1, <2>2 DEF RInv, CopyKept, TempsKept, CommandKept
<1>2. SystemInit => RInv
  BY <1>1 DEF SystemInit, RestoreUnused, RestoreInit
<1>3. [SystemNext]_systemVars => [RestoreNext]_restoreVars
  BY DEF SystemNext, systemVars
<1>4. RInv /\ [SystemNext]_systemVars => RInv'
  BY <1>3, RestoreNextStep
<1> QED BY <1>2, <1>4, PTL DEF SystemSpec

\* A restore that reports success left the bundle's records, and nothing else,
\* in the journal, in the snapshot and under the head.
THEOREM StoreRestoredExactly == SystemSpec => []RestoredExactly
<1>1. RInv => RestoredExactly
  BY DEF RInv, CommandKept, WholeOf, RestoredExactly
<1> QED BY <1>1, RestoreInvariant, PTL

\* A restore run again with the only bundle ever restored here is refused only
\* over a temporary that does not prove itself.
THEOREM StoreRefusedForCause == SystemSpec => []RefusedForCause
<1>1. RInv => RefusedForCause
  BY DEF RInv, CommandKept, ForCause, RefusedForCause
<1> QED BY <1>1, RestoreInvariant, PTL

====================
