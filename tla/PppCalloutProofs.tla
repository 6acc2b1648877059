-------------------------- MODULE PppCalloutProofs --------------------------
(***************************************************************************)
(* The callout list keeps its order and never forgets its timer.  The      *)
(* proofs replace the recursive sums of the list by a function a that      *)
(* gives each entry its time from the head on (Timed).                     *)
(***************************************************************************)
EXTENDS PppCallout, SequenceTheorems, FiniteSetTheorems, TLAPS

\* a[i] is the time of entry i, none later than the longest delay.
Timed(q, a) ==
    /\ a \in [0 .. Len(q) -> 0 .. MaxDelay]
    /\ a[0] = 0
    /\ \A i \in 1 .. Len(q) : a[i] = a[i - 1] + q[i].c_time

----------------------------------------------------------------------------
(* Induction: a set of naturals has a least element.                        *)

\* Every set of natural numbers that is not empty has a least element.
LEMMA Least ==
    ASSUME NEW T \in SUBSET Nat, T # {}
    PROVE  \E x \in T : \A y \in T : x <= y
  <1> DEFINE R == StrictSubsetOrdering(Nat)
             F == FiniteSubsetsOf(Nat)
             U == {1 .. n : n \in T}
  <1>0. IsWellFoundedOn(R, F)
    BY FS_StrictSubsetOrderingWellFounded
  <1>1. U # {}  OBVIOUS
  <1>2. U \subseteq F
    BY FS_Interval DEF FiniteSubsetsOf
  <1>3. \E x \in U : \A y \in U : ~ (<<y, x>> \in R)
    <2> HIDE DEF R, F, U
    <2> QED  BY <1>0, <1>1, <1>2, WFMin
  <1>4. PICK x \in T : \A y \in T : ~ (<<1 .. y, 1 .. x>> \in R)
    BY <1>3
  <1>5. ASSUME NEW y \in T PROVE x <= y
    <2>1. SUFFICES ASSUME y < x PROVE FALSE  OBVIOUS
    <2>2. 1 .. y \subseteq 1 .. x /\ 1 .. y # 1 .. x  BY <2>1
    <2>3. <<1 .. y, 1 .. x>> \in R  BY <2>2 DEF StrictSubsetOrdering
    <2> QED BY <2>3, <1>4
  <1> QED  BY <1>5

\* The times of Timed are the sums of the delays.
LEMMA SumsAreTimes ==
    ASSUME NEW q \in Seq(Entry), NEW a, Timed(q, a)
    PROVE  Sums(q) = a
  <1> DEFINE D == 0 .. Len(q)
             Eqn(S) == S = [i \in D |-> IF i = 0 THEN 0 ELSE S[i - 1] + q[i].c_time]
             S0 == CHOOSE S : Eqn(S)
  <1>0. Len(q) \in Nat  OBVIOUS
  <1>1. Eqn(a)
    <2>1. a = [i \in D |-> a[i]]  BY DEF Timed
    <2>2. \A i \in D : a[i] = IF i = 0 THEN 0 ELSE a[i - 1] + q[i].c_time
      BY <1>0 DEF Timed
    <2> QED  BY <2>1, <2>2
  <1>2. Sums(q) = S0  BY DEF Sums
  <1>3. Eqn(S0)  BY <1>1
  <1>4. \A i \in D : S0[i] = IF i = 0 THEN 0 ELSE S0[i - 1] + q[i].c_time
    BY <1>3
  <1>5. S0 = [i \in D |-> S0[i]]  BY <1>3
  <1> HIDE DEF S0
  <1> DEFINE T == {i \in D : S0[i] # a[i]}
  <1>6. SUFFICES ASSUME T # {} PROVE FALSE
    BY <1>2, <1>5 DEF Timed
  <1>7. PICK i \in D : S0[i] # a[i] /\ \A j \in D : S0[j] # a[j] => i <= j
    <2>1. T \in SUBSET Nat  BY <1>0
    <2>2. \E i \in T : \A j \in T : i <= j
      <3> HIDE DEF T
      <3> QED  BY <1>6, <2>1, Least
    <2> QED  BY <2>2
  <1>8. i # 0  BY <1>4, <1>7 DEF Timed
  <1>9. i - 1 \in D /\ S0[i - 1] = a[i - 1]  BY <1>0, <1>7, <1>8
  <1> QED  BY <1>0, <1>4, <1>7, <1>8, <1>9 DEF Timed

\* Entries are in the order of their times.
LEMMA TimesGrow ==
    ASSUME NEW q \in Seq(Entry), NEW a, Timed(q, a)
    PROVE  \A i, j \in 0 .. Len(q) : i <= j => a[i] <= a[j]
  <1>0. Len(q) \in Nat  OBVIOUS
  <1> SUFFICES ASSUME NEW i \in 0 .. Len(q)
               PROVE  \A j \in 0 .. Len(q) : i <= j => a[i] <= a[j]
    OBVIOUS
  <1> DEFINE T == {j \in 0 .. Len(q) : i <= j /\ ~ (a[i] <= a[j])}
  <1>1. SUFFICES ASSUME T # {} PROVE FALSE
    OBVIOUS
  <1>2. PICK j \in 0 .. Len(q) :
              /\ i <= j /\ ~ (a[i] <= a[j])
              /\ \A k \in 0 .. Len(q) : i <= k /\ ~ (a[i] <= a[k]) => j <= k
    <2>1. T \in SUBSET Nat  BY <1>0
    <2>2. \E j \in T : \A k \in T : j <= k
      <3> HIDE DEF T
      <3> QED  BY <1>1, <2>1, Least
    <2> QED  BY <2>2
  <1>3. i # j  BY <1>2 DEF Timed
  <1>4. j - 1 \in 0 .. Len(q) /\ a[i] <= a[j - 1]  BY <1>0, <1>2, <1>3
  <1>5. j \in 1 .. Len(q) /\ q[j] \in Entry  BY <1>0, <1>2, <1>3
  <1>6. a[i] \in Int /\ a[j - 1] \in Int
    BY CalloutAssumption, <1>4 DEF Timed
  <1>7. q[j].c_time \in Nat
    BY CalloutAssumption, <1>5 DEF Entry
  <1>8. a[j] = a[j - 1] + q[j].c_time
    BY <1>5 DEF Timed
  <1> QED  BY <1>2, <1>4, <1>6, <1>7, <1>8

\* A callout for s seconds goes behind the entries that are due by then.
LEMMA BeforeFacts ==
    ASSUME NEW q \in Seq(Entry), NEW a, Timed(q, a), NEW s \in Nat
    PROVE  /\ Before(q, s) \in 0 .. Len(q)
           /\ a[Before(q, s)] <= s
           /\ Before(q, s) < Len(q) => s < a[Before(q, s) + 1]
  <1>0. Len(q) \in Nat  OBVIOUS
  <1> DEFINE T == {i \in 1 .. Len(q) + 1 : i = Len(q) + 1 \/ s < a[i]}
  <1>1. PICK m \in T : \A y \in T : m <= y
    <2>0. Len(q) + 1 \in T  BY <1>0
    <2>1. T # {} /\ T \in SUBSET Nat  BY <2>0
    <2> HIDE DEF T
    <2> QED  BY <2>1, Least
  <1>2. \A i \in 1 .. Len(q) : a[i] \in Int
    BY <1>0 DEF Timed
  <1>3. {i \in 1 .. Len(q) : a[i] <= s} = 1 .. m - 1
    <2>1. ASSUME NEW i \in 1 .. Len(q), a[i] <= s PROVE i <= m - 1
      BY <1>0, <1>1, <1>2, <2>1, TimesGrow
    <2>2. ASSUME NEW i \in 1 .. m - 1 PROVE i \in 1 .. Len(q) /\ a[i] <= s
      BY <1>0, <1>1, <1>2
    <2> QED  BY <2>1, <2>2
  <1>4. Before(q, s) = m - 1
    <2>1. Sums(q) = a  BY SumsAreTimes
    <2>2. Cardinality(1 .. m - 1) = m - 1  BY <1>0, <1>1, FS_Interval
    <2> QED  BY <1>3, <2>1, <2>2 DEF Before
  <1>5. a[m - 1] <= s
    BY <1>0, <1>1, <1>2 DEF Timed
  <1> QED  BY <1>0, <1>1, <1>4, <1>5

----------------------------------------------------------------------------
(* Lists as functions.                                                      *)

\* The fields of an entry.
LEMMA EntryFields ==
    ASSUME NEW q \in Seq(Entry), NEW i \in 1 .. Len(q)
    PROVE  /\ q[i] \in Entry
           /\ q[i].what \in Funcs
           /\ q[i].c_time \in 0 .. MaxDelay /\ q[i].c_time \in Nat
           /\ q[i].due \in -1 .. MaxDelay /\ q[i].due \in Int
  <1>1. q[i] \in Entry  OBVIOUS
  <1> QED  BY <1>1, CalloutAssumption DEF Entry

\* Shift changes the delay of one entry, and nothing behind the end.
LEMMA ShiftFacts ==
    ASSUME NEW q \in Seq(Entry), NEW i \in 1 .. Len(q) + 1, NEW t \in Int,
           i \in 1 .. Len(q) => q[i].c_time + t \in 0 .. MaxDelay
    PROVE  /\ Shift(q, i, t) \in Seq(Entry)
           /\ Len(Shift(q, i, t)) = Len(q)
           /\ \A j \in 1 .. Len(q) :
                 Shift(q, i, t)[j] =
                   IF j = i THEN [q[j] EXCEPT !.c_time = @ + t] ELSE q[j]
  <1>0. Len(q) \in Nat /\ DOMAIN q = 1 .. Len(q)  OBVIOUS
  <1>1. CASE i \in 1 .. Len(q)
    <2> DEFINE e == [q[i] EXCEPT !.c_time = @ + t]
    <2>1. e \in Entry  BY <1>1, EntryFields DEF Entry
    <2>2. Shift(q, i, t) = [q EXCEPT ![i] = e]  BY <1>0, <1>1 DEF Shift
    <2> HIDE DEF e
    <2>3. /\ Shift(q, i, t) \in Seq(Entry)
          /\ Len(Shift(q, i, t)) = Len(q)
          /\ \A j \in 1 .. Len(q) : Shift(q, i, t)[j] = IF j = i THEN e ELSE q[j]
      BY <1>1, <2>1, <2>2, ExceptSeq
    <2> QED  BY <2>3 DEF e
  <1>2. CASE i \notin 1 .. Len(q)
    BY <1>0, <1>2 DEF Shift
  <1> QED  BY <1>1, <1>2

\* InsertAt(q, k + 1, e) puts e behind the first k entries.
LEMMA InsertAtFacts ==
    ASSUME NEW q \in Seq(Entry), NEW k \in 0 .. Len(q), NEW e \in Entry
    PROVE  /\ InsertAt(q, k + 1, e) \in Seq(Entry)
           /\ Len(InsertAt(q, k + 1, e)) = Len(q) + 1
           /\ \A j \in 1 .. Len(q) + 1 :
                 InsertAt(q, k + 1, e)[j] =
                   IF j <= k THEN q[j] ELSE IF j = k + 1 THEN e ELSE q[j - 1]
  <1>0. Len(q) \in Nat  OBVIOUS
  <1> DEFINE u == SubSeq(q, 1, k)
             v == SubSeq(q, k + 1, Len(q))
             w == u \o <<e>>
  <1>1. /\ u \in Seq(Entry) /\ Len(u) = k
        /\ \A j \in 1 .. k : u[j] = q[j]
    BY <1>0
  <1>2. /\ v \in Seq(Entry) /\ Len(v) = Len(q) - k
        /\ \A j \in 1 .. Len(q) - k : v[j] = q[k + j]
    BY <1>0
  <1>3. InsertAt(q, k + 1, e) = w \o v
    <2>1. (k + 1) - 1 = k  OBVIOUS
    <2> QED  BY <2>1, Zenon DEF InsertAt
  <1>4. <<e>> \in Seq(Entry) /\ Len(<<e>>) = 1 /\ <<e>>[1] = e  OBVIOUS
  <1> HIDE DEF u, v
  <1>5. /\ w \in Seq(Entry) /\ Len(w) = k + 1
        /\ \A j \in 1 .. k + 1 : w[j] = IF j <= k THEN q[j] ELSE e
    <2>1. /\ w \in Seq(Entry) /\ Len(w) = Len(u) + 1
          /\ \A j \in 1 .. Len(u) + 1 :
                w[j] = IF j <= Len(u) THEN u[j] ELSE <<e>>[j - Len(u)]
      BY <1>1, <1>4, ConcatProperties
    <2> QED  BY <2>1, <1>1, <1>4
  <1> HIDE DEF w
  <1>6. /\ w \o v \in Seq(Entry) /\ Len(w \o v) = Len(w) + Len(v)
        /\ \A j \in 1 .. Len(w) + Len(v) :
              (w \o v)[j] = IF j <= Len(w) THEN w[j] ELSE v[j - Len(w)]
    BY <1>2, <1>5, ConcatProperties
  <1>7. \A j \in 1 .. Len(q) + 1 :
              (w \o v)[j] = IF j <= k THEN q[j] ELSE IF j = k + 1 THEN e ELSE q[j - 1]
    <2> SUFFICES ASSUME NEW j \in 1 .. Len(q) + 1
                 PROVE  (w \o v)[j] = IF j <= k THEN q[j]
                                      ELSE IF j = k + 1 THEN e ELSE q[j - 1]
      OBVIOUS
    <2>1. CASE j <= k + 1
      BY <1>0, <1>2, <1>5, <1>6, <2>1
    <2>2. CASE j > k + 1
      <3>1. j - (k + 1) \in 1 .. Len(q) - k /\ k + (j - (k + 1)) = j - 1
        BY <1>0, <2>2
      <3>2. (w \o v)[j] = v[j - (k + 1)]  BY <1>0, <1>2, <1>5, <1>6, <2>2
      <3> QED  BY <1>2, <2>2, <3>1, <3>2
    <2>3. j <= k + 1 \/ j > k + 1  BY <1>0
    <2> QED  BY <2>1, <2>2, <2>3, Zenon
  <1>8. Len(w) + Len(v) = Len(q) + 1  BY <1>0, <1>2, <1>5
  <1> QED  BY <1>3, <1>6, <1>7, <1>8

\* RemoveAt takes out one entry.
LEMMA RemoveAtFacts ==
    ASSUME NEW q \in Seq(Entry), NEW i \in 1 .. Len(q)
    PROVE  /\ RemoveAt(q, i) \in Seq(Entry)
           /\ Len(RemoveAt(q, i)) = Len(q) - 1
           /\ \A j \in 1 .. Len(q) - 1 :
                 RemoveAt(q, i)[j] = IF j < i THEN q[j] ELSE q[j + 1]
  <1>0. Len(q) \in Nat  OBVIOUS
  <1> DEFINE u == SubSeq(q, 1, i - 1)
             v == SubSeq(q, i + 1, Len(q))
  <1>1. /\ u \in Seq(Entry) /\ Len(u) = i - 1
        /\ \A j \in 1 .. i - 1 : u[j] = q[j]
    BY <1>0
  <1>2. /\ v \in Seq(Entry) /\ Len(v) = Len(q) - i
        /\ \A j \in 1 .. Len(q) - i : v[j] = q[i + j]
    BY <1>0
  <1>3. RemoveAt(q, i) = u \o v
    BY DEF RemoveAt
  <1> HIDE DEF u, v
  <1>4. /\ u \o v \in Seq(Entry) /\ Len(u \o v) = Len(u) + Len(v)
        /\ \A j \in 1 .. Len(u) + Len(v) :
              (u \o v)[j] = IF j <= Len(u) THEN u[j] ELSE v[j - Len(u)]
    BY <1>1, <1>2, ConcatProperties
  <1> QED  BY <1>0, <1>1, <1>2, <1>3, <1>4

----------------------------------------------------------------------------
(* What the operations on the list do to the times.                         *)

\* r is q with a callout of f for s seconds behind entry k.
QueuedAt(q, k, f, s, r) ==
    \A j \in 1 .. Len(q) + 1 :
        /\ r[j].what =
             IF j <= k THEN q[j].what ELSE IF j = k + 1 THEN f ELSE q[j - 1].what
        /\ r[j].due =
             IF j <= k THEN q[j].due ELSE IF j = k + 1 THEN s ELSE q[j - 1].due
        /\ j <= k => r[j].c_time = q[j].c_time

\* Inserting a callout for s seconds gives it time s and moves no other.
LEMMA InsertFacts ==
    ASSUME NEW q \in Seq(Entry), NEW a, Timed(q, a),
           NEW f \in Funcs, NEW s \in 1 .. MaxDelay, NEW k, k = Before(q, s)
    PROVE  /\ k \in 0 .. Len(q)
           /\ Insert(q, f, s) \in Seq(Entry)
           /\ Len(Insert(q, f, s)) = Len(q) + 1
           /\ QueuedAt(q, k, f, s, Insert(q, f, s))
           /\ k = 0 => Insert(q, f, s)[1].c_time = s
           /\ Timed(Insert(q, f, s),
                    [j \in 0 .. Len(q) + 1 |->
                       IF j <= k THEN a[j] ELSE IF j = k + 1 THEN s ELSE a[j - 1]])
  <1>0. Len(q) \in Nat /\ MaxDelay \in Nat /\ s \in Nat
    BY CalloutAssumption
  <1>1. /\ k \in 0 .. Len(q) /\ a[k] <= s
        /\ k < Len(q) => s < a[k + 1]
    BY <1>0, BeforeFacts
  <1>2. \A j \in 0 .. Len(q) : a[j] \in 0 .. MaxDelay /\ a[j] \in Nat
    BY <1>0 DEF Timed
  <1>3. \A j \in 1 .. Len(q) : a[j] = a[j - 1] + q[j].c_time
    BY DEF Timed
  <1> DEFINE t == s - a[k]
             p == Shift(q, k + 1, -t)
             e == [what |-> f, c_time |-> t, due |-> s]
             r == InsertAt(p, k + 1, e)
             b == [j \in 0 .. Len(q) + 1 |->
                       IF j <= k THEN a[j] ELSE IF j = k + 1 THEN s ELSE a[j - 1]]
  <1>4. Insert(q, f, s) = r
    <2>1. Sums(q) = a  BY SumsAreTimes
    <2> QED  BY <2>1, Zenon DEF Insert
  <1>5. t \in 0 .. MaxDelay
    BY <1>0, <1>1, <1>2
  <1>6. e \in Entry
    BY <1>0, <1>5 DEF Entry
  <1>7. k + 1 \in 1 .. Len(q) => q[k + 1].c_time + (-t) \in 0 .. MaxDelay
    <2> SUFFICES ASSUME k + 1 \in 1 .. Len(q)
                 PROVE  q[k + 1].c_time + (-t) \in 0 .. MaxDelay
      OBVIOUS
    <2>1. a[k + 1] = a[k] + q[k + 1].c_time
      <3>1. (k + 1) - 1 = k  BY <1>1
      <3> QED  BY <1>3, <3>1
    <2>2. q[k + 1].c_time \in 0 .. MaxDelay  BY EntryFields
    <2>3. a[k] \in Nat /\ a[k + 1] \in Nat /\ s < a[k + 1]
      BY <1>0, <1>1, <1>2
    <2>4. t = s - a[k] /\ t \in Nat  BY <1>0, <1>5
    <2> HIDE DEF t
    <2>5. q[k + 1].c_time + (-t) = a[k + 1] - s
      <3>1. q[k + 1].c_time \in Int  BY EntryFields
      <3> QED  BY <1>0, <2>1, <2>3, <2>4, <3>1
    <2>6. q[k + 1].c_time + (-t) <= q[k + 1].c_time  BY <2>2, <2>4, <1>0
    <2>7. q[k + 1].c_time + (-t) \in Nat  BY <1>0, <2>3, <2>5
    <2> QED  BY <1>0, <2>2, <2>6, <2>7
  <1>8. /\ p \in Seq(Entry) /\ Len(p) = Len(q)
        /\ \A j \in 1 .. Len(q) :
              p[j] = IF j = k + 1 THEN [q[j] EXCEPT !.c_time = @ + (-t)] ELSE q[j]
    <2>1. k + 1 \in 1 .. Len(q) + 1 /\ -t \in Int  BY <1>0, <1>1, <1>5
    <2> HIDE DEF t
    <2> QED  BY <2>1, <1>7, ShiftFacts
  <1>9. /\ r \in Seq(Entry) /\ Len(r) = Len(q) + 1
        /\ \A j \in 1 .. Len(q) + 1 :
              r[j] = IF j <= k THEN p[j] ELSE IF j = k + 1 THEN e ELSE p[j - 1]
    <2> HIDE DEF p, e
    <2>1. k \in 0 .. Len(p)  BY <1>1, <1>8
    <2>2. /\ r \in Seq(Entry) /\ Len(r) = Len(p) + 1
          /\ \A j \in 1 .. Len(p) + 1 :
              r[j] = IF j <= k THEN p[j] ELSE IF j = k + 1 THEN e ELSE p[j - 1]
      <3>1. p \in Seq(Entry)  BY <1>8
      <3> QED  BY <1>6, <2>1, <3>1, InsertAtFacts
    <2> QED  BY <1>8, <2>2, Zenon
  <1>10. \A j \in 1 .. Len(q) :
           /\ p[j].what = q[j].what /\ p[j].due = q[j].due
           /\ p[j].c_time = IF j = k + 1 THEN q[j].c_time + (-t) ELSE q[j].c_time
    <2> SUFFICES ASSUME NEW j \in 1 .. Len(q)
                 PROVE  /\ p[j].what = q[j].what /\ p[j].due = q[j].due
                        /\ p[j].c_time = IF j = k + 1 THEN q[j].c_time + (-t) ELSE q[j].c_time
      OBVIOUS
    <2>1. q[j] \in Entry  BY EntryFields
    <2>2. p[j] = IF j = k + 1 THEN [q[j] EXCEPT !.c_time = @ + (-t)] ELSE q[j]
      BY <1>8
    <2> HIDE DEF p, t
    <2> QED  BY <2>1, <2>2 DEF Entry
  <1>11. e.what = f /\ e.due = s /\ e.c_time = t  OBVIOUS
  <1> HIDE DEF p, e, r
  <1>12. \A j \in 1 .. Len(q) + 1 :
                 /\ r[j].what =
                      IF j <= k THEN q[j].what ELSE IF j = k + 1 THEN f ELSE q[j - 1].what
                 /\ r[j].due =
                      IF j <= k THEN q[j].due ELSE IF j = k + 1 THEN s ELSE q[j - 1].due
                 /\ j <= k => r[j].c_time = q[j].c_time
                 /\ j = k + 1 => r[j].c_time = t
                 /\ j = k + 2 => r[j].c_time = q[k + 1].c_time - t
                 /\ j > k + 2 => r[j].c_time = q[j - 1].c_time
    <2> SUFFICES ASSUME NEW j \in 1 .. Len(q) + 1
                 PROVE  /\ r[j].what =
                             IF j <= k THEN q[j].what ELSE IF j = k + 1 THEN f ELSE q[j - 1].what
                        /\ r[j].due =
                             IF j <= k THEN q[j].due ELSE IF j = k + 1 THEN s ELSE q[j - 1].due
                        /\ j <= k => r[j].c_time = q[j].c_time
                        /\ j = k + 1 => r[j].c_time = t
                        /\ j = k + 2 => r[j].c_time = q[k + 1].c_time - t
                        /\ j > k + 2 => r[j].c_time = q[j - 1].c_time
      OBVIOUS
    <2>1. CASE j <= k
      <3>1. j \in 1 .. Len(q) /\ j # k + 1 /\ j # k + 2 /\ ~ (j > k + 2)
        BY <1>0, <1>1, <2>1
      <3>2. r[j] = p[j]  BY <1>9, <2>1
      <3> QED  BY <2>1, <3>1, <3>2, <1>10
    <2>2. CASE j = k + 1
      <3>1. ~ (j <= k) /\ j # k + 2 /\ ~ (j > k + 2)  BY <1>0, <1>1, <2>2
      <3>2. r[j] = e  BY <1>9, <2>2, <3>1
      <3> QED  BY <2>2, <3>1, <3>2, <1>11
    <2>3. CASE j > k + 1
      <3>1. j - 1 \in 1 .. Len(q) /\ ~ (j <= k) /\ j # k + 1
            /\ (j = k + 2 => j - 1 = k + 1) /\ (j > k + 2 => j - 1 # k + 1)
        BY <1>0, <1>1, <2>3
      <3>2. r[j] = p[j - 1]  BY <1>9, <3>1
      <3>3. q[j - 1].c_time \in Int /\ t \in Int  BY <1>5, <3>1, EntryFields
      <3> QED  BY <3>1, <3>2, <3>3, <1>10
    <2> QED  BY <1>0, <1>1, <2>1, <2>2, <2>3
  <1>13. Timed(r, b)
    <2>1. b \in [0 .. Len(q) + 1 -> 0 .. MaxDelay]
      <3> SUFFICES ASSUME NEW j \in 0 .. Len(q) + 1
                   PROVE  (IF j <= k THEN a[j] ELSE IF j = k + 1 THEN s ELSE a[j - 1])
                            \in 0 .. MaxDelay
        OBVIOUS
      <3>1. CASE j <= k  BY <1>0, <1>1, <1>2, <3>1
      <3>2. CASE j = k + 1  BY <1>0, <1>1, <3>2
      <3>3. CASE j > k + 1
        <4>1. j - 1 \in 0 .. Len(q) /\ ~ (j <= k) /\ j # k + 1  BY <1>0, <1>1, <3>3
        <4> QED  BY <4>1, <1>2
      <3> QED  BY <1>0, <1>1, <3>1, <3>2, <3>3
    <2>2. b[0] = 0
      BY <1>0, <1>1 DEF Timed
    <2>3. ASSUME NEW j \in 1 .. Len(q) + 1
          PROVE  b[j] = b[j - 1] + r[j].c_time
      <3>0. /\ j \in 0 .. Len(q) + 1 /\ j - 1 \in 0 .. Len(q) + 1
            /\ b[j] = IF j <= k THEN a[j] ELSE IF j = k + 1 THEN s ELSE a[j - 1]
            /\ b[j - 1] = IF j - 1 <= k THEN a[j - 1]
                          ELSE IF j - 1 = k + 1 THEN s ELSE a[(j - 1) - 1]
        BY <1>0
      <3> HIDE DEF b, t
      <3>1. CASE j <= k
        <4>1. j \in 1 .. Len(q) /\ j - 1 <= k  BY <1>0, <1>1, <3>1
        <4>2. r[j].c_time = q[j].c_time  BY <1>12, <3>1
        <4> QED  BY <1>3, <3>0, <3>1, <4>1, <4>2
      <3>2. CASE j = k + 1
        <4>1. ~ (j <= k) /\ j - 1 <= k /\ j - 1 = k  BY <1>0, <1>1, <3>2
        <4>2. b[j] = s /\ b[j - 1] = a[k]  BY <3>0, <3>2, <4>1
        <4>3. r[j].c_time = s - a[k]  BY <1>12, <3>2 DEF t
        <4>4. a[k] \in Int  BY <1>1, <1>2
        <4> QED  BY <1>0, <4>2, <4>3, <4>4
      <3>3. CASE j = k + 2
        <4>1. /\ ~ (j <= k) /\ j # k + 1 /\ ~ (j - 1 <= k) /\ j - 1 = k + 1
              /\ k + 1 \in 1 .. Len(q) /\ (k + 1) - 1 = k
          BY <1>0, <1>1, <3>3
        <4>2. b[j] = a[k + 1] /\ b[j - 1] = s  BY <3>0, <4>1
        <4>3. r[j].c_time = q[k + 1].c_time - (s - a[k])  BY <1>12, <3>3 DEF t
        <4>4. a[k + 1] = a[k] + q[k + 1].c_time  BY <1>3, <4>1
        <4>5. a[k] \in Int /\ q[k + 1].c_time \in Int  BY <1>1, <1>2, <4>1, EntryFields
        <4> QED  BY <1>0, <4>2, <4>3, <4>4, <4>5
      <3>4. CASE j > k + 2
        <4>1. /\ ~ (j <= k) /\ j # k + 1 /\ ~ (j - 1 <= k) /\ j - 1 # k + 1
              /\ j - 1 \in 1 .. Len(q)
          BY <1>0, <1>1, <3>4
        <4>2. b[j] = a[j - 1] /\ b[j - 1] = a[(j - 1) - 1]  BY <3>0, <4>1
        <4>3. r[j].c_time = q[j - 1].c_time  BY <1>12, <3>4
        <4> QED  BY <1>3, <4>1, <4>2, <4>3
      <3> QED  BY <1>0, <1>1, <3>1, <3>2, <3>3, <3>4
    <2> HIDE DEF b
    <2> QED  BY <1>9, <2>1, <2>2, <2>3 DEF Timed
  <1>14. k = 0 => r[1].c_time = s
    <2> SUFFICES ASSUME k = 0 PROVE r[1].c_time = s  OBVIOUS
    <2>1. r[1].c_time = t  BY <1>0, <1>12
    <2>2. a[k] = 0  BY DEF Timed
    <2> QED  BY <1>0, <2>1, <2>2
  <1> HIDE DEF b, t
  <1>15. QueuedAt(q, k, f, s, r)
    BY <1>12 DEF QueuedAt
  <1> QED  BY <1>1, <1>4, <1>9, <1>13, <1>14, <1>15, Zenon DEF b

\* The least element of Min is the first match.
LEMMA FirstMatch ==
    ASSUME NEW q \in Seq(Entry), NEW f, Matches(q, f) # {}
    PROVE  /\ Min(Matches(q, f)) \in 1 .. Len(q)
           /\ q[Min(Matches(q, f))].what = f
           /\ \A j \in 1 .. Len(q) : j < Min(Matches(q, f)) => q[j].what # f
  <1> DEFINE M == Matches(q, f)
  <1>0. Len(q) \in Nat  OBVIOUS
  <1>1. M \in SUBSET Nat  BY <1>0 DEF Matches
  <1>2. \E x \in M : \A y \in M : x <= y
    <2> HIDE DEF M
    <2>1. M # {}  BY DEF M
    <2> QED  BY <1>1, <2>1, Least
  <1>3. Min(M) \in M /\ \A y \in M : Min(M) <= y
    BY <1>2 DEF Min
  <1>4. Min(M) \in Nat  BY <1>1, <1>3
  <1>5. \A j : j \in M <=> j \in 1 .. Len(q) /\ q[j].what = f
    BY DEF Matches
  <1>6. \A j \in 1 .. Len(q) : j < Min(M) => q[j].what # f
    <2> HIDE DEF M
    <2> QED  BY <1>0, <1>3, <1>4, <1>5
  <1> QED  BY <1>3, <1>5, <1>6

\* r is q without entry i, whose delay the next entry takes over.
DeletedAt(q, i, r) ==
    \A j \in 1 .. Len(q) - 1 :
        /\ r[j].what = IF j < i THEN q[j].what ELSE q[j + 1].what
        /\ r[j].due = IF j < i THEN q[j].due ELSE q[j + 1].due
        /\ j < i => r[j].c_time = q[j].c_time
        /\ j = i => r[j].c_time = q[i + 1].c_time + q[i].c_time

\* Deleting a callout moves no other.
LEMMA DeleteFacts ==
    ASSUME NEW q \in Seq(Entry), NEW a, Timed(q, a),
           NEW f, Matches(q, f) # {}, NEW i, i = Min(Matches(q, f))
    PROVE  /\ i \in 1 .. Len(q)
           /\ Delete(q, f) \in Seq(Entry)
           /\ Len(Delete(q, f)) = Len(q) - 1
           /\ DeletedAt(q, i, Delete(q, f))
           /\ Timed(Delete(q, f),
                    [j \in 0 .. Len(q) - 1 |-> IF j < i THEN a[j] ELSE a[j + 1]])
  <1>0. Len(q) \in Nat /\ MaxDelay \in Nat  BY CalloutAssumption
  <1>1. i \in 1 .. Len(q)  BY FirstMatch
  <1>2. \A j \in 0 .. Len(q) : a[j] \in 0 .. MaxDelay /\ a[j] \in Nat
    BY <1>0 DEF Timed
  <1>3. \A j \in 1 .. Len(q) : a[j] = a[j - 1] + q[j].c_time
    BY DEF Timed
  <1> DEFINE t == q[i].c_time
             p == Shift(q, i + 1, t)
             r == RemoveAt(p, i)
             b == [j \in 0 .. Len(q) - 1 |-> IF j < i THEN a[j] ELSE a[j + 1]]
  <1>4. Delete(q, f) = r
    BY Zenon DEF Delete
  <1>5. t \in Nat /\ t \in Int  BY <1>1, EntryFields
  <1>6. i + 1 \in 1 .. Len(q) => q[i + 1].c_time + t \in 0 .. MaxDelay
    <2> SUFFICES ASSUME i + 1 \in 1 .. Len(q)
                 PROVE  q[i + 1].c_time + t \in 0 .. MaxDelay
      OBVIOUS
    <2>1. a[i + 1] = a[i] + q[i + 1].c_time
      <3>1. (i + 1) - 1 = i  BY <1>1
      <3> QED  BY <1>3, <3>1
    <2>2. a[i] = a[i - 1] + t  BY <1>1, <1>3
    <2>3. q[i + 1].c_time \in Nat  BY EntryFields
    <2>4. a[i - 1] \in Nat /\ a[i + 1] \in 0 .. MaxDelay  BY <1>0, <1>1, <1>2
    <2> HIDE DEF t
    <2> QED  BY <1>0, <1>5, <2>1, <2>2, <2>3, <2>4
  <1>7. /\ p \in Seq(Entry) /\ Len(p) = Len(q)
        /\ \A j \in 1 .. Len(q) :
              p[j] = IF j = i + 1 THEN [q[j] EXCEPT !.c_time = @ + t] ELSE q[j]
    <2>1. i + 1 \in 1 .. Len(q) + 1  BY <1>0, <1>1
    <2> HIDE DEF t
    <2> QED  BY <2>1, <1>5, <1>6, ShiftFacts
  <1>8. /\ r \in Seq(Entry) /\ Len(r) = Len(q) - 1
        /\ \A j \in 1 .. Len(q) - 1 : r[j] = IF j < i THEN p[j] ELSE p[j + 1]
    <2> HIDE DEF p
    <2>1. p \in Seq(Entry) /\ i \in 1 .. Len(p)  BY <1>1, <1>7
    <2>2. /\ r \in Seq(Entry) /\ Len(r) = Len(p) - 1
          /\ \A j \in 1 .. Len(p) - 1 : r[j] = IF j < i THEN p[j] ELSE p[j + 1]
      BY <2>1, RemoveAtFacts
    <2> QED  BY <1>7, <2>2, Zenon
  <1>9. \A j \in 1 .. Len(q) :
           /\ p[j].what = q[j].what /\ p[j].due = q[j].due
           /\ p[j].c_time = IF j = i + 1 THEN q[j].c_time + t ELSE q[j].c_time
    <2> SUFFICES ASSUME NEW j \in 1 .. Len(q)
                 PROVE  /\ p[j].what = q[j].what /\ p[j].due = q[j].due
                        /\ p[j].c_time = IF j = i + 1 THEN q[j].c_time + t ELSE q[j].c_time
      OBVIOUS
    <2>1. q[j] \in Entry  BY EntryFields
    <2>2. p[j] = IF j = i + 1 THEN [q[j] EXCEPT !.c_time = @ + t] ELSE q[j]
      BY <1>7
    <2> HIDE DEF p, t
    <2> QED  BY <2>1, <2>2 DEF Entry
  <1> HIDE DEF p, r
  <1>10. \A j \in 1 .. Len(q) - 1 :
                 /\ r[j].what = IF j < i THEN q[j].what ELSE q[j + 1].what
                 /\ r[j].due = IF j < i THEN q[j].due ELSE q[j + 1].due
                 /\ j < i => r[j].c_time = q[j].c_time
                 /\ j = i => r[j].c_time = q[i + 1].c_time + q[i].c_time
                 /\ j > i => r[j].c_time = q[j + 1].c_time
    <2> SUFFICES ASSUME NEW j \in 1 .. Len(q) - 1
                 PROVE  /\ r[j].what = IF j < i THEN q[j].what ELSE q[j + 1].what
                        /\ r[j].due = IF j < i THEN q[j].due ELSE q[j + 1].due
                        /\ j < i => r[j].c_time = q[j].c_time
                        /\ j = i => r[j].c_time = q[i + 1].c_time + q[i].c_time
                        /\ j > i => r[j].c_time = q[j + 1].c_time
      OBVIOUS
    <2>1. CASE j < i
      <3>1. j \in 1 .. Len(q) /\ j # i + 1 /\ j # i /\ ~ (j > i)
        BY <1>0, <1>1, <2>1
      <3>2. r[j] = p[j]  BY <1>8, <2>1
      <3> QED  BY <2>1, <3>1, <3>2, <1>9
    <2>2. CASE ~ (j < i)
      <3>1. /\ j + 1 \in 1 .. Len(q)
            /\ j = i => j + 1 = i + 1
            /\ j > i => j # i /\ j + 1 # i + 1
        BY <1>0, <1>1, <2>2
      <3>2. r[j] = p[j + 1]  BY <1>8, <2>2
      <3> QED  BY <2>2, <3>1, <3>2, <1>9
    <2> QED  BY <2>1, <2>2
  <1>11. Timed(r, b)
    <2>1. b \in [0 .. Len(q) - 1 -> 0 .. MaxDelay]
      <3> SUFFICES ASSUME NEW j \in 0 .. Len(q) - 1
                   PROVE  (IF j < i THEN a[j] ELSE a[j + 1]) \in 0 .. MaxDelay
        OBVIOUS
      <3>1. j \in 0 .. Len(q) /\ j + 1 \in 0 .. Len(q)  BY <1>0
      <3> QED  BY <3>1, <1>2
    <2>2. b[0] = 0
      BY <1>0, <1>1 DEF Timed
    <2>3. ASSUME NEW j \in 1 .. Len(q) - 1
          PROVE  b[j] = b[j - 1] + r[j].c_time
      <3>0. /\ b[j] = IF j < i THEN a[j] ELSE a[j + 1]
            /\ b[j - 1] = IF j - 1 < i THEN a[j - 1] ELSE a[(j - 1) + 1]
        BY <1>0
      <3> HIDE DEF b, t
      <3>1. CASE j < i
        <4>1. j \in 1 .. Len(q) /\ j - 1 < i  BY <1>0, <1>1, <3>1
        <4>2. r[j].c_time = q[j].c_time  BY <1>10, <3>1
        <4> QED  BY <1>3, <3>0, <3>1, <4>1, <4>2
      <3>2. CASE j = i
        <4>1. /\ ~ (j < i) /\ j - 1 < i /\ i \in 1 .. Len(q)
              /\ i + 1 \in 1 .. Len(q) /\ (i + 1) - 1 = i
          BY <1>0, <1>1, <3>2
        <4>2. b[j] = a[i + 1] /\ b[j - 1] = a[i - 1]  BY <3>0, <3>2, <4>1
        <4>3. r[j].c_time = q[i + 1].c_time + q[i].c_time  BY <1>10, <3>2
        <4>4. a[i + 1] = a[i] + q[i + 1].c_time /\ a[i] = a[i - 1] + q[i].c_time
          BY <1>3, <4>1
        <4>5. a[i - 1] \in Int /\ q[i].c_time \in Int /\ q[i + 1].c_time \in Int
          BY <1>0, <1>1, <1>2, <4>1, EntryFields
        <4> QED  BY <4>2, <4>3, <4>4, <4>5
      <3>3. CASE j > i
        <4>1. /\ ~ (j < i) /\ ~ (j - 1 < i) /\ j + 1 \in 1 .. Len(q)
              /\ (j - 1) + 1 = j /\ (j + 1) - 1 = j
          BY <1>0, <1>1, <3>3
        <4>2. b[j] = a[j + 1] /\ b[j - 1] = a[j]  BY <3>0, <4>1
        <4>3. r[j].c_time = q[j + 1].c_time  BY <1>10, <3>3
        <4> QED  BY <1>3, <4>1, <4>2, <4>3
      <3> QED  BY <1>0, <1>1, <3>1, <3>2, <3>3
    <2> HIDE DEF b
    <2> QED  BY <1>8, <2>1, <2>2, <2>3 DEF Timed
  <1> HIDE DEF b, t
  <1>12. DeletedAt(q, i, r)
    BY <1>10 DEF DeletedAt
  <1> QED  BY <1>1, <1>4, <1>8, <1>11, <1>12, Zenon DEF b

\* Shortening the delay of the head brings all entries forward.
LEMMA AdvanceFacts ==
    ASSUME NEW q \in Seq(Entry), NEW a, Timed(q, a), q # << >>,
           NEW t \in Nat, t < q[1].c_time
    PROVE  /\ Shift(q, 1, -t) \in Seq(Entry)
           /\ Len(Shift(q, 1, -t)) = Len(q)
           /\ Shift(q, 1, -t)[1].c_time = q[1].c_time - t
           /\ \A j \in 1 .. Len(q) :
                 /\ Shift(q, 1, -t)[j].what = q[j].what
                 /\ Shift(q, 1, -t)[j].due = q[j].due
           /\ Timed(Shift(q, 1, -t),
                    [j \in 0 .. Len(q) |-> IF j = 0 THEN 0 ELSE a[j] - t])
  <1> DEFINE r == Shift(q, 1, -t)
             b == [j \in 0 .. Len(q) |-> IF j = 0 THEN 0 ELSE a[j] - t]
  <1>0. Len(q) \in Nat /\ Len(q) > 0 /\ MaxDelay \in Nat  BY CalloutAssumption
  <1>1. q[1] \in Entry /\ q[1].c_time \in 0 .. MaxDelay /\ q[1].c_time \in Nat
    BY <1>0, EntryFields
  <1>2. q[1].c_time + (-t) \in 0 .. MaxDelay  BY <1>0, <1>1
  <1>3. /\ r \in Seq(Entry) /\ Len(r) = Len(q)
        /\ \A j \in 1 .. Len(q) :
              r[j] = IF j = 1 THEN [q[j] EXCEPT !.c_time = @ + (-t)] ELSE q[j]
    BY <1>0, <1>2, ShiftFacts
  <1> HIDE DEF r
  <1>4. ASSUME NEW j \in 1 .. Len(q)
        PROVE  /\ r[j].what = q[j].what /\ r[j].due = q[j].due
               /\ r[j].c_time = IF j = 1 THEN q[1].c_time - t ELSE q[j].c_time
    <2>1. q[j] \in Entry /\ q[j].c_time \in Nat  BY EntryFields
    <2>2. r[j] = IF j = 1 THEN [q[j] EXCEPT !.c_time = @ + (-t)] ELSE q[j]
      BY <1>3
    <2>3. q[j].c_time + (-t) = q[j].c_time - t  BY <2>1
    <2> QED  BY <2>1, <2>2, <2>3 DEF Entry
  <1>5. \A j \in 1 .. Len(q) : a[j] \in 0 .. MaxDelay /\ a[j] >= q[1].c_time
    <2>1. a[1] = a[0] + q[1].c_time /\ a[0] = 0  BY <1>0 DEF Timed
    <2>2. a[1] = q[1].c_time  BY <1>1, <2>1
    <2>3. \A j \in 1 .. Len(q) : a[1] <= a[j]  BY <1>0, TimesGrow
    <2>4. \A j \in 1 .. Len(q) : a[j] \in 0 .. MaxDelay  BY <1>0 DEF Timed
    <2> QED  BY <1>0, <1>1, <2>2, <2>3, <2>4
  <1>6. Timed(r, b)
    <2>1. b \in [0 .. Len(q) -> 0 .. MaxDelay]
      BY <1>0, <1>1, <1>5
    <2>2. b[0] = 0  BY <1>0
    <2>3. ASSUME NEW j \in 1 .. Len(q) PROVE b[j] = b[j - 1] + r[j].c_time
      <3>0. /\ b[j] = a[j] - t
            /\ b[j - 1] = IF j - 1 = 0 THEN 0 ELSE a[j - 1] - t
        BY <1>0
      <3>1. a[j] = a[j - 1] + q[j].c_time  BY DEF Timed
      <3>2. q[j].c_time \in Int  BY EntryFields
      <3> HIDE DEF b
      <3>3. CASE j = 1
        <4>1. a[0] = 0  BY DEF Timed
        <4> QED  BY <1>1, <1>4, <3>0, <3>1, <3>3, <4>1
      <3>4. CASE j # 1
        <4>1. j - 1 \in 1 .. Len(q) /\ j - 1 # 0  BY <1>0, <3>4
        <4>2. a[j - 1] \in Int  BY <1>0, <1>5, <4>1
        <4>3. r[j].c_time = q[j].c_time  BY <1>4, <3>4
        <4> QED  BY <3>0, <3>1, <3>2, <4>1, <4>2, <4>3
      <3> QED  BY <3>3, <3>4
    <2> HIDE DEF b
    <2> QED  BY <1>3, <2>1, <2>2, <2>3 DEF Timed
  <1>7. r[1].c_time = q[1].c_time - t  BY <1>0, <1>4
  <1> HIDE DEF b
  <1> QED  BY <1>3, <1>4, <1>6, <1>7, Zenon DEF r, b

\* alrm takes the head and the entries due with it: a delay follows them.
LEMMA TogetherFacts ==
    ASSUME NEW q \in Seq(Entry)
    PROVE  /\ Together(q) \in 0 .. Len(q)
           /\ q # << >> => Together(q) > 0
           /\ \A j \in 2 .. Together(q) : q[j].c_time = 0
           /\ Together(q) < Len(q) => q[Together(q) + 1].c_time # 0
  <1>0. Len(q) \in Nat  OBVIOUS
  <1> DEFINE T == {i \in 1 .. Len(q) + 1 :
                      i = Len(q) + 1 \/ ~ (\A j \in 2 .. i : q[j].c_time = 0)}
  <1>1. PICK m \in T : \A y \in T : m <= y
    <2>0. Len(q) + 1 \in T  BY <1>0
    <2>1. T # {} /\ T \in SUBSET Nat  BY <2>0
    <2> HIDE DEF T
    <2> QED  BY <2>1, Least
  <1>2. {i \in 1 .. Len(q) : \A j \in 2 .. i : q[j].c_time = 0} = 1 .. m - 1
    <2>1. ASSUME NEW i \in 1 .. Len(q), \A j \in 2 .. i : q[j].c_time = 0
          PROVE  i <= m - 1
      <3>1. SUFFICES ASSUME m <= i PROVE FALSE  BY <1>0, <1>1
      <3>2. m \in 1 .. Len(q) /\ \A j \in 2 .. m : j \in 2 .. i  BY <1>0, <1>1, <3>1
      <3> QED  BY <1>0, <1>1, <2>1, <3>2
    <2>2. ASSUME NEW i \in 1 .. m - 1
          PROVE  i \in 1 .. Len(q) /\ \A j \in 2 .. i : q[j].c_time = 0
      BY <1>0, <1>1
    <2> QED  BY <2>1, <2>2
  <1>3. Together(q) = m - 1
    <2>1. Cardinality(1 .. m - 1) = m - 1  BY <1>0, <1>1, FS_Interval
    <2> QED  BY <1>2, <2>1 DEF Together
  <1>4. m - 1 \in 0 .. Len(q)  BY <1>0, <1>1
  <1>5. q # << >> => m - 1 > 0
    <2>1. SUFFICES ASSUME q # << >>, m = 1 PROVE FALSE  BY <1>0, <1>1
    <2>2. Len(q) > 0  BY <2>1
    <2> QED  BY <1>0, <1>1, <2>1, <2>2
  <1>6. \A j \in 2 .. m - 1 : q[j].c_time = 0
    <2> SUFFICES ASSUME NEW j \in 2 .. m - 1 PROVE q[j].c_time = 0  OBVIOUS
    <2>1. m - 1 \in 1 .. m - 1  BY <1>0, <1>1
    <2>2. \A k \in 2 .. m - 1 : q[k].c_time = 0  BY <1>2, <2>1
    <2> QED  BY <2>2
  <1>7. m - 1 < Len(q) => q[(m - 1) + 1].c_time # 0
    <2> SUFFICES ASSUME m - 1 < Len(q) PROVE q[m].c_time # 0  BY <1>0, <1>1
    <2>1. PICK j \in 2 .. m : q[j].c_time # 0  BY <1>0, <1>1
    <2>2. j = m  BY <1>0, <1>1, <1>6, <2>1
    <2> QED  BY <2>1, <2>2
  <1> QED  BY <1>3, <1>4, <1>5, <1>6, <1>7

\* What is left of a list starts with the delay of its head.
LEMMA RestFacts ==
    ASSUME NEW q \in Seq(Entry), NEW a, Timed(q, a), NEW n \in 0 .. Len(q),
           NEW r, r = SubSeq(q, n + 1, Len(q))
    PROVE  /\ r \in Seq(Entry)
           /\ Len(r) = Len(q) - n
           /\ \A j \in 1 .. Len(q) - n : r[j] = q[n + j]
           /\ Timed(r, [j \in 0 .. Len(q) - n |-> a[n + j] - a[n]])
  <1> DEFINE b == [j \in 0 .. Len(q) - n |-> a[n + j] - a[n]]
  <1>0. Len(q) \in Nat /\ MaxDelay \in Nat  BY CalloutAssumption
  <1>1. /\ r \in Seq(Entry) /\ Len(r) = Len(q) - n
        /\ \A j \in 1 .. Len(q) - n : r[j] = q[n + j]
    BY <1>0
  <1>2. \A j \in 0 .. Len(q) : a[j] \in 0 .. MaxDelay /\ a[j] \in Nat
    BY <1>0 DEF Timed
  <1>3. ASSUME NEW j \in 0 .. Len(q) - n
        PROVE  n + j \in 0 .. Len(q) /\ a[n + j] - a[n] \in 0 .. MaxDelay
    <2>1. n + j \in 0 .. Len(q) /\ n <= n + j  BY <1>0
    <2>2. a[n] <= a[n + j]  BY <2>1, TimesGrow
    <2>3. a[n] \in Nat /\ a[n + j] \in 0 .. MaxDelay  BY <1>2, <2>1
    <2> QED  BY <1>0, <2>1, <2>2, <2>3
  <1>4. b \in [0 .. Len(q) - n -> 0 .. MaxDelay]  BY <1>3
  <1>5. b[0] = 0
    <2>1. b[0] = a[n] - a[n]  BY <1>0
    <2> QED  BY <1>2, <2>1
  <1>6. ASSUME NEW j \in 1 .. Len(q) - n PROVE b[j] = b[j - 1] + r[j].c_time
    <2>1. b[j] = a[n + j] - a[n] /\ b[j - 1] = a[n + (j - 1)] - a[n]
      BY <1>0
    <2>2. n + j \in 1 .. Len(q) /\ (n + j) - 1 = n + (j - 1)
          /\ n + (j - 1) \in 0 .. Len(q)
      BY <1>0
    <2>3. a[n + j] = a[n + (j - 1)] + q[n + j].c_time  BY <2>2 DEF Timed
    <2>4. q[n + j].c_time \in Int /\ a[n + (j - 1)] \in Int /\ a[n] \in Int
      BY <1>2, <2>2, EntryFields
    <2>5. r[j] = q[n + j]  BY <1>1
    <2> HIDE DEF b
    <2> QED  BY <2>1, <2>3, <2>4, <2>5
  <1> HIDE DEF b
  <1>7. Timed(r, b)
    BY <1>1, <1>4, <1>5, <1>6 DEF Timed
  <1> QED  BY <1>1, <1>7, Zenon DEF b

----------------------------------------------------------------------------
(* The inductive invariant.                                                 *)

\* No entry is later than the longest delay.
TimesFit == Timed(callout, Sums(callout))

\* The head has a delay: the others of its second are taken off with it.
HeadWaits == callout # << >> => callout[1].c_time > 0

Inv == TypeOK /\ TimesFit /\ HeadWaits /\ AlarmArmed

\* How the times asked for can be read off the list and the timer: the head is
\* due when the timer ends, and while a handler runs the list starts now.
DueInv ==
    calm =>
      /\ \A i \in DOMAIN callout :
            callout[i].due = itimer + Sums(callout)[i] - Sums(callout)[1]
      /\ callout # << >> /\ ~ adjusted => itimer + elapsed = callout[1].c_time
      /\ callout # << >> /\ mode # "idle" => itimer = callout[1].c_time
      /\ mode # "idle" => ~ alarm
      /\ alarm => itimer = 0
      /\ \A i \in DOMAIN batch : batch[i].due = 0
      /\ mode \in {"idle", "signal"} => batch = << >>

\* The types of the invariant.
LEMMA InvTypes ==
    ASSUME Inv
    PROVE  /\ callout \in Seq(Entry) /\ batch \in Seq(Entry)
           /\ Len(callout) \in Nat /\ DOMAIN callout = 1 .. Len(callout)
           /\ DOMAIN batch = 1 .. Len(batch)
           /\ elapsed \in 0 .. MaxDelay /\ elapsed \in Nat
           /\ itimer \in 0 .. MaxDelay /\ itimer \in Nat
           /\ MaxDelay \in Nat /\ MaxDelay > 0
           /\ Timed(callout, Sums(callout))
           /\ \A i \in 0 .. Len(callout) : Sums(callout)[i] \in Nat
           /\ callout # << >> => /\ Len(callout) > 0
                                 /\ Sums(callout)[1] = callout[1].c_time
                                 /\ Head(callout) = callout[1]
  <1>0. MaxDelay \in Nat /\ MaxDelay > 0  BY CalloutAssumption
  <1>1. callout \in Seq(Entry) /\ batch \in Seq(Entry)  BY DEF Inv, TypeOK
  <1>2. Len(callout) \in Nat /\ DOMAIN callout = 1 .. Len(callout)
        /\ DOMAIN batch = 1 .. Len(batch)
    BY <1>1
  <1>3. /\ elapsed \in 0 .. MaxDelay /\ elapsed \in Nat
        /\ itimer \in 0 .. MaxDelay /\ itimer \in Nat
    BY <1>0 DEF Inv, TypeOK
  <1>4. Timed(callout, Sums(callout))  BY DEF Inv, TimesFit
  <1>5. \A i \in 0 .. Len(callout) : Sums(callout)[i] \in Nat
    BY <1>0, <1>4 DEF Timed
  <1>6. ASSUME callout # << >>
        PROVE  Len(callout) > 0 /\ Sums(callout)[1] = callout[1].c_time
               /\ Head(callout) = callout[1]
    <2>1. Len(callout) > 0 /\ Head(callout) = callout[1]  BY <1>1, <1>6
    <2>2. Sums(callout)[1] = 0 + callout[1].c_time
      BY <1>2, <1>4, <2>1 DEF Timed
    <2>3. callout[1].c_time \in Nat  BY <1>1, <1>2, <2>1, EntryFields
    <2> QED  BY <2>1, <2>2, <2>3
  <1> QED  BY <1>0, <1>1, <1>2, <1>3, <1>4, <1>5, <1>6

\* ppp_timeout keeps the invariant.
LEMMA TimeoutStep ==
    ASSUME Inv, DueInv, NEW f \in Funcs, NEW s \in 1 .. MaxDelay, ppp_timeout(f, s)
    PROVE  Inv' /\ DueInv'
  <1> DEFINE a == Sums(callout)
             k == Before(callout, s)
             r == Insert(callout, f, s)
             b == [j \in 0 .. Len(callout) + 1 |->
                     IF j <= k THEN a[j] ELSE IF j = k + 1 THEN s ELSE a[j - 1]]
  <1>1. /\ callout \in Seq(Entry) /\ Len(callout) \in Nat
        /\ DOMAIN callout = 1 .. Len(callout)
        /\ MaxDelay \in Nat /\ s \in Nat /\ s > 0
        /\ itimer \in Nat /\ Timed(callout, a)
        /\ \A i \in 0 .. Len(callout) : a[i] \in Nat
        /\ callout # << >> => Len(callout) > 0 /\ a[1] = callout[1].c_time
    BY InvTypes
  <1>2. /\ k \in 0 .. Len(callout)
        /\ r \in Seq(Entry) /\ Len(r) = Len(callout) + 1
        /\ \A j \in 1 .. Len(callout) + 1 :
              /\ r[j].due = IF j <= k THEN callout[j].due
                            ELSE IF j = k + 1 THEN s ELSE callout[j - 1].due
              /\ j <= k => r[j].c_time = callout[j].c_time
        /\ k = 0 => r[1].c_time = s
        /\ Timed(r, b)
    <2>1. /\ k \in 0 .. Len(callout)
          /\ r \in Seq(Entry) /\ Len(r) = Len(callout) + 1
          /\ QueuedAt(callout, k, f, s, r)
          /\ k = 0 => r[1].c_time = s
          /\ Timed(r, b)
      BY <1>1, InsertFacts
    <2> HIDE DEF r, k, b
    <2> QED  BY <2>1 DEF QueuedAt
  <1>3. /\ callout' = r
        /\ Handling /\ UNCHANGED <<alarm, batch, mode, calm>>
        /\ IF k = 0 THEN SetTimer(callout') ELSE KeepTimer
    BY DEF ppp_timeout
  <1>4. Sums(callout') = b  BY <1>2, <1>3, SumsAreTimes
  <1>5. r # << >> /\ Head(r) = r[1] /\ 1 \in 1 .. Len(r) /\ DOMAIN r = 1 .. Len(r)
    BY <1>1, <1>2
  <1>6. /\ k = 0 => itimer' = s /\ elapsed' = 0 /\ adjusted' = FALSE
        /\ k # 0 => itimer' = itimer /\ elapsed' = elapsed /\ adjusted' = adjusted
    BY <1>2, <1>3, <1>5 DEF SetTimer, KeepTimer
  <1>7. TypeOK'
    <2>1. TypeOK  BY DEF Inv
    <2> HIDE DEF r, k, b
    <2>2. itimer' \in 0 .. MaxDelay /\ elapsed' \in 0 .. MaxDelay
      BY <1>1, <1>6, <2>1 DEF TypeOK
    <2>3. adjusted' \in BOOLEAN
      BY <1>6, <2>1 DEF TypeOK
    <2> QED  BY <1>2, <1>3, <2>1, <2>2, <2>3 DEF TypeOK
  <1>8. TimesFit'
    <2> HIDE DEF r, k, b
    <2> QED  BY <1>2, <1>3, <1>4 DEF TimesFit
  <1>9. k # 0 => callout # << >> /\ 1 <= k
    BY <1>1, <1>2
  <1>10. HeadWaits' /\ AlarmArmed'
    <2>1. k # 0 => r[1].c_time = callout[1].c_time
      <3> HIDE DEF r, k, b
      <3> QED  BY <1>1, <1>2, <1>9
    <2>2. HeadWaits /\ AlarmArmed  BY DEF Inv
    <2> HIDE DEF r, k, b
    <2> QED  BY <1>1, <1>2, <1>3, <1>6, <1>9, <2>1, <2>2 DEF HeadWaits, AlarmArmed
  <1>11. ASSUME calm
         PROVE  DueInv'
    <2>1. /\ callout # << >> => itimer = a[1]
          /\ \A i \in 1 .. Len(callout) : callout[i].due = itimer + a[i] - a[1]
          /\ ~ alarm /\ mode # "idle"
          /\ callout # << >> /\ ~ adjusted => itimer + elapsed = callout[1].c_time
      BY <1>1, <1>3, <1>11 DEF DueInv, Handling
    <2>2. \A i \in 1 .. Len(callout) : callout[i].due = a[i]
      <3> SUFFICES ASSUME NEW i \in 1 .. Len(callout) PROVE callout[i].due = a[i]
        OBVIOUS
      <3>1. callout # << >> /\ a[i] \in Nat /\ a[1] \in Nat  BY <1>1
      <3> HIDE DEF a
      <3> QED  BY <2>1, <3>1
    <2>3. itimer' = b[1] /\ b[1] = r[1].c_time
      <3>1. Timed(r, b) => b[1] = b[0] + r[1].c_time /\ b[0] = 0
        <4> HIDE DEF b, r
        <4> QED  BY <1>5 DEF Timed
      <3>2. r[1].c_time \in Nat  BY <1>2, <1>5, EntryFields
      <3>3. b[1] = r[1].c_time
        <4> HIDE DEF b, r
        <4> QED  BY <1>2, <3>1, <3>2
      <3>4. k = 0 => itimer' = r[1].c_time
        <4> HIDE DEF r, k, b
        <4> QED  BY <1>2, <1>6
      <3>5. k # 0 => itimer' = r[1].c_time
        <4> HIDE DEF r, k, b
        <4>1. k # 0 => r[1].c_time = callout[1].c_time  BY <1>1, <1>2, <1>9
        <4> QED  BY <1>1, <1>6, <1>9, <2>1, <4>1
      <3> HIDE DEF r, k, b
      <3> QED  BY <3>3, <3>4, <3>5
    <2>4. \A j \in 1 .. Len(r) : r[j].due = b[j]
      <3> SUFFICES ASSUME NEW j \in 1 .. Len(callout) + 1 PROVE r[j].due = b[j]
        BY <1>2
      <3>1. b[j] = IF j <= k THEN a[j] ELSE IF j = k + 1 THEN s ELSE a[j - 1]
        BY <1>1
      <3>2. r[j].due = IF j <= k THEN callout[j].due
                       ELSE IF j = k + 1 THEN s ELSE callout[j - 1].due
        BY <1>2
      <3>3. /\ j <= k => j \in 1 .. Len(callout)
            /\ ~ (j <= k) /\ j # k + 1 => j - 1 \in 1 .. Len(callout)
        BY <1>1, <1>2
      <3> HIDE DEF r, k, b, a
      <3> QED  BY <2>2, <3>1, <3>2, <3>3
    <2>5. \A j \in 1 .. Len(r) : b[j] \in Nat
      <3> HIDE DEF r, k, b, a
      <3> QED  BY <1>1, <1>2 DEF Timed
    <2>6. \A j \in DOMAIN callout' :
             callout'[j].due = itimer' + Sums(callout')[j] - Sums(callout')[1]
      <3> HIDE DEF r, k, b, a
      <3> QED  BY <1>3, <1>4, <1>5, <2>3, <2>4, <2>5
    <2>7. ~ adjusted' => itimer' + elapsed' = r[1].c_time
      <3>1. CASE k = 0
        <4> HIDE DEF r, k, b, a
        <4> QED  BY <1>1, <1>2, <1>6, <3>1
      <3>2. CASE k # 0
        <4> HIDE DEF r, k, b, a
        <4>1. r[1].c_time = callout[1].c_time  BY <1>1, <1>2, <1>9, <3>2
        <4> QED  BY <1>6, <1>9, <2>1, <3>2, <4>1
      <3> QED  BY <3>1, <3>2
    <2>8. /\ \A i \in DOMAIN batch : batch[i].due = 0
          /\ mode \in {"idle", "signal"} => batch = << >>
      BY <1>11 DEF DueInv
    <2> HIDE DEF r, k, b, a
    <2> QED  BY <1>3, <2>1, <2>3, <2>6, <2>7, <2>8 DEF DueInv
  <1>12. ~ calm => DueInv'
    BY <1>3 DEF DueInv
  <1> QED  BY <1>7, <1>8, <1>10, <1>11, <1>12 DEF Inv

\* ppp_untimeout keeps the invariant.
LEMMA UntimeoutStep ==
    ASSUME Inv, DueInv, NEW f \in Funcs, ppp_untimeout(f)
    PROVE  Inv' /\ DueInv'
  <1> DEFINE a == Sums(callout)
             i == Min(Matches(callout, f))
             r == Delete(callout, f)
             n == Len(callout) - 1
             b == [j \in 0 .. n |-> IF j < i THEN a[j] ELSE a[j + 1]]
  <1>1. /\ callout \in Seq(Entry) /\ Len(callout) \in Nat
        /\ DOMAIN callout = 1 .. Len(callout)
        /\ MaxDelay \in Nat
        /\ itimer \in Nat /\ elapsed \in Nat /\ Timed(callout, a)
        /\ \A j \in 0 .. Len(callout) : a[j] \in Nat
        /\ callout # << >> => /\ Len(callout) > 0 /\ a[1] = callout[1].c_time
                              /\ Head(callout) = callout[1]
    BY InvTypes
  <1>2. /\ callout' = r
        /\ Handling /\ UNCHANGED <<alarm, batch, mode, calm>>
        /\ IF callout # << >> /\ Head(callout).what = f
             THEN SetTimer(callout') ELSE KeepTimer
    BY DEF ppp_untimeout
  <1>3. CASE Matches(callout, f) = {}
    <2>1. r = callout  BY <1>3 DEF Delete
    <2>2. ~ (callout # << >> /\ Head(callout).what = f)
      BY <1>1, <1>3 DEF Matches
    <2>3. UNCHANGED vars
      <3> HIDE DEF r
      <3> QED  BY <1>2, <2>1, <2>2 DEF KeepTimer, vars
    <2> QED  BY <2>3 DEF vars, Inv, TypeOK, TimesFit, HeadWaits, AlarmArmed, DueInv
  <1>4. CASE Matches(callout, f) # {}
    <2>1. /\ i \in 1 .. Len(callout)
          /\ r \in Seq(Entry) /\ Len(r) = n
          /\ \A j \in 1 .. n :
                /\ r[j].due = IF j < i THEN callout[j].due ELSE callout[j + 1].due
                /\ j < i => r[j].c_time = callout[j].c_time
                /\ j = i => r[j].c_time = callout[i + 1].c_time + callout[i].c_time
          /\ Timed(r, b)
      <3>1. i = Min(Matches(callout, f))  OBVIOUS
      <3>2. callout \in Seq(Entry) /\ Timed(callout, a)  BY <1>1
      <3> HIDE DEF i, a
      <3>3. /\ i \in 1 .. Len(callout)
            /\ r \in Seq(Entry) /\ Len(r) = n
            /\ DeletedAt(callout, i, r)
            /\ Timed(r, b)
        BY <1>4, <3>1, <3>2, DeleteFacts
      <3> HIDE DEF r, b
      <3> QED  BY <3>3 DEF DeletedAt
    <2>2. callout # << >> /\ n \in Nat /\ (Head(callout).what = f <=> i = 1)
      <3>1. callout # << >> /\ n \in Nat  BY <1>1, <2>1
      <3>2. /\ callout[i].what = f
            /\ \A j \in 1 .. Len(callout) : j < i => callout[j].what # f
        BY <1>1, <1>4, FirstMatch
      <3> HIDE DEF i
      <3> QED  BY <1>1, <2>1, <3>1, <3>2
    <2>3. Sums(callout') = b  BY <1>2, <2>1, SumsAreTimes
    <2>4. /\ r # << >> <=> n > 0
          /\ r # << >> => Head(r) = r[1] /\ 1 \in 1 .. Len(r)
          /\ DOMAIN r = 1 .. Len(r)
      <3> HIDE DEF r, b, i
      <3> QED  BY <2>1, <2>2
    <2>5. r # << >> => r[1].c_time \in 0 .. MaxDelay /\ r[1].c_time \in Nat
      BY <2>1, <2>4, EntryFields
    <2>6. /\ i = 1 => /\ itimer' = IF r = << >> THEN 0 ELSE r[1].c_time
                      /\ elapsed' = 0 /\ adjusted' = FALSE
          /\ i # 1 => itimer' = itimer /\ elapsed' = elapsed /\ adjusted' = adjusted
      <3> HIDE DEF r, i, b
      <3> QED  BY <1>2, <2>2, <2>4 DEF SetTimer, KeepTimer
    <2>7. i # 1 /\ r # << >> => r[1].c_time = callout[1].c_time
      <3> HIDE DEF r, i, b
      <3> QED  BY <1>1, <2>1, <2>4
    <2>8. r # << >> => r[1].c_time > 0
      <3>0. HeadWaits  BY DEF Inv
      <3>1. i = 1 /\ r # << >> => r[1].c_time > 0
        <4> SUFFICES ASSUME i = 1, r # << >> PROVE r[1].c_time > 0  OBVIOUS
        <4>1. r[1].c_time = callout[2].c_time + callout[1].c_time
          <5> HIDE DEF r, i, b
          <5> QED  BY <2>1, <2>4
        <4>2. callout[2].c_time \in Nat /\ callout[1].c_time \in Nat
          <5>1. 1 \in 1 .. Len(callout) /\ 2 \in 1 .. Len(callout)
            <6> HIDE DEF r, i, b
            <6> QED  BY <1>1, <2>1, <2>4
          <5> QED  BY <1>1, <5>1, EntryFields
        <4>3. callout[1].c_time > 0  BY <2>2, <3>0 DEF HeadWaits
        <4> HIDE DEF r
        <4> QED  BY <4>1, <4>2, <4>3
      <3> HIDE DEF r, i, b
      <3> QED  BY <2>2, <2>7, <3>0, <3>1 DEF HeadWaits
    <2>9. TypeOK'
      <3>1. TypeOK  BY DEF Inv
      <3> HIDE DEF r, i, b
      <3>2. itimer' \in 0 .. MaxDelay /\ elapsed' \in 0 .. MaxDelay
        BY <1>1, <2>5, <2>6, <3>1 DEF TypeOK
      <3>3. adjusted' \in BOOLEAN
        BY <2>6, <3>1 DEF TypeOK
      <3> QED  BY <1>2, <2>1, <3>1, <3>2, <3>3 DEF TypeOK
    <2>10. TimesFit'
      <3> HIDE DEF r, i, b
      <3> QED  BY <1>2, <2>1, <2>3 DEF TimesFit
    <2>11. HeadWaits' /\ AlarmArmed'
      <3>1. AlarmArmed  BY DEF Inv
      <3> HIDE DEF r, i, b
      <3> QED  BY <1>2, <2>2, <2>6, <2>8, <3>1 DEF HeadWaits, AlarmArmed
    <2>12. ASSUME calm PROVE DueInv'
      <3>1. /\ itimer = a[1]
            /\ \A j \in 1 .. Len(callout) : callout[j].due = itimer + a[j] - a[1]
            /\ ~ alarm /\ mode # "idle"
            /\ ~ adjusted => itimer + elapsed = callout[1].c_time
        BY <1>1, <1>2, <2>2, <2>12 DEF DueInv, Handling
      <3>2. \A j \in 1 .. Len(callout) : callout[j].due = a[j]
        <4> SUFFICES ASSUME NEW j \in 1 .. Len(callout) PROVE callout[j].due = a[j]
          OBVIOUS
        <4>1. a[j] \in Nat /\ a[1] \in Nat  BY <1>1, <2>2
        <4> HIDE DEF a
        <4> QED  BY <3>1, <4>1
      <3>3. r # << >> => itimer' = r[1].c_time
        <4> HIDE DEF r, i, b
        <4> QED  BY <1>1, <2>2, <2>6, <2>7, <3>1
      <3>4. r # << >> => b[1] = r[1].c_time
        <4>1. Timed(r, b) /\ r # << >> => b[1] = b[0] + r[1].c_time /\ b[0] = 0
          <5> HIDE DEF b, r
          <5> QED  BY <2>4 DEF Timed
        <4> HIDE DEF b, r, i
        <4> QED  BY <2>1, <2>5, <4>1
      <3>5. \A j \in 1 .. n : r[j].due = b[j]
        <4> SUFFICES ASSUME NEW j \in 1 .. n PROVE r[j].due = b[j]
          OBVIOUS
        <4>1. b[j] = IF j < i THEN a[j] ELSE a[j + 1]  BY <2>2
        <4>2. r[j].due = IF j < i THEN callout[j].due ELSE callout[j + 1].due
          BY <2>1
        <4>3. j \in 1 .. Len(callout) /\ j + 1 \in 1 .. Len(callout)
          BY <1>1
        <4> HIDE DEF r, i, b, a
        <4> QED  BY <3>2, <4>1, <4>2, <4>3
      <3>6. \A j \in 1 .. n : b[j] \in Nat
        <4>1. b \in [0 .. n -> 0 .. MaxDelay]
          <5> HIDE DEF r, i, b, a, n
          <5> QED  BY <2>1 DEF Timed
        <4> HIDE DEF b, n
        <4> QED  BY <1>1, <2>2, <4>1
      <3>7. \A j \in DOMAIN callout' :
              callout'[j].due = itimer' + Sums(callout')[j] - Sums(callout')[1]
        <4> SUFFICES ASSUME NEW j \in DOMAIN callout'
                     PROVE  callout'[j].due = itimer' + Sums(callout')[j] - Sums(callout')[1]
          OBVIOUS
        <4>1. j \in 1 .. n /\ r # << >> /\ 1 \in 1 .. n
          <5> HIDE DEF r, i, b, a
          <5> QED  BY <1>2, <2>1, <2>2, <2>4
        <4> HIDE DEF r, i, b, a, n
        <4> QED  BY <1>2, <2>3, <3>3, <3>4, <3>5, <3>6, <4>1
      <3>8. callout' # << >> /\ ~ adjusted' => itimer' + elapsed' = r[1].c_time
        <4> HIDE DEF r, i, b, a
        <4>1. CASE i = 1
          BY <1>2, <2>5, <2>6, <4>1
        <4>2. CASE i # 1
          BY <1>2, <2>6, <2>7, <3>1, <4>2
        <4> QED  BY <4>1, <4>2
      <3>9. /\ \A j \in DOMAIN batch : batch[j].due = 0
            /\ mode \in {"idle", "signal"} => batch = << >>
        BY <2>12 DEF DueInv
      <3> HIDE DEF r, i, b, a
      <3> QED  BY <1>2, <3>1, <3>3, <3>7, <3>8, <3>9 DEF DueInv
    <2>13. ~ calm => DueInv'
      BY <1>2 DEF DueInv
    <2> QED  BY <2>9, <2>10, <2>11, <2>12, <2>13 DEF Inv
  <1> QED  BY <1>3, <1>4

\* A signal that adjusts the list keeps the invariant.
LEMMA SignalStep ==
    ASSUME Inv, DueInv, Signal
    PROVE  Inv' /\ DueInv'
  <1> DEFINE a == Sums(callout)
             r == Shift(callout, 1, -elapsed)
             b == [j \in 0 .. Len(callout) |-> IF j = 0 THEN 0 ELSE a[j] - elapsed]
  <1>1. /\ callout \in Seq(Entry) /\ Len(callout) \in Nat
        /\ DOMAIN callout = 1 .. Len(callout)
        /\ MaxDelay \in Nat
        /\ itimer \in Nat /\ elapsed \in Nat /\ Timed(callout, a)
        /\ \A j \in 0 .. Len(callout) : a[j] \in Nat
        /\ callout # << >> => /\ Len(callout) > 0 /\ a[1] = callout[1].c_time
                              /\ Head(callout) = callout[1]
    BY InvTypes
  <1>2. /\ mode = "idle" /\ mode' = "signal"
        /\ calm => ~ adjusted /\ ~ alarm
        /\ callout' = adjtimeout(callout)
        /\ adjusted' = (adjusted \/ callout' # callout)
        /\ UNCHANGED <<elapsed, itimer, alarm, batch, calm>>
    BY DEF Signal
  <1>3. TypeOK /\ HeadWaits /\ AlarmArmed /\ TimesFit  BY DEF Inv
  <1>4. CASE callout = << >> \/ elapsed >= callout[1].c_time
    <2>1. callout' = callout  BY <1>1, <1>2, <1>4 DEF adjtimeout
    <2>2. Inv'
      BY <1>2, <1>3, <2>1 DEF Inv, TypeOK, TimesFit, HeadWaits, AlarmArmed
    <2>3. ASSUME calm PROVE DueInv'
      <3>1. callout = << >>
        <4> SUFFICES ASSUME callout # << >> PROVE FALSE  OBVIOUS
        <4>1. itimer > 0  BY <1>2, <1>3, <2>3 DEF AlarmArmed
        <4>2. itimer + elapsed = callout[1].c_time  BY <1>2, <2>3 DEF DueInv
        <4> QED  BY <1>1, <1>4, <4>1, <4>2
      <3>2. DOMAIN callout' = {}  BY <1>1, <2>1, <3>1
      <3>3. batch = << >> /\ DOMAIN batch = {}  BY <1>2, <2>3 DEF DueInv
      <3> QED  BY <1>2, <2>1, <2>3, <3>1, <3>2, <3>3 DEF DueInv
    <2>4. ~ calm => DueInv'  BY <1>2 DEF DueInv
    <2> QED  BY <2>2, <2>3, <2>4
  <1>5. CASE callout # << >> /\ ~ (elapsed >= callout[1].c_time)
    <2>0. callout[1].c_time \in Nat /\ elapsed < callout[1].c_time
      <3>1. 1 \in 1 .. Len(callout)  BY <1>1, <1>5
      <3>2. callout[1].c_time \in Nat  BY <1>1, <3>1, EntryFields
      <3> QED  BY <1>1, <1>5, <3>2
    <2>1. callout' = r
      BY <1>1, <1>2, <1>5 DEF adjtimeout
    <2>2. /\ r \in Seq(Entry) /\ Len(r) = Len(callout)
          /\ r[1].c_time = callout[1].c_time - elapsed
          /\ \A j \in 1 .. Len(callout) : r[j].due = callout[j].due
          /\ Timed(r, b)
      <3> HIDE DEF a
      <3> QED  BY <1>1, <1>5, <2>0, AdvanceFacts
    <2>3. Sums(callout') = b  BY <2>1, <2>2, SumsAreTimes
    <2>4. r # << >> /\ DOMAIN r = 1 .. Len(r)
      <3> HIDE DEF r, b
      <3> QED  BY <1>1, <1>5, <2>2
    <2>5. TypeOK' /\ TimesFit' /\ HeadWaits' /\ AlarmArmed'
      <3> HIDE DEF r, b
      <3>1. adjusted' \in BOOLEAN  BY <1>2, <1>3 DEF TypeOK
      <3>2. TypeOK'  BY <1>2, <1>3, <2>1, <2>2, <3>1 DEF TypeOK
      <3>3. TimesFit'  BY <2>1, <2>2, <2>3 DEF TimesFit
      <3>4. HeadWaits'  BY <1>1, <2>0, <2>1, <2>2 DEF HeadWaits
      <3>5. AlarmArmed'  BY <1>2, <1>3, <1>5 DEF AlarmArmed
      <3> QED  BY <3>2, <3>3, <3>4, <3>5
    <2>6. ASSUME calm PROVE DueInv'
      <3>1. /\ \A j \in 1 .. Len(callout) : callout[j].due = itimer + a[j] - a[1]
            /\ itimer + elapsed = callout[1].c_time
            /\ ~ alarm /\ batch = << >>
            /\ \A j \in DOMAIN batch : batch[j].due = 0
        BY <1>1, <1>2, <1>5, <2>6 DEF DueInv
      <3>2. itimer = r[1].c_time
        <4> HIDE DEF r
        <4> QED  BY <1>1, <2>0, <2>2, <3>1
      <3>3. ASSUME NEW j \in DOMAIN callout'
            PROVE  callout'[j].due = itimer' + Sums(callout')[j] - Sums(callout')[1]
        <4>1. j \in 1 .. Len(callout) /\ 1 \in 1 .. Len(callout)
          <5> HIDE DEF r, b
          <5> QED  BY <1>1, <1>5, <2>1, <2>2, <2>4
        <4>2. b[j] = a[j] - elapsed /\ b[1] = a[1] - elapsed  BY <4>1
        <4>3. a[j] \in Nat /\ a[1] \in Nat  BY <1>1, <4>1
        <4>4. callout'[j].due = itimer + a[j] - a[1]
          <5> HIDE DEF r, b, a
          <5> QED  BY <2>1, <2>2, <3>1, <4>1
        <4> HIDE DEF r, b, a
        <4> QED  BY <1>1, <1>2, <2>3, <4>2, <4>3, <4>4
      <3>4. ~ adjusted' => itimer + elapsed = callout'[1].c_time
        BY <1>2, <3>1
      <3> HIDE DEF r, b, a
      <3> QED  BY <1>2, <2>1, <3>1, <3>2, <3>3, <3>4 DEF DueInv
    <2>7. ~ calm => DueInv'  BY <1>2 DEF DueInv
    <2> QED  BY <2>5, <2>6, <2>7 DEF Inv
  <1> QED  BY <1>4, <1>5

\* alrm keeps the invariant: what it leaves on the list starts with a delay.
LEMMA AlrmStep ==
    ASSUME Inv, DueInv, alrm
    PROVE  Inv' /\ DueInv'
  <1> DEFINE a == Sums(callout)
             n == Together(callout)
             r == SubSeq(callout, n + 1, Len(callout))
             m == Len(callout) - n
             b == [j \in 0 .. m |-> a[n + j] - a[n]]
  <1>1. /\ callout \in Seq(Entry) /\ Len(callout) \in Nat
        /\ DOMAIN callout = 1 .. Len(callout)
        /\ MaxDelay \in Nat
        /\ itimer \in Nat /\ elapsed \in Nat /\ Timed(callout, a)
        /\ \A j \in 0 .. Len(callout) : a[j] \in Nat
        /\ callout # << >> => Len(callout) > 0
    BY InvTypes
  <1>2. /\ mode = "idle" /\ mode' = "alrm" /\ alarm /\ alarm' = FALSE
        /\ batch' = SubSeq(callout, 1, n) /\ callout' = r
        /\ IF r # << >> THEN SetTimer(r) ELSE KeepTimer
        /\ calm' = calm
    BY DEF alrm
  <1>3. /\ n \in 0 .. Len(callout)
        /\ callout # << >> => n > 0
        /\ \A j \in 2 .. n : callout[j].c_time = 0
        /\ n < Len(callout) => callout[n + 1].c_time # 0
    BY <1>1, TogetherFacts
  <1>4. /\ r \in Seq(Entry) /\ Len(r) = m
        /\ \A j \in 1 .. m : r[j] = callout[n + j]
        /\ Timed(r, b)
    <2>1. r = SubSeq(callout, n + 1, Len(callout))  OBVIOUS
    <2>2. callout \in Seq(Entry) /\ Timed(callout, a) /\ n \in 0 .. Len(callout)
      BY <1>1, <1>3
    <2> HIDE DEF a, n, r
    <2>3. r \in Seq(Entry) /\ Len(r) = m /\ Timed(r, b)
      BY <2>1, <2>2, RestFacts
    <2>4. \A j \in 1 .. m : r[j] = callout[n + j]
      BY <2>1, <2>2, RestFacts
    <2> HIDE DEF m, b
    <2> QED  BY <2>3, <2>4
  <1>5. Sums(callout') = b  BY <1>2, <1>4, SumsAreTimes
  <1>6. /\ batch' \in Seq(Entry) /\ Len(batch') = n
        /\ \A j \in 1 .. n : batch'[j] = callout[j]
    <2>1. batch' = SubSeq(callout, 1, n)  BY <1>2
    <2> HIDE DEF n, r
    <2> QED  BY <1>1, <1>3, <2>1
  <1>7. /\ m \in Nat /\ (r # << >> <=> m > 0) /\ DOMAIN r = 1 .. m
        /\ DOMAIN batch' = 1 .. n
        /\ r # << >> => Head(r) = r[1]
    <2> HIDE DEF n, r, b
    <2>1. m \in Nat  BY <1>1, <1>3
    <2> HIDE DEF m
    <2> QED  BY <1>4, <1>6, <2>1
  <1>8. r # << >> => /\ r[1].c_time \in 0 .. MaxDelay /\ r[1].c_time \in Nat
                     /\ r[1].c_time > 0
    <2> SUFFICES ASSUME r # << >>
                 PROVE  /\ r[1].c_time \in 0 .. MaxDelay /\ r[1].c_time \in Nat
                        /\ r[1].c_time > 0
      OBVIOUS
    <2>1. 1 \in 1 .. m /\ n < Len(callout)
      <3> HIDE DEF n, r, b
      <3> QED  BY <1>1, <1>3, <1>7
    <2>2. r[1].c_time \in 0 .. MaxDelay /\ r[1].c_time \in Nat
      BY <1>4, <2>1, EntryFields
    <2>3. r[1].c_time # 0
      <3> HIDE DEF n, r, b
      <3> QED  BY <1>3, <1>4, <2>1
    <2> HIDE DEF r
    <2> QED  BY <2>2, <2>3
  <1>9. /\ r # << >> => itimer' = r[1].c_time /\ elapsed' = 0 /\ adjusted' = FALSE
        /\ r = << >> => itimer' = itimer /\ elapsed' = elapsed /\ adjusted' = adjusted
    <2> HIDE DEF n, r, b
    <2> QED  BY <1>2, <1>7 DEF SetTimer, KeepTimer
  <1>10. TypeOK' /\ TimesFit' /\ HeadWaits' /\ AlarmArmed'
    <2> HIDE DEF n, r, b, m
    <2>1. TypeOK  BY DEF Inv
    <2>2. itimer' \in 0 .. MaxDelay /\ elapsed' \in 0 .. MaxDelay
      BY <1>1, <1>8, <1>9, <2>1 DEF TypeOK
    <2>3. adjusted' \in BOOLEAN  BY <1>9, <2>1 DEF TypeOK
    <2>4. TypeOK'  BY <1>2, <1>4, <1>6, <2>1, <2>2, <2>3 DEF TypeOK
    <2>5. TimesFit'  BY <1>2, <1>4, <1>5 DEF TimesFit
    <2>6. HeadWaits'  BY <1>2, <1>8 DEF HeadWaits
    <2>7. AlarmArmed'  BY <1>2, <1>8, <1>9 DEF AlarmArmed
    <2> QED  BY <2>4, <2>5, <2>6, <2>7
  <1>11. ASSUME calm PROVE DueInv'
    <2>1. /\ \A j \in 1 .. Len(callout) : callout[j].due = itimer + a[j] - a[1]
          /\ itimer = 0
      BY <1>1, <1>2, <1>11 DEF DueInv
    <2>2. \A j \in 1 .. n : a[j] = a[1]
      <3> DEFINE T == {j \in 1 .. n : a[j] # a[1]}
      <3>1. SUFFICES ASSUME T # {} PROVE FALSE  OBVIOUS
      <3>2. T \in SUBSET Nat  BY <1>1, <1>3
      <3>3. PICK j \in T : \A k \in T : j <= k
        <4> HIDE DEF T
        <4> QED  BY <3>1, <3>2, Least
      <3>4. j \in 1 .. n /\ a[j] # a[1] /\ j # 1  BY <3>3
      <3>5. j \in 2 .. n /\ j - 1 \in 1 .. n /\ j \in 1 .. Len(callout) /\ j - 1 < j
        <4> HIDE DEF n, a
        <4> QED  BY <1>1, <1>3, <3>4
      <3>6. a[j - 1] = a[1]
        <4> HIDE DEF n, a
        <4> QED  BY <3>3, <3>5
      <3>7. a[j] = a[j - 1] + 0  BY <1>1, <1>3, <3>5 DEF Timed
      <3>8. a[1] \in Nat
        <4> HIDE DEF n, a
        <4> QED  BY <1>1, <1>3, <3>5
      <3> HIDE DEF n, a
      <3> QED  BY <3>4, <3>6, <3>7, <3>8
    <2>3. ASSUME NEW j \in DOMAIN batch' PROVE batch'[j].due = 0
      <3>1. j \in 1 .. n /\ j \in 1 .. Len(callout)
        <4> HIDE DEF n, a
        <4> QED  BY <1>1, <1>3, <1>7
      <3>2. a[j] = a[1] /\ a[1] \in Nat
        <4> HIDE DEF n, a
        <4> QED  BY <1>1, <2>2, <3>1
      <3>3. batch'[j] = callout[j]
        <4> HIDE DEF n, a
        <4> QED  BY <1>6, <3>1
      <3> HIDE DEF n, a
      <3> QED  BY <2>1, <3>1, <3>2, <3>3
    <2>4. ASSUME NEW j \in DOMAIN callout'
          PROVE  callout'[j].due = itimer' + Sums(callout')[j] - Sums(callout')[1]
      <3>1. j \in 1 .. m /\ r # << >> /\ 1 \in 1 .. m /\ 1 \in 0 .. m
        <4> HIDE DEF n, r, b, m
        <4> QED  BY <1>2, <1>7
      <3>2. n \in 1 .. n /\ n + j \in 1 .. Len(callout) /\ 1 \in 1 .. Len(callout)
        <4> HIDE DEF n, r, b
        <4> QED  BY <1>1, <1>3, <3>1
      <3>3. b[j] = a[n + j] - a[n] /\ b[1] = r[1].c_time
        <4>1. b[j] = a[n + j] - a[n]  BY <1>7, <3>1
        <4>2. b[1] = b[0] + r[1].c_time /\ b[0] = 0
          <5> HIDE DEF b, r, n, m
          <5> QED  BY <1>4, <3>1 DEF Timed
        <4> HIDE DEF b, r, n, a
        <4> QED  BY <1>8, <3>1, <4>1, <4>2
      <3>4. a[n] = a[1] /\ a[1] \in Nat /\ a[n + j] \in Nat
        <4> HIDE DEF n, a
        <4> QED  BY <1>1, <2>2, <3>2
      <3>5. callout'[j].due = itimer + a[n + j] - a[1]
        <4> HIDE DEF n, a, b, r, m
        <4> QED  BY <1>2, <1>4, <2>1, <3>1, <3>2
      <3>6. itimer' = r[1].c_time /\ r[1].c_time \in Nat
        <4> HIDE DEF n, a, b, r, m
        <4> QED  BY <1>8, <1>9, <3>1
      <3> HIDE DEF n, a, b, r, m
      <3> QED  BY <1>5, <2>1, <3>3, <3>4, <3>5, <3>6
    <2> HIDE DEF n, a, b, r, m
    <2>5. callout' # << >> => itimer' = callout'[1].c_time
                              /\ itimer' + elapsed' = callout'[1].c_time
      BY <1>2, <1>8, <1>9
    <2>6. mode' # "idle" /\ mode' # "signal" /\ ~ alarm'  BY <1>2
    <2> QED  BY <2>3, <2>4, <2>5, <2>6 DEF DueInv
  <1>12. ~ calm => DueInv'  BY <1>2 DEF DueInv
  <1> QED  BY <1>10, <1>11, <1>12 DEF Inv

\* A second that passes keeps the invariant.
LEMMA TickStep ==
    ASSUME Inv, DueInv, Tick
    PROVE  Inv' /\ DueInv'
  <1> DEFINE a == Sums(callout)
             r == [i \in DOMAIN callout |->
                     [callout[i] EXCEPT !.due = IF @ >= 0 THEN @ - 1 ELSE @]]
  <1>1. /\ callout \in Seq(Entry) /\ Len(callout) \in Nat
        /\ DOMAIN callout = 1 .. Len(callout)
        /\ MaxDelay \in Nat
        /\ itimer \in 0 .. MaxDelay /\ itimer \in Nat
        /\ elapsed \in 0 .. MaxDelay /\ elapsed \in Nat /\ Timed(callout, a)
        /\ \A j \in 0 .. Len(callout) : a[j] \in Nat
        /\ callout # << >> => Len(callout) > 0
    BY InvTypes
  <1>2. /\ mode = "idle" /\ ~ alarm
        /\ itimer' = (IF itimer > 0 THEN itimer - 1 ELSE 0)
        /\ alarm' = (itimer = 1)
        /\ elapsed' = (IF callout = << >> THEN 0
                       ELSE IF elapsed < MaxDelay THEN elapsed + 1 ELSE elapsed)
        /\ callout' = r
        /\ UNCHANGED <<batch, mode, adjusted, calm>>
    BY DEF Tick
  <1>3. TypeOK /\ HeadWaits /\ AlarmArmed /\ TimesFit  BY DEF Inv
  <1>4. ASSUME NEW i \in 1 .. Len(callout)
        PROVE  /\ r[i] \in Entry /\ r[i].c_time = callout[i].c_time
               /\ r[i].due = IF callout[i].due >= 0 THEN callout[i].due - 1
                             ELSE callout[i].due
    <2>1. callout[i] \in Entry /\ callout[i].due \in -1 .. MaxDelay
      BY <1>1, EntryFields
    <2>2. r[i] = [callout[i] EXCEPT !.due = IF @ >= 0 THEN @ - 1 ELSE @]
      BY <1>1
    <2> HIDE DEF r
    <2> QED  BY <1>1, <2>1, <2>2 DEF Entry
  <1>5. r \in Seq(Entry) /\ Len(r) = Len(callout) /\ DOMAIN r = 1 .. Len(callout)
    <2>1. DOMAIN r = 1 .. Len(callout)  BY <1>1
    <2>2. r \in [1 .. Len(callout) -> Entry]  BY <1>1, <1>4
    <2> HIDE DEF r
    <2> QED  BY <1>1, <2>1, <2>2
  <1> HIDE DEF r
  <1>6. Timed(r, a)
    BY <1>1, <1>4, <1>5 DEF Timed
  <1>7. Sums(callout') = a  BY <1>2, <1>5, <1>6, SumsAreTimes
  <1>8. r # << >> <=> callout # << >>
    BY <1>1, <1>5
  <1>9. TypeOK' /\ TimesFit' /\ HeadWaits' /\ AlarmArmed'
    <2>1. itimer' \in 0 .. MaxDelay /\ elapsed' \in 0 .. MaxDelay
      BY <1>1, <1>2
    <2>2. alarm' \in BOOLEAN  BY <1>2
    <2>3. TypeOK'  BY <1>2, <1>3, <1>5, <2>1, <2>2 DEF TypeOK
    <2>4. TimesFit'  BY <1>2, <1>6, <1>7 DEF TimesFit
    <2>5. HeadWaits'
      <3>1. callout' # << >> => callout # << >> /\ 1 \in 1 .. Len(callout)
        BY <1>1, <1>2, <1>8
      <3>2. callout # << >> => callout[1].c_time > 0  BY <1>3 DEF HeadWaits
      <3> QED  BY <1>2, <1>4, <3>1, <3>2 DEF HeadWaits
    <2>6. AlarmArmed'
      <3>1. callout' # << >> => callout # << >>  BY <1>2, <1>8
      <3>2. callout # << >> => itimer > 0  BY <1>2, <1>3 DEF AlarmArmed
      <3>3. itimer > 1 => itimer' > 0  BY <1>1, <1>2
      <3>4. itimer = 1 => alarm'  BY <1>2
      <3> QED  BY <1>1, <3>1, <3>2, <3>3, <3>4 DEF AlarmArmed
    <2> QED  BY <2>3, <2>4, <2>5, <2>6
  <1>10. ASSUME calm PROVE DueInv'
    <2>1. /\ \A j \in 1 .. Len(callout) : callout[j].due = itimer + a[j] - a[1]
          /\ callout # << >> /\ ~ adjusted => itimer + elapsed = callout[1].c_time
          /\ batch = << >>
          /\ \A j \in DOMAIN batch : batch[j].due = 0
      BY <1>1, <1>2, <1>10 DEF DueInv
    <2>2. callout # << >> => itimer > 0 /\ itimer' = itimer - 1
      BY <1>2, <1>3 DEF AlarmArmed
    <2>3. ASSUME NEW j \in DOMAIN callout'
          PROVE  callout'[j].due = itimer' + Sums(callout')[j] - Sums(callout')[1]
      <3>1. j \in 1 .. Len(callout) /\ 1 \in 1 .. Len(callout) /\ callout # << >>
        BY <1>1, <1>2, <1>5
      <3>2. a[1] <= a[j] /\ a[1] \in Nat /\ a[j] \in Nat
        BY <1>1, <3>1, TimesGrow
      <3> HIDE DEF a
      <3>3. callout[j].due = itimer + a[j] - a[1] /\ callout[j].due > 0
        BY <1>1, <2>1, <2>2, <3>1, <3>2
      <3>4. callout'[j].due = callout[j].due - 1
        BY <1>1, <1>2, <1>4, <2>1, <3>1, <3>2, <3>3
      <3> QED  BY <1>1, <1>7, <2>2, <3>1, <3>2, <3>3, <3>4
    <2>4. callout' # << >> /\ ~ adjusted' => itimer' + elapsed' = callout'[1].c_time
      <3> SUFFICES ASSUME callout # << >>, ~ adjusted
                   PROVE  itimer' + elapsed' = r[1].c_time
        BY <1>2, <1>8
      <3>1. 1 \in 1 .. Len(callout)  BY <1>1
      <3>2. r[1].c_time = callout[1].c_time /\ callout[1].c_time \in 0 .. MaxDelay
        BY <1>1, <1>4, <3>1, EntryFields
      <3>3. itimer + elapsed = callout[1].c_time  BY <2>1
      <3>4. elapsed < MaxDelay  BY <1>1, <2>2, <3>2, <3>3
      <3>5. itimer' = itimer - 1 /\ elapsed' = elapsed + 1
        BY <1>1, <1>2, <2>2, <3>4
      <3> QED  BY <1>1, <3>2, <3>3, <3>5
    <2>5. alarm' => itimer' = 0
      <3>1. alarm' => itimer = 1  BY <1>2
      <3> QED  BY <1>2, <3>1
    <2> QED  BY <1>2, <2>1, <2>3, <2>4, <2>5 DEF DueInv
  <1>11. ~ calm => DueInv'  BY <1>2 DEF DueInv
  <1> QED  BY <1>9, <1>10, <1>11 DEF Inv

\* Calling the functions of the batch keeps the invariant.
LEMMA CallStep ==
    ASSUME Inv, DueInv, Call
    PROVE  Inv' /\ DueInv'
  <1>1. /\ mode \in {"alrm", "call"} /\ batch # << >> /\ batch' = Tail(batch)
        /\ mode' = "call"
        /\ UNCHANGED <<callout, elapsed, itimer, alarm, adjusted, calm>>
    BY DEF Call
  <1>2. batch \in Seq(Entry)  BY DEF Inv, TypeOK
  <1>3. /\ batch' \in Seq(Entry) /\ Len(batch') = Len(batch) - 1
        /\ \A j \in 1 .. Len(batch') : batch'[j] = batch[j + 1]
    BY <1>1, <1>2, HeadTailProperties
  <1>4. Inv'
    <2>1. TypeOK'  BY <1>1, <1>3 DEF Inv, TypeOK
    <2> QED  BY <1>1, <2>1 DEF Inv, TimesFit, HeadWaits, AlarmArmed
  <1>5. calm => \A j \in DOMAIN batch' : batch'[j].due = 0
    <2> SUFFICES ASSUME calm, NEW j \in DOMAIN batch' PROVE batch'[j].due = 0
      OBVIOUS
    <2>1. j + 1 \in DOMAIN batch /\ batch'[j] = batch[j + 1]
      <3>1. Len(batch) \in Nat /\ DOMAIN batch' = 1 .. Len(batch')
            /\ DOMAIN batch = 1 .. Len(batch)
        BY <1>2, <1>3
      <3> QED  BY <1>3, <3>1
    <2> QED  BY <2>1 DEF DueInv
  <1>6. DueInv'
    <2>1. mode' \notin {"idle", "signal"}  BY <1>1
    <2> QED  BY <1>1, <1>5, <2>1 DEF DueInv
  <1> QED  BY <1>4, <1>6

\* A handler that returns keeps the invariant.
LEMMA ReturnStep ==
    ASSUME Inv, DueInv, Return
    PROVE  Inv' /\ DueInv'
  <1>1. /\ mode # "idle" /\ batch = << >> /\ mode' = "idle"
        /\ UNCHANGED <<callout, elapsed, itimer, alarm, batch, adjusted, calm>>
    BY DEF Return
  <1>2. Inv'
    BY <1>1 DEF Inv, TypeOK, TimesFit, HeadWaits, AlarmArmed
  <1>3. DueInv'
    BY <1>1 DEF DueInv
  <1> QED  BY <1>2, <1>3

\* The invariant holds of every state.
THEOREM Invariant == Spec => [](Inv /\ DueInv)
  <1>1. Init => Inv /\ DueInv
    <2> SUFFICES ASSUME Init PROVE Inv /\ DueInv  OBVIOUS
    <2>0. MaxDelay \in Nat  BY CalloutAssumption
    <2>1. TypeOK
      <3>1. callout \in Seq(Entry) /\ batch \in Seq(Entry)  BY DEF Init
      <3>2. elapsed \in 0 .. MaxDelay /\ itimer \in 0 .. MaxDelay  BY <2>0 DEF Init
      <3> QED  BY <3>1, <3>2 DEF Init, TypeOK
    <2>2. TimesFit
      <3> DEFINE a == [i \in 0 .. 0 |-> 0]
      <3>1. callout = << >> /\ << >> \in Seq(Entry) /\ Len(<< >>) = 0  BY DEF Init
      <3>2. Timed(<< >>, a)  BY <2>0, <3>1 DEF Timed
      <3>3. Sums(<< >>) = a  BY <3>1, <3>2, SumsAreTimes
      <3> QED  BY <3>1, <3>2, <3>3 DEF TimesFit
    <2>3. HeadWaits /\ AlarmArmed  BY DEF Init, HeadWaits, AlarmArmed
    <2>4. DueInv  BY DEF Init, DueInv
    <2> QED  BY <2>1, <2>2, <2>3, <2>4 DEF Inv
  <1>2. Inv /\ DueInv /\ [Next]_vars => Inv' /\ DueInv'
    <2> SUFFICES ASSUME Inv, DueInv, [Next]_vars PROVE Inv' /\ DueInv'  OBVIOUS
    <2>1. CASE UNCHANGED vars
      BY <2>1 DEF vars, Inv, TypeOK, TimesFit, HeadWaits, AlarmArmed, DueInv
    <2>2. CASE Next
      BY <2>2, TimeoutStep, UntimeoutStep, SignalStep, AlrmStep, CallStep, ReturnStep,
         TickStep DEF Next
    <2> QED  BY <2>1, <2>2
  <1> QED  BY <1>1, <1>2, PTL DEF Spec

\* Every variable keeps its range, for every longest delay: ppp_timeout never
\* leaves the entry behind the new one a negative delay, and ppp_untimeout never
\* adds up more than was asked for.
THEOREM TypeCorrect == Spec => []TypeOK
  <1>1. Inv /\ DueInv => TypeOK  BY DEF Inv
  <1> QED  BY <1>1, Invariant, PTL

\* No callout is forgotten, for any number of callouts and any delays: while the
\* list is not empty the POSIX timer runs or its signal is pending.
THEOREM TimerRuns == Spec => []AlarmArmed
  <1>1. Inv /\ DueInv => AlarmArmed  BY DEF Inv
  <1> QED  BY <1>1, Invariant, PTL

----------------------------------------------------------------------------
(* Bags of keys: the refinement of PppTimer.                                *)

Key(e) == <<e.what, e.due>>

\* The keys of the list q and, behind it, of the batch b.
Keys(q, b) ==
    [i \in 1 .. Len(q) + Len(b) |->
       IF i <= Len(q) THEN Key(q[i]) ELSE Key(b[i - Len(q)])]

Where(n, g, p) == {i \in 1 .. n : g[i] = p}

\* The bag of the first n values of g.
KeyBag(n, g) ==
    [p \in {g[i] : i \in 1 .. n} |-> Cardinality(Where(n, g, p))]

\* The bag B with one more x, and with one less.
Plus(B, x) ==
    [p \in DOMAIN B \cup {x} |->
       (IF p \in DOMAIN B THEN B[p] ELSE 0) + (IF p \in {x} THEN 1 ELSE 0)]

Minus(B, x) ==
    LET D == [p \in DOMAIN B |-> IF p \in {x} THEN B[p] - 1 ELSE B[p]]
    IN  [p \in {d \in DOMAIN D : D[d] > 0} |-> D[p]]

\* h is g, a function on 1 .. m, with x put in behind position k.
InsertedAt(m, g, h, k, x) ==
    \A j \in 1 .. m + 1 :
        h[j] = IF j <= k THEN g[j] ELSE IF j = k + 1 THEN x ELSE g[j - 1]

\* How often a value occurs.
LEMMA CountFacts ==
    ASSUME NEW n \in Nat, NEW g, NEW p
    PROVE  /\ IsFiniteSet(Where(n, g, p))
           /\ Cardinality(Where(n, g, p)) \in Nat
           /\ Cardinality(Where(n, g, p)) > 0 <=> p \in {g[i] : i \in 1 .. n}
  <1> DEFINE W == Where(n, g, p)
  <1>1. IsFiniteSet(1 .. n) /\ W \in SUBSET (1 .. n)
    BY FS_Interval DEF Where
  <1>2. IsFiniteSet(W)  BY <1>1, FS_Subset
  <1>3. Cardinality(W) \in Nat  BY <1>2, FS_CardinalityType
  <1>4. Cardinality(W) = 0 <=> W = {}  BY <1>2, FS_EmptySet
  <1>5. W # {} <=> p \in {g[i] : i \in 1 .. n}
    BY DEF Where
  <1> HIDE DEF W
  <1>6. Cardinality(W) > 0 <=> p \in {g[i] : i \in 1 .. n}
    BY <1>3, <1>4, <1>5
  <1> QED  BY <1>2, <1>3, <1>6 DEF W

\* An insertion adds one occurrence.
LEMMA CountInserted ==
    ASSUME NEW m \in Nat, NEW g, NEW h, NEW k \in 0 .. m, NEW x,
           InsertedAt(m, g, h, k, x), NEW p
    PROVE  Cardinality(Where(m + 1, h, p)) =
             Cardinality(Where(m, g, p)) + IF p = x THEN 1 ELSE 0
  <1> DEFINE V == Where(m, g, p)
             W == Where(m + 1, h, p) \ {k + 1}
             s == [i \in V |-> IF i <= k THEN i ELSE i + 1]
  <1>1. /\ IsFiniteSet(V) /\ Cardinality(V) \in Nat
        /\ IsFiniteSet(Where(m + 1, h, p)) /\ Cardinality(Where(m + 1, h, p)) \in Nat
    BY CountFacts
  <1>2. s \in [V -> W]
    <2> SUFFICES ASSUME NEW i \in V
                 PROVE  (IF i <= k THEN i ELSE i + 1) \in W
      OBVIOUS
    <2>1. i \in 1 .. m /\ g[i] = p  BY DEF Where
    <2>2. CASE i <= k
      BY <2>1, <2>2 DEF Where, InsertedAt
    <2>3. CASE ~ (i <= k)
      <3>1. i + 1 \in 1 .. m + 1 /\ ~ (i + 1 <= k) /\ i + 1 # k + 1 /\ (i + 1) - 1 = i
        BY <2>1, <2>3
      <3>2. h[i + 1] = g[(i + 1) - 1]  BY <3>1 DEF InsertedAt
      <3> QED  BY <2>1, <2>3, <3>1, <3>2 DEF Where
    <2> QED  BY <2>2, <2>3
  <1>3. \A i, j \in V : s[i] = s[j] => i = j
    <2>1. V \in SUBSET (1 .. m)  BY DEF Where
    <2> HIDE DEF V
    <2> QED  BY <2>1
  <1>4. \A w \in W : \E i \in V : s[i] = w
    <2> SUFFICES ASSUME NEW w \in W PROVE \E i \in V : s[i] = w  OBVIOUS
    <2>1. w \in 1 .. m + 1 /\ w # k + 1 /\ h[w] = p  BY DEF Where
    <2>2. CASE w <= k
      <3>1. w \in 1 .. m /\ g[w] = p  BY <2>1, <2>2 DEF InsertedAt
      <3>2. w \in V  BY <3>1 DEF Where
      <3> QED  BY <2>2, <3>2
    <2>3. CASE ~ (w <= k)
      <3>1. w - 1 \in 1 .. m /\ ~ (w - 1 <= k) /\ (w - 1) + 1 = w  BY <2>1, <2>3
      <3>2. g[w - 1] = p  BY <2>1, <2>3 DEF InsertedAt
      <3>3. w - 1 \in V  BY <3>1, <3>2 DEF Where
      <3> QED  BY <3>1, <3>3
    <2> QED  BY <2>2, <2>3
  <1>5. Cardinality(W) = Cardinality(V)
    <2> HIDE DEF s, V, W
    <2>1. s \in Bijection(V, W)
      BY <1>2, <1>3, <1>4 DEF Bijection, Injection, Surjection, IsInjective
    <2>2. ExistsBijection(V, W)  BY <2>1 DEF ExistsBijection
    <2> QED  BY <1>1, <2>2, FS_Bijection
  <1>6. k + 1 \in Where(m + 1, h, p) <=> p = x
    <2>1. k + 1 \in 1 .. m + 1 /\ ~ (k + 1 <= k)  OBVIOUS
    <2>2. h[k + 1] = x  BY <2>1 DEF InsertedAt
    <2> QED  BY <2>1, <2>2 DEF Where
  <1>7. Cardinality(W) = IF k + 1 \in Where(m + 1, h, p)
                         THEN Cardinality(Where(m + 1, h, p)) - 1
                         ELSE Cardinality(Where(m + 1, h, p))
    BY <1>1, FS_RemoveElement
  <1> HIDE DEF V, W
  <1>8. Cardinality(Where(m + 1, h, p)) = Cardinality(V) + IF p = x THEN 1 ELSE 0
    BY <1>1, <1>5, <1>6, <1>7
  <1> QED  BY <1>8 DEF V

\* A function with an entry more has the bag with one more.
LEMMA BagInserted ==
    ASSUME NEW m \in Nat, NEW g, NEW h, NEW k \in 0 .. m, NEW x,
           InsertedAt(m, g, h, k, x)
    PROVE  /\ KeyBag(m + 1, h) = Plus(KeyBag(m, g), x)
           /\ KeyBag(m, g) = Minus(KeyBag(m + 1, h), x)
  <1> DEFINE G == {g[i] : i \in 1 .. m}
             H == {h[i] : i \in 1 .. m + 1}
             cg(p) == Cardinality(Where(m, g, p))
             ch(p) == Cardinality(Where(m + 1, h, p))
             B == KeyBag(m, g)
             C == KeyBag(m + 1, h)
  <1>1. \A p : /\ cg(p) \in Nat /\ ch(p) \in Nat
               /\ cg(p) > 0 <=> p \in G
               /\ ch(p) > 0 <=> p \in H
    BY CountFacts
  <1>2. \A p : ch(p) = cg(p) + IF p = x THEN 1 ELSE 0
    BY CountInserted
  <1>3. B = [p \in G |-> cg(p)] /\ C = [p \in H |-> ch(p)]
    BY DEF KeyBag
  <1> HIDE DEF G, H, cg, ch, B, C
  <1>4. H = G \cup {x}
    BY <1>1, <1>2
  <1>5. \A p : p \notin G => cg(p) = 0
    BY <1>1
  <1>6. C = Plus(B, x)
    <2>1. DOMAIN B = G /\ \A p \in G : B[p] = cg(p)  BY <1>3
    <2>2. Plus(B, x) = [p \in H |-> (IF p \in G THEN cg(p) ELSE 0) + IF p = x THEN 1 ELSE 0]
      BY <1>4, <2>1 DEF Plus
    <2>3. \A p \in H : ch(p) = (IF p \in G THEN cg(p) ELSE 0) + IF p = x THEN 1 ELSE 0
      BY <1>2, <1>5
    <2> QED  BY <1>3, <2>2, <2>3
  <1>7. B = Minus(C, x)
    <2> DEFINE D == [p \in H |-> IF p \in {x} THEN C[p] - 1 ELSE C[p]]
    <2>1. DOMAIN C = H /\ \A p \in H : C[p] = ch(p)  BY <1>3
    <2>2. Minus(C, x) = [p \in {d \in H : D[d] > 0} |-> D[p]]
      BY <2>1 DEF Minus
    <2>3. \A p \in H : D[p] = cg(p)
      BY <1>1, <1>2, <2>1
    <2> HIDE DEF D
    <2>4. {d \in H : D[d] > 0} = G
      BY <1>1, <1>4, <2>3
    <2>5. \A p \in G : D[p] = cg(p)  BY <1>4, <2>3
    <2> QED  BY <1>3, <2>2, <2>4, <2>5
  <1> QED  BY <1>6, <1>7 DEF B, C

\* Moving the first n values to the end leaves the bag alone.
LEMMA BagRotated ==
    ASSUME NEW m \in Nat, NEW g, NEW h, NEW n \in 0 .. m,
           \A j \in 1 .. m : h[j] = IF j <= m - n THEN g[n + j] ELSE g[j - (m - n)]
    PROVE  KeyBag(m, h) = KeyBag(m, g)
  <1>1. ASSUME NEW p
        PROVE  Cardinality(Where(m, h, p)) = Cardinality(Where(m, g, p))
    <2> DEFINE V == Where(m, h, p)
               W == Where(m, g, p)
               s == [i \in V |-> IF i <= m - n THEN n + i ELSE i - (m - n)]
    <2>1. V \in SUBSET (1 .. m) /\ \A i \in 1 .. m : i \in V <=> h[i] = p
      BY DEF Where
    <2>2. W \in SUBSET (1 .. m) /\ \A i \in 1 .. m : i \in W <=> g[i] = p
      BY DEF Where
    <2>3. IsFiniteSet(V)  BY CountFacts
    <2> HIDE DEF V, W
    <2>4. s \in [V -> W]
      <3> SUFFICES ASSUME NEW i \in V
                   PROVE  (IF i <= m - n THEN n + i ELSE i - (m - n)) \in W
        OBVIOUS
      <3>1. i \in 1 .. m /\ h[i] = p  BY <2>1
      <3>2. CASE i <= m - n
        <4>1. n + i \in 1 .. m /\ g[n + i] = p  BY <3>1, <3>2
        <4> QED  BY <2>2, <3>2, <4>1
      <3>3. CASE ~ (i <= m - n)
        <4>1. i - (m - n) \in 1 .. m /\ g[i - (m - n)] = p  BY <3>1, <3>3
        <4> QED  BY <2>2, <3>3, <4>1
      <3> QED  BY <3>2, <3>3
    <2>5. \A i, j \in V : s[i] = s[j] => i = j
      BY <2>1
    <2>6. ASSUME NEW w \in W PROVE \E i \in V : s[i] = w
      <3>1. w \in 1 .. m /\ g[w] = p  BY <2>2
      <3>2. CASE w > n
        <4>1. w - n \in 1 .. m /\ w - n <= m - n /\ n + (w - n) = w  BY <3>1, <3>2
        <4>2. h[w - n] = p  BY <3>1, <4>1
        <4>3. w - n \in V  BY <2>1, <4>1, <4>2
        <4> QED  BY <4>1, <4>3
      <3>3. CASE ~ (w > n)
        <4>1. /\ w + (m - n) \in 1 .. m /\ ~ (w + (m - n) <= m - n)
              /\ (w + (m - n)) - (m - n) = w
          BY <3>1, <3>3
        <4>2. h[w + (m - n)] = p  BY <3>1, <4>1
        <4>3. w + (m - n) \in V  BY <2>1, <4>1, <4>2
        <4> QED  BY <4>1, <4>3
      <3> QED  BY <3>2, <3>3
    <2> HIDE DEF s
    <2>7. s \in Bijection(V, W)
      BY <2>4, <2>5, <2>6 DEF Bijection, Injection, Surjection, IsInjective
    <2>8. ExistsBijection(V, W)  BY <2>7 DEF ExistsBijection
    <2>9. Cardinality(W) = Cardinality(V)  BY <2>3, <2>8, FS_Bijection
    <2> QED  BY <2>9 DEF V, W
  <1>2. {h[i] : i \in 1 .. m} = {g[i] : i \in 1 .. m}
    <2>1. \A p : p \in {h[i] : i \in 1 .. m} <=> p \in {g[i] : i \in 1 .. m}
      <3> SUFFICES ASSUME NEW p
                   PROVE  p \in {h[i] : i \in 1 .. m} <=> p \in {g[i] : i \in 1 .. m}
        OBVIOUS
      <3>1. Cardinality(Where(m, h, p)) > 0 <=> p \in {h[i] : i \in 1 .. m}
        BY CountFacts
      <3>2. Cardinality(Where(m, g, p)) > 0 <=> p \in {g[i] : i \in 1 .. m}
        BY CountFacts
      <3> QED  BY <1>1, <3>1, <3>2
    <2> QED  BY <2>1
  <1> QED  BY <1>1, <1>2 DEF KeyBag

PendingOf(all) ==
    [p \in {<<all[i].what, all[i].due>> : i \in DOMAIN all} |->
       Cardinality({i \in DOMAIN all : <<all[i].what, all[i].due>> = p})]

\* The pending callouts are the bag of the keys of list and batch.
LEMMA PendingBag ==
    ASSUME NEW q \in Seq(Entry), NEW b \in Seq(Entry)
    PROVE  PendingOf(q \o b) = KeyBag(Len(q) + Len(b), Keys(q, b))
  <1> DEFINE all == q \o b
             n == Len(q) + Len(b)
             g == Keys(q, b)
  <1>0. Len(q) \in Nat /\ Len(b) \in Nat  OBVIOUS
  <1>1. /\ all \in Seq(Entry) /\ Len(all) = n
        /\ \A i \in 1 .. n : all[i] = IF i <= Len(q) THEN q[i] ELSE b[i - Len(q)]
    BY ConcatProperties
  <1>2. DOMAIN all = 1 .. n  BY <1>0, <1>1
  <1>3. \A i \in 1 .. n : g[i] = <<all[i].what, all[i].due>>
    BY <1>1 DEF Keys, Key
  <1> HIDE DEF all, n, g
  <1>4. {<<all[i].what, all[i].due>> : i \in DOMAIN all} = {g[i] : i \in 1 .. n}
    BY <1>2, <1>3
  <1>5. ASSUME NEW p
        PROVE  {i \in DOMAIN all : <<all[i].what, all[i].due>> = p} = Where(n, g, p)
    BY <1>2, <1>3 DEF Where
  <1>6. PendingOf(all) = KeyBag(n, g)
    BY <1>4, <1>5 DEF PendingOf, KeyBag
  <1> QED  BY <1>6 DEF all, n, g

\* The empty bag.
LEMMA PendingNothing == PendingOf(<< >>) = Timer!EmptyBag
  <1>1. DOMAIN << >> = {}  OBVIOUS
  <1> QED  BY <1>1 DEF PendingOf, Timer!EmptyBag, Timer!SetToBag

\* Pending before and after a step.
LEMMA PendingStep ==
    ASSUME Inv, Inv', calm' = calm
    PROVE  /\ calm => /\ Pending = KeyBag(Len(callout) + Len(batch), Keys(callout, batch))
                      /\ Pending' = KeyBag(Len(callout') + Len(batch'), Keys(callout', batch'))
           /\ ~ calm => Pending' = Pending
  <1>1. /\ callout \in Seq(Entry) /\ batch \in Seq(Entry)
        /\ callout' \in Seq(Entry) /\ batch' \in Seq(Entry)
    BY DEF Inv, TypeOK
  <1>2. Pending = PendingOf(IF calm THEN callout \o batch ELSE << >>)
    BY DEF Pending, PendingOf
  <1>3. Pending' = PendingOf(IF calm' THEN callout' \o batch' ELSE << >>)
    BY DEF Pending, PendingOf
  <1> QED  BY <1>1, <1>2, <1>3, PendingBag

\* Queueing a callout adds it to the bag.
LEMMA QueueIsPlus ==
    ASSUME NEW f, NEW s, Pending' = Plus(Pending, <<f, s>>)
    PROVE  Timer!Queue(f, s)
  BY DEF Plus, Timer!Queue, Timer!(+), Timer!SetToBag

\* Running a callout that is due takes it out of the bag.
LEMMA RunIsMinus ==
    ASSUME NEW f, <<f, 0>> \in DOMAIN Pending, Pending' = Minus(Pending, <<f, 0>>)
    PROVE  Timer!Run(f)
  BY DEF Minus, Timer!Run, Timer!(-), Timer!SetToBag, Timer!BagIn, Timer!BagToSet

\* Cancelling a function takes its earliest callout out of the bag.
LEMMA CancelIsMinus ==
    ASSUME NEW f, NEW s \in 1 .. MaxDelay, <<f, s>> \in DOMAIN Pending,
           \A t \in 1 .. s - 1 : <<f, t>> \notin DOMAIN Pending,
           Pending' = Minus(Pending, <<f, s>>)
    PROVE  Timer!Cancel(f)
  BY DEF Minus, Timer!Cancel, Timer!(-), Timer!SetToBag, Timer!BagIn, Timer!BagToSet

\* ppp_timeout queues a callout.
LEMMA TimeoutRefines ==
    ASSUME Inv, Inv', calm, NEW f \in Funcs, NEW s \in 1 .. MaxDelay, ppp_timeout(f, s)
    PROVE  Timer!Queue(f, s)
  <1> DEFINE m == Len(callout) + Len(batch)
             g == Keys(callout, batch)
             h == Keys(callout', batch')
             k == Before(callout, s)
             r == Insert(callout, f, s)
             n == Len(callout)
             x == <<f, s>>
  <1>1. /\ callout \in Seq(Entry) /\ batch \in Seq(Entry) /\ n \in Nat
        /\ Timed(callout, Sums(callout))
    BY InvTypes
  <1>2. Len(batch) \in Nat /\ m \in Nat  BY <1>1
  <1>3. callout' = r /\ batch' = batch /\ calm' = calm  BY DEF ppp_timeout
  <1>4. k \in 0 .. n /\ Len(r) = n + 1  BY <1>1, InsertFacts
  <1>5. \A j \in 1 .. n + 1 :
           /\ r[j].what = IF j <= k THEN callout[j].what
                          ELSE IF j = k + 1 THEN f ELSE callout[j - 1].what
           /\ r[j].due = IF j <= k THEN callout[j].due
                         ELSE IF j = k + 1 THEN s ELSE callout[j - 1].due
    <2>1. QueuedAt(callout, k, f, s, r)  BY <1>1, InsertFacts
    <2> HIDE DEF r, k
    <2> QED  BY <2>1 DEF QueuedAt
  <1>6. /\ \A j \in 1 .. m : g[j] = IF j <= n THEN Key(callout[j]) ELSE Key(batch[j - n])
        /\ \A j \in 1 .. m + 1 :
              h[j] = IF j <= n + 1 THEN Key(r[j]) ELSE Key(batch[j - (n + 1)])
    <2>1. \A j \in 1 .. m : g[j] = IF j <= n THEN Key(callout[j]) ELSE Key(batch[j - n])
      BY DEF Keys
    <2>2. Len(callout') + Len(batch') = m + 1 /\ Len(callout') = n + 1
      <3> HIDE DEF r, k
      <3> QED  BY <1>1, <1>2, <1>3, <1>4
    <2>3. \A j \in 1 .. Len(callout') + Len(batch') :
              h[j] = IF j <= Len(callout') THEN Key(callout'[j])
                     ELSE Key(batch'[j - Len(callout')])
      BY DEF Keys
    <2> HIDE DEF r, k, h, g, m, n
    <2> QED  BY <1>3, <2>1, <2>2, <2>3
  <1>7. InsertedAt(m, g, h, k, x)
    <2> SUFFICES ASSUME NEW j \in 1 .. m + 1
                 PROVE  h[j] = IF j <= k THEN g[j] ELSE IF j = k + 1 THEN x ELSE g[j - 1]
      BY DEF InsertedAt
    <2>0. m >= n /\ n \in Nat /\ k \in 0 .. n  BY <1>1, <1>2, <1>4
    <2> HIDE DEF r, k, h, g, m, n
    <2>1. CASE j <= k
      <3>1. j \in 1 .. m /\ j <= n /\ j <= n + 1 /\ j \in 1 .. n + 1
        BY <1>2, <2>0, <2>1
      <3> QED  BY <1>5, <1>6, <2>1, <3>1 DEF Key
    <2>2. CASE j = k + 1
      <3>1. ~ (j <= k) /\ j <= n + 1 /\ j \in 1 .. n + 1  BY <1>2, <2>0, <2>2
      <3> QED  BY <1>5, <1>6, <2>2, <3>1 DEF Key
    <2>3. CASE j > k + 1 /\ j <= n + 1
      <3>1. /\ ~ (j <= k) /\ j # k + 1 /\ j \in 1 .. n + 1
            /\ j - 1 \in 1 .. m /\ j - 1 <= n
        BY <1>2, <2>0, <2>3
      <3> QED  BY <1>5, <1>6, <2>3, <3>1 DEF Key
    <2>4. CASE j > n + 1
      <3>1. /\ ~ (j <= k) /\ j # k + 1 /\ ~ (j <= n + 1)
            /\ j - 1 \in 1 .. m /\ ~ (j - 1 <= n) /\ (j - 1) - n = j - (n + 1)
        BY <1>2, <2>0, <2>4
      <3>2. h[j] = Key(batch[j - (n + 1)]) /\ g[j - 1] = Key(batch[(j - 1) - n])
        BY <1>6, <3>1
      <3> QED  BY <3>1, <3>2
    <2> QED  BY <1>2, <2>0, <2>1, <2>2, <2>3, <2>4
  <1>8. Len(callout') + Len(batch') = m + 1
    <2> HIDE DEF r, k
    <2> QED  BY <1>1, <1>2, <1>3, <1>4
  <1>9. Pending = KeyBag(m, g) /\ Pending' = KeyBag(m + 1, h)
    <2>1. Pending = KeyBag(m, g) /\ Pending' = KeyBag(Len(callout') + Len(batch'), h)
      BY <1>3, PendingStep
    <2> HIDE DEF h, g, m
    <2> QED  BY <1>8, <2>1
  <1>10. k \in 0 .. m  BY <1>1, <1>2, <1>4
  <1> HIDE DEF r, k, h, g, m, n
  <1>11. Pending' = Plus(Pending, x)
    BY <1>2, <1>7, <1>9, <1>10, BagInserted
  <1> QED  BY <1>11, QueueIsPlus

\* ppp_untimeout cancels the earliest callout of its function, if there is one.
LEMMA UntimeoutRefines ==
    ASSUME Inv, DueInv, Inv', calm, NEW f \in Funcs, ppp_untimeout(f)
    PROVE  Timer!Cancel(f) \/ Pending' = Pending
  <1> DEFINE a == Sums(callout)
             m == Len(callout) + Len(batch)
             g == Keys(callout, batch)
             h == Keys(callout', batch')
             i == Min(Matches(callout, f))
             r == Delete(callout, f)
             n == Len(callout)
             s == callout[i].due
             x == <<f, s>>
  <1>1. /\ callout \in Seq(Entry) /\ batch \in Seq(Entry) /\ n \in Nat
        /\ Timed(callout, a) /\ MaxDelay \in Nat /\ itimer \in Nat
        /\ \A j \in 0 .. n : a[j] \in Nat
        /\ callout # << >> => n > 0 /\ a[1] = callout[1].c_time
        /\ DOMAIN callout = 1 .. n /\ DOMAIN batch = 1 .. Len(batch)
    BY InvTypes
  <1>2. Len(batch) \in Nat /\ m \in Nat  BY <1>1
  <1>3. callout' = r /\ batch' = batch /\ calm' = calm /\ Handling
    BY DEF ppp_untimeout
  <1>4. CASE Matches(callout, f) = {}
    <2>1. r = callout  BY <1>4 DEF Delete
    <2> HIDE DEF r
    <2> QED  BY <1>3, <2>1 DEF Pending
  <1>5. CASE Matches(callout, f) # {}
    <2>1. i \in 1 .. n /\ Len(r) = n - 1 /\ DeletedAt(callout, i, r)
      <3>1. i = Min(Matches(callout, f))  OBVIOUS
      <3> HIDE DEF i, a
      <3> QED  BY <1>1, <1>5, <3>1, DeleteFacts
    <2>2. /\ callout[i].what = f
          /\ \A j \in 1 .. n : j < i => callout[j].what # f
      BY <1>1, <1>5, FirstMatch
    <2>3. \A j \in 1 .. n - 1 :
             /\ r[j].what = IF j < i THEN callout[j].what ELSE callout[j + 1].what
             /\ r[j].due = IF j < i THEN callout[j].due ELSE callout[j + 1].due
      <3> HIDE DEF r, i
      <3> QED  BY <2>1 DEF DeletedAt
    <2>4. m - 1 \in Nat /\ (m - 1) + 1 = m /\ i - 1 \in 0 .. m - 1 /\ (i - 1) + 1 = i
      <3> HIDE DEF i
      <3> QED  BY <1>1, <1>2, <2>1
    <2>5. Len(callout') + Len(batch') = m - 1 /\ Len(callout') = n - 1
      <3> HIDE DEF r, i
      <3> QED  BY <1>1, <1>2, <1>3, <2>1
    <2>6. /\ \A j \in 1 .. m : g[j] = IF j <= n THEN Key(callout[j]) ELSE Key(batch[j - n])
          /\ \A j \in 1 .. m - 1 :
                h[j] = IF j <= n - 1 THEN Key(r[j]) ELSE Key(batch[j - (n - 1)])
      <3>1. \A j \in 1 .. m : g[j] = IF j <= n THEN Key(callout[j]) ELSE Key(batch[j - n])
        BY DEF Keys
      <3>2. \A j \in 1 .. Len(callout') + Len(batch') :
                h[j] = IF j <= Len(callout') THEN Key(callout'[j])
                       ELSE Key(batch'[j - Len(callout')])
        BY DEF Keys
      <3> HIDE DEF r, i, h, g, m, n
      <3> QED  BY <1>3, <2>5, <3>1, <3>2
    <2>7. g[i] = x
      <3>1. i \in 1 .. m /\ i <= n
        <4> HIDE DEF i
        <4> QED  BY <1>1, <1>2, <2>1
      <3> HIDE DEF r, i, h, g, m, n
      <3>2. g[i] = Key(callout[i])  BY <2>6, <3>1
      <3> QED  BY <2>2, <3>2 DEF Key
    <2>8. InsertedAt(m - 1, h, g, i - 1, x)
      <3> SUFFICES ASSUME NEW j \in 1 .. m
                   PROVE  g[j] = IF j <= i - 1 THEN h[j]
                                 ELSE IF j = i THEN x ELSE h[j - 1]
        BY <2>4 DEF InsertedAt
      <3>0. m >= n /\ n \in Nat  BY <1>1, <1>2
      <3> HIDE DEF r, i, h, g, m, n, x
      <3>1. CASE j <= i - 1
        <4>1. j < i /\ j <= n /\ j <= n - 1 /\ j \in 1 .. n - 1 /\ j \in 1 .. m - 1
          BY <1>2, <2>1, <3>0, <3>1
        <4> QED  BY <2>3, <2>6, <3>1, <4>1 DEF Key
      <3>2. CASE j = i
        <4>1. ~ (j <= i - 1)  BY <2>1, <3>0, <3>2
        <4> QED  BY <2>7, <3>2, <4>1
      <3>3. CASE j > i /\ j <= n
        <4>1. /\ ~ (j <= i - 1) /\ j # i /\ j - 1 \in 1 .. n - 1
              /\ j - 1 \in 1 .. m - 1 /\ j - 1 <= n - 1 /\ ~ (j - 1 < i)
              /\ (j - 1) + 1 = j
          BY <1>2, <2>1, <3>0, <3>3
        <4>2. r[j - 1].what = callout[j].what /\ r[j - 1].due = callout[j].due
          BY <2>3, <4>1
        <4>3. h[j - 1] = Key(r[j - 1]) /\ g[j] = Key(callout[j])
          BY <2>6, <3>3, <4>1
        <4> QED  BY <4>1, <4>2, <4>3 DEF Key
      <3>4. CASE j > n
        <4>1. /\ ~ (j <= i - 1) /\ j # i /\ ~ (j <= n)
              /\ j - 1 \in 1 .. m - 1 /\ ~ (j - 1 <= n - 1)
              /\ (j - 1) - (n - 1) = j - n
          BY <1>2, <2>1, <3>0, <3>4
        <4>2. g[j] = Key(batch[j - n]) /\ h[j - 1] = Key(batch[(j - 1) - (n - 1)])
          BY <2>6, <4>1
        <4> QED  BY <4>1, <4>2
      <3> QED  BY <1>2, <2>1, <3>0, <3>1, <3>2, <3>3, <3>4
    <2>9. Pending = KeyBag(m, g) /\ Pending' = KeyBag(m - 1, h)
      <3>1. Pending = KeyBag(m, g) /\ Pending' = KeyBag(Len(callout') + Len(batch'), h)
        BY <1>3, PendingStep
      <3> HIDE DEF h, g, m
      <3> QED  BY <2>5, <3>1
    <2>10. Pending' = Minus(Pending, x)
      <3> HIDE DEF r, i, h, g, m, n, x
      <3>1. KeyBag(m - 1, h) = Minus(KeyBag((m - 1) + 1, g), x)
        BY <2>4, <2>8, BagInserted
      <3> QED  BY <2>4, <2>9, <3>1
    <2>11. DOMAIN Pending = {g[j] : j \in 1 .. m}
      <3> HIDE DEF h, g, m
      <3> QED  BY <2>9 DEF KeyBag
    <2>12. x \in DOMAIN Pending
      <3>1. i \in 1 .. m
        <4> HIDE DEF i
        <4> QED  BY <1>1, <1>2, <2>1
      <3> HIDE DEF h, g, m, i, x
      <3> QED  BY <2>7, <2>11, <3>1
    <2>13. /\ callout # << >> /\ \A j \in 1 .. n : callout[j].due = a[j]
           /\ a[1] > 0
           /\ \A j \in DOMAIN batch : batch[j].due = 0
      <3>1. callout # << >>
        <4> HIDE DEF i
        <4> QED  BY <1>1, <2>1
      <3>2. /\ \A j \in 1 .. n : callout[j].due = itimer + a[j] - a[1]
            /\ itimer = a[1]
            /\ \A j \in DOMAIN batch : batch[j].due = 0
        BY <1>1, <1>3, <3>1 DEF DueInv, Handling
      <3>3. a[1] \in Nat /\ \A j \in 1 .. n : a[j] \in Nat  BY <1>1, <3>1
      <3>4. a[1] > 0  BY <1>1, <3>1 DEF Inv, HeadWaits
      <3> HIDE DEF a
      <3> QED  BY <3>1, <3>2, <3>3, <3>4
    <2>14. s \in 1 .. MaxDelay
      <3>1. a[1] <= a[i]
        <4>1. 1 \in 0 .. n /\ i \in 0 .. n /\ 1 <= i
          <5> HIDE DEF i
          <5> QED  BY <1>1, <2>1
        <4> QED  BY <1>1, <4>1, TimesGrow
      <3>2. s \in -1 .. MaxDelay  BY <1>1, <2>1, EntryFields
      <3>3. s = a[i]  BY <2>1, <2>13
      <3>4. a[1] \in Nat  BY <1>1, <2>13
      <3> HIDE DEF a, s, i
      <3> QED  BY <1>1, <2>13, <3>1, <3>2, <3>3, <3>4
    <2>15. ASSUME NEW t \in 1 .. s - 1, <<f, t>> \in DOMAIN Pending PROVE FALSE
      <3>1. PICK j \in 1 .. m : g[j] = <<f, t>>
        <4> HIDE DEF g, m
        <4> QED  BY <2>11, <2>15
      <3>2. s \in Nat /\ t \in Nat /\ t < s /\ t > 0  BY <1>1, <2>14
      <3>3. CASE j <= n
        <4>1. callout[j].what = f /\ callout[j].due = t /\ j \in 1 .. n
          <5>1. j \in 1 .. n  BY <1>1, <1>2, <3>3
          <5> HIDE DEF h, g, r, i, m, n
          <5>2. <<f, t>> = Key(callout[j])  BY <2>6, <3>1, <3>3
          <5> QED  BY <5>1, <5>2 DEF Key
        <4>2. ~ (j < i)
          <5> HIDE DEF i
          <5> QED  BY <2>2, <4>1
        <4>3. i <= j  BY <2>1, <4>1, <4>2
        <4>4. a[i] <= a[j]
          <5>1. i \in 0 .. n /\ j \in 0 .. n
            <6> HIDE DEF i
            <6> QED  BY <1>1, <2>1, <4>1
          <5> QED  BY <1>1, <4>3, <5>1, TimesGrow
        <4>5. s = a[i] /\ t = a[j]  BY <2>1, <2>13, <4>1
        <4> HIDE DEF a, s, i
        <4> QED  BY <3>2, <4>4, <4>5
      <3>4. CASE ~ (j <= n)
        <4>1. j - n \in DOMAIN batch  BY <1>1, <1>2, <3>4
        <4>2. g[j] = Key(batch[j - n])
          <5> HIDE DEF h, g, r, i, m, n
          <5> QED  BY <2>6, <3>1, <3>4
        <4>3. batch[j - n].due = t
          <5> HIDE DEF g
          <5> QED  BY <3>1, <4>2 DEF Key
        <4>4. batch[j - n].due = 0  BY <2>13, <4>1
        <4> HIDE DEF s
        <4> QED  BY <3>2, <4>3, <4>4
      <3> QED  BY <3>3, <3>4
    <2> HIDE DEF s
    <2>16. Timer!Cancel(f)
      BY <2>10, <2>12, <2>14, <2>15, CancelIsMinus
    <2> QED  BY <2>16
  <1> QED  BY <1>4, <1>5

\* Adjusting the list is not seen by the timer.
LEMMA SignalRefines ==
    ASSUME Inv, Inv', calm, Signal
    PROVE  Pending' = Pending
  <1> DEFINE r == Shift(callout, 1, -elapsed)
             n == Len(callout)
  <1>1. /\ callout \in Seq(Entry) /\ batch \in Seq(Entry) /\ n \in Nat
        /\ Timed(callout, Sums(callout)) /\ elapsed \in Nat
        /\ callout # << >> => n > 0 /\ Head(callout) = callout[1]
    BY InvTypes
  <1>2. callout' = adjtimeout(callout) /\ batch' = batch /\ calm' = calm
    BY DEF Signal
  <1>3. CASE callout = << >> \/ elapsed >= callout[1].c_time
    <2>1. callout' = callout  BY <1>1, <1>2, <1>3 DEF adjtimeout
    <2> QED  BY <1>2, <2>1 DEF Pending
  <1>4. CASE callout # << >> /\ ~ (elapsed >= callout[1].c_time)
    <2>1. callout' = r  BY <1>1, <1>2, <1>4 DEF adjtimeout
    <2>2. callout[1].c_time \in Nat  BY <1>1, <1>4, EntryFields
    <2>3. /\ Len(r) = n
          /\ \A j \in 1 .. n : r[j].what = callout[j].what /\ r[j].due = callout[j].due
      <3>1. elapsed < callout[1].c_time  BY <1>1, <1>4, <2>2
      <3>2. callout # << >>  BY <1>4
      <3> QED  BY <1>1, <3>1, <3>2, AdvanceFacts
    <2> HIDE DEF r
    <2>4. Len(batch) \in Nat  BY <1>1
    <2>5. Keys(callout', batch') = Keys(callout, batch)
      BY <1>1, <1>2, <2>1, <2>3, <2>4 DEF Keys, Key
    <2> QED  BY <1>2, <2>1, <2>3, <2>5, PendingStep
  <1> QED  BY <1>3, <1>4

\* alrm moves callouts from the list to its batch: none is lost or added.
LEMMA AlrmRefines ==
    ASSUME Inv, DueInv, Inv', calm, alrm
    PROVE  Pending' = Pending
  <1> DEFINE m == Len(callout)
             n == Together(callout)
             g == Keys(callout, batch)
             h == Keys(callout', batch')
  <1>1. callout \in Seq(Entry) /\ m \in Nat /\ Timed(callout, Sums(callout))
    BY InvTypes
  <1>2. /\ batch' = SubSeq(callout, 1, n) /\ callout' = SubSeq(callout, n + 1, m)
        /\ mode = "idle" /\ calm' = calm
    BY DEF alrm
  <1>3. n \in 0 .. m  BY <1>1, TogetherFacts
  <1>4. Len(callout') = m - n /\ \A j \in 1 .. m - n : callout'[j] = callout[n + j]
    <2> HIDE DEF n
    <2> QED  BY <1>1, <1>2, <1>3, RestFacts
  <1>5. Len(batch') = n /\ \A j \in 1 .. n : batch'[j] = callout[j]
    <2> HIDE DEF n
    <2> QED  BY <1>1, <1>2, <1>3
  <1>6. batch = << >> /\ Len(batch) = 0  BY <1>2 DEF DueInv
  <1>7. \A j \in 1 .. m : g[j] = Key(callout[j])
    BY <1>1, <1>6 DEF Keys
  <1>8. \A j \in 1 .. m : h[j] = IF j <= m - n THEN g[n + j] ELSE g[j - (m - n)]
    <2> SUFFICES ASSUME NEW j \in 1 .. m
                 PROVE  h[j] = IF j <= m - n THEN g[n + j] ELSE g[j - (m - n)]
      OBVIOUS
    <2> HIDE DEF n, g
    <2>1. h[j] = IF j <= m - n THEN Key(callout'[j]) ELSE Key(batch'[j - (m - n)])
      <3>1. Len(callout') + Len(batch') = m  BY <1>1, <1>3, <1>4, <1>5
      <3> QED  BY <1>4, <3>1 DEF Keys
    <2> HIDE DEF h
    <2>2. CASE j <= m - n
      <3>1. n + j \in 1 .. m /\ j \in 1 .. m - n  BY <1>1, <1>3, <2>2
      <3> QED  BY <1>4, <1>7, <2>1, <2>2, <3>1
    <2>3. CASE ~ (j <= m - n)
      <3>1. j - (m - n) \in 1 .. m /\ j - (m - n) \in 1 .. n  BY <1>1, <1>3, <2>3
      <3> QED  BY <1>5, <1>7, <2>1, <2>3, <3>1
    <2> QED  BY <2>2, <2>3
  <1>9. Pending = KeyBag(m, g) /\ Pending' = KeyBag(m, h)
    <2>1. /\ Pending = KeyBag(m + Len(batch), g)
          /\ Pending' = KeyBag(Len(callout') + Len(batch'), h)
      BY <1>2, PendingStep
    <2>2. m + Len(batch) = m /\ Len(callout') + Len(batch') = m
      <3> HIDE DEF n
      <3> QED  BY <1>1, <1>3, <1>4, <1>5, <1>6
    <2> HIDE DEF g, h
    <2> QED  BY <2>1, <2>2
  <1> HIDE DEF g, h, n, m
  <1>10. KeyBag(m, h) = KeyBag(m, g)
    BY <1>1, <1>3, <1>8, BagRotated
  <1> QED  BY <1>9, <1>10

\* A function of the batch is called in the second it was asked for.
LEMMA CallRefines ==
    ASSUME Inv, DueInv, Inv', calm, Call
    PROVE  \E f \in Funcs : Timer!Run(f)
  <1> DEFINE n == Len(callout)
             l == Len(batch)
             m == (n + l) - 1
             g == Keys(callout, batch)
             h == Keys(callout', batch')
             f == batch[1].what
             x == <<f, 0>>
  <1>1. callout \in Seq(Entry) /\ batch \in Seq(Entry) /\ n \in Nat  BY InvTypes
  <1>2. batch # << >> /\ batch' = Tail(batch) /\ callout' = callout /\ calm' = calm
    BY DEF Call
  <1>3. /\ l \in Nat /\ l > 0 /\ DOMAIN batch = 1 .. l
        /\ Len(batch') = l - 1
        /\ \A j \in 1 .. l - 1 : batch'[j] = batch[j + 1]
    BY <1>1, <1>2, HeadTailProperties
  <1>4. f \in Funcs /\ batch[1].due = 0
    BY <1>1, <1>3, EntryFields DEF DueInv
  <1>5. m \in Nat /\ m + 1 = n + l /\ n \in 0 .. m  BY <1>1, <1>3
  <1>6. Len(callout') = n /\ Len(callout') + Len(batch') = m
    BY <1>1, <1>2, <1>3
  <1>7. /\ \A j \in 1 .. m + 1 : g[j] = IF j <= n THEN Key(callout[j]) ELSE Key(batch[j - n])
        /\ \A j \in 1 .. m : h[j] = IF j <= n THEN Key(callout[j]) ELSE Key(batch'[j - n])
    <2>1. \A j \in 1 .. n + l : g[j] = IF j <= n THEN Key(callout[j]) ELSE Key(batch[j - n])
      BY DEF Keys
    <2>2. \A j \in 1 .. Len(callout') + Len(batch') :
            h[j] = IF j <= Len(callout') THEN Key(callout'[j])
                   ELSE Key(batch'[j - Len(callout')])
      BY DEF Keys
    <2> HIDE DEF g, h, m, l, n
    <2> QED  BY <1>2, <1>5, <1>6, <2>1, <2>2
  <1>8. g[n + 1] = x
    <2>1. n + 1 \in 1 .. m + 1 /\ ~ (n + 1 <= n) /\ (n + 1) - n = 1  BY <1>1, <1>5
    <2> HIDE DEF g, h, m, l, n
    <2>2. g[n + 1] = Key(batch[1])  BY <1>7, <2>1
    <2> QED  BY <1>4, <2>2 DEF Key
  <1>9. InsertedAt(m, h, g, n, x)
    <2> SUFFICES ASSUME NEW j \in 1 .. m + 1
                 PROVE  g[j] = IF j <= n THEN h[j] ELSE IF j = n + 1 THEN x ELSE h[j - 1]
      BY DEF InsertedAt
    <2>1. CASE j <= n
      <3>1. j \in 1 .. m  BY <1>1, <1>3, <2>1
      <3> HIDE DEF g, h, m, l, n
      <3> QED  BY <1>7, <2>1, <3>1
    <2>2. CASE j = n + 1
      <3>1. ~ (j <= n)  BY <1>1, <2>2
      <3> HIDE DEF g, h, m, l, n, x
      <3> QED  BY <1>8, <2>2, <3>1
    <2>3. CASE j > n + 1
      <3>1. /\ ~ (j <= n) /\ j # n + 1 /\ j - 1 \in 1 .. m /\ ~ (j - 1 <= n)
            /\ (j - 1) - n \in 1 .. l - 1 /\ ((j - 1) - n) + 1 = j - n
        BY <1>1, <1>3, <2>3
      <3> HIDE DEF g, h, m, l, n
      <3>2. g[j] = Key(batch[j - n]) /\ h[j - 1] = Key(batch'[(j - 1) - n])
        BY <1>7, <3>1
      <3>3. batch'[(j - 1) - n] = batch[j - n]  BY <1>3, <3>1
      <3> QED  BY <3>1, <3>2, <3>3
    <2> QED  BY <1>1, <1>3, <2>1, <2>2, <2>3
  <1>10. Pending = KeyBag(m + 1, g) /\ Pending' = KeyBag(m, h)
    <2>1. /\ Pending = KeyBag(n + l, g)
          /\ Pending' = KeyBag(Len(callout') + Len(batch'), h)
      BY <1>2, PendingStep
    <2> HIDE DEF g, h, m, l, n
    <2> QED  BY <1>5, <1>6, <2>1
  <1>11. n + 1 \in 1 .. m + 1  BY <1>1, <1>5
  <1> HIDE DEF g, h, m, l, n, x
  <1>12. Pending' = Minus(Pending, x)
    BY <1>5, <1>9, <1>10, BagInserted
  <1>13. x \in DOMAIN Pending
    BY <1>8, <1>10, <1>11 DEF KeyBag
  <1>14. Timer!Run(f)
    BY <1>12, <1>13, RunIsMinus DEF x
  <1> QED  BY <1>4, <1>14

\* A second of the list is a second of the timer.
LEMMA TickRefines ==
    ASSUME Inv, DueInv, Inv', calm, Tick
    PROVE  Timer!Tick
  <1> DEFINE a == Sums(callout)
             m == Len(callout)
             g == Keys(callout, batch)
             h == Keys(callout', batch')
  <1>1. /\ callout \in Seq(Entry) /\ m \in Nat /\ Timed(callout, a) /\ itimer \in Nat
        /\ DOMAIN callout = 1 .. m
        /\ \A j \in 0 .. m : a[j] \in Nat
    BY InvTypes
  <1>2. /\ mode = "idle" /\ ~ alarm /\ batch' = batch /\ calm' = calm
        /\ callout' = [i \in DOMAIN callout |->
                         [callout[i] EXCEPT !.due = IF @ >= 0 THEN @ - 1 ELSE @]]
    BY DEF Tick
  <1>3. batch = << >> /\ Len(batch) = 0  BY <1>2 DEF DueInv
  <1>4. ASSUME NEW j \in 1 .. m
        PROVE  /\ callout[j].due \in Int /\ callout[j].due > 0
               /\ callout'[j].what = callout[j].what
               /\ callout'[j].due = callout[j].due - 1
    <2>1. callout # << >> /\ 1 \in 1 .. m /\ 1 \in 0 .. m /\ j \in 0 .. m /\ 1 <= j
      BY <1>1
    <2>2. itimer > 0  BY <1>2, <2>1 DEF Inv, AlarmArmed
    <2>3. callout[j].due = itimer + a[j] - a[1]  BY <1>1 DEF DueInv
    <2>4. a[1] <= a[j]  BY <1>1, <2>1, TimesGrow
    <2>5. a[1] \in Nat /\ a[j] \in Nat  BY <1>1, <2>1
    <2>6. callout[j].due \in Int /\ callout[j].due > 0
      <3> HIDE DEF a
      <3> QED  BY <1>1, <2>2, <2>3, <2>4, <2>5
    <2>7. callout[j] \in Entry  BY <1>1, EntryFields
    <2>8. callout'[j] = [callout[j] EXCEPT !.due = IF @ >= 0 THEN @ - 1 ELSE @]
      BY <1>1, <1>2
    <2> QED  BY <2>6, <2>7, <2>8 DEF Entry
  <1>5. Len(callout') = m
    <2>1. callout' \in Seq(Entry)  BY DEF Inv, TypeOK
    <2>2. DOMAIN callout' = 1 .. m  BY <1>1, <1>2
    <2> QED  BY <1>1, <2>1, <2>2
  <1>6. \A j \in 1 .. m : g[j] = <<callout[j].what, callout[j].due>>
    BY <1>1, <1>3 DEF Keys, Key
  <1>7. \A j \in 1 .. m : h[j] = <<callout'[j].what, callout'[j].due>>
    <2>1. batch' = batch  BY <1>2
    <2>2. Len(callout') + Len(batch') = m  BY <1>1, <1>3, <1>5, <2>1
    <2>3. \A j \in 1 .. Len(callout') + Len(batch') :
            h[j] = IF j <= Len(callout') THEN Key(callout'[j])
                   ELSE Key(batch'[j - Len(callout')])
      BY DEF Keys
    <2> HIDE DEF h
    <2>4. \A j \in 1 .. m : h[j] = Key(callout'[j])
      BY <1>1, <1>5, <2>2, <2>3
    <2> QED  BY <2>4 DEF Key
  <1>8. Pending = KeyBag(m, g) /\ Pending' = KeyBag(m, h)
    <2>1. /\ Pending = KeyBag(m + Len(batch), g)
          /\ Pending' = KeyBag(Len(callout') + Len(batch'), h)
      BY <1>2, PendingStep
    <2>2. m + Len(batch) = m /\ Len(callout') + Len(batch') = m
      BY <1>1, <1>2, <1>3, <1>5
    <2> HIDE DEF g, h
    <2> QED  BY <2>1, <2>2
  <1> HIDE DEF g, h, m
  <1>9. \A j \in 1 .. m : /\ g[j][2] \in Int /\ g[j][2] > 0
                          /\ h[j] = <<g[j][1], g[j][2] - 1>>
                          /\ g[j] = <<h[j][1], h[j][2] + 1>>
    <2> SUFFICES ASSUME NEW j \in 1 .. m
                 PROVE  /\ g[j][2] \in Int /\ g[j][2] > 0
                        /\ h[j] = <<g[j][1], g[j][2] - 1>>
                        /\ g[j] = <<h[j][1], h[j][2] + 1>>
      OBVIOUS
    <2>1. /\ g[j] = <<callout[j].what, callout[j].due>>
          /\ h[j] = <<callout[j].what, callout[j].due - 1>>
      BY <1>4, <1>6, <1>7
    <2>2. callout[j].due \in Int /\ callout[j].due > 0
          /\ (callout[j].due - 1) + 1 = callout[j].due
      BY <1>4
    <2> QED  BY <2>1, <2>2
  <1>10. DOMAIN Pending = {g[j] : j \in 1 .. m}  BY <1>8 DEF KeyBag
  <1>11. \A p \in DOMAIN Pending : p[2] > 0
    BY <1>9, <1>10
  <1>12. {<<p[1], p[2] - 1>> : p \in DOMAIN Pending} = {h[j] : j \in 1 .. m}
    <2>1. ASSUME NEW p \in DOMAIN Pending
          PROVE  <<p[1], p[2] - 1>> \in {h[j] : j \in 1 .. m}
      <3>1. PICK j \in 1 .. m : p = g[j]  BY <1>10
      <3>2. <<p[1], p[2] - 1>> = h[j]  BY <1>9, <3>1
      <3> QED  BY <3>2
    <2>2. ASSUME NEW j \in 1 .. m
          PROVE  \E p \in DOMAIN Pending : h[j] = <<p[1], p[2] - 1>>
      <3>1. g[j] \in DOMAIN Pending  BY <1>10
      <3>2. h[j] = <<g[j][1], g[j][2] - 1>>  BY <1>9
      <3> QED  BY <3>1, <3>2
    <2> QED  BY <2>1, <2>2
  <1>13. ASSUME NEW q \in {h[j] : j \in 1 .. m}
         PROVE  Cardinality(Where(m, h, q)) = Pending[<<q[1], q[2] + 1>>]
    <2>1. PICK i \in 1 .. m : q = h[i]  OBVIOUS
    <2>2. <<q[1], q[2] + 1>> = g[i]  BY <1>9, <2>1
    <2>3. Where(m, h, q) = Where(m, g, g[i])
      <3> SUFFICES ASSUME NEW j \in 1 .. m PROVE h[j] = h[i] <=> g[j] = g[i]
        BY <2>1 DEF Where
      <3>1. /\ h[j] = <<g[j][1], g[j][2] - 1>> /\ h[i] = <<g[i][1], g[i][2] - 1>>
            /\ g[j] = <<h[j][1], h[j][2] + 1>> /\ g[i] = <<h[i][1], h[i][2] + 1>>
        BY <1>9
      <3> QED  BY <3>1
    <2>4. Pending[g[i]] = Cardinality(Where(m, g, g[i]))
      BY <1>8 DEF KeyBag
    <2> QED  BY <2>2, <2>3, <2>4
  <1>14. Pending' = [q \in {h[j] : j \in 1 .. m} |-> Pending[<<q[1], q[2] + 1>>]]
    BY <1>8, <1>13 DEF KeyBag
  <1> QED  BY <1>11, <1>12, <1>14 DEF Timer!Tick, Timer!BagToSet

\* Every step of the list is a step of the timer or is not seen by it.
LEMMA StepRefines ==
    ASSUME Inv, DueInv, Inv', [Next]_vars
    PROVE  Timer!Next \/ Pending' = Pending
  <1>1. CASE ~ calm
    <2>1. calm' = calm
      BY DEF Next, Signal, alrm, Call, Return, Tick, ppp_timeout, ppp_untimeout, vars
    <2> QED  BY <1>1, <2>1, PendingStep
  <1>2. CASE calm
    <2>1. CASE UNCHANGED vars
      BY <2>1 DEF vars, Pending
    <2>2. CASE Return
      BY <2>2 DEF Return, Pending
    <2>3. CASE Signal \/ alrm
      BY <1>2, <2>3, SignalRefines, AlrmRefines
    <2>4. CASE Call
      BY <1>2, <2>4, CallRefines DEF Timer!Next
    <2>5. CASE Tick
      BY <1>2, <2>5, TickRefines DEF Timer!Next
    <2>6. ASSUME NEW f \in Funcs, ppp_untimeout(f)
          PROVE  Timer!Next \/ Pending' = Pending
      BY <1>2, <2>6, UntimeoutRefines DEF Timer!Next
    <2>7. ASSUME NEW f \in Funcs, NEW s \in 1 .. MaxDelay, ppp_timeout(f, s)
          PROVE  Timer!Next
      BY <1>2, <2>7, TimeoutRefines DEF Timer!Next
    <2> QED  BY <2>1, <2>2, <2>3, <2>4, <2>5, <2>6, <2>7 DEF Next
  <1> QED  BY <1>1, <1>2

\* With calm signals the delta list of ppp_timeout, ppp_untimeout, adjtimeout and
\* alrm is the timer of PppTimer, for any number of callouts and any delays: each
\* function runs in the second it was asked for, or was cancelled, the earliest
\* of its callouts first.
THEOREM Refinement == Spec => OnTime
  <1>1. Init => Timer!Init
    <2> SUFFICES ASSUME Init PROVE Pending = Timer!EmptyBag  BY DEF Timer!Init
    <2>1. Pending = PendingOf(IF calm THEN callout \o batch ELSE << >>)
      BY DEF Pending, PendingOf
    <2>2. callout \o batch = << >>  BY DEF Init
    <2> QED  BY <2>1, <2>2, PendingNothing
  <1>2. Inv /\ DueInv /\ Inv' /\ [Next]_vars => [Timer!Next]_Pending
    BY StepRefines
  <1> QED  BY <1>1, <1>2, Invariant, PTL DEF Spec, OnTime, Timer!Spec
=============================================================================
