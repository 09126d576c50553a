--------------------------- MODULE FaultLoopProofs ---------------------------
(***************************************************************************)
(* The election of sub_41da is the one that its loop makes, and no         *)
(* instruction needs more page faults than a bound that depends on the     *)
(* slots and on the accesses it begins with, whatever the slots held       *)
(* before and however old they were.                                       *)
(***************************************************************************)
EXTENDS FaultLoop, FiniteSetTheorems, TLAPS

(***************************************************************************)
(* The election.                                                           *)
(***************************************************************************)

LEMMA Smallest ==
  ASSUME NEW T, T \subseteq Nat, T # {}
  PROVE  \E x \in T : \A y \in T : x <= y
<1>1. PICK x \in T : \A y \in T : <<y, x>> \notin OpToRel(<, Nat)
  BY NatLessThanWellFounded, WFMin, Zenon
<1>2. \A y \in T : ~(y < x)
  BY <1>1 DEF OpToRel
<1> QED
  BY <1>2

\* No slot in front of it is marked as written.
InSight(written, s) == \A t \in Slots : t < s => ~written[t]

\* The slot elected is the oldest of those that no written slot hides.
Elected(ages, written, v) ==
  /\ InSight(written, v)
  /\ \A e \in Slots : InSight(written, e) => ages[e] <= ages[v]

\* The oldest of the slots behind v that are in sight, the nearest of them, would be
\* retained after v if it were older.
LEMMA VictimIsElected ==
  ASSUME NEW ages \in [Slots -> 0 .. AgeMod - 1],
         NEW v \in Slots, IsVictim(ages, v), ages[v] # Oldest
  PROVE  Elected(ages, dirty, v)
<1>0. \A t \in Slots : t \in Int /\ ages[t] \in Nat /\ ages[t] <= Oldest
  BY CacheAssumption DEF Slots, Oldest
<1>1. InSight(dirty, v)
  BY DEF IsVictim, Candidate, InSight
<1>2. ASSUME NEW e \in Slots, InSight(dirty, e), e <= v
      PROVE  ages[e] <= ages[v]
  BY <1>0, <1>1, <1>2 DEF IsVictim, Candidate, InSight
<1>3. ASSUME NEW e \in Slots, InSight(dirty, e), e > v
      PROVE  ages[e] <= ages[v]
  <2> SUFFICES ASSUME ages[e] > ages[v]
               PROVE  FALSE
    BY <1>0
  <2> DEFINE T == {t \in Slots : v < t /\ t <= e}
             Youth == {Oldest - ages[t] : t \in T}
  <2>1. Youth \subseteq Nat /\ Youth # {}
    <3>1. e \in T /\ Oldest \in Int
      BY <1>0, <1>3, CacheAssumption DEF Oldest
    <3> QED
      BY <1>0, <3>1
  <2>2. PICK m \in T : \A t \in T : ages[t] <= ages[m]
    <3>1. PICK y \in Youth : \A z \in Youth : y <= z
      BY <2>1, Smallest
    <3>2. PICK m \in T : y = Oldest - ages[m]
      BY <3>1
    <3>3. \A t \in T : Oldest - ages[m] <= Oldest - ages[t]
      BY <3>1, <3>2
    <3> QED
      BY <1>0, <3>3, CacheAssumption DEF Oldest
  <2>3. \A t \in Slots : t < m => ~dirty[t]
    BY <1>0, <1>3, <2>2 DEF InSight
  <2>4. ages[v] < ages[m]
    BY <1>0, <1>3, <2>2
  <2>5. \A t \in Slots : t < m => ages[t] <= ages[m]
    <3> TAKE t \in Slots
    <3> HAVE t < m
    <3>1. CASE t <= v
      <4>1. ages[t] <= ages[v]
        BY <1>0, <1>2, <2>3, <3>1 DEF InSight
      <4> QED
        BY <1>0, <2>4, <4>1
    <3>2. CASE t > v
      BY <1>0, <2>2, <3>2
    <3> QED
      BY <1>0, <3>1, <3>2
  <2>6. Candidate(ages, m)
    BY <2>3, <2>5 DEF Candidate
  <2> QED
    BY <2>2, <2>6 DEF IsVictim
<1> QED
  BY <1>0, <1>1, <1>2, <1>3 DEF Elected
-----------------------------------------------------------------------------
(***************************************************************************)
(* The loop of the election and the slots it retains.                      *)
(***************************************************************************)

\* What iteration s makes of the greatest age and the slot retained before it.
ScanStep(ages, before, s) ==
  [victim |-> IF before.r1 <= ages[s] THEN s ELSE before.victim,
   r1 |-> IF dirty[s] THEN Oldest
          ELSE IF before.r1 <= ages[s] THEN ages[s] ELSE before.r1]

\* f tells what the loop has before each of its first n iterations, and after them.
ScanTable(ages, f, n) ==
  f = [i \in 0 .. n |-> IF i = 0 THEN [r1 |-> ages[0], victim |-> 0]
                        ELSE ScanStep(ages, f[i - 1], i - 1)]

\* The loop has such a table, whatever the ages.
LEMMA ScanTableExists ==
  ASSUME NEW ages, NEW n \in 0 .. NSlots
  PROVE  \E f : ScanTable(ages, f, n)
<1> DEFINE Bad == {m \in 0 .. NSlots : ~\E f : ScanTable(ages, f, m)}
<1>1. SUFFICES ASSUME Bad # {} PROVE FALSE
  OBVIOUS
<1>2. PICK m \in Bad : \A y \in Bad : m <= y
  <2>1. Bad \subseteq Nat
    BY CacheAssumption
  <2> QED
    BY <1>1, <2>1, Smallest
<1>3. CASE m = 0
  <2> DEFINE f == [i \in 0 .. 0 |-> [r1 |-> ages[0], victim |-> 0]]
  <2>1. f = [i \in 0 .. 0 |-> IF i = 0 THEN [r1 |-> ages[0], victim |-> 0]
                              ELSE ScanStep(ages, f[i - 1], i - 1)]
    OBVIOUS
  <2>2. ScanTable(ages, f, 0)
    BY <2>1 DEF ScanTable
  <2> QED
    BY <1>2, <1>3, <2>2
<1>4. CASE m # 0
  <2>0. m \in 1 .. NSlots /\ m - 1 \in 0 .. NSlots /\ m - 1 \notin Bad
    BY <1>2, <1>4, CacheAssumption
  <2>1. PICK f : ScanTable(ages, f, m - 1)
    BY <2>0
  <2> DEFINE g == [i \in 0 .. m |-> IF i = m THEN ScanStep(ages, f[m - 1], m - 1) ELSE f[i]]
  <2>2. \A i \in 0 .. m - 1 : g[i] = f[i]
    BY <2>0
  <2>3. ASSUME NEW i \in 0 .. m
        PROVE  g[i] = IF i = 0 THEN [r1 |-> ages[0], victim |-> 0]
                      ELSE ScanStep(ages, g[i - 1], i - 1)
    <3>1. CASE i = m
      <4>1. g[i] = ScanStep(ages, f[m - 1], m - 1) /\ g[m - 1] = f[m - 1]
        BY <2>0, <2>2, <3>1
      <4> QED
        BY <2>0, <3>1, <4>1
    <3>2. CASE i # m
      <4>1. i \in 0 .. m - 1 /\ g[i] = f[i]
        BY <2>0, <2>2, <3>2
      <4>2. f[i] = IF i = 0 THEN [r1 |-> ages[0], victim |-> 0]
                   ELSE ScanStep(ages, f[i - 1], i - 1)
        BY <2>1, <4>1 DEF ScanTable
      <4>3. i # 0 => g[i - 1] = f[i - 1]
        BY <2>0, <2>2, <4>1
      <4> QED
        BY <4>1, <4>2, <4>3
    <3> QED
      BY <3>1, <3>2
  <2>4. ScanTable(ages, g, m)
    BY <2>3 DEF ScanTable
  <2> QED
    BY <1>2, <2>4
<1> QED
  BY <1>3, <1>4

\* What the first n iterations have made: behind a written slot r1 is the greatest age
\* there can be, otherwise the greatest one met; the last candidate is retained.
Scanned(ages, r, n) ==
  /\ r.r1 \in 0 .. Oldest /\ r.victim \in Slots
  /\ (\E t \in Slots : t < n /\ dirty[t]) => r.r1 = Oldest
  /\ (\A t \in Slots : t < n => ~dirty[t]) =>
       /\ \A t \in Slots : t < n => ages[t] <= r.r1
       /\ IF n = 0 THEN r.r1 = ages[0] ELSE \E t \in Slots : t < n /\ ages[t] = r.r1
  /\ n > 0 => r.victim < n /\ Candidate(ages, r.victim)
  /\ \A t \in Slots : t < n /\ t > r.victim => ~Candidate(ages, t)

LEMMA TakenAreCandidates ==
  ASSUME NEW ages \in [Slots -> 0 .. Oldest], NEW n \in Slots, NEW r, Scanned(ages, r, n)
  PROVE  r.r1 <= ages[n] <=> Candidate(ages, n)
<1>1. r.r1 \in Int /\ r.r1 <= Oldest /\ Oldest \in Int /\ n \in Int /\ n >= 0 /\ 0 \in Slots
  BY CacheAssumption DEF Scanned, Slots, Oldest
<1>2. \A t \in Slots : ages[t] \in Int /\ ages[t] <= Oldest /\ t \in Int /\ t >= 0
  BY <1>1 DEF Slots
<1>3. CASE \E t \in Slots : t < n /\ dirty[t]
  <2>1. PICK t \in Slots : t < n /\ dirty[t]
    BY <1>3
  <2>2. r.r1 = Oldest
    BY <2>1 DEF Scanned
  <2>3. Candidate(ages, n) => ages[n] = Oldest
    BY <2>1 DEF Candidate
  <2>4. ages[n] = Oldest => Candidate(ages, n)
    BY <1>2 DEF Candidate
  <2> QED
    BY <1>1, <1>2, <2>2, <2>3, <2>4
<1>4. CASE \A t \in Slots : t < n => ~dirty[t]
  <2>1. \A t \in Slots : t < n => ages[t] <= r.r1
    BY <1>4 DEF Scanned
  <2>2. IF n = 0 THEN r.r1 = ages[0] ELSE \E t \in Slots : t < n /\ ages[t] = r.r1
    BY <1>4 DEF Scanned
  <2>3. Candidate(ages, n) <=> \A t \in Slots : t < n => ages[t] <= ages[n]
    BY <1>4 DEF Candidate
  <2> QED
    BY <1>1, <1>2, <2>1, <2>2, <2>3
<1> QED
  BY <1>3, <1>4

LEMMA ScanStepScans ==
  ASSUME NEW ages \in [Slots -> 0 .. Oldest], NEW n \in Slots, NEW r, Scanned(ages, r, n)
  PROVE  Scanned(ages, ScanStep(ages, r, n), n + 1)
<1> DEFINE q == ScanStep(ages, r, n)
<1>1. r.r1 \in Int /\ r.r1 >= 0 /\ r.r1 <= Oldest /\ Oldest \in Nat /\ n \in Int /\ n >= 0 /\ 0 \in Slots
  BY CacheAssumption DEF Scanned, Slots, Oldest
<1>2. \A t \in Slots : /\ ages[t] \in Int /\ ages[t] >= 0 /\ ages[t] <= Oldest /\ t \in Int /\ t >= 0
                       /\ (t < n + 1 <=> t < n \/ t = n)
  BY <1>1 DEF Slots
<1>3. r.r1 <= ages[n] <=> Candidate(ages, n)
  BY TakenAreCandidates
<1>4. /\ q.victim = IF r.r1 <= ages[n] THEN n ELSE r.victim
      /\ q.r1 = IF dirty[n] THEN Oldest ELSE IF r.r1 <= ages[n] THEN ages[n] ELSE r.r1
  BY DEF ScanStep
<1>5. q.r1 \in 0 .. Oldest /\ q.victim \in Slots
  BY <1>1, <1>2, <1>4 DEF Scanned
<1>6. ASSUME NEW t \in Slots, t < n + 1, dirty[t] PROVE q.r1 = Oldest
  <2>1. CASE dirty[n]
    BY <1>4, <2>1
  <2>2. CASE ~dirty[n]
    <3>1. t < n
      BY <1>2, <1>6, <2>2
    <3>2. r.r1 = Oldest
      BY <1>6, <3>1 DEF Scanned
    <3> QED
      BY <1>1, <1>2, <1>4, <2>2, <3>2
  <2> QED
    BY <2>1, <2>2
<1>7. ASSUME \A t \in Slots : t < n + 1 => ~dirty[t]
      PROVE  /\ \A t \in Slots : t < n + 1 => ages[t] <= q.r1
             /\ \E t \in Slots : t < n + 1 /\ ages[t] = q.r1
  <2>1. ~dirty[n] /\ \A t \in Slots : t < n => ~dirty[t]
    BY <1>1, <1>2, <1>7
  <2>2. /\ \A t \in Slots : t < n => ages[t] <= r.r1
        /\ IF n = 0 THEN r.r1 = ages[0] ELSE \E t \in Slots : t < n /\ ages[t] = r.r1
    BY <2>1 DEF Scanned
  <2>3. q.r1 = IF r.r1 <= ages[n] THEN ages[n] ELSE r.r1
    BY <1>4, <2>1
  <2> HIDE DEF q
  <2> QED
    BY <1>1, <1>2, <2>2, <2>3
<1>8. q.victim < n + 1 /\ Candidate(ages, q.victim)
  <2>1. CASE r.r1 <= ages[n]
    BY <1>1, <1>3, <1>4, <2>1
  <2>2. CASE ~(r.r1 <= ages[n])
    <3>1. n > 0
      <4>1. n = 0 => Candidate(ages, n)
        BY <1>2 DEF Candidate
      <4> QED
        BY <1>1, <1>3, <2>2, <4>1
    <3>2. r.victim < n /\ Candidate(ages, r.victim) /\ r.victim \in Slots
      BY <3>1 DEF Scanned
    <3> QED
      BY <1>1, <1>2, <1>4, <2>2, <3>2
  <2> QED
    BY <2>1, <2>2
<1>9. ASSUME NEW t \in Slots, t < n + 1, t > q.victim PROVE ~Candidate(ages, t)
  <2>1. CASE r.r1 <= ages[n]
    BY <1>1, <1>2, <1>4, <1>9, <2>1
  <2>2. CASE ~(r.r1 <= ages[n])
    <3>1. t > r.victim
      BY <1>4, <1>9, <2>2
    <3>2. CASE t = n
      BY <1>3, <2>2, <3>2
    <3>3. CASE t < n
      BY <3>1, <3>3 DEF Scanned
    <3> QED
      BY <1>2, <1>9, <3>2, <3>3
  <2> QED
    BY <2>1, <2>2
<1>10. n + 1 > 0 /\ n + 1 # 0
  BY <1>1
<1> HIDE DEF q
<1>11. (\E t \in Slots : t < n + 1 /\ dirty[t]) => q.r1 = Oldest
  BY <1>6
<1>12. (\A t \in Slots : t < n + 1 => ~dirty[t]) =>
         /\ \A t \in Slots : t < n + 1 => ages[t] <= q.r1
         /\ IF n + 1 = 0 THEN q.r1 = ages[0] ELSE \E t \in Slots : t < n + 1 /\ ages[t] = q.r1
  BY <1>7, <1>10
<1>13. \A t \in Slots : t < n + 1 /\ t > q.victim => ~Candidate(ages, t)
  BY <1>9
<1>14. Scanned(ages, q, n + 1)
  BY <1>5, <1>8, <1>11, <1>12, <1>13 DEF Scanned
<1> QED
  BY <1>14 DEF q

LEMMA AllScanned ==
  ASSUME NEW ages \in [Slots -> 0 .. Oldest], NEW f, ScanTable(ages, f, NSlots),
         NEW n \in 0 .. NSlots
  PROVE  Scanned(ages, f[n], n)
<1> DEFINE Bad == {m \in 0 .. NSlots : ~Scanned(ages, f[m], m)}
<1>1. SUFFICES ASSUME Bad # {} PROVE FALSE
  OBVIOUS
<1>2. PICK m \in Bad : \A y \in Bad : m <= y
  <2>1. Bad \subseteq Nat
    BY CacheAssumption
  <2> QED
    BY <1>1, <2>1, Smallest
<1>3. CASE m = 0
  <2>1. f[0] = [r1 |-> ages[0], victim |-> 0]
    BY CacheAssumption DEF ScanTable
  <2>2. 0 \in Slots /\ ages[0] \in 0 .. Oldest /\ \A t \in Slots : ~(t < 0)
    BY CacheAssumption DEF Slots
  <2>3. Scanned(ages, f[0], 0)
    BY <2>1, <2>2 DEF Scanned
  <2> QED
    BY <1>2, <1>3, <2>3
<1>4. CASE m # 0
  <2>1. m \in 1 .. NSlots /\ m - 1 \in 0 .. NSlots /\ m - 1 \notin Bad /\ m - 1 \in Slots
        /\ (m - 1) + 1 = m
    BY <1>2, <1>4, CacheAssumption DEF Slots
  <2>2. Scanned(ages, f[m - 1], m - 1)
    BY <2>1
  <2>3. f[m] = ScanStep(ages, f[m - 1], m - 1)
    BY <2>1, CacheAssumption DEF ScanTable
  <2>4. Scanned(ages, ScanStep(ages, f[m - 1], m - 1), (m - 1) + 1)
    BY <2>1, <2>2, ScanStepScans
  <2> QED
    BY <1>2, <2>1, <2>3, <2>4
<1> QED
  BY <1>3, <1>4

LEMMA ScanIsAScan ==
  ASSUME NEW ages
  PROVE  \E f : ScanTable(ages, f, NSlots) /\ Scan(ages) = f[NSlots]
<1>1. NSlots \in 0 .. NSlots
  BY CacheAssumption
<1>2. \E f : ScanTable(ages, f, NSlots)
  BY <1>1, ScanTableExists
<1>3. ScanTable(ages, CHOOSE f : ScanTable(ages, f, NSlots), NSlots)
  BY <1>2
<1>4. Scan(ages) = (CHOOSE f : ScanTable(ages, f, NSlots))[NSlots]
  BY DEF Scan, ScanTable, ScanStep
<1> QED
  BY <1>3, <1>4

\* The loop ends with the slot that IsVictim names, and with no other, for every number of
\* slots and whatever is written: in any state whose ages are words.
THEOREM ScanElects ==
  ASSUME age \in [Slots -> 0 .. AgeMod - 1]
  PROVE  VictimIsTheScans
<1>1. Aged \in [Slots -> 0 .. Oldest]
  BY CacheAssumption DEF Aged, Oldest
<1>2. PICK f : ScanTable(Aged, f, NSlots) /\ Scan(Aged) = f[NSlots]
  BY ScanIsAScan
<1>3. NSlots \in 0 .. NSlots /\ NSlots > 0 /\ \A t \in Slots : t < NSlots /\ t \in Int
  BY CacheAssumption DEF Slots
<1>4. Scanned(Aged, Scan(Aged), NSlots)
  BY <1>1, <1>2, <1>3, AllScanned
<1> DEFINE v == Scan(Aged).victim
<1>5. /\ v \in Slots /\ Candidate(Aged, v)
      /\ \A t \in Slots : t > v => ~Candidate(Aged, t)
  BY <1>3, <1>4 DEF Scanned
<1> HIDE DEF v
<1>6. \A s \in Slots : IsVictim(Aged, s) <=> s = v
  BY <1>3, <1>5 DEF IsVictim
<1> QED
  BY <1>6 DEF v, VictimIsTheScans
-----------------------------------------------------------------------------
(***************************************************************************)
(* What is assumed of the instructions.                                    *)
(***************************************************************************)

Accesses == [page : Pages, write : BOOLEAN]

\* An instruction reads its first h accesses ahead of the others: they are to first
\* pages.  The later ones are to the same pages, or to the data pages a and b, of which
\* a is accessed first.  First pages are not written.
Shape(i, h, a, b) ==
  /\ h \in 0 .. Len(i)
  /\ a # b /\ {a, b} \cap FirstPages = {}
  /\ \A k \in 1 .. Len(i) :
       /\ i[k].page \in FirstPages \cup {a, b}
       /\ k <= h => i[k].page \in FirstPages
       /\ i[k].page \in FirstPages => ~i[k].write /\ \E j \in 1 .. h : i[j].page = i[k].page
       /\ i[k].page = b => \E j \in 1 .. k - 1 : i[j].page = a

\* Every instruction has this shape, with a head of at most longestHead accesses and of
\* at most longest accesses in all, and its pages fit in the slots.
InstructionsOK(longestHead, longest) ==
  \A i \in Instructions :
    /\ i \in Seq(Accesses)
    /\ Len(i) <= longest
    /\ Cardinality(PagesOf(i)) <= NSlots
    /\ \E h \in 0 .. longestHead, a, b \in Pages \cup {NoPage} : Shape(i, h, a, b)

(***************************************************************************)
(* The slots, as the next access will find them: the page being fetched    *)
(* counts as there already.                                                *)
(***************************************************************************)

Cache ==
  [page |-> IF waiting = NoPage THEN tag ELSE [tag EXCEPT ![slot] = waiting],
   written |-> IF waiting = NoPage THEN dirty ELSE [dirty EXCEPT ![slot] = FALSE],
   age |-> age]

Caches ==
  [page : [Slots -> Pages \cup {NoPage}], written : [Slots -> BOOLEAN],
   age : [Slots -> 0 .. AgeMod - 1]]

Unmixed(c) == \A s, t \in Slots : s # t /\ c.page[s] = c.page[t] => c.page[s] = NoPage

FirstClean(c) == \A s \in Slots : c.page[s] \in FirstPages => ~c.written[s]

(***************************************************************************)
(* A window: the pages of T, all of the instruction, are younger than the  *)
(* others, and the ones accessed in this attempt are younger than those    *)
(* that were not.                                                          *)
(***************************************************************************)

Accessed(c, i, k, s) == \E j \in 1 .. k - 1 : c.page[s] = i[j].page

Younger(c, T) == \A s \in T, t \in Slots \ T : c.age[s] < c.age[t]

Window(c, i, k, T) ==
  /\ \A s \in T : c.page[s] \in PagesOf(i)
  /\ Younger(c, T)
  /\ \A j \in 1 .. k - 1 : \E s \in T : c.page[s] = i[j].page
  /\ Younger(c, {s \in Slots : Accessed(c, i, k, s)})

In(c, T) == {c.page[s] : s \in T}

(***************************************************************************)
(* How many page faults the pages of a window may cause among themselves,  *)
(* before one more page joins it.                                          *)
(***************************************************************************)

\* The accesses of the head before the m-th find their page in the window.
HeadIn(c, i, m, T) == \A j \in 1 .. m - 1 : i[j].page \in In(c, T)

\* b came after the last access to a, and nothing was written since.
BehindA(c, T, a, b) ==
  \E s, t \in T : c.page[s] = a /\ c.page[t] = b /\ ~c.written[t] /\ c.age[t] < c.age[s]

Rank(c, i, h, a, b, T, r) ==
  \E m \in 1 .. h + 1 :
    /\ HeadIn(c, i, m, T)
    /\ \/ r >= (h + 1 - m) + (h + 2)
       \/ m = h + 1 /\ a \in In(c, T) /\ r >= h + 1
       \/ BehindA(c, T, a, b) /\ r >= h + 1 - m
       \/ a \notin In(c, T) /\ \A s \in T : ~c.written[s]
       \/ PagesOf(i) \subseteq In(c, T)

(***************************************************************************)
(* The bound.                                                              *)
(***************************************************************************)

PerPage(longestHead) == 2 * longestHead + 3
PerWindow(longestHead) == NSlots * PerPage(longestHead)
FaultBound(longestHead) == NSlots * (PerWindow(longestHead) + 1) + PerWindow(longestHead)

-----------------------------------------------------------------------------
(***************************************************************************)
(* One access: slot s becomes the youngest.                                *)
(***************************************************************************)

Ages(c, d, s) ==
  d.age[s] = 0 /\ \A t \in Slots : t # s => d.age[t] = c.age[t] + 1

\* s holds the page.
Hit(c, d, s, writes) ==
  /\ d.page = c.page
  /\ d.written[s] => c.written[s] \/ writes
  /\ \A t \in Slots : t # s => d.written[t] = c.written[t]
  /\ Ages(c, d, s)

\* s is elected for page p.
Fault(c, d, s, p) ==
  /\ \A t \in Slots : c.page[t] # p
  /\ d.page[s] = p /\ ~d.written[s]
  /\ \A t \in Slots : t # s => d.page[t] = c.page[t] /\ d.written[t] = c.written[t]
  /\ Ages(c, d, s)

LEMMA CacheFacts ==
  ASSUME NEW c \in Caches
  PROVE  /\ \A s \in Slots : c.age[s] \in Nat /\ c.written[s] \in BOOLEAN
         /\ \A s \in Slots : s \in Int
         /\ c.page \in [Slots -> Pages \cup {NoPage}]
         /\ c.written \in [Slots -> BOOLEAN]
  BY CacheAssumption DEF Caches, Slots

LEMMA AccessFacts ==
  ASSUME NEW i \in Seq(Accesses), NEW k \in 1 .. Len(i)
  PROVE  /\ i[k].page \in Pages /\ i[k].page # NoPage /\ i[k].page \in PagesOf(i)
         /\ i[k].write \in BOOLEAN
         /\ k \in Nat /\ Len(i) \in Nat
<1>1. k \in DOMAIN i /\ i[k] \in Accesses
  OBVIOUS
<1> QED
  BY <1>1, CacheAssumption DEF Accesses, PagesOf, Pages, NoPage

LEMMA YoungerStill ==
  ASSUME NEW c \in Caches, NEW d \in Caches, NEW s \in Slots, Ages(c, d, s),
         NEW T \in SUBSET Slots, Younger(c, T)
  PROVE  Younger(d, T \cup {s})
  BY CacheFacts DEF Ages, Younger

\* The window goes on, one access later.
LEMMA HitWindow ==
  ASSUME NEW i \in Seq(Accesses), NEW k \in 1 .. Len(i),
         NEW c \in Caches, NEW d \in Caches, NEW s \in Slots,
         Hit(c, d, s, i[k].write), c.page[s] = i[k].page, Unmixed(c),
         NEW T \in SUBSET Slots, Window(c, i, k, T)
  PROVE  Window(d, i, k + 1, T \cup {s})
<1> DEFINE A == {t \in Slots : Accessed(c, i, k, t)}
           B == {t \in Slots : Accessed(d, i, k + 1, t)}
<1>0. k \in Nat /\ k >= 1
  OBVIOUS
<1>1. \A t \in T \cup {s} : d.page[t] \in PagesOf(i)
  BY AccessFacts DEF Window, Hit
<1>2. Younger(d, T \cup {s})
  BY YoungerStill DEF Window, Hit
<1>3. \A j \in 1 .. (k + 1) - 1 : \E t \in T \cup {s} : d.page[t] = i[j].page
  <2> TAKE j \in 1 .. (k + 1) - 1
  <2>1. CASE j \in 1 .. k - 1
    BY <2>1 DEF Window, Hit
  <2>2. CASE j = k
    BY <2>2 DEF Hit
  <2> QED
    BY <1>0, <2>1, <2>2
<1>4. B = A \cup {s}
  <2>1. \A t \in Slots : Accessed(d, i, k + 1, t) <=> Accessed(c, i, k, t) \/ c.page[t] = i[k].page
    <3> TAKE t \in Slots
    <3>1. Accessed(d, i, k + 1, t) <=> \E j \in 1 .. (k + 1) - 1 : c.page[t] = i[j].page
      BY DEF Accessed, Hit
    <3>2. (1 .. (k + 1) - 1) = (1 .. k - 1) \cup {k}
      BY <1>0
    <3> QED
      BY <3>1, <3>2 DEF Accessed
  <2>2. \A t \in Slots : c.page[t] = i[k].page => t = s
    BY AccessFacts DEF Unmixed
  <2> QED
    BY <2>1, <2>2
<1>5. Younger(d, B)
  BY <1>4, YoungerStill DEF Window, Hit
<1> QED
  BY <1>1, <1>2, <1>3, <1>5 DEF Window

\* So it does after a page fault, with the page that is fetched.
LEMMA FaultWindow ==
  ASSUME NEW i \in Seq(Accesses), NEW k \in 1 .. Len(i),
         NEW c \in Caches, NEW d \in Caches, NEW s \in Slots,
         Fault(c, d, s, i[k].page),
         NEW T \in SUBSET Slots, Younger(c, T), \A t \in T : c.page[t] \in PagesOf(i)
  PROVE  Window(d, i, 1, T \cup {s})
<1>1. \A t \in T \cup {s} : d.page[t] \in PagesOf(i)
  BY AccessFacts DEF Fault
<1>2. Younger(d, T \cup {s})
  BY YoungerStill DEF Fault
<1>3. \A t : ~Accessed(d, i, 1, t)
  BY DEF Accessed
<1>4. Younger(d, {t \in Slots : Accessed(d, i, 1, t)})
  BY <1>3 DEF Younger
<1> QED
  BY <1>1, <1>2, <1>4 DEF Window

LEMMA UnmixedStill ==
  ASSUME NEW c \in Caches, NEW d \in Caches, NEW s \in Slots, Unmixed(c),
         NEW p, Fault(c, d, s, p)
  PROVE  Unmixed(d)
  BY DEF Unmixed, Fault

LEMMA FaultIn ==
  ASSUME NEW c, NEW d, NEW s \in Slots, NEW T \in SUBSET Slots, NEW p, Fault(c, d, s, p), s \notin T
  PROVE  In(d, T \cup {s}) = In(c, T) \cup {p} /\ p \notin In(c, T)
<1>1. \A t \in T : d.page[t] = c.page[t] /\ c.page[t] # p
  BY DEF Fault
<1> QED
  BY <1>1 DEF In, Fault
-----------------------------------------------------------------------------
(***************************************************************************)
(* The rank of a window.                                                   *)
(***************************************************************************)

LEMMA ShapeFacts ==
  ASSUME NEW i \in Seq(Accesses), NEW h, NEW a, NEW b, Shape(i, h, a, b)
  PROVE  /\ h \in Nat /\ h <= Len(i)
         /\ a # b /\ a \notin FirstPages /\ b \notin FirstPages
         /\ \A p \in PagesOf(i) : p \in FirstPages \cup {a, b}
         /\ \A p \in PagesOf(i) : p \in FirstPages => \E j \in 1 .. h : i[j].page = p
<1>1. DOMAIN i = 1 .. Len(i) /\ Len(i) \in Nat
  OBVIOUS
<1> QED
  BY <1>1 DEF Shape, PagesOf

\* A window whose head is in, and both data pages, has all the pages.
LEMMA AllIn ==
  ASSUME NEW i \in Seq(Accesses), NEW h, NEW a, NEW b, Shape(i, h, a, b),
         NEW Q, a \in Q, b \in Q, \A j \in 1 .. h : i[j].page \in Q
  PROVE  PagesOf(i) \subseteq Q
  BY ShapeFacts

\* The accesses of this attempt found their pages in the window.
LEMMA AccessedIn ==
  ASSUME NEW c, NEW i, NEW k, NEW T, Window(c, i, k, T), NEW j \in 1 .. k - 1
  PROVE  /\ i[j].page \in In(c, T)
         /\ \E s \in T : c.page[s] = i[j].page /\ Accessed(c, i, k, s)
  BY DEF Window, In, Accessed

\* Past the head, the whole head is in.
LEMMA PastTheHead ==
  ASSUME NEW i \in Seq(Accesses), NEW h, NEW a, NEW b, Shape(i, h, a, b),
         NEW k \in 1 .. Len(i), i[k].page \notin FirstPages,
         NEW c, NEW T, Window(c, i, k, T)
  PROVE  k > h /\ \A j \in 1 .. h : i[j].page \in In(c, T)
<1>1. k > h
  BY ShapeFacts DEF Shape
<1>2. \A j \in 1 .. h : j \in 1 .. k - 1
  BY <1>1, ShapeFacts
<1> QED
  BY <1>1, <1>2, AccessedIn

\* An access to a page of the window keeps its rank.
LEMMA HitRank ==
  ASSUME NEW i \in Seq(Accesses), NEW h, NEW a, NEW b, Shape(i, h, a, b),
         NEW k \in 1 .. Len(i), NEW c \in Caches, NEW d \in Caches, NEW s \in Slots,
         Hit(c, d, s, i[k].write), c.page[s] = i[k].page, Unmixed(c),
         NEW T \in SUBSET Slots, Window(c, i, k, T), s \in T,
         NEW r \in Nat, Rank(c, i, h, a, b, T, r)
  PROVE  Rank(d, i, h, a, b, T, r)
<1>0. In(d, T) = In(c, T)
  BY DEF In, Hit
<1>1. PICK m \in 1 .. h + 1 :
        /\ HeadIn(c, i, m, T)
        /\ \/ r >= (h + 1 - m) + (h + 2)
           \/ m = h + 1 /\ a \in In(c, T) /\ r >= h + 1
           \/ BehindA(c, T, a, b) /\ r >= h + 1 - m
           \/ a \notin In(c, T) /\ \A t \in T : ~c.written[t]
           \/ PagesOf(i) \subseteq In(c, T)
  BY DEF Rank
<1>2. HeadIn(d, i, m, T)
  BY <1>0, <1>1 DEF HeadIn
<1>3. i[k].page \in PagesOf(i) /\ i[k].page \in In(c, T)
  BY AccessFacts DEF In
<1>4. CASE BehindA(c, T, a, b) /\ r >= h + 1 - m
  <2>1. PICK x \in T, y \in T :
          c.page[x] = a /\ c.page[y] = b /\ ~c.written[y] /\ c.age[y] < c.age[x]
    BY <1>4 DEF BehindA
  <2>2. CASE s \in {x, y}
    <3>1. i[k].page \notin FirstPages
      BY <2>1, <2>2, ShapeFacts
    <3>2. a \in In(c, T) /\ b \in In(c, T)
      BY <2>1 DEF In
    <3>3. PagesOf(i) \subseteq In(c, T)
      BY <3>1, <3>2, PastTheHead, AllIn
    <3> QED
      BY <1>0, <1>2, <3>3 DEF Rank
  <2>3. CASE s \notin {x, y}
    <3>1. x \in Slots /\ y \in Slots /\ c.age[x] \in Int /\ c.age[y] \in Int
      BY CacheFacts
    <3>2. BehindA(d, T, a, b)
      BY <2>1, <2>3, <3>1 DEF BehindA, Hit, Ages
    <3> QED
      BY <1>2, <1>4, <3>2 DEF Rank
  <2> QED
    BY <2>2, <2>3
<1>5. CASE a \notin In(c, T) /\ \A t \in T : ~c.written[t]
  <2>1. ~i[k].write
    <3>1. i[k].page # a
      BY <1>3, <1>5
    <3>2. i[k].page # b
      <4> SUFFICES ASSUME i[k].page = b
                   PROVE  FALSE
        OBVIOUS
      <4>1. PICK j \in 1 .. k - 1 : i[j].page = a
        BY DEF Shape
      <4> QED
        BY <1>5, <4>1, AccessedIn
    <3> QED
      BY <1>3, <3>1, <3>2, ShapeFacts DEF Shape
  <2>2. \A t \in T : ~d.written[t]
    BY <1>5, <2>1 DEF Hit
  <2> QED
    BY <1>0, <1>2, <1>5, <2>2 DEF Rank
<1> QED
  BY <1>0, <1>1, <1>2, <1>4, <1>5 DEF Rank

\* No rank is greater than this one.
LEMMA RankFull ==
  ASSUME NEW h \in Nat, NEW c, NEW i, NEW a, NEW b, NEW T
  PROVE  Rank(c, i, h, a, b, T, 2 * h + 2)
<1>1. 1 \in 1 .. h + 1 /\ HeadIn(c, i, 1, T)
  BY DEF HeadIn
<1>2. 2 * h + 2 >= (h + 1 - 1) + (h + 2)
  OBVIOUS
<1> QED
  BY <1>1, <1>2 DEF Rank
-----------------------------------------------------------------------------
(***************************************************************************)
(* A page fault that takes a slot of the window.                           *)
(***************************************************************************)

\* The first written slot is in the window, and it holds a or b.
LEMMA FirstWrittenSlot ==
  ASSUME NEW i \in Seq(Accesses), NEW h, NEW a, NEW b, Shape(i, h, a, b),
         NEW k, NEW c \in Caches, FirstClean(c),
         NEW T \in SUBSET Slots, Window(c, i, k, T), T # Slots,
         NEW v \in T, Elected(c.age, c.written, v)
  PROVE  \E w \in T : /\ InSight(c.written, w) /\ c.written[w]
                      /\ c.age[w] <= c.age[v] /\ c.page[w] \in {a, b}
<1>0. v \in Slots /\ \A t \in Slots : t \in Nat /\ c.age[t] \in Nat
  BY CacheFacts DEF Slots
<1>1. \A t \in Slots : InSight(c.written, t) => t \in T
  BY <1>0 DEF Elected, Window, Younger
<1> DEFINE D == {t \in Slots : c.written[t]}
<1>2. D # {} /\ D \subseteq Nat
  BY <1>0, <1>1 DEF InSight
<1>3. PICK w \in D : \A t \in D : w <= t
  BY <1>2, Smallest
<1>4. InSight(c.written, w)
  BY <1>0, <1>3 DEF InSight
<1>5. w \in T /\ c.written[w] /\ c.age[w] <= c.age[v]
  BY <1>1, <1>3, <1>4 DEF Elected
<1>6. c.page[w] \in {a, b}
  BY <1>3, <1>5, ShapeFacts DEF Window, FirstClean
<1> QED
  BY <1>4, <1>5, <1>6

\* A slot accessed in this attempt is not elected while one that was not is in sight.
LEMMA AccessedIsSpared ==
  ASSUME NEW i, NEW k, NEW c \in Caches, NEW T, Window(c, i, k, T),
         NEW v \in Slots, NEW w \in Slots, c.age[w] <= c.age[v],
         ~Accessed(c, i, k, w)
  PROVE  ~Accessed(c, i, k, v)
  BY CacheFacts DEF Window, Younger

\* Pages of the window that keep their slot.
LEMMA StillIn ==
  ASSUME NEW c \in Caches, NEW d, NEW v \in Slots, NEW p, Fault(c, d, v, p),
         NEW T \in SUBSET Slots, NEW q \in In(c, T), q # c.page[v]
  PROVE  q \in In(d, T)
  BY DEF In, Fault

\* The page that loses its slot.
LEMMA NotIn ==
  ASSUME NEW c \in Caches, NEW d, NEW v \in Slots, NEW p, Fault(c, d, v, p), Unmixed(c),
         NEW T \in SUBSET Slots, c.page[v] # NoPage
  PROVE  c.page[v] \notin In(d, T)
<1>1. c.page[v] # p
  BY DEF Fault
<1>2. \A t \in T : t # v => c.page[t] # c.page[v]
  BY DEF Unmixed
<1> QED
  BY <1>1, <1>2 DEF In, Fault

\* A page fault in the head: one more access of the head finds its page next time.
LEMMA HeadFault ==
  ASSUME NEW i \in Seq(Accesses), NEW h, NEW a, NEW b, Shape(i, h, a, b),
         NEW k \in 1 .. Len(i), k <= h,
         NEW c \in Caches, NEW d \in Caches, Unmixed(c), FirstClean(c),
         NEW T \in SUBSET Slots, Window(c, i, k, T), T # Slots,
         NEW v \in T, Elected(c.age, c.written, v), Fault(c, d, v, i[k].page),
         NEW r \in Nat, Rank(c, i, h, a, b, T, r)
  PROVE  r >= 1 /\ Rank(d, i, h, a, b, T, r - 1)
<1>0. /\ h \in Nat /\ k \in Nat /\ i[k].page \notin In(c, T) /\ i[k].page \in PagesOf(i)
      /\ v \in Slots
      /\ \A t \in Slots : c.age[t] \in Nat
  BY ShapeFacts, AccessFacts, CacheFacts DEF Fault, In
<1>1. PICK w \in T : /\ InSight(c.written, w) /\ c.written[w]
                     /\ c.age[w] <= c.age[v] /\ c.page[w] \in {a, b}
  BY FirstWrittenSlot
<1>2. ~Accessed(c, i, k, w)
  BY <1>0, <1>1, ShapeFacts DEF Accessed, Shape
<1>3. ~Accessed(c, i, k, v)
  BY <1>1, <1>2, AccessedIsSpared
<1>4. HeadIn(d, i, k + 1, T)
  <2> SUFFICES ASSUME NEW j \in 1 .. (k + 1) - 1
               PROVE  i[j].page \in In(d, T)
    BY DEF HeadIn
  <2>1. CASE j = k
    BY <2>1 DEF Fault, In
  <2>2. CASE j \in 1 .. k - 1
    <3>1. i[j].page \in In(c, T) /\ i[j].page # c.page[v]
      BY <1>3, <2>2, AccessedIn DEF Accessed
    <3> QED
      BY <3>1, StillIn
  <2> QED
    BY <1>0, <2>1, <2>2
<1>5. PICK m \in 1 .. h + 1 :
        /\ HeadIn(c, i, m, T)
        /\ \/ r >= (h + 1 - m) + (h + 2)
           \/ m = h + 1 /\ a \in In(c, T) /\ r >= h + 1
           \/ BehindA(c, T, a, b) /\ r >= h + 1 - m
           \/ a \notin In(c, T) /\ \A t \in T : ~c.written[t]
           \/ PagesOf(i) \subseteq In(c, T)
  BY DEF Rank
<1>6. m <= k
  <2>1. ~(k \in 1 .. m - 1)
    BY <1>0, <1>5 DEF HeadIn
  <2> QED
    BY <1>0, <2>1
<1>7. k + 1 \in 1 .. h + 1
  BY <1>0
<1>8. CASE r >= (h + 1 - m) + (h + 2)
  <2>1. r >= 1 /\ r - 1 >= (h + 1 - (k + 1)) + (h + 2)
    BY <1>0, <1>6, <1>8
  <2> QED
    BY <1>4, <1>7, <2>1 DEF Rank
<1>9. CASE BehindA(c, T, a, b) /\ r >= h + 1 - m
  <2>1. PICK x \in T, y \in T :
          c.page[x] = a /\ c.page[y] = b /\ ~c.written[y] /\ c.age[y] < c.age[x]
    BY <1>9 DEF BehindA
  <2>2. x \in Slots /\ y \in Slots /\ a \in PagesOf(i) /\ b \in PagesOf(i)
    BY <2>1 DEF Window
  <2>3. a # NoPage /\ b # NoPage
    <3>1. \A q \in PagesOf(i) : q # NoPage
      <4>1. DOMAIN i = 1 .. Len(i)
        OBVIOUS
      <4> QED
        BY <4>1, AccessFacts DEF PagesOf
    <3> QED
      BY <2>2, <3>1
  <2>4. w = x
    <3>1. CASE c.page[w] = a
      BY <1>1, <2>1, <2>3, <3>1 DEF Unmixed
    <3>2. CASE c.page[w] = b
      BY <1>1, <2>1, <2>3, <3>2 DEF Unmixed
    <3> QED
      BY <1>1, <3>1, <3>2
  <2>5. v # y
    BY <1>0, <1>1, <2>1, <2>2, <2>4
  <2>6. r >= 1 /\ r - 1 >= h + 1 - (k + 1)
    BY <1>0, <1>6, <1>9
  <2>7. CASE v = x
    <3>1. a \notin In(d, T)
      BY <2>1, <2>3, <2>7, NotIn
    <3>2. \A t \in T : ~d.written[t]
      <4> TAKE t \in T
      <4>1. CASE t = v
        BY <4>1 DEF Fault
      <4>2. CASE t = y
        BY <2>1, <2>5, <4>2 DEF Fault
      <4>3. CASE t # v /\ t # y
        <5>1. c.page[t] # a /\ c.page[t] # b
          BY <2>1, <2>3, <2>7, <4>3 DEF Unmixed
        <5>2. c.page[t] \in FirstPages
          BY <5>1, ShapeFacts DEF Window
        <5> QED
          BY <4>3, <5>2 DEF FirstClean, Fault
      <4> QED
        BY <4>1, <4>2, <4>3
    <3> QED
      BY <1>4, <1>7, <2>6, <3>1, <3>2 DEF Rank
  <2>8. CASE v # x
    <3>1. d.page[x] = a /\ d.page[y] = b /\ ~d.written[y]
      BY <2>1, <2>2, <2>5, <2>8 DEF Fault
    <3>2. d.age[x] = c.age[x] + 1 /\ d.age[y] = c.age[y] + 1
      BY <2>2, <2>5, <2>8 DEF Fault, Ages
    <3>3. d.age[y] < d.age[x]
      BY <1>0, <2>1, <2>2, <3>2
    <3>4. BehindA(d, T, a, b)
      BY <3>1, <3>3 DEF BehindA
    <3> QED
      BY <1>4, <1>7, <2>6, <3>4 DEF Rank
  <2> QED
    BY <2>7, <2>8
<1>10. m # h + 1
  BY <1>0, <1>6
<1>11. ~(\A t \in T : ~c.written[t])
  BY <1>1
<1>12. ~(PagesOf(i) \subseteq In(c, T))
  BY <1>0
<1> QED
  BY <1>5, <1>8, <1>9, <1>10, <1>11, <1>12

\* A page fault past the head: on a, it is b that goes; on b, the next page fault finds b
\* behind a, or nothing written.
LEMMA TailFault ==
  ASSUME NEW i \in Seq(Accesses), NEW h, NEW a, NEW b, Shape(i, h, a, b),
         NEW k \in 1 .. Len(i), k > h,
         NEW c \in Caches, NEW d \in Caches, Unmixed(c), FirstClean(c),
         NEW T \in SUBSET Slots, Window(c, i, k, T), T # Slots,
         NEW v \in T, Elected(c.age, c.written, v), Fault(c, d, v, i[k].page),
         NEW r \in Nat, Rank(c, i, h, a, b, T, r)
  PROVE  r >= 1 /\ Rank(d, i, h, a, b, T, r - 1)
<1> DEFINE p == i[k].page
<1>0. /\ h \in Nat /\ k \in Nat /\ p \notin In(c, T) /\ p \in PagesOf(i)
      /\ v \in Slots /\ a # b
      /\ \A t \in Slots : c.age[t] \in Nat
      /\ \A t \in T : c.page[t] # p /\ c.page[t] \in PagesOf(i) /\ c.page[t] # NoPage
  <2>1. \A q \in PagesOf(i) : q # NoPage
    <3>1. DOMAIN i = 1 .. Len(i)
      OBVIOUS
    <3> QED
      BY <3>1, AccessFacts DEF PagesOf
  <2> QED
    BY <2>1, ShapeFacts, AccessFacts, CacheFacts DEF Fault, In, Window
<1>1. PICK w \in T : /\ InSight(c.written, w) /\ c.written[w]
                     /\ c.age[w] <= c.age[v] /\ c.page[w] \in {a, b}
  BY FirstWrittenSlot
<1>2. \A j \in 1 .. h : j \in 1 .. k - 1
  BY <1>0
<1>3. p \notin FirstPages
  <2> SUFFICES ASSUME p \in FirstPages
               PROVE  FALSE
    OBVIOUS
  <2>1. PICK j \in 1 .. h : i[j].page = p
    BY <1>0, ShapeFacts
  <2> QED
    BY <1>0, <1>2, <2>1, AccessedIn
<1>4. HeadIn(c, i, h + 1, T)
  BY <1>0, <1>2, AccessedIn DEF HeadIn
<1>5. PICK m \in 1 .. h + 1 :
        /\ HeadIn(c, i, m, T)
        /\ \/ r >= (h + 1 - m) + (h + 2)
           \/ m = h + 1 /\ a \in In(c, T) /\ r >= h + 1
           \/ BehindA(c, T, a, b) /\ r >= h + 1 - m
           \/ a \notin In(c, T) /\ \A t \in T : ~c.written[t]
           \/ PagesOf(i) \subseteq In(c, T)
  BY DEF Rank
<1>6. \A t \in T : c.page[t] \in FirstPages => Accessed(c, i, k, t)
  BY <1>0, <1>2, ShapeFacts DEF Accessed
<1>7. ~BehindA(c, T, a, b)
  BY <1>0, <1>3, ShapeFacts DEF BehindA
<1>8. ~(\A t \in T : ~c.written[t]) /\ ~(PagesOf(i) \subseteq In(c, T))
  BY <1>0, <1>1
<1>9. r >= h + 1 /\ (a \notin In(c, T) => r >= h + 2)
  BY <1>0, <1>5, <1>7, <1>8
<1>10. 1 \in 1 .. h + 1 /\ HeadIn(d, i, 1, T)
  BY <1>0 DEF HeadIn
<1>11. CASE p = a
  <2>1. c.page[w] = b /\ a \notin In(c, T)
    BY <1>0, <1>1, <1>11
  <2>2. \A j \in 1 .. k - 1 : i[j].page # b
    <3> SUFFICES ASSUME NEW j \in 1 .. k - 1, i[j].page = b
                 PROVE  FALSE
      OBVIOUS
    <3>1. j \in 1 .. Len(i)
      BY <1>0
    <3>2. PICK l \in 1 .. j - 1 : i[l].page = a
      BY <3>1 DEF Shape
    <3>3. l \in 1 .. k - 1
      BY <1>0
    <3> QED
      BY <2>1, <3>2, <3>3, AccessedIn
  <2>3. ~Accessed(c, i, k, v)
    <3>1. ~Accessed(c, i, k, w)
      BY <2>1, <2>2 DEF Accessed
    <3> QED
      BY <1>0, <1>1, <3>1, AccessedIsSpared
  <2>4. c.page[v] = b
    BY <1>0, <1>6, <1>11, <2>3, ShapeFacts
  <2>5. HeadIn(d, i, h + 1, T)
    <3> SUFFICES ASSUME NEW j \in 1 .. (h + 1) - 1
                 PROVE  i[j].page \in In(d, T)
      BY DEF HeadIn
    <3>1. i[j].page \in In(c, T)
      BY <1>4 DEF HeadIn
    <3>2. i[j].page # b
      BY <1>0, <1>2, <2>2
    <3> QED
      BY <2>4, <3>1, <3>2, StillIn
  <2>6. a \in In(d, T)
    BY <1>11 DEF Fault, In
  <2>7. r >= 1 /\ r - 1 >= h + 1 /\ h + 1 \in 1 .. h + 1
    BY <1>0, <1>9, <2>1
  <2> QED
    BY <2>5, <2>6, <2>7 DEF Rank
<1>12. CASE p = b
  <2>1. PICK j \in 1 .. k - 1 : i[j].page = a
    BY <1>12 DEF Shape
  <2>2. PICK x \in T : c.page[x] = a
    BY <2>1, AccessedIn
  <2>3. c.page[w] = a
    BY <1>0, <1>1, <1>12
  <2>4. x = w
    BY <1>0, <2>2, <2>3 DEF Unmixed
  <2>5. CASE v = w
    <3>1. a \notin In(d, T)
      BY <1>0, <2>3, <2>5, NotIn
    <3>2. \A t \in T : ~d.written[t]
      <4> TAKE t \in T
      <4>1. CASE t = v
        BY <4>1 DEF Fault
      <4>2. CASE t # v
        <5>1. c.page[t] # a /\ c.page[t] # b
          BY <1>0, <1>12, <2>3, <2>5, <4>2 DEF Unmixed
        <5>2. c.page[t] \in FirstPages
          BY <1>0, <5>1, ShapeFacts
        <5> QED
          BY <4>2, <5>2 DEF FirstClean, Fault
      <4> QED
        BY <4>1, <4>2
    <3> QED
      BY <1>0, <1>9, <1>10, <3>1, <3>2 DEF Rank
  <2>6. CASE v # w
    <3>1. d.page[w] = a /\ d.age[w] = c.age[w] + 1
      BY <2>3, <2>6 DEF Fault, Ages
    <3>2. d.page[v] = b /\ ~d.written[v] /\ d.age[v] = 0
      BY <1>12 DEF Fault, Ages
    <3>3. d.age[v] < d.age[w]
      BY <1>0, <3>1, <3>2
    <3>4. BehindA(d, T, a, b)
      BY <3>1, <3>2, <3>3 DEF BehindA
    <3>5. r >= 1 /\ r - 1 >= h + 1 - 1
      BY <1>0, <1>9
    <3> QED
      BY <1>10, <3>4, <3>5 DEF Rank
  <2> QED
    BY <2>5, <2>6
<1> QED
  BY <1>0, <1>3, <1>11, <1>12, ShapeFacts
-----------------------------------------------------------------------------
(***************************************************************************)
(* Windows grow.                                                           *)
(***************************************************************************)

LEMMA SlotsFinite == IsFiniteSet(Slots) /\ Cardinality(Slots) = NSlots
<1>1. Cardinality(Slots) = IF 0 > NSlots - 1 THEN 0 ELSE NSlots - 1 - 0 + 1
  BY CacheAssumption, FS_Interval DEF Slots
<1>2. IsFiniteSet(Slots)
  BY CacheAssumption, FS_Interval DEF Slots
<1> QED
  BY <1>1, <1>2, CacheAssumption

\* The pages of a window: no more than there are slots, and as many as there are slots if
\* it has all of them.
LEMMA InFinite ==
  ASSUME NEW c \in Caches, NEW T \in SUBSET Slots
  PROVE  /\ IsFiniteSet(In(c, T))
         /\ Cardinality(In(c, T)) \in Nat
         /\ Cardinality(In(c, T)) <= NSlots
<1>1. IsFiniteSet(T) /\ Cardinality(T) <= NSlots /\ Cardinality(T) \in Nat
  BY SlotsFinite, FS_Subset, FS_CardinalityType
<1>2. IsFiniteSet(In(c, T)) /\ Cardinality(In(c, T)) <= Cardinality(T)
  <2> DEFINE f == [s \in T |-> c.page[s]]
  <2>1. f \in Surjection(T, In(c, T))
    BY DEF Surjection, In
  <2> QED
    BY <1>1, <2>1, FS_Surjection
<1>3. Cardinality(In(c, T)) \in Nat
  BY <1>2, FS_CardinalityType
<1> QED
  BY <1>1, <1>2, <1>3, CacheAssumption

LEMMA InAll ==
  ASSUME NEW c \in Caches, Unmixed(c), \A s \in Slots : c.page[s] # NoPage
  PROVE  Cardinality(In(c, Slots)) = NSlots
<1> DEFINE f == [s \in Slots |-> c.page[s]]
<1>1. f \in Bijection(Slots, In(c, Slots))
  BY DEF Bijection, Surjection, Injection, IsInjective, In, Unmixed
<1> QED
  BY <1>1, SlotsFinite, FS_Bijection DEF ExistsBijection

\* A window without one of the pages of the instruction leaves a slot out.
LEMMA SlotsLeft ==
  ASSUME NEW i \in Seq(Accesses), IsFiniteSet(PagesOf(i)), Cardinality(PagesOf(i)) <= NSlots,
         NEW k \in 1 .. Len(i), NEW c \in Caches, Unmixed(c),
         NEW T \in SUBSET Slots, \A t \in T : c.page[t] \in PagesOf(i) /\ c.page[t] # i[k].page
  PROVE  T # Slots
<1> SUFFICES ASSUME T = Slots
             PROVE  FALSE
  OBVIOUS
<1>1. \A s \in Slots : c.page[s] # NoPage
  <2>1. DOMAIN i = 1 .. Len(i)
    OBVIOUS
  <2> QED
    BY <2>1, AccessFacts DEF PagesOf
<1>2. Cardinality(In(c, T)) = NSlots
  BY <1>1, InAll
<1>3. In(c, T) \subseteq PagesOf(i) /\ i[k].page \notin In(c, T) /\ i[k].page \in PagesOf(i)
  BY AccessFacts DEF In
<1>4. In(c, T) # PagesOf(i)
  BY <1>3
<1>5. Cardinality(PagesOf(i)) \in Nat
  BY FS_CardinalityType
<1>6. Cardinality(In(c, T)) < Cardinality(PagesOf(i))
  <2>1. In(c, T) \in SUBSET PagesOf(i)
    BY <1>3
  <2>2. Cardinality(In(c, T)) <= Cardinality(PagesOf(i))
    BY <2>1, FS_Subset
  <2>3. Cardinality(In(c, T)) # Cardinality(PagesOf(i))
    BY <1>4, <2>1, FS_Subset
  <2> QED
    BY <1>5, <2>2, <2>3, InFinite
<1> QED
  BY <1>2, <1>5, <1>6, CacheAssumption

LEMMA PagesFinite ==
  ASSUME NEW i \in Seq(Accesses)
  PROVE  IsFiniteSet(PagesOf(i))
<1>1. DOMAIN i = 1 .. Len(i) /\ Len(i) \in Nat
  OBVIOUS
<1>2. IsFiniteSet(1 .. Len(i))
  BY <1>1, FS_Interval
<1> DEFINE f == [n \in 1 .. Len(i) |-> i[n].page]
<1>3. f \in Surjection(1 .. Len(i), PagesOf(i))
  BY <1>1 DEF Surjection, PagesOf
<1> QED
  BY <1>2, <1>3, FS_Surjection

(***************************************************************************)
(* What a window may still cost: its rank, and so much for each page that  *)
(* may join it.                                                            *)
(***************************************************************************)

Left(c, T, longestHead) == (NSlots - Cardinality(In(c, T))) * PerPage(longestHead)

\* Some window of the cache costs no more than n.
Affords(c, i, k, h, a, b, longestHead, n) ==
  \E T \in SUBSET Slots, r \in Nat :
    Window(c, i, k, T) /\ Rank(c, i, h, a, b, T, r) /\ n >= Left(c, T, longestHead) + r

LEMMA Distributes ==
  ASSUME NEW x \in Int, NEW y \in Int
  PROVE  (x + 1) * y = x * y + y /\ x * y \in Int
  OBVIOUS

LEMMA LeftFacts ==
  ASSUME NEW c \in Caches, NEW T \in SUBSET Slots, NEW longestHead \in Nat
  PROVE  Left(c, T, longestHead) \in Nat /\ PerPage(longestHead) \in Nat
<1>1. NSlots - Cardinality(In(c, T)) \in Nat
  BY InFinite, CacheAssumption
<1>2. PerPage(longestHead) \in Nat
  BY DEF PerPage
<1>3. \A x, y \in Nat : x * y \in Nat
  OBVIOUS
<1> QED
  BY <1>1, <1>2, <1>3 DEF Left

LEMMA LeftDrops ==
  ASSUME NEW c \in Caches, NEW d \in Caches, NEW T \in SUBSET Slots, NEW U \in SUBSET Slots,
         NEW p, p \notin In(c, T), In(d, U) = In(c, T) \cup {p}, NEW longestHead \in Nat
  PROVE  Left(c, T, longestHead) = Left(d, U, longestHead) + PerPage(longestHead)
<1> DEFINE q == Cardinality(In(c, T))
<1>1. q \in Nat /\ Cardinality(In(d, U)) = q + 1
  BY InFinite, FS_AddElement
<1>2. NSlots \in Nat /\ PerPage(longestHead) \in Int
  BY CacheAssumption DEF PerPage
<1> HIDE DEF q
<1> DEFINE x == NSlots - (q + 1)
<1>3. x \in Int /\ NSlots - q = x + 1
  BY <1>1, <1>2
<1>4. (x + 1) * PerPage(longestHead) = x * PerPage(longestHead) + PerPage(longestHead)
  BY <1>2, <1>3, Distributes
<1> QED
  BY <1>1, <1>3, <1>4 DEF Left, q

LEMMA LeftSame ==
  ASSUME NEW c \in Caches, NEW d \in Caches, NEW T \in SUBSET Slots, NEW v \in T,
         NEW i, NEW k, Window(c, i, k, T), i \in Seq(Accesses), Unmixed(c),
         NEW p, Fault(c, d, v, p), NEW longestHead
  PROVE  Left(d, T, longestHead) = Left(c, T, longestHead)
<1> DEFINE Q == In(c, T) \ {c.page[v]}
<1>1. c.page[v] \in In(c, T) /\ p \notin Q
  BY DEF In, Fault
<1>2. c.page[v] # NoPage
  <2>1. DOMAIN i = 1 .. Len(i)
    OBVIOUS
  <2> QED
    BY <2>1, AccessFacts DEF PagesOf, Window
<1>3. In(d, T) = Q \cup {p}
  <2>1. \A t \in T : t # v => d.page[t] = c.page[t] /\ c.page[t] # c.page[v]
    BY <1>2 DEF Fault, Unmixed
  <2>2. d.page[v] = p
    BY DEF Fault
  <2>3. \A q : q \in In(d, T) => q \in Q \cup {p}
    BY <2>1, <2>2 DEF In
  <2>4. \A q : q \in Q \cup {p} => q \in In(d, T)
    BY <2>1, <2>2 DEF In
  <2> QED
    BY <2>3, <2>4
<1>4. IsFiniteSet(In(c, T)) /\ Cardinality(In(c, T)) \in Nat
  BY InFinite
<1>5. IsFiniteSet(Q) /\ Cardinality(Q) = Cardinality(In(c, T)) - 1
  <2> DEFINE S == In(c, T)
             x == c.page[v]
  <2>1. IsFiniteSet(S) /\ x \in S
    BY <1>1, <1>4
  <2> HIDE DEF S, x
  <2>2. IsFiniteSet(S \ {x}) /\ Cardinality(S \ {x}) = Cardinality(S) - 1
    BY <2>1, FS_RemoveElement
  <2> QED
    BY <2>2 DEF S, x
<1>6. Cardinality(In(d, T)) = Cardinality(Q) + 1
  BY <1>1, <1>3, <1>5, FS_AddElement
<1>7. Cardinality(In(d, T)) = Cardinality(In(c, T))
  BY <1>4, <1>5, <1>6
<1> QED
  BY <1>7 DEF Left

LEMMA HitAffords ==
  ASSUME NEW longestHead \in Nat,
         NEW i \in Seq(Accesses), NEW h \in 0 .. longestHead, NEW a, NEW b, Shape(i, h, a, b),
         NEW k \in 1 .. Len(i), NEW c \in Caches, NEW d \in Caches, NEW s \in Slots,
         Hit(c, d, s, i[k].write), c.page[s] = i[k].page, Unmixed(c),
         NEW n \in Nat, Affords(c, i, k, h, a, b, longestHead, n)
  PROVE  Affords(d, i, k + 1, h, a, b, longestHead, n)
<1>1. PICK T \in SUBSET Slots, r \in Nat :
        Window(c, i, k, T) /\ Rank(c, i, h, a, b, T, r) /\ n >= Left(c, T, longestHead) + r
  BY DEF Affords
<1> DEFINE U == T \cup {s}
<1>2. U \in SUBSET Slots /\ Window(d, i, k + 1, U)
  BY <1>1, HitWindow
<1>3. In(d, U) = In(c, T) \cup {i[k].page}
  <2>1. In(d, T \cup {s}) = In(c, T) \cup {c.page[s]}
    BY DEF In, Hit
  <2> QED
    BY <2>1
<1> HIDE DEF U
<1>4. CASE s \in T
  <2>0. U = T
    BY <1>4 DEF U
  <2>1. Rank(d, i, h, a, b, T, r)
    BY <1>1, <1>4, HitRank
  <2>2. In(d, U) = In(c, T)
    BY <1>3, <1>4 DEF In
  <2>3. n >= Left(d, U, longestHead) + r
    BY <1>1, <2>2 DEF Left
  <2> QED
    BY <1>2, <2>0, <2>1, <2>3 DEF Affords
<1>5. CASE s \notin T
  <2>1. i[k].page \notin In(c, T)
    BY <1>5, AccessFacts DEF In, Unmixed
  <2>2. Left(c, T, longestHead) = Left(d, U, longestHead) + PerPage(longestHead)
    BY <1>2, <1>3, <2>1, LeftDrops
  <2>3. h \in Nat /\ Rank(d, i, h, a, b, U, 2 * h + 2)
    BY RankFull
  <2>4. n >= Left(d, U, longestHead) + (2 * h + 2)
    BY <1>1, <1>2, <2>2, LeftFacts DEF PerPage
  <2>5. 2 * h + 2 \in Nat
    BY <2>3
  <2> QED
    BY <1>2, <2>3, <2>4, <2>5 DEF Affords
<1> QED
  BY <1>4, <1>5

LEMMA FaultAffords ==
  ASSUME NEW longestHead \in Nat,
         NEW i \in Seq(Accesses), NEW h \in 0 .. longestHead, NEW a, NEW b, Shape(i, h, a, b),
         Cardinality(PagesOf(i)) <= NSlots,
         NEW k \in 1 .. Len(i), NEW c \in Caches, NEW d \in Caches, NEW v \in Slots,
         Elected(c.age, c.written, v), Fault(c, d, v, i[k].page), Unmixed(c), FirstClean(c),
         NEW n \in Nat, Affords(c, i, k, h, a, b, longestHead, n)
  PROVE  n >= 1 /\ Affords(d, i, 1, h, a, b, longestHead, n - 1)
<1>1. PICK T \in SUBSET Slots, r \in Nat :
        Window(c, i, k, T) /\ Rank(c, i, h, a, b, T, r) /\ n >= Left(c, T, longestHead) + r
  BY DEF Affords
<1> DEFINE U == T \cup {v}
<1>2. U \in SUBSET Slots /\ Window(d, i, 1, U)
  <2>1. Younger(c, T) /\ \A t \in T : c.page[t] \in PagesOf(i)
    BY <1>1 DEF Window
  <2> QED
    BY <2>1, FaultWindow
<1> HIDE DEF U
<1>4. CASE v \in T
  <2>1. T # Slots
    <3>1. \A t \in T : c.page[t] \in PagesOf(i) /\ c.page[t] # i[k].page
      BY <1>1 DEF Window, Fault
    <3> QED
      BY <3>1, SlotsLeft, PagesFinite
  <2>2. r >= 1 /\ Rank(d, i, h, a, b, T, r - 1)
    <3>1. CASE k <= h
      BY <1>1, <1>4, <2>1, <3>1, HeadFault
    <3>2. CASE k > h
      BY <1>1, <1>4, <2>1, <3>2, TailFault
    <3> QED
      BY <3>1, <3>2, AccessFacts
  <2>3. U = T
    BY <1>4 DEF U
  <2>4. Left(d, T, longestHead) = Left(c, T, longestHead)
    BY <1>1, <1>4, LeftSame
  <2>5. n >= 1 /\ r - 1 \in Nat /\ n - 1 >= Left(d, T, longestHead) + (r - 1)
    BY <1>1, <2>2, <2>4, LeftFacts
  <2> QED
    BY <1>2, <2>2, <2>3, <2>5 DEF Affords
<1>5. CASE v \notin T
  <2>1. In(d, U) = In(c, T) \cup {i[k].page} /\ i[k].page \notin In(c, T)
    BY <1>5, FaultIn DEF U
  <2>2. Left(c, T, longestHead) = Left(d, U, longestHead) + PerPage(longestHead)
    BY <1>2, <2>1, LeftDrops
  <2>3. h \in Nat /\ Rank(d, i, h, a, b, U, 2 * h + 2) /\ 2 * h + 2 \in Nat
    BY RankFull
  <2>4. n >= 1 /\ n - 1 >= Left(d, U, longestHead) + (2 * h + 2)
    <3>1. Left(d, U, longestHead) \in Nat
      BY <1>2, LeftFacts
    <3> QED
      BY <1>1, <2>2, <3>1 DEF PerPage
  <2> QED
    BY <1>2, <2>3, <2>4 DEF Affords
<1> QED
  BY <1>4, <1>5

\* A window that begins with the page just fetched.
LEMMA FreshAffords ==
  ASSUME NEW longestHead \in Nat,
         NEW i \in Seq(Accesses), NEW h \in 0 .. longestHead, NEW a, NEW b,
         NEW k \in 1 .. Len(i), NEW c \in Caches, NEW d \in Caches, NEW v \in Slots,
         Fault(c, d, v, i[k].page)
  PROVE  Affords(d, i, 1, h, a, b, longestHead, PerWindow(longestHead) - 1)
<1> DEFINE U == {} \cup {v}
<1>1. Younger(c, {}) /\ {} \in SUBSET Slots
  BY DEF Younger
<1>2. U \in SUBSET Slots /\ Window(d, i, 1, U)
  BY <1>1, FaultWindow
<1>3. In(d, U) = In(c, {}) \cup {i[k].page} /\ i[k].page \notin In(c, {})
  BY <1>1, FaultIn
<1>4. Left(c, {}, longestHead) = Left(d, U, longestHead) + PerPage(longestHead)
  BY <1>1, <1>2, <1>3, LeftDrops
<1>5. Left(c, {}, longestHead) = PerWindow(longestHead)
  <2>1. In(c, {}) = {}
    BY DEF In
  <2>2. Cardinality(In(c, {})) = 0
    BY <2>1, FS_EmptySet
  <2> QED
    BY <2>2, CacheAssumption DEF Left, PerWindow
<1>6. h \in Nat /\ Rank(d, i, h, a, b, U, 2 * h + 2) /\ 2 * h + 2 \in Nat
  BY RankFull
<1>7. PerWindow(longestHead) - 1 >= Left(d, U, longestHead) + (2 * h + 2)
  <2>1. Left(d, U, longestHead) \in Nat
    BY <1>2, LeftFacts
  <2> QED
    BY <1>4, <1>5, <2>1 DEF PerPage
<1> QED
  BY <1>2, <1>6, <1>7 DEF Affords
-----------------------------------------------------------------------------
(***************************************************************************)
(* The inductive invariant.                                                *)
(***************************************************************************)

\* More than the accesses so far.
Clock(longest) == faults * longest + at - 1

\* The slots whose age may still wrap: they were not accessed since the instruction began.
OldSlots(ages, clock) == {s \in Slots : ages[s] >= clock}
Old(longest) == OldSlots(age, Clock(longest))

\* What is left of the bound for this window.
SpareFor(longestHead, past, old, n) ==
  past + old * (PerWindow(longestHead) + 1) + n <= FaultBound(longestHead)

LoopTypeOK ==
  /\ CacheTypeOK
  /\ ins \in Instructions
  /\ at \in 1 .. Len(ins) + 1
  /\ waiting \in Pages \cup {NoPage}
  /\ waiting # NoPage => at <= Len(ins)
  /\ faults \in Nat
  /\ firstWritten \in BOOLEAN

\* No page is in two slots, and no first page is written.
CacheOK == Unmixed(Cache) /\ FirstClean(Cache)

\* The faults that were, those that ages wrapping may still cause, and those that the
\* window may cost are no more than the bound.
BoundOK(longestHead, longest) ==
  \E h \in 0 .. longestHead, a, b \in Pages \cup {NoPage}, n \in Nat :
    /\ Shape(ins, h, a, b)
    /\ SpareFor(longestHead, faults, Cardinality(Old(longest)), n)
    /\ n >= PerWindow(longestHead) \/ Affords(Cache, ins, at, h, a, b, longestHead, n)

LoopInv(longestHead, longest) ==
  LoopTypeOK /\ (~firstWritten => CacheOK /\ BoundOK(longestHead, longest))

LEMMA BoundFacts ==
  ASSUME NEW longestHead \in Nat
  PROVE  /\ PerWindow(longestHead) \in Nat /\ PerWindow(longestHead) >= 1
         /\ FaultBound(longestHead) \in Nat
<1>1. PerPage(longestHead) \in Nat /\ PerPage(longestHead) >= 1
  BY DEF PerPage
<1>2. NSlots \in Nat /\ NSlots >= 1
  BY CacheAssumption
<1>3. \A x, y \in Nat : x * y \in Nat /\ (x >= 1 /\ y >= 1 => x * y >= 1)
  OBVIOUS
<1> QED
  BY <1>1, <1>2, <1>3 DEF PerWindow, FaultBound

LEMMA Products ==
  ASSUME NEW x \in Nat, NEW y \in Nat, NEW k \in Nat
  PROVE  /\ x <= y => x * k <= y * k
         /\ x < y => x * k + k <= y * k
         /\ x * k \in Nat
<1>1. \A u, v \in Nat : u * v \in Nat
  OBVIOUS
<1>2. CASE x <= y
  <2> DEFINE z == y - x
  <2>1. z \in Nat /\ y = x + z
    BY <1>2
  <2> HIDE DEF z
  <2>2. y * k = x * k + z * k
    BY <2>1
  <2>3. z * k >= 0 /\ (z >= 1 => z * k >= k)
    <3>1. CASE z = 0
      BY <3>1
    <3>2. CASE z >= 1
      <4>1. z - 1 \in Nat /\ (z - 1) * k \in Nat
        BY <1>1, <2>1, <3>2
      <4>2. z * k = (z - 1) * k + k
        BY <2>1
      <4> QED
        BY <4>1, <4>2
    <3> QED
      BY <2>1, <3>1, <3>2
  <2> QED
    BY <1>1, <2>1, <2>2, <2>3
<1> QED
  BY <1>1, <1>2

\* One access later: no slot gets old, and one that loses its age was old.
LEMMA OldStill ==
  ASSUME NEW ages \in [Slots -> Nat], NEW later \in [Slots -> Nat],
         NEW x \in Nat, NEW y \in Nat, x < y,
         \A s \in Slots : later[s] = 0 \/ later[s] = ages[s] + 1
  PROVE  /\ Cardinality(OldSlots(later, y)) \in Nat /\ Cardinality(OldSlots(ages, x)) \in Nat
         /\ Cardinality(OldSlots(later, y)) <= Cardinality(OldSlots(ages, x))
         /\ (\E s \in Slots : ages[s] >= x /\ later[s] = 0)
              => Cardinality(OldSlots(later, y)) < Cardinality(OldSlots(ages, x))
<1> DEFINE A == OldSlots(ages, x)
           B == OldSlots(later, y)
<1>1. A \in SUBSET Slots /\ B \in SUBSET Slots
  BY DEF OldSlots
<1>2. IsFiniteSet(A) /\ IsFiniteSet(B)
  BY <1>1, SlotsFinite, FS_Subset
<1>3. Cardinality(A) \in Nat /\ Cardinality(B) \in Nat
  BY <1>2, FS_CardinalityType
<1>4. B \subseteq A
  <2> SUFFICES ASSUME NEW s \in Slots, later[s] >= y
               PROVE  ages[s] >= x
    BY DEF OldSlots
  <2>1. ages[s] \in Nat /\ (later[s] = 0 \/ later[s] = ages[s] + 1)
    OBVIOUS
  <2> QED
    BY <2>1
<1>5. Cardinality(B) <= Cardinality(A) /\ (Cardinality(A) = Cardinality(B) => A = B)
  BY <1>2, <1>4, FS_Subset
<1>6. (\E s \in Slots : ages[s] >= x /\ later[s] = 0) => A # B
  BY DEF OldSlots
<1> QED
  BY <1>3, <1>5, <1>6

\* The ages after an access to slot s.
LEMMA NextAges ==
  ASSUME NEW ages \in [Slots -> 0 .. AgeMod - 1], NEW s \in Slots
  PROVE  LET aged == [t \in Slots |-> (ages[t] + 1) % AgeMod]
             later == [aged EXCEPT ![s] = 0]
         IN /\ later \in [Slots -> 0 .. AgeMod - 1]
            /\ later[s] = 0
            /\ \A t \in Slots : later[t] = 0 \/ later[t] = ages[t] + 1
            /\ \A t \in Slots : ages[t] = AgeMod - 1 => later[t] = 0
            /\ \A t \in Slots : t # s /\ ages[t] < AgeMod - 1 => later[t] = ages[t] + 1
            /\ \A t \in Slots : ages[t] < AgeMod - 1 => aged[t] = ages[t] + 1
            /\ aged \in [Slots -> 0 .. AgeMod - 1]
<1>1. \A n \in 0 .. AgeMod - 1 :
        /\ n < AgeMod - 1 => (n + 1) % AgeMod = n + 1
        /\ n = AgeMod - 1 => (n + 1) % AgeMod = 0
        /\ (n + 1) % AgeMod \in 0 .. AgeMod - 1
  BY CacheAssumption
<1>2. \A t \in Slots : ages[t] \in 0 .. AgeMod - 1
  OBVIOUS
<1>3. AgeMod \in Nat /\ AgeMod >= 2
  BY CacheAssumption
<1>4. \A n \in 0 .. AgeMod - 1 : n < AgeMod - 1 \/ n = AgeMod - 1
  BY <1>3
<1>5. 0 \in 0 .. AgeMod - 1
  BY <1>3
<1> QED
  BY <1>1, <1>2, <1>4, <1>5

\* What an access costs: nothing, unless an age wraps, or the slot elected is the oldest
\* there can be.
LEMMA Pays ==
  ASSUME NEW longestHead \in Nat, NEW past \in Nat, NEW old \in Nat, NEW left \in Nat,
         NEW n \in Nat, SpareFor(longestHead, past, old, n)
  PROVE  /\ left <= old => SpareFor(longestHead, past, left, n)
         /\ left < old => SpareFor(longestHead, past, left, PerWindow(longestHead))
         /\ left < old => SpareFor(longestHead, past + 1, left, PerWindow(longestHead))
         /\ \A q \in Nat : left <= old /\ q < n => SpareFor(longestHead, past + 1, left, q)
         /\ past <= FaultBound(longestHead)
<1> DEFINE K == PerWindow(longestHead) + 1
<1>1. K \in Nat /\ FaultBound(longestHead) \in Nat /\ PerWindow(longestHead) \in Nat
  BY BoundFacts
<1>2. /\ left <= old => left * K <= old * K
      /\ left < old => left * K + K <= old * K
      /\ left * K \in Nat /\ old * K \in Nat
  BY <1>1, Products
<1>3. past + old * K + n <= FaultBound(longestHead)
  BY DEF SpareFor
<1> HIDE DEF K
<1>4. K = PerWindow(longestHead) + 1
  BY DEF K
<1>5. \A f, o, q : SpareFor(longestHead, f, o, q) <=> f + o * K + q <= FaultBound(longestHead)
  BY <1>4 DEF SpareFor
<1> QED
  BY <1>1, <1>2, <1>3, <1>4, <1>5
-----------------------------------------------------------------------------
(***************************************************************************)
(* The steps.                                                              *)
(***************************************************************************)

\* Fewer faults are expected than are counted, and fewer accesses than it takes an age to
\* wrap.
RoomEnough(longestHead, longest) ==
  /\ MaxFaults \in Nat /\ MaxFaults >= FaultBound(longestHead)
  /\ AgeMod > (FaultBound(longestHead) + 1) * longest + 1

StartAgesOK == StartAges \subseteq [Slots -> 0 .. AgeMod - 1]

LEMMA InstructionFacts ==
  ASSUME NEW longestHead \in Nat, NEW longest \in Nat,
         InstructionsOK(longestHead, longest), ins \in Instructions
  PROVE  /\ ins \in Seq(Accesses) /\ Len(ins) \in Nat /\ Len(ins) <= longest
         /\ Cardinality(PagesOf(ins)) <= NSlots
         /\ \E h \in 0 .. longestHead, a, b \in Pages \cup {NoPage} : Shape(ins, h, a, b)
         /\ PagesOf(ins) \subseteq Pages
<1>1. ins \in Seq(Accesses) /\ Len(ins) <= longest
  BY DEF InstructionsOK
<1>2. DOMAIN ins = 1 .. Len(ins) /\ Len(ins) \in Nat
  BY <1>1
<1>3. PagesOf(ins) \subseteq Pages
  BY <1>1, <1>2, AccessFacts DEF PagesOf
<1> QED
  BY <1>1, <1>2, <1>3 DEF InstructionsOK

LEMMA LoopInit ==
  ASSUME NEW longestHead \in Nat, NEW longest \in Nat,
         InstructionsOK(longestHead, longest), StartAgesOK, Init
  PROVE  LoopInv(longestHead, longest)
<1>1. /\ ins \in Instructions /\ at = 1 /\ waiting = NoPage /\ faults = 0 /\ slot = 0
      /\ age \in [Slots -> 0 .. AgeMod - 1] /\ dirty \in [Slots -> BOOLEAN]
      /\ tag \in [Slots -> PagesOf(ins) \cup {NoPage}]
  BY DEF Init, StartAgesOK
<1>2. PICK h \in 0 .. longestHead, a \in Pages \cup {NoPage}, b \in Pages \cup {NoPage} :
        Shape(ins, h, a, b)
  BY <1>1, InstructionFacts
<1>3. tag \in [Slots -> Pages \cup {NoPage}] /\ 0 \in Slots
  BY <1>1, InstructionFacts, CacheAssumption DEF Slots
<1>4. LoopTypeOK
  BY <1>1, <1>3, InstructionFacts DEF LoopTypeOK, CacheTypeOK, Init
<1>5. CASE ~firstWritten
  <2>1. CacheOK
    BY <1>1, <1>5 DEF CacheOK, Unmixed, FirstClean, Cache, Init
  <2>2. Cardinality(Old(longest)) \in Nat /\ Cardinality(Old(longest)) <= NSlots
    BY SlotsFinite, FS_Subset, FS_CardinalityType DEF Old, OldSlots
  <2>3. SpareFor(longestHead, faults, Cardinality(Old(longest)), PerWindow(longestHead))
    <3> DEFINE K == PerWindow(longestHead) + 1
    <3>1. PerWindow(longestHead) \in Nat /\ NSlots \in Nat /\ K \in Nat
      BY BoundFacts, CacheAssumption
    <3>2. /\ Cardinality(Old(longest)) * K <= NSlots * K
          /\ Cardinality(Old(longest)) * K \in Nat /\ NSlots * K \in Nat
      BY <2>2, <3>1, Products
    <3> QED
      BY <1>1, <3>1, <3>2 DEF SpareFor, FaultBound
  <2>4. BoundOK(longestHead, longest)
    BY <1>2, <2>3, BoundFacts DEF BoundOK
  <2> QED
    BY <1>4, <2>1, <2>4 DEF LoopInv
<1> QED
  BY <1>4, <1>5 DEF LoopInv

\* The clock goes on, and is far from wrapping.
LEMMA Clocks ==
  ASSUME NEW longestHead \in Nat, NEW longest \in Nat, RoomEnough(longestHead, longest),
         NEW k \in Nat, k >= 1, k <= longest,
         NEW past \in Nat, past <= FaultBound(longestHead)
  PROVE  LET x == past * longest + k - 1
             y == past * longest + (k + 1) - 1
             z == (past + 1) * longest + 1 - 1
         IN x \in Nat /\ y \in Nat /\ z \in Nat /\ x < y /\ x < z /\ x <= AgeMod - 2
<1> DEFINE m == past * longest
<1>1. m \in Nat /\ m <= FaultBound(longestHead) * longest
  BY BoundFacts, Products
<1>2. (past + 1) * longest = m + longest
  BY Distributes
<1>3. /\ (FaultBound(longestHead) + 1) * longest = FaultBound(longestHead) * longest + longest
      /\ FaultBound(longestHead) * longest \in Int
  BY BoundFacts, Distributes
<1> HIDE DEF m
<1>4. m + k - 1 \in Nat /\ m + (k + 1) - 1 \in Nat
  BY <1>1
<1>5. m + longest + 1 - 1 \in Nat /\ m + k - 1 < m + longest + 1 - 1
  BY <1>1
<1>6. m + k - 1 <= AgeMod - 2
  <2>1. AgeMod \in Nat
    BY CacheAssumption
  <2> QED
    BY <1>1, <1>3, <2>1 DEF RoomEnough
<1> QED
  BY <1>1, <1>2, <1>4, <1>5, <1>6 DEF m

LEMMA CacheIn ==
  ASSUME LoopTypeOK
  PROVE  Cache \in Caches
  BY DEF LoopTypeOK, CacheTypeOK, Cache, Caches

LEMMA TouchStep ==
  ASSUME NEW longestHead \in Nat, NEW longest \in Nat,
         InstructionsOK(longestHead, longest), RoomEnough(longestHead, longest),
         LoopInv(longestHead, longest), Touch
  PROVE  LoopInv(longestHead, longest)'
<1>1. /\ at \in 1 .. Len(ins) /\ waiting = NoPage /\ waiting' = NoPage
      /\ at' = at + 1 /\ ins' = ins /\ faults' = faults /\ firstWritten' = firstWritten
      /\ tag' = tag /\ slot' = slot
  BY DEF LoopInv, LoopTypeOK, Touch, Ended, CacheHit
<1>2. PICK s \in Slots : CacheHit(s, ins[at].page, ins[at].write)
  BY DEF Touch
<1>3. /\ LoopTypeOK /\ ins \in Seq(Accesses) /\ Len(ins) \in Nat /\ Len(ins) <= longest
  BY InstructionFacts DEF LoopInv, LoopTypeOK
<1>4. /\ age' \in [Slots -> 0 .. AgeMod - 1] /\ age'[s] = 0
      /\ \A t \in Slots : age'[t] = 0 \/ age'[t] = age[t] + 1
      /\ \A t \in Slots : age[t] = AgeMod - 1 => age'[t] = 0
      /\ \A t \in Slots : t # s /\ age[t] < AgeMod - 1 => age'[t] = age[t] + 1
  <2>1. age \in [Slots -> 0 .. AgeMod - 1] /\ age' = [Aged EXCEPT ![s] = 0]
    BY <1>2, <1>3 DEF LoopTypeOK, CacheTypeOK, CacheHit
  <2> QED
    BY <2>1, NextAges DEF Aged
<1>5. /\ tag[s] = ins[at].page /\ dirty \in [Slots -> BOOLEAN]
      /\ dirty' = [dirty EXCEPT ![s] = dirty[s] \/ ins[at].write]
  BY <1>2, <1>3 DEF LoopTypeOK, CacheTypeOK, CacheHit, Matches
<1>6. LoopTypeOK'
  <2>1. dirty' \in [Slots -> BOOLEAN]
    BY <1>5
  <2>2. at' \in 1 .. Len(ins') + 1
    BY <1>1, <1>3
  <2> QED
    BY <1>1, <1>3, <1>4, <2>1, <2>2 DEF LoopTypeOK, CacheTypeOK
<1>7. ASSUME ~firstWritten
      PROVE  CacheOK' /\ BoundOK(longestHead, longest)'
  <2>1. CacheOK /\ BoundOK(longestHead, longest)
    BY <1>7 DEF LoopInv
  <2>2. PICK h \in 0 .. longestHead, a \in Pages \cup {NoPage}, b \in Pages \cup {NoPage},
             n \in Nat :
          /\ Shape(ins, h, a, b)
          /\ SpareFor(longestHead, faults, Cardinality(Old(longest)), n)
          /\ n >= PerWindow(longestHead) \/ Affords(Cache, ins, at, h, a, b, longestHead, n)
    BY <2>1 DEF BoundOK
  <2>3. /\ Cache.page = tag /\ Cache.written = dirty /\ Cache.age = age
        /\ Cache'.page = tag /\ Cache'.written = dirty' /\ Cache'.age = age'
    BY <1>1 DEF Cache
  <2>4. Cache \in Caches /\ Cache' \in Caches
    <3>1. Cache \in Caches
      BY <1>3, CacheIn
    <3>2. Cache' \in Caches
      BY <1>1, <1>6 DEF Cache, Caches, LoopTypeOK, CacheTypeOK
    <3> QED
      BY <3>1, <3>2
  <2>5. CacheOK'
    <3>1. Unmixed(Cache)'
      BY <2>1, <2>3 DEF CacheOK, Unmixed
    <3>2. FirstClean(Cache)'
      <4>1. ins[at].page \in FirstPages => ~ins[at].write
        BY <1>1, <2>2 DEF Shape
      <4> QED
        BY <1>5, <2>1, <2>3, <4>1 DEF CacheOK, FirstClean
    <3> QED
      BY <3>1, <3>2 DEF CacheOK
  <2>6. PICK x, y : /\ x = Clock(longest) /\ y = Clock(longest)'
                    /\ x \in Nat /\ y \in Nat /\ x < y /\ x <= AgeMod - 2
    <3>1. at \in Nat /\ at >= 1 /\ at <= longest /\ faults \in Nat
      BY <1>1, <1>3 DEF LoopTypeOK
    <3>2. faults <= FaultBound(longestHead)
      <4>1. Cardinality(Old(longest)) \in Nat
        BY SlotsFinite, FS_Subset, FS_CardinalityType DEF Old, OldSlots
      <4> QED
        BY <2>2, <3>1, <4>1, Pays
    <3> QED
      BY <1>1, <3>1, <3>2, Clocks DEF Clock
  <2> DEFINE o == Cardinality(OldSlots(age, x))
             l == Cardinality(OldSlots(age', y))
  <2>7. Cardinality(Old(longest)) = o /\ Cardinality(Old(longest))' = l
    BY <2>6 DEF Old
  <2>8. /\ o \in Nat /\ l \in Nat /\ l <= o
        /\ (\E t \in Slots : age[t] = AgeMod - 1) => l < o
    <3>1. age \in [Slots -> Nat] /\ age' \in [Slots -> Nat] /\ AgeMod \in Nat
      BY <1>3, <1>4, CacheAssumption DEF LoopTypeOK, CacheTypeOK
    <3>2. \A t \in Slots : age[t] = AgeMod - 1 => age[t] >= x /\ age'[t] = 0
      BY <1>4, <2>6, <3>1
    <3> QED
      BY <1>4, <2>6, <3>1, <3>2, OldStill
  <2> HIDE DEF o, l
  <2>9. faults \in Nat
    BY <1>3 DEF LoopTypeOK
  <2>10. CASE \E t \in Slots : age[t] = AgeMod - 1
    <3>1. SpareFor(longestHead, faults, l, PerWindow(longestHead))
      BY <2>2, <2>7, <2>8, <2>9, <2>10, Pays
    <3>2. PICK w \in Nat : w = PerWindow(longestHead)
      BY BoundFacts
    <3>3. SpareFor(longestHead, faults, l, w) /\ w >= PerWindow(longestHead)
      BY <3>1, <3>2
    <3> QED
      BY <1>1, <2>2, <2>5, <2>7, <3>3 DEF BoundOK
  <2>11. CASE ~\E t \in Slots : age[t] = AgeMod - 1
    <3>1. SpareFor(longestHead, faults, l, n)
      BY <2>2, <2>7, <2>8, <2>9, Pays
    <3>2. Hit(Cache, Cache', s, ins[at].write)
      <4>1. \A t \in Slots : t # s => age'[t] = age[t] + 1
        <5>1. \A t \in Slots : age[t] < AgeMod - 1
          BY <1>3, <2>11, CacheAssumption DEF LoopTypeOK, CacheTypeOK
        <5> QED
          BY <1>4, <5>1
      <4> QED
        BY <1>4, <1>5, <2>3, <4>1 DEF Hit, Ages
    <3>3. Affords(Cache, ins, at, h, a, b, longestHead, n)
            => Affords(Cache', ins, at + 1, h, a, b, longestHead, n)
      <4>1. Unmixed(Cache) /\ Cache.page[s] = ins[at].page
        BY <1>5, <2>1, <2>3 DEF CacheOK
      <4> QED
        BY <1>1, <1>3, <2>2, <2>4, <3>2, <4>1, HitAffords
    <3> QED
      BY <1>1, <2>2, <2>5, <2>7, <3>1, <3>3 DEF BoundOK
  <2> QED
    BY <2>10, <2>11
<1> QED
  BY <1>1, <1>6, <1>7 DEF LoopInv

LEMMA RestartStep ==
  ASSUME NEW longestHead \in Nat, NEW longest \in Nat,
         InstructionsOK(longestHead, longest), RoomEnough(longestHead, longest),
         LoopInv(longestHead, longest), Restart
  PROVE  LoopInv(longestHead, longest)'
<1> DEFINE p == ins[at].page
<1>1. /\ at \in 1 .. Len(ins) /\ waiting = NoPage /\ waiting' = p
      /\ at' = 1 /\ ins' = ins /\ firstWritten' = firstWritten
      /\ tag' = tag /\ dirty' = dirty
  BY DEF LoopInv, LoopTypeOK, Restart, Ended, CacheMiss
<1>2. PICK v \in Slots : CacheMiss(v, p)
  BY DEF Restart
<1>3. /\ LoopTypeOK /\ ins \in Seq(Accesses) /\ Len(ins) \in Nat /\ Len(ins) <= longest
      /\ Cardinality(PagesOf(ins)) <= NSlots
  BY InstructionFacts DEF LoopInv, LoopTypeOK
<1>4. /\ age' \in [Slots -> 0 .. AgeMod - 1] /\ age'[v] = 0
      /\ \A t \in Slots : age'[t] = 0 \/ age'[t] = age[t] + 1
      /\ \A t \in Slots : age[t] = AgeMod - 1 => age'[t] = 0
      /\ \A t \in Slots : t # v /\ age[t] < AgeMod - 1 => age'[t] = age[t] + 1
      /\ \A t \in Slots : age[t] < AgeMod - 1 => Aged[t] = age[t] + 1
      /\ Aged \in [Slots -> 0 .. AgeMod - 1]
  <2>1. age \in [Slots -> 0 .. AgeMod - 1] /\ age' = [Aged EXCEPT ![v] = 0]
    BY <1>2, <1>3 DEF LoopTypeOK, CacheTypeOK, CacheMiss
  <2> QED
    BY <2>1, NextAges DEF Aged
<1>5. /\ slot' = v /\ IsVictim(Aged, v) /\ \A t \in Slots : tag[t] # p
  BY <1>2 DEF CacheMiss, Resident
<1>6. p \in Pages /\ p # NoPage /\ ins \in Instructions /\ faults \in Nat
  BY <1>1, <1>3, AccessFacts DEF LoopTypeOK
<1>7. faults' \in Nat /\ (faults <= MaxFaults => faults' = faults + 1)
  BY <1>6, CacheAssumption DEF Restart, RoomEnough
<1>8. LoopTypeOK'
  <2>1. at' \in 1 .. Len(ins') + 1 /\ at' <= Len(ins')
    BY <1>1, <1>3
  <2> QED
    BY <1>1, <1>3, <1>4, <1>5, <1>6, <1>7, <2>1 DEF LoopTypeOK, CacheTypeOK
<1> HIDE DEF p
<1>9. ASSUME ~firstWritten
      PROVE  CacheOK' /\ BoundOK(longestHead, longest)'
  <2>1. CacheOK /\ BoundOK(longestHead, longest)
    BY <1>9 DEF LoopInv
  <2>2. PICK h \in 0 .. longestHead, a \in Pages \cup {NoPage}, b \in Pages \cup {NoPage},
             n \in Nat :
          /\ Shape(ins, h, a, b)
          /\ SpareFor(longestHead, faults, Cardinality(Old(longest)), n)
          /\ n >= PerWindow(longestHead) \/ Affords(Cache, ins, at, h, a, b, longestHead, n)
    BY <2>1 DEF BoundOK
  <2>3. /\ Cache.page = tag /\ Cache.written = dirty /\ Cache.age = age
        /\ Cache'.page = [tag EXCEPT ![v] = p] /\ Cache'.written = [dirty EXCEPT ![v] = FALSE]
        /\ Cache'.age = age'
    BY <1>1, <1>5, <1>6 DEF Cache
  <2>4. Cache \in Caches /\ Cache' \in Caches
    <3>1. Cache \in Caches
      BY <1>3, CacheIn
    <3>2. Cache' \in Caches
      BY <1>8 DEF Cache, Caches, LoopTypeOK, CacheTypeOK
    <3> QED
      BY <3>1, <3>2
  <2>5. CacheOK'
    <3>1. tag \in [Slots -> Pages \cup {NoPage}] /\ dirty \in [Slots -> BOOLEAN]
      BY <1>3 DEF LoopTypeOK, CacheTypeOK
    <3>2. Unmixed(Cache)'
      BY <1>5, <2>1, <2>3, <3>1 DEF CacheOK, Unmixed
    <3>3. FirstClean(Cache)'
      BY <2>1, <2>3, <3>1 DEF CacheOK, FirstClean
    <3> QED
      BY <3>2, <3>3 DEF CacheOK
  <2>6. faults <= FaultBound(longestHead)
    <3>1. Cardinality(Old(longest)) \in Nat
      BY SlotsFinite, FS_Subset, FS_CardinalityType DEF Old, OldSlots
    <3> QED
      BY <1>6, <2>2, <3>1, Pays
  <2>7. faults' = faults + 1
    BY <1>6, <1>7, <2>6, BoundFacts DEF RoomEnough
  <2>8. PICK x, y : /\ x = Clock(longest) /\ y = Clock(longest)'
                    /\ x \in Nat /\ y \in Nat /\ x < y /\ x <= AgeMod - 2
    <3>1. at \in Nat /\ at >= 1 /\ at <= longest
      BY <1>1, <1>3
    <3> QED
      BY <1>1, <1>6, <2>6, <2>7, <3>1, Clocks DEF Clock
  <2> DEFINE o == Cardinality(OldSlots(age, x))
             l == Cardinality(OldSlots(age', y))
             Event == (\E t \in Slots : age[t] = AgeMod - 1) \/ age[v] = AgeMod - 2
  <2>9. Cardinality(Old(longest)) = o /\ Cardinality(Old(longest))' = l
    BY <2>8 DEF Old
  <2>10. /\ o \in Nat /\ l \in Nat /\ l <= o
         /\ Event => l < o
    <3>1. age \in [Slots -> Nat] /\ age' \in [Slots -> Nat] /\ AgeMod \in Nat
      BY <1>3, <1>4, CacheAssumption DEF LoopTypeOK, CacheTypeOK
    <3>2. \A t \in Slots : age[t] = AgeMod - 1 => age[t] >= x /\ age'[t] = 0
      BY <1>4, <2>8, <3>1
    <3>3. age[v] = AgeMod - 2 => age[v] >= x /\ age'[v] = 0
      BY <1>4, <2>8, <3>1
    <3> QED
      BY <1>4, <2>8, <3>1, <3>2, <3>3, OldStill
  <2> HIDE DEF o, l
  <2>11. CASE Event
    <3>1. SpareFor(longestHead, faults + 1, l, PerWindow(longestHead))
      BY <1>6, <2>2, <2>9, <2>10, <2>11, Pays
    <3>2. PICK w \in Nat : w = PerWindow(longestHead)
      BY BoundFacts
    <3>3. SpareFor(longestHead, faults', l, w) /\ w >= PerWindow(longestHead)
      BY <2>7, <3>1, <3>2
    <3> QED
      BY <1>1, <2>2, <2>5, <2>9, <3>3 DEF BoundOK
  <2>12. CASE ~Event
    <3>1. \A t \in Slots : age[t] \in Nat /\ age[t] < AgeMod - 1 /\ Aged[t] = age[t] + 1
      <4>1. age \in [Slots -> 0 .. AgeMod - 1] /\ AgeMod \in Nat
        BY <1>3, CacheAssumption DEF LoopTypeOK, CacheTypeOK
      <4>2. \A t \in Slots : age[t] # AgeMod - 1
        BY <2>12
      <4>3. \A t \in Slots : age[t] \in Nat /\ age[t] < AgeMod - 1
        BY <4>1, <4>2
      <4> QED
        BY <1>4, <4>3
    <3>2. Fault(Cache, Cache', v, p)
      <4>1. \A t \in Slots : t # v => age'[t] = age[t] + 1
        BY <1>4, <3>1
      <4>2. tag \in [Slots -> Pages \cup {NoPage}] /\ dirty \in [Slots -> BOOLEAN]
        BY <1>3 DEF LoopTypeOK, CacheTypeOK
      <4> QED
        BY <1>4, <1>5, <2>3, <4>1, <4>2 DEF Fault, Ages
    <3>3. Elected(Cache.age, Cache.written, v)
      <4>1. Aged[v] # Oldest
        BY <2>12, <3>1, CacheAssumption DEF Oldest
      <4>2. Elected(Aged, dirty, v)
        BY <1>4, <1>5, <4>1, VictimIsElected
      <4>3. \A e \in Slots : Aged[e] <= Aged[v] => age[e] <= age[v]
        BY <3>1
      <4> QED
        BY <2>3, <4>2, <4>3 DEF Elected
    <3>4. PICK q \in Nat : q < n /\ Affords(Cache', ins, 1, h, a, b, longestHead, q)
      <4>1. CASE n >= PerWindow(longestHead)
        <5>1. Affords(Cache', ins, 1, h, a, b, longestHead, PerWindow(longestHead) - 1)
          BY <1>1, <1>3, <2>4, <3>2, FreshAffords DEF p
        <5>2. PerWindow(longestHead) - 1 \in Nat /\ PerWindow(longestHead) - 1 < n
          BY <4>1, BoundFacts
        <5> QED
          BY <5>1, <5>2
      <4>2. CASE Affords(Cache, ins, at, h, a, b, longestHead, n)
        <5>1. Unmixed(Cache) /\ FirstClean(Cache)
          BY <2>1 DEF CacheOK
        <5>2. n >= 1 /\ Affords(Cache', ins, 1, h, a, b, longestHead, n - 1)
          BY <1>1, <1>3, <2>2, <2>4, <3>2, <3>3, <4>2, <5>1, FaultAffords DEF p
        <5>3. n - 1 \in Nat /\ n - 1 < n
          BY <5>2
        <5> QED
          BY <5>2, <5>3
      <4> QED
        BY <2>2, <4>1, <4>2
    <3>5. SpareFor(longestHead, faults', l, q)
      BY <1>6, <2>2, <2>7, <2>9, <2>10, <3>4, Pays
    <3> QED
      BY <1>1, <2>2, <2>5, <2>9, <3>4, <3>5 DEF BoundOK
  <2> QED
    BY <2>11, <2>12
<1> QED
  BY <1>1, <1>8, <1>9 DEF LoopInv

\* The page that comes was counted as there already.
LEMMA ServeStep ==
  ASSUME NEW longestHead, NEW longest, LoopInv(longestHead, longest), Serve
  PROVE  LoopInv(longestHead, longest)'
<1>1. LoopTypeOK
  BY DEF LoopInv
<1>2. /\ waiting # NoPage /\ waiting' = NoPage /\ UNCHANGED <<ins, at, faults, firstWritten>>
      /\ tag' = [tag EXCEPT ![slot] = waiting] /\ dirty' = [dirty EXCEPT ![slot] = FALSE]
      /\ UNCHANGED <<age, slot>>
  BY DEF Serve, CacheFill
<1>3. LoopTypeOK'
  BY <1>1, <1>2 DEF LoopTypeOK, CacheTypeOK
<1>4. Cache' = Cache
  BY <1>2 DEF Cache
<1>5. CacheOK' <=> CacheOK
  BY <1>4 DEF CacheOK
<1>6. Old(longest)' = Old(longest)
  BY <1>2 DEF Old, Clock
<1>7. BoundOK(longestHead, longest)' <=> BoundOK(longestHead, longest)
  BY <1>2, <1>4, <1>6 DEF BoundOK
<1> QED
  BY <1>2, <1>3, <1>5, <1>7 DEF LoopInv

LEMMA LoopStep ==
  ASSUME NEW longestHead \in Nat, NEW longest \in Nat,
         InstructionsOK(longestHead, longest), RoomEnough(longestHead, longest),
         LoopInv(longestHead, longest), [Next]_loopVars
  PROVE  LoopInv(longestHead, longest)'
<1>1. CASE Touch
  BY <1>1, TouchStep
<1>2. CASE Restart
  BY <1>2, RestartStep
<1>3. CASE Serve
  BY <1>3, ServeStep
<1>4. CASE UNCHANGED loopVars
  <2>1. /\ UNCHANGED <<tag, dirty, age, slot>>
        /\ UNCHANGED <<ins, at, waiting, faults, firstWritten>>
    BY <1>4 DEF loopVars, cacheVars
  <2>2. LoopTypeOK' <=> LoopTypeOK
    BY <2>1 DEF LoopTypeOK, CacheTypeOK
  <2>3. Cache' = Cache
    BY <2>1 DEF Cache
  <2>4. Old(longest)' = Old(longest)
    BY <2>1 DEF Old, Clock
  <2>5. BoundOK(longestHead, longest)' <=> BoundOK(longestHead, longest)
    BY <2>1, <2>3, <2>4 DEF BoundOK
  <2>6. CacheOK' <=> CacheOK
    BY <2>3 DEF CacheOK
  <2> QED
    BY <2>1, <2>2, <2>5, <2>6 DEF LoopInv
<1> QED
  BY <1>1, <1>2, <1>3, <1>4 DEF Next

LEMMA LoopInvBounds ==
  ASSUME NEW longestHead \in Nat, NEW longest \in Nat, RoomEnough(longestHead, longest),
         LoopInv(longestHead, longest)
  PROVE  FewFaults
<1> SUFFICES ASSUME ~firstWritten
             PROVE  faults <= MaxFaults
  BY DEF FewFaults
<1>1. PICK n \in Nat : SpareFor(longestHead, faults, Cardinality(Old(longest)), n)
  BY DEF LoopInv, BoundOK
<1>2. Cardinality(Old(longest)) \in Nat
  BY SlotsFinite, FS_Subset, FS_CardinalityType DEF Old, OldSlots
<1>3. faults \in Nat /\ faults <= FaultBound(longestHead)
  BY <1>1, <1>2, Pays DEF LoopInv, LoopTypeOK
<1> QED
  BY <1>3, BoundFacts DEF RoomEnough

\* An instruction whose first pages are in no written slot makes sub_41da restart it at
\* most FaultBound times, whatever else the slots hold, whatever is written in them, and
\* however old they are.
THEOREM FaultsAreFew ==
  ASSUME NEW longestHead \in Nat, NEW longest \in Nat,
         InstructionsOK(longestHead, longest), StartAgesOK, RoomEnough(longestHead, longest)
  PROVE  Spec => []FewFaults
<1>1. Init => LoopInv(longestHead, longest)
  BY LoopInit
<1>2. LoopInv(longestHead, longest) /\ [Next]_loopVars => LoopInv(longestHead, longest)'
  BY LoopStep
<1>3. LoopInv(longestHead, longest) => FewFaults
  BY LoopInvBounds
<1> QED
  BY <1>1, <1>2, <1>3, PTL DEF Spec
=============================================================================
