---------------------------- MODULE SessionProofs ----------------------------
(***************************************************************************)
(* The invariants of the session, for every number of slots, pages and     *)
(* layers, whatever the bodies of the layers do and however long they run. *)
(***************************************************************************)
EXTENDS Session, FiniteSetTheorems, TLAPS

(***************************************************************************)
(* Least elements.                                                         *)
(***************************************************************************)

LEMMA Smallest ==
  ASSUME NEW T, T \subseteq Nat, T # {}
  PROVE  \E x \in T : \A y \in T : x <= y
<1>1. PICK x \in T : \A y \in T : <<y, x>> \notin OpToRel(<, Nat)
  BY NatLessThanWellFounded, WFMin, Zenon
<1>2. \A y \in T : ~(y < x)
  BY <1>1 DEF OpToRel
<1> QED
  BY <1>2

\* Of the slots of a set, the last of the oldest ones.
LEMMA LastOldest ==
  ASSUME NEW ages \in [Slots -> Nat], NEW T \in SUBSET Slots, T # {},
         NEW bound \in Nat, \A t \in T : ages[t] <= bound
  PROVE  \E s \in T : \A t \in T : ages[t] <= ages[s] /\ (t > s => ages[t] < ages[s])
<1> DEFINE Youth == {bound - ages[t] : t \in T}
<1>1. Youth \subseteq Nat /\ Youth # {}
  OBVIOUS
<1>2. PICK s \in T : \A t \in T : ages[t] <= ages[s]
  <2>1. PICK y \in Youth : \A z \in Youth : y <= z
    BY <1>1, Smallest
  <2>2. PICK s \in T : y = bound - ages[s]
    BY <2>1
  <2>3. \A t \in T : bound - ages[s] <= bound - ages[t]
    BY <2>1, <2>2
  <2>4. \A t \in T : ages[t] \in Int /\ bound \in Int
    OBVIOUS
  <2> QED
    BY <2>3, <2>4
<1> DEFINE Behind == {NSlots - t : t \in {u \in T : ages[u] = ages[s]}}
<1>3. Behind \subseteq Nat /\ Behind # {}
  BY CacheAssumption DEF Slots
<1>4. PICK u \in T : ages[u] = ages[s] /\ \A t \in T : ages[t] = ages[s] => t <= u
  <2>1. PICK y \in Behind : \A z \in Behind : y <= z
    BY <1>3, Smallest
  <2>2. PICK u \in T : ages[u] = ages[s] /\ y = NSlots - u
    BY <2>1
  <2>3. \A t \in T : ages[t] = ages[s] => NSlots - u <= NSlots - t
    BY <2>1, <2>2
  <2>4. NSlots \in Int /\ \A t \in T : t \in Int
    BY CacheAssumption DEF Slots
  <2> QED
    BY <2>2, <2>3, <2>4
<1>5. \A t \in T : ages[t] \in Int /\ t \in Int
  BY DEF Slots
<1> QED
  BY <1>2, <1>4, <1>5
-----------------------------------------------------------------------------
(***************************************************************************)
(* The election.                                                           *)
(***************************************************************************)

\* No slot in front of it is marked as written.
InSight(written, s) == \A t \in Slots : t < s => ~written[t]

\* A slot behind a written one is elected only if it is as old as can be.
LEMMA HiddenAreSpared ==
  ASSUME NEW ages \in [Slots -> 0 .. AgeMod - 1], NEW v \in Slots,
         IsVictim(ages, v), ~InSight(dirty, v)
  PROVE  ages[v] = Oldest
  BY DEF IsVictim, Candidate, InSight

\* None of the slots in sight is older than the victim, nor as old behind it.
LEMMA VictimIsOldest ==
  ASSUME NEW ages \in [Slots -> 0 .. AgeMod - 1],
         NEW v \in Slots, IsVictim(ages, v),
         NEW e \in Slots, InSight(dirty, e)
  PROVE  ages[e] <= ages[v] /\ (e > v => ages[e] < ages[v])
<1>0. \A t \in Slots : t \in Int /\ ages[t] \in Nat /\ ages[t] <= Oldest
  BY CacheAssumption DEF Slots, Oldest
<1>1. CASE e <= v
  BY <1>0, <1>1 DEF IsVictim, Candidate
<1>2. CASE e > v
  <2> SUFFICES ASSUME ages[e] >= ages[v]
               PROVE  FALSE
    BY <1>0, <1>2
  <2> DEFINE T == {t \in Slots : v < t /\ t <= e}
  <2>1. PICK m \in T : \A t \in T : ages[t] <= ages[m]
    <3>1. T # {} /\ T \in SUBSET Slots
      BY <1>2 DEF Slots
    <3>2. ages \in [Slots -> Nat] /\ AgeMod \in Nat /\ \A t \in T : ages[t] <= AgeMod
      BY CacheAssumption
    <3> QED
      BY <3>1, <3>2, LastOldest
  <2>2. \A t \in Slots : t < m => ~dirty[t]
    BY <2>1 DEF InSight, Slots
  <2>3. ages[v] <= ages[m]
    BY <1>0, <1>2, <2>1
  <2>4. \A t \in Slots : t < m => ages[t] <= ages[m]
    <3> TAKE t \in Slots
    <3> HAVE t < m
    <3>1. CASE t < v
      BY <1>0, <1>2, <2>1, <2>2, <2>3, <3>1 DEF IsVictim, Candidate
    <3>2. CASE t = v
      BY <3>2, <2>3
    <3>3. CASE t > v
      BY <1>0, <2>1, <3>3
    <3> QED
      BY <1>0, <3>1, <3>2, <3>3
  <2>5. Candidate(ages, m)
    BY <2>2, <2>4 DEF Candidate
  <2> QED
    BY <2>1, <2>5 DEF IsVictim
<1> QED
  BY <1>0, <1>1, <1>2
-----------------------------------------------------------------------------
(***************************************************************************)
(* A race: new pages come one after the other, and the question is when    *)
(* nothing else is left in the slots.                                      *)
(*                                                                         *)
(* A race is a record of the page, the age and the written bit of every    *)
(* slot; the new pages that have come are first .. last, in this order;    *)
(* `now' is the number of translations since it has begun, and one.  A     *)
(* page that is still to be loaded counts as come, with age -1.            *)
(***************************************************************************)

Races ==
  [page : [Slots -> Nat], age : [Slots -> -1 .. AgeMod - 1], written : [Slots -> BOOLEAN],
   first : Nat, last : Int, now : Nat]

\* Slot s holds a new page.
Came(r, s) == r.page[s] \in r.first .. r.last

\* It was accessed in the race, or its age has wrapped.
Recent(r, s) == r.age[s] <= r.now

\* New pages are not written, and the later ones are younger.
RaceOK(r) ==
  /\ r \in Races /\ r.first <= r.last + 1
  /\ \A s \in Slots : Came(r, s) => ~r.written[s] /\ Recent(r, s)
  /\ \A s, t \in Slots :
       Came(r, s) /\ Came(r, t) /\ s # t =>
         /\ r.page[s] # r.page[t]
         /\ r.page[s] < r.page[t] => r.age[t] < r.age[s]

(***************************************************************************)
(* The election may take a new page again instead of an old one, when the  *)
(* old one has an age that has wrapped or hides the slots behind it; then  *)
(* there is a gap behind the new pages that are left.  Each pair of slots, *)
(* and each slot, delays the end of the race by one page at most: a pair   *)
(* while it has not passed, a slot while it has not settled.               *)
(***************************************************************************)

\* Both slots are recent, and an old page is older than a new one.
Passed(r, s, t) ==
  /\ Recent(r, s) /\ Recent(r, t)
  /\ Came(r, s) /\ ~Came(r, t) => r.age[s] < r.age[t]
  /\ Came(r, t) /\ ~Came(r, s) => r.age[t] < r.age[s]

\* A page that has come after that of slot s is gone.
Gap(r, s) == \E p \in r.page[s] .. r.last : \A t \in Slots : r.page[t] # p

\* A written slot hides slot s, and has yet to pass it.
Hidden(r, s) == \E t \in Slots : t < s /\ r.written[t] /\ ~Passed(r, s, t)

Settled(r, s) == Came(r, s) /\ (Gap(r, s) => Hidden(r, s))

Open(r) ==
  {x \in Slots \X Slots : \/ x[1] < x[2] /\ ~Passed(r, x[1], x[2])
                          \/ x[1] = x[2] /\ ~Settled(r, x[1])}

\* The two things that happen in a race: an access to a page that has come, and the
\* arrival of the next one in slot v.
Later(r) == [s \in Slots |-> (r.age[s] + 1) % AgeMod]

Ticked(r) ==
  [page |-> r.page, age |-> Later(r), written |-> r.written,
   first |-> r.first, last |-> r.last, now |-> r.now + 1]

Moved(r, v, k) ==
  [page |-> [r.page EXCEPT ![v] = r.last + 1],
   age |-> [Later(r) EXCEPT ![v] = k],
   written |-> [r.written EXCEPT ![v] = FALSE],
   first |-> r.first, last |-> r.last + 1, now |-> r.now + 1]

\* There is time left before the ages of new pages wrap.
InTime(r) == r.now + 1 < Oldest

\* What becomes of the ages.
LEMMA LaterAges ==
  ASSUME NEW r \in Races, NEW s \in Slots
  PROVE  /\ Later(r)[s] \in 0 .. AgeMod - 1
         /\ r.age[s] < Oldest => Later(r)[s] = r.age[s] + 1
         /\ r.age[s] = Oldest => Later(r)[s] = 0
         /\ r.age[s] <= Oldest
<1>1. r.age[s] \in -1 .. AgeMod - 1 /\ AgeMod \in Nat /\ AgeMod > 1
  BY CacheAssumption DEF Races
<1>2. Later(r)[s] = (r.age[s] + 1) % AgeMod
  BY DEF Later
<1>3. CASE r.age[s] = Oldest
  BY <1>1, <1>2, <1>3 DEF Oldest
<1>4. CASE r.age[s] < Oldest
  <2>1. (r.age[s] + 1) \in 0 .. AgeMod - 1
    BY <1>1, <1>4 DEF Oldest
  <2>2. \A n \in 0 .. AgeMod - 1 : n % AgeMod = n
    BY <1>1
  <2> QED
    BY <1>1, <1>2, <1>4, <2>1, <2>2 DEF Oldest
<1> QED
  BY <1>1, <1>3, <1>4 DEF Oldest

\* Time passes: nothing opens.
LEMMA Ticks ==
  ASSUME NEW r, RaceOK(r), InTime(r)
  PROVE  RaceOK(Ticked(r)) /\ Open(Ticked(r)) \subseteq Open(r)
<1> DEFINE q == Ticked(r)
<1>1. r \in Races
  BY DEF RaceOK
<1>2. /\ q.page = r.page /\ q.written = r.written /\ q.first = r.first /\ q.last = r.last
      /\ q.now = r.now + 1 /\ q.age = Later(r)
  BY <1>1 DEF Ticked, Races
<1>3. q \in Races
  <2>1. Later(r) \in [Slots -> -1 .. AgeMod - 1]
    BY <1>1, LaterAges, CacheAssumption DEF Later
  <2> QED
    BY <1>1, <1>2, <2>1 DEF Ticked, Races
<1>4. \A s \in Slots : /\ r.age[s] \in Int /\ q.age[s] \in Int /\ r.page[s] \in Nat
                       /\ r.age[s] <= Oldest /\ q.age[s] >= 0
                       /\ r.age[s] < Oldest => q.age[s] = r.age[s] + 1
                       /\ r.age[s] = Oldest => q.age[s] = 0
  BY <1>1, <1>2, LaterAges, CacheAssumption DEF Races, Oldest
<1>5. r.now \in Nat /\ Oldest \in Nat /\ r.now + 1 < Oldest /\ q.now = r.now + 1
  BY <1>1, <1>2, CacheAssumption DEF Races, InTime, Oldest
<1> HIDE DEF q
<1>6. \A s \in Slots : Came(q, s) <=> Came(r, s)
  BY <1>2 DEF Came
<1>7. \A s \in Slots : Recent(r, s) => Recent(q, s)
  BY <1>4, <1>5 DEF Recent
<1>8. \A s \in Slots : Came(r, s) => r.age[s] <= r.now /\ ~r.written[s]
  BY DEF RaceOK, Recent
<1>9. RaceOK(q)
  <2>1. \A s, t \in Slots : Came(q, s) /\ Came(q, t) /\ s # t =>
          q.page[s] # q.page[t] /\ (q.page[s] < q.page[t] => q.age[t] < q.age[s])
    <3> TAKE s, t \in Slots
    <3> HAVE Came(q, s) /\ Came(q, t) /\ s # t
    <3>1. q.age[s] = r.age[s] + 1 /\ q.age[t] = r.age[t] + 1
      BY <1>4, <1>5, <1>6, <1>8
    <3> QED
      BY <1>2, <1>4, <1>6, <3>1 DEF RaceOK
  <2> QED
    BY <1>2, <1>3, <1>6, <1>7, <2>1 DEF RaceOK
<1>10. \A s, t \in Slots : Passed(r, s, t) => Passed(q, s, t)
  <2> TAKE s, t \in Slots
  <2> HAVE Passed(r, s, t)
  <2>1. q.age[s] = r.age[s] + 1 /\ q.age[t] = r.age[t] + 1
    BY <1>4, <1>5 DEF Passed, Recent
  <2> QED
    BY <1>4, <1>6, <1>7, <2>1 DEF Passed
<1>11. \A s, t \in Slots : Came(r, s) /\ r.written[t] /\ ~Passed(r, s, t) => ~Passed(q, s, t)
  <2> TAKE s, t \in Slots
  <2> HAVE Came(r, s) /\ r.written[t] /\ ~Passed(r, s, t)
  <2> SUFFICES ASSUME Passed(q, s, t)
               PROVE  FALSE
    OBVIOUS
  <2>1. ~Came(r, t) /\ Recent(r, s) /\ q.age[s] = r.age[s] + 1 /\ q.age[s] < q.age[t]
    BY <1>4, <1>5, <1>6, <1>8 DEF Recent, Passed
  <2>2. r.age[t] < Oldest /\ q.age[t] = r.age[t] + 1
    BY <1>4, <1>5, <2>1
  <2>3. Recent(r, t)
    BY <1>4, <1>5, <2>2 DEF Passed, Recent
  <2> QED
    BY <1>4, <2>1, <2>2, <2>3 DEF Passed
<1>12. \A s \in Slots : Settled(r, s) => Settled(q, s)
  <2> TAKE s \in Slots
  <2> HAVE Settled(r, s)
  <2>1. Came(q, s) /\ (Gap(q, s) => Gap(r, s))
    BY <1>2, <1>6 DEF Settled, Gap
  <2>2. Hidden(r, s) => Hidden(q, s)
    BY <1>2, <1>11 DEF Settled, Hidden
  <2> QED
    BY <2>1, <2>2 DEF Settled
<1> QED
  BY <1>9, <1>10, <1>12 DEF Open, q

\* The next page comes in slot v: it is in no other slot.
Arrives(r, v, k) ==
  /\ RaceOK(r) /\ InTime(r)
  /\ \A s \in Slots : r.age[s] >= 0 /\ (s # v => r.page[s] # r.last + 1)
  /\ k \in {-1, 0}

\* What becomes of the slots: q is the race after the move.
AfterMove(r, q, v, k) ==
  /\ q \in Races
  /\ q.first = r.first /\ q.last = r.last + 1 /\ q.now = r.now + 1
  /\ r.first \in Nat /\ r.last \in Int /\ r.now \in Nat /\ r.first <= r.last + 1
  /\ r.now + 1 < Oldest /\ Oldest \in Nat /\ k \in Int /\ k <= 0
  /\ q.page[v] = r.last + 1 /\ q.age[v] = k /\ q.written[v] = FALSE
  /\ Came(q, v) /\ Recent(q, v)

ThatSlot(r, q, s) ==
  /\ r.page[s] \in Nat /\ r.age[s] \in Nat /\ q.age[s] \in Int
  /\ r.age[s] <= Oldest /\ Later(r)[s] \in Nat
  /\ r.age[s] < Oldest => Later(r)[s] = r.age[s] + 1
  /\ r.age[s] = Oldest => Later(r)[s] = 0
  /\ Came(r, s) => r.age[s] <= r.now /\ ~r.written[s]

OtherSlot(r, q, s) ==
  /\ q.page[s] = r.page[s] /\ q.age[s] = Later(r)[s] /\ q.written[s] = r.written[s]
  /\ Came(q, s) <=> Came(r, s)
  /\ Recent(r, s) => Recent(q, s)

LEMMA MovedSlots ==
  ASSUME NEW r, NEW v \in Slots, NEW k, Arrives(r, v, k),
         NEW q, q = Moved(r, v, k)
  PROVE  /\ AfterMove(r, q, v, k)
         /\ \A s \in Slots : ThatSlot(r, q, s) /\ (s # v => OtherSlot(r, q, s))
<1>1. r \in Races
  BY DEF RaceOK, Arrives
<1>2. /\ q.page = [r.page EXCEPT ![v] = r.last + 1] /\ q.age = [Later(r) EXCEPT ![v] = k]
      /\ q.written = [r.written EXCEPT ![v] = FALSE]
      /\ q.first = r.first /\ q.last = r.last + 1 /\ q.now = r.now + 1
  BY DEF Moved
<1>3. /\ r.first \in Nat /\ r.last \in Int /\ r.now \in Nat /\ r.first <= r.last + 1
      /\ r.now + 1 < Oldest /\ Oldest \in Nat /\ AgeMod = Oldest + 1
      /\ k \in -1 .. AgeMod - 1 /\ k <= 0
  BY <1>1, CacheAssumption DEF Races, RaceOK, Arrives, InTime, Oldest
<1>4. Later(r) \in [Slots -> 0 .. AgeMod - 1]
  BY <1>1, LaterAges DEF Later
<1>5. /\ r.page \in [Slots -> Nat] /\ r.written \in [Slots -> BOOLEAN]
      /\ r.age \in [Slots -> -1 .. AgeMod - 1]
  BY <1>1 DEF Races
<1>6. q \in Races
  <2>1. q.page \in [Slots -> Nat]
    BY <1>2, <1>3, <1>5
  <2>2. q.age \in [Slots -> -1 .. AgeMod - 1]
    BY <1>2, <1>3, <1>4
  <2>3. q.written \in [Slots -> BOOLEAN]
    BY <1>2, <1>5
  <2> QED
    BY <1>2, <1>3, <2>1, <2>2, <2>3 DEF Moved, Races
<1>7. q.page[v] = r.last + 1 /\ q.age[v] = k /\ q.written[v] = FALSE
  BY <1>2, <1>4, <1>5
<1>8. Came(q, v) /\ Recent(q, v)
  BY <1>2, <1>3, <1>7 DEF Came, Recent
<1>9. \A s \in Slots :
        /\ r.page[s] \in Nat /\ r.age[s] \in Nat /\ q.age[s] \in Int
        /\ r.age[s] <= Oldest /\ Later(r)[s] \in Nat
        /\ r.age[s] < Oldest => Later(r)[s] = r.age[s] + 1
        /\ r.age[s] = Oldest => Later(r)[s] = 0
        /\ Came(r, s) => r.age[s] <= r.now /\ ~r.written[s]
  <2> TAKE s \in Slots
  <2>1. r.page[s] \in Nat /\ r.age[s] \in Nat /\ Later(r)[s] \in Nat
    BY <1>1, <1>3, <1>4, <1>5 DEF Arrives
  <2>2. q.age[s] \in Int
    BY <1>3, <1>6 DEF Races
  <2>3. Came(r, s) => r.age[s] <= r.now /\ ~r.written[s]
    BY DEF Arrives, RaceOK, Recent
  <2> QED
    BY <1>1, <2>1, <2>2, <2>3, LaterAges
<1>10. \A s \in Slots : s # v =>
         q.page[s] = r.page[s] /\ q.age[s] = Later(r)[s] /\ q.written[s] = r.written[s]
  BY <1>2, <1>4, <1>5
<1>11. \A s \in Slots : s # v => (Came(q, s) <=> Came(r, s))
  BY <1>2, <1>3, <1>9, <1>10 DEF Came, Arrives
<1>12. \A s \in Slots : s # v => (Recent(r, s) => Recent(q, s))
  BY <1>2, <1>3, <1>9, <1>10 DEF Recent
<1> QED
  BY <1>2, <1>3, <1>6, <1>7, <1>8, <1>9, <1>10, <1>11, <1>12
     DEF AfterMove, ThatSlot, OtherSlot

\* The race stays in order, and no pair opens.
LEMMA Moves ==
  ASSUME NEW r, NEW v \in Slots, NEW k, Arrives(r, v, k)
  PROVE  /\ RaceOK(Moved(r, v, k))
         /\ \A s, t \in Slots : Passed(r, s, t) => Passed(Moved(r, v, k), s, t)
         /\ \A s, t \in Slots :
              s # v /\ t # v /\ Came(r, s) /\ r.written[t] /\ ~Passed(r, s, t)
                => ~Passed(Moved(r, v, k), s, t)
<1>1. PICK q : q = Moved(r, v, k)
  OBVIOUS
<1>5. AfterMove(r, q, v, k)
  BY <1>1, MovedSlots
<1>6. \A s \in Slots : ThatSlot(r, q, s)
  BY <1>1, MovedSlots
<1>7. \A s \in Slots : s # v => OtherSlot(r, q, s)
  BY <1>1, MovedSlots
<1>2. RaceOK(q)
  <2>1. \A s \in Slots : Came(q, s) => ~q.written[s] /\ Recent(q, s)
    BY <1>5, <1>6, <1>7 DEF Recent, AfterMove, ThatSlot, OtherSlot
  <2>2. \A s, t \in Slots : Came(q, s) /\ Came(q, t) /\ s # t =>
          q.page[s] # q.page[t] /\ (q.page[s] < q.page[t] => q.age[t] < q.age[s])
    <3> TAKE s, t \in Slots
    <3> HAVE Came(q, s) /\ Came(q, t) /\ s # t
    <3>1. CASE s # v /\ t # v
      <4>1. Came(r, s) /\ Came(r, t)
        BY <1>5, <1>6, <1>7, <3>1 DEF AfterMove, ThatSlot, OtherSlot
      <4>2. q.age[s] = r.age[s] + 1 /\ q.age[t] = r.age[t] + 1
        BY <1>5, <1>6, <1>7, <3>1, <4>1 DEF AfterMove, ThatSlot, OtherSlot
      <4> QED
        BY <1>5, <1>6, <1>7, <3>1, <4>1, <4>2 DEF RaceOK, Arrives, AfterMove, ThatSlot, OtherSlot
    <3>2. CASE s = v
      <4>1. Came(r, t) /\ q.page[t] = r.page[t]
        BY <1>5, <1>6, <1>7, <3>2 DEF AfterMove, ThatSlot, OtherSlot
      <4>2. q.page[t] < q.page[s]
        BY <1>5, <1>6, <1>7, <3>2, <4>1 DEF Came, AfterMove, ThatSlot, OtherSlot
      <4> QED
        BY <1>5, <1>6, <1>7, <3>2, <4>1, <4>2 DEF AfterMove, ThatSlot, OtherSlot
    <3>3. CASE t = v
      <4>1. Came(r, s) /\ q.page[s] = r.page[s]
        BY <1>5, <1>6, <1>7, <3>3 DEF AfterMove, ThatSlot, OtherSlot
      <4>2. q.page[s] < q.page[t]
        BY <1>5, <1>6, <1>7, <3>3, <4>1 DEF Came, AfterMove, ThatSlot, OtherSlot
      <4>3. q.age[t] = k /\ q.age[s] = r.age[s] + 1
        BY <1>5, <1>6, <1>7, <3>3, <4>1 DEF AfterMove, ThatSlot, OtherSlot
      <4> QED
        BY <1>5, <1>6, <1>7, <4>1, <4>2, <4>3 DEF AfterMove, ThatSlot, OtherSlot
    <3> QED
      BY <3>1, <3>2, <3>3
  <2> QED
    BY <1>5, <1>6, <1>7, <2>1, <2>2 DEF RaceOK, AfterMove, ThatSlot, OtherSlot
<1>3. \A s, t \in Slots : Passed(r, s, t) => Passed(q, s, t)
  <2> TAKE s, t \in Slots
  <2> HAVE Passed(r, s, t)
  <2>1. /\ s # v => q.age[s] = r.age[s] + 1
        /\ t # v => q.age[t] = r.age[t] + 1
    BY <1>5, <1>6, <1>7 DEF Passed, Recent, AfterMove, ThatSlot, OtherSlot
  <2>2. Recent(q, s) /\ Recent(q, t)
    BY <1>5, <1>6, <1>7 DEF Passed, AfterMove, ThatSlot, OtherSlot
  <2>3. CASE s # v /\ t # v
    BY <1>5, <1>6, <1>7, <2>1, <2>2, <2>3 DEF Passed, AfterMove, ThatSlot, OtherSlot
  <2>4. CASE s = v \/ t = v
    BY <1>5, <1>6, <1>7, <2>1, <2>2, <2>4 DEF Passed, AfterMove, ThatSlot, OtherSlot
  <2> QED
    BY <2>3, <2>4
<1>4. \A s, t \in Slots :
        s # v /\ t # v /\ Came(r, s) /\ r.written[t] /\ ~Passed(r, s, t) => ~Passed(q, s, t)
  <2> TAKE s, t \in Slots
  <2> HAVE s # v /\ t # v /\ Came(r, s) /\ r.written[t] /\ ~Passed(r, s, t)
  <2> SUFFICES ASSUME Passed(q, s, t)
               PROVE  FALSE
    OBVIOUS
  <2>1. ~Came(r, t) /\ Recent(r, s) /\ q.age[s] = r.age[s] + 1
    BY <1>5, <1>6, <1>7 DEF Recent, AfterMove, ThatSlot, OtherSlot
  <2>2. q.age[s] < q.age[t]
    BY <1>5, <1>6, <1>7, <2>1 DEF Passed, AfterMove, ThatSlot, OtherSlot
  <2>3. r.age[t] < Oldest /\ q.age[t] = r.age[t] + 1
    BY <1>5, <1>6, <1>7, <2>1, <2>2 DEF AfterMove, ThatSlot, OtherSlot
  <2>4. Recent(r, t)
    BY <1>5, <1>6, <1>7, <2>3 DEF Passed, Recent, AfterMove, ThatSlot, OtherSlot
  <2> QED
    BY <1>5, <1>6, <1>7, <2>1, <2>2, <2>3, <2>4 DEF Passed, AfterMove, ThatSlot, OtherSlot
<1> QED
  BY <1>1, <1>2, <1>3, <1>4

LEMMA OpenIsFinite ==
  ASSUME NEW r
  PROVE  IsFiniteSet(Open(r)) /\ Cardinality(Open(r)) \in Nat
<1>1. IsFiniteSet(Slots)
  BY CacheAssumption, FS_Interval DEF Slots
<1>2. IsFiniteSet(Slots \X Slots)
  BY <1>1, FS_Product
<1>3. Open(r) \in SUBSET (Slots \X Slots)
  BY DEF Open
<1> QED
  BY <1>2, <1>3, FS_Subset, FS_CardinalityType

\* A slot that had an old page settles; it can no longer hide another one, whose debt
\* takes the place of the pair.
LEMMA OldPageGoes ==
  ASSUME NEW r, NEW v \in Slots, NEW k, Arrives(r, v, k), ~Came(r, v)
  PROVE  Cardinality(Open(Moved(r, v, k))) < Cardinality(Open(r))
<1>1. PICK q : q = Moved(r, v, k)
  OBVIOUS
<1>2. AfterMove(r, q, v, k)
  BY <1>1, MovedSlots
<1>3. \A s \in Slots : ThatSlot(r, q, s)
  BY <1>1, MovedSlots
<1>4. \A s \in Slots : s # v => OtherSlot(r, q, s)
  BY <1>1, MovedSlots
<1>5. \A s, t \in Slots : Passed(r, s, t) => Passed(q, s, t)
  BY <1>1, Moves
<1>6. Settled(q, v)
  BY <1>2 DEF Settled, Gap, AfterMove
<1>7. \A s \in Slots : s # v /\ Settled(r, s) /\ ~Settled(q, s) =>
        v < s /\ Came(q, s) /\ ~Passed(r, v, s)
  <2> TAKE s \in Slots
  <2> HAVE s # v /\ Settled(r, s) /\ ~Settled(q, s)
  <2>1. Came(r, s) /\ Came(q, s) /\ Gap(q, s) /\ ~Hidden(q, s)
    BY <1>4 DEF Settled, OtherSlot
  <2>2. Gap(r, s)
    <3>1. PICK p \in q.page[s] .. q.last : \A t \in Slots : q.page[t] # p
      BY <2>1 DEF Gap
    <3>2. p # r.last + 1
      BY <1>2, <3>1 DEF AfterMove
    <3>3. p \in r.page[s] .. r.last
      BY <1>2, <1>3, <1>4, <3>1, <3>2 DEF AfterMove, ThatSlot, OtherSlot
    <3>4. r.page[v] # p
      BY <1>2, <1>3, <2>1, <3>3 DEF Came, AfterMove, ThatSlot
    <3>5. \A t \in Slots : r.page[t] # p
      BY <1>4, <3>1, <3>4 DEF OtherSlot
    <3> QED
      BY <3>3, <3>5 DEF Gap
  <2>3. PICK t \in Slots : t < s /\ r.written[t] /\ ~Passed(r, s, t)
    BY <2>1, <2>2 DEF Settled, Hidden
  <2>4. CASE t # v
    <3>1. q.written[t]
      BY <1>4, <2>3, <2>4 DEF OtherSlot
    <3>2. ~Passed(q, s, t)
      BY <1>1, <2>1, <2>3, <2>4, Moves
    <3> QED
      BY <2>1, <2>3, <3>1, <3>2 DEF Hidden
  <2>5. CASE t = v
    BY <2>1, <2>3, <2>5 DEF Passed
  <2> QED
    BY <2>4, <2>5
<1>8. \A s \in Slots : Came(q, s) => Passed(q, v, s) /\ Passed(q, s, v)
  <2> TAKE s \in Slots
  <2> HAVE Came(q, s)
  <2>1. Recent(q, s) /\ Recent(q, v) /\ Came(q, v)
    BY <1>1, <1>2, Moves DEF RaceOK, AfterMove
  <2> QED
    BY <2>1 DEF Passed
<1> DEFINE Rest == Open(r) \ {<<v, v>>}
           Was(x) == IF x \in Open(r) THEN x ELSE <<v, x[2]>>
           f == [x \in Open(q) |-> Was(x)]
<1>9. \A x \in Open(q) : \/ x \in Rest
                         \/ /\ x \notin Open(r) /\ x[1] = x[2] /\ x = <<x[2], x[2]>>
                            /\ <<v, x[2]>> \in Rest /\ Came(q, x[2])
  <2> TAKE x \in Open(q)
  <2>1. PICK s \in Slots, t \in Slots : x = <<s, t>>
    BY DEF Open
  <2>2. CASE s < t /\ ~Passed(q, s, t)
    <3>1. ~Passed(r, s, t) /\ s # t
      BY <1>5, <2>2 DEF Slots
    <3> QED
      BY <2>1, <2>2, <3>1 DEF Open
  <2>3. CASE s = t /\ ~Settled(q, s)
    <3>1. s # v
      BY <1>6, <2>3
    <3>2. CASE ~Settled(r, s)
      BY <2>1, <2>3, <3>1, <3>2 DEF Open
    <3>3. CASE Settled(r, s)
      <4>1. v < s /\ Came(q, s) /\ ~Passed(r, v, s)
        BY <1>7, <2>3, <3>1, <3>3
      <4>2. <<v, s>> \in Rest
        BY <3>1, <4>1 DEF Open
      <4>3. x \notin Open(r)
        BY <2>1, <2>3, <3>3 DEF Open, Slots
      <4> QED
        BY <2>1, <2>3, <4>1, <4>2, <4>3
    <3> QED
      BY <3>2, <3>3
  <2> QED
    BY <2>1, <2>2, <2>3 DEF Open
<1>10. f \in [Open(q) -> Rest]
  BY <1>9
<1>11. \A x, y \in Open(q) : f[x] = f[y] => x = y
  <2> TAKE x, y \in Open(q)
  <2> HAVE f[x] = f[y]
  <2>1. CASE x \in Open(r) /\ y \in Open(r)
    BY <2>1
  <2>2. CASE x \notin Open(r) /\ y \notin Open(r)
    <3>1. x[2] = y[2]
      BY <2>2
    <3> QED
      BY <1>9, <2>2, <3>1
  <2>3. \A z, w \in Open(q) : z \in Open(r) /\ w \notin Open(r) => f[z] # f[w]
    <3> SUFFICES ASSUME NEW z \in Open(q), NEW w \in Open(q),
                        z \in Open(r), w \notin Open(r), f[z] = f[w]
                 PROVE  FALSE
      OBVIOUS
    <3>1. z = <<v, w[2]>> /\ w[2] \in Slots /\ Came(q, w[2])
      BY <1>9 DEF Open
    <3>2. Passed(q, v, w[2])
      BY <1>8, <3>1
    <3>3. w[2] = v
      BY <3>1, <3>2 DEF Open
    <3> QED
      BY <1>6, <1>9, <3>3 DEF Open
  <2> QED
    BY <2>1, <2>2, <2>3
<1>12. f \in Injection(Open(q), Rest)
  BY <1>10, <1>11 DEF Injection, IsInjective
<1>13. <<v, v>> \in Open(r)
  BY DEF Open, Settled
<1>14. /\ IsFiniteSet(Rest) /\ Cardinality(Rest) = Cardinality(Open(r)) - 1
  BY <1>13, OpenIsFinite, FS_RemoveElement
<1>15. Cardinality(Open(q)) <= Cardinality(Rest)
  BY <1>12, <1>14, FS_Injection
<1> QED
  BY <1>1, <1>14, <1>15, OpenIsFinite

\* A new page is elected although there are old ones: it passes one of them, and what
\* hides the other slots still hides them.
LEMMA NewPageGoes ==
  ASSUME NEW r, NEW v \in Slots, Arrives(r, v, -1), Came(r, v),
         r.written = dirty, IsVictim(Later(r), v)
  PROVE  \/ Open(Moved(r, v, -1)) = {}
         \/ Cardinality(Open(Moved(r, v, -1))) < Cardinality(Open(r))
<1>1. PICK q : q = Moved(r, v, -1)
  OBVIOUS
<1>2. AfterMove(r, q, v, -1)
  BY <1>1, MovedSlots
<1>3. \A s \in Slots : ThatSlot(r, q, s)
  BY <1>1, MovedSlots
<1>4. \A s \in Slots : s # v => OtherSlot(r, q, s)
  BY <1>1, MovedSlots
<1>5. \A s, t \in Slots : Passed(r, s, t) => Passed(q, s, t)
  BY <1>1, Moves
<1>6. Later(r) \in [Slots -> 0 .. AgeMod - 1]
  BY LaterAges DEF Later, Arrives, RaceOK
<1>7. Later(r)[v] = r.age[v] + 1 /\ r.age[v] <= r.now /\ ~r.written[v]
  BY <1>2, <1>3 DEF AfterMove, ThatSlot
<1>8. InSight(dirty, v)
  BY <1>2, <1>3, <1>6, <1>7, HiddenAreSpared DEF AfterMove, ThatSlot
<1>9. \A e \in Slots : InSight(dirty, e) =>
        Later(r)[e] <= Later(r)[v] /\ (e > v => Later(r)[e] < Later(r)[v])
  BY <1>6, VictimIsOldest
<1>10. Settled(q, v)
  BY <1>2 DEF Settled, Gap, AfterMove
<1>11. \A s \in Slots : ~InSight(dirty, s) =>
         \E t \in Slots : t < s /\ dirty[t] /\ InSight(dirty, t)
  <2> TAKE s \in Slots
  <2> HAVE ~InSight(dirty, s)
  <2> DEFINE T == {t \in Slots : t < s /\ dirty[t]}
  <2>1. T # {} /\ T \subseteq Nat
    BY CacheAssumption DEF InSight, Slots
  <2>2. PICK t \in T : \A u \in T : t <= u
    BY <2>1, Smallest
  <2>3. InSight(dirty, t)
    BY <2>2 DEF InSight, Slots
  <2> QED
    BY <2>2, <2>3
\* What becomes of the slots that had settled.
<1>12. \A s \in Slots : s # v /\ Settled(r, s) => Settled(q, s)
  <2> SUFFICES ASSUME NEW s \in Slots, s # v, Settled(r, s), Gap(q, s)
               PROVE  Hidden(q, s)
    BY <1>4 DEF Settled, OtherSlot
  <2>1. Came(r, s) /\ q.age[s] = r.age[s] + 1 /\ q.page[s] = r.page[s] /\ Came(q, s)
    BY <1>2, <1>3, <1>4 DEF Settled, AfterMove, ThatSlot, OtherSlot
  <2>2. CASE Gap(r, s)
    <3>1. PICK t \in Slots : t < s /\ r.written[t] /\ ~Passed(r, s, t)
      BY <2>2 DEF Settled, Hidden
    <3>2. t # v
      BY <1>7, <3>1
    <3>3. q.written[t] /\ ~Passed(q, s, t)
      BY <1>1, <1>4, <2>1, <3>1, <3>2, Moves DEF OtherSlot
    <3> QED
      BY <3>1, <3>3 DEF Hidden
  <2>3. CASE ~Gap(r, s)
    <3>1. PICK p \in q.page[s] .. q.last : \A t \in Slots : q.page[t] # p
      BY DEF Gap
    <3>2. p # r.last + 1
      BY <1>2, <3>1 DEF AfterMove
    <3>3. p \in r.page[s] .. r.last
      BY <1>2, <1>3, <2>1, <3>1, <3>2 DEF AfterMove, ThatSlot
    <3>4. r.page[v] = p
      BY <1>4, <2>3, <3>1, <3>3 DEF Gap, OtherSlot
    <3>5. r.page[s] # r.page[v] /\ r.page[s] <= r.page[v]
      BY <1>3, <2>1, <3>3, <3>4 DEF RaceOK, Arrives, ThatSlot
    <3>6. r.age[v] < r.age[s]
      BY <1>3, <2>1, <3>5 DEF RaceOK, Arrives, ThatSlot
    <3>7. ~InSight(dirty, s)
      BY <1>2, <1>3, <1>7, <1>9, <2>1, <3>6 DEF AfterMove, ThatSlot
    <3>8. PICK t \in Slots : t < s /\ dirty[t] /\ InSight(dirty, t)
      BY <1>11, <3>7
    <3>9. t # v /\ q.written[t] /\ ~Came(q, t) /\ q.age[t] = Later(r)[t]
      BY <1>3, <1>4, <1>7, <3>8 DEF ThatSlot, OtherSlot
    <3>10. Later(r)[t] <= Later(r)[v]
      BY <1>9, <3>8
    <3>11. ~(q.age[s] < q.age[t])
      BY <1>3, <1>7, <2>1, <3>6, <3>9, <3>10 DEF ThatSlot
    <3>12. ~Passed(q, s, t)
      BY <2>1, <3>9, <3>11 DEF Passed
    <3> QED
      BY <3>8, <3>9, <3>12 DEF Hidden
  <2> QED
    BY <2>2, <2>3
<1>13. Open(q) \subseteq Open(r)
  BY <1>5, <1>10, <1>12 DEF Open
<1>14. (\E x \in Open(r) : x \notin Open(q)) => Cardinality(Open(q)) < Cardinality(Open(r))
  <2> HAVE \E x \in Open(r) : x \notin Open(q)
  <2>1. Cardinality(Open(q)) <= Cardinality(Open(r)) /\ Cardinality(Open(q)) # Cardinality(Open(r))
    BY <1>13, OpenIsFinite, FS_Subset
  <2> QED
    BY <2>1, OpenIsFinite
<1>15. CASE \E t \in Slots : InSight(dirty, t) /\ ~Came(r, t)
  <2>1. PICK t \in Slots : InSight(dirty, t) /\ ~Came(r, t)
    BY <1>15
  <2>2. t # v /\ q.age[t] = Later(r)[t] /\ Later(r)[t] <= r.age[v] + 1
    BY <1>4, <1>7, <1>9, <2>1 DEF OtherSlot
  <2>3. ~Passed(r, v, t) /\ ~Passed(r, t, v)
    <3>1. Recent(r, t) => ~(r.age[v] < r.age[t])
      BY <1>2, <1>3, <2>2 DEF AfterMove, ThatSlot, Recent
    <3> QED
      BY <2>1, <3>1 DEF Passed
  <2>4. Passed(q, v, t) /\ Passed(q, t, v)
    <3>1. Recent(q, t) /\ Recent(q, v) /\ q.age[v] < q.age[t] /\ Came(q, v)
      BY <1>2, <1>3, <1>7, <2>2 DEF AfterMove, ThatSlot, Recent
    <3>2. ~Came(q, t)
      BY <1>4, <2>1, <2>2 DEF OtherSlot
    <3> QED
      BY <3>1, <3>2 DEF Passed
  <2>5. \E x \in Open(r) : x \notin Open(q)
    <3>1. CASE v < t
      <4>1. <<v, t>> \in Open(r) /\ <<v, t>> \notin Open(q)
        BY <2>2, <2>3, <2>4, <3>1 DEF Open
      <4> QED
        BY <4>1
    <3>2. CASE t < v
      <4>1. <<t, v>> \in Open(r) /\ <<t, v>> \notin Open(q)
        BY <2>2, <2>3, <2>4, <3>2 DEF Open
      <4> QED
        BY <4>1
    <3> QED
      BY <2>2, <3>1, <3>2 DEF Slots
  <2> QED
    BY <1>1, <1>14, <2>5
<1>16. CASE ~Settled(r, v)
  <2>1. <<v, v>> \in Open(r) /\ <<v, v>> \notin Open(q)
    BY <1>10, <1>16 DEF Open, Slots
  <2> QED
    BY <1>1, <1>14, <2>1
<1>17. CASE Settled(r, v) /\ \A t \in Slots : InSight(dirty, t) => Came(r, t)
  <2>1. \A s \in Slots : InSight(dirty, s)
    BY <1>3, <1>11, <1>17 DEF ThatSlot
  <2>2. \A s \in Slots : Came(r, s) /\ ~r.written[s] /\ ~Hidden(r, s)
    BY <1>3, <1>17, <2>1 DEF ThatSlot, Hidden
  <2>3. \A s \in Slots : s # v => r.page[v] < r.page[s]
    <3> SUFFICES ASSUME NEW s \in Slots, s # v, ~(r.page[v] < r.page[s])
                 PROVE  FALSE
      OBVIOUS
    <3>1. r.page[s] < r.page[v]
      BY <1>3, <2>2 DEF RaceOK, Arrives, ThatSlot
    <3>2. r.age[v] < r.age[s]
      BY <2>2, <3>1 DEF RaceOK, Arrives
    <3> QED
      BY <1>2, <1>3, <1>7, <1>9, <2>1, <2>2, <3>2 DEF AfterMove, ThatSlot
  <2>4. \A s, t \in Slots : Passed(r, s, t)
    BY <1>3, <2>2 DEF Passed, ThatSlot, Recent
  <2>5. \A s \in Slots : Settled(r, s)
    <3> SUFFICES ASSUME NEW s \in Slots, Gap(r, s)
                 PROVE  FALSE
      BY <2>2 DEF Settled
    <3>1. Gap(r, v)
      BY <1>2, <1>3, <2>3 DEF Gap, AfterMove, ThatSlot
    <3> QED
      BY <1>17, <2>2, <3>1 DEF Settled
  <2> QED
    BY <1>1, <1>13, <2>4, <2>5 DEF Open
<1> QED
  BY <1>15, <1>16, <1>17
-----------------------------------------------------------------------------
(***************************************************************************)
(* The race from its start to its end.                                     *)
(***************************************************************************)

\* What is open is paid for by the pages that are still to come, of N(N+1)/2 - 1.
Owes(r) ==
  \/ Open(r) = {}
  \/ 2 * (Cardinality(Open(r)) + (r.last - r.first + 1)) <= NSlots * (NSlots + 1) - 2

Pairs == {x \in Slots \X Slots : x[1] <= x[2]}

LEMMA HowManyPairs == IsFiniteSet(Pairs) /\ 2 * Cardinality(Pairs) = NSlots * (NSlots + 1)
<1> DEFINE Mirror == {x \in Slots \X Slots : x[2] <= x[1]}
           Middle == {x \in Slots \X Slots : x[1] = x[2]}
<1>1. IsFiniteSet(Slots) /\ Cardinality(Slots) = NSlots /\ NSlots \in Nat
  BY CacheAssumption, FS_Interval DEF Slots
<1>2. IsFiniteSet(Slots \X Slots) /\ Cardinality(Slots \X Slots) = NSlots * NSlots
  BY <1>1, FS_Product
<1>3. IsFiniteSet(Pairs) /\ IsFiniteSet(Mirror) /\ IsFiniteSet(Middle)
  <2>1. Pairs \in SUBSET (Slots \X Slots) /\ Mirror \in SUBSET (Slots \X Slots)
        /\ Middle \in SUBSET (Slots \X Slots)
    BY DEF Pairs
  <2> QED
    BY <1>2, <2>1, FS_Subset
<1>4. Cardinality(Mirror) = Cardinality(Pairs)
  <2> DEFINE g == [x \in Pairs |-> <<x[2], x[1]>>]
  <2>1. g \in [Pairs -> Mirror]
    BY DEF Pairs
  <2>2. \A x, y \in Pairs : g[x] = g[y] => x = y
    BY DEF Pairs
  <2>3. \A y \in Mirror : \E x \in Pairs : g[x] = y
    <3> TAKE y \in Mirror
    <3>1. <<y[2], y[1]>> \in Pairs /\ g[<<y[2], y[1]>>] = y
      BY DEF Pairs
    <3> QED
      BY <3>1
  <2>4. g \in Bijection(Pairs, Mirror)
    BY <2>1, <2>2, <2>3 DEF Bijection, Injection, Surjection, IsInjective
  <2>5. ExistsBijection(Pairs, Mirror)
    BY <2>4 DEF ExistsBijection
  <2> QED
    BY <1>3, <2>5, FS_Bijection
<1>5. Cardinality(Middle) = NSlots
  <2> DEFINE g == [s \in Slots |-> <<s, s>>]
  <2>1. g \in [Slots -> Middle] /\ \A s, t \in Slots : g[s] = g[t] => s = t
    OBVIOUS
  <2>2. \A y \in Middle : \E s \in Slots : g[s] = y
    <3> TAKE y \in Middle
    <3>1. y[1] \in Slots /\ g[y[1]] = y
      OBVIOUS
    <3> QED
      BY <3>1
  <2>3. g \in Bijection(Slots, Middle)
    BY <2>1, <2>2 DEF Bijection, Injection, Surjection, IsInjective
  <2>4. ExistsBijection(Slots, Middle)
    BY <2>3 DEF ExistsBijection
  <2> QED
    BY <1>1, <2>4, FS_Bijection
<1>6. Pairs \cup Mirror = Slots \X Slots /\ Pairs \cap Mirror = Middle
  BY DEF Pairs, Slots
<1>7. Cardinality(Slots \X Slots) = Cardinality(Pairs) + Cardinality(Mirror) - Cardinality(Middle)
  BY <1>3, <1>6, FS_Union
<1>8. Cardinality(Pairs) \in Nat
  BY <1>3, FS_CardinalityType
<1>9. NSlots * NSlots = Cardinality(Pairs) + Cardinality(Pairs) - NSlots
  BY <1>2, <1>4, <1>5, <1>7
<1>10. PICK square \in Nat : square = NSlots * NSlots
  BY <1>1
<1>11. NSlots * (NSlots + 1) = square + NSlots
  BY <1>1, <1>10
<1>12. square = Cardinality(Pairs) + Cardinality(Pairs) - NSlots
  BY <1>9, <1>10
<1>13. 2 * Cardinality(Pairs) = square + NSlots
  BY <1>1, <1>8, <1>12
<1> QED
  BY <1>3, <1>11, <1>13

\* At the start no page has come, and two slots have just been accessed.
LEMMA RaceStarts ==
  ASSUME NEW r \in Races, r.last = r.first - 1,
         NEW s \in Slots, NEW t \in Slots, s # t, Recent(r, s), Recent(r, t)
  PROVE  RaceOK(r) /\ Owes(r)
<1>1. \A u \in Slots : ~Came(r, u)
  BY DEF Came, Races
<1>2. RaceOK(r)
  BY <1>1 DEF RaceOK, Races
<1>3. Passed(r, s, t) /\ Passed(r, t, s)
  BY <1>1 DEF Passed
<1>4. PICK x \in Pairs : x \notin Open(r)
  <2>1. CASE s < t
    <3>1. <<s, t>> \in Pairs /\ <<s, t>> \notin Open(r)
      BY <1>3, <2>1 DEF Pairs, Open, Slots
    <3> QED
      BY <3>1
  <2>2. CASE t < s
    <3>1. <<t, s>> \in Pairs /\ <<t, s>> \notin Open(r)
      BY <1>3, <2>2 DEF Pairs, Open, Slots
    <3> QED
      BY <3>1
  <2> QED
    BY <2>1, <2>2 DEF Slots
<1>5. Open(r) \in SUBSET (Pairs \ {x})
  BY <1>4 DEF Open, Pairs, Slots
<1>6. IsFiniteSet(Pairs \ {x}) /\ Cardinality(Pairs \ {x}) = Cardinality(Pairs) - 1
  BY HowManyPairs, FS_RemoveElement
<1>7. Cardinality(Open(r)) <= Cardinality(Pairs) - 1
  BY <1>5, <1>6, FS_Subset
<1>8. Cardinality(Pairs) \in Nat /\ Cardinality(Open(r)) \in Nat
  BY HowManyPairs, FS_CardinalityType, OpenIsFinite
<1>9. 2 * (Cardinality(Open(r)) + 0) <= NSlots * (NSlots + 1) - 2
  BY <1>7, <1>8, HowManyPairs, CacheAssumption
<1>10. r.last - r.first + 1 = 0
  BY DEF Races
<1> QED
  BY <1>2, <1>9, <1>10 DEF Owes

LEMMA RaceTicks ==
  ASSUME NEW r, RaceOK(r), Owes(r), InTime(r)
  PROVE  RaceOK(Ticked(r)) /\ Owes(Ticked(r))
<1> DEFINE q == Ticked(r)
<1>1. RaceOK(q) /\ Open(q) \subseteq Open(r)
  BY Ticks
<1>2. q.first = r.first /\ q.last = r.last /\ r.first \in Nat /\ r.last \in Int
  BY DEF Ticked, RaceOK, Races
<1> HIDE DEF q
<1>3. Cardinality(Open(q)) <= Cardinality(Open(r))
  BY <1>1, OpenIsFinite, FS_Subset
<1>4. Cardinality(Open(q)) \in Nat /\ Cardinality(Open(r)) \in Nat
  BY OpenIsFinite
<1>5. NSlots * (NSlots + 1) \in Nat
  BY CacheAssumption
<1>6. Owes(q)
  BY <1>1, <1>2, <1>3, <1>4, <1>5 DEF Owes
<1> QED
  BY <1>1, <1>6 DEF q

LEMMA RaceMoves ==
  ASSUME NEW r, NEW v \in Slots, NEW k, Arrives(r, v, k), Owes(r),
         ~Came(r, v) \/ (k = -1 /\ r.written = dirty /\ IsVictim(Later(r), v))
  PROVE  RaceOK(Moved(r, v, k)) /\ Owes(Moved(r, v, k))
<1> DEFINE q == Moved(r, v, k)
<1>1. Open(q) = {} \/ Cardinality(Open(q)) < Cardinality(Open(r))
  BY OldPageGoes, NewPageGoes
<1>2. Open(r) = {} => Open(q) = {}
  <2> HAVE Open(r) = {}
  <2>1. Cardinality(Open(r)) = 0
    BY FS_EmptySet
  <2> QED
    BY <1>1, <2>1, OpenIsFinite
<1>3. q.first = r.first /\ q.last = r.last + 1 /\ r.first \in Nat /\ r.last \in Int
  BY DEF Moved, Arrives, RaceOK, Races
<1>4. RaceOK(q)
  BY Moves
<1> HIDE DEF q
<1>5. Cardinality(Open(q)) \in Nat /\ Cardinality(Open(r)) \in Nat
  BY OpenIsFinite
<1>6. NSlots * (NSlots + 1) \in Nat
  BY CacheAssumption
<1>7. Owes(q)
  BY <1>1, <1>2, <1>3, <1>5, <1>6 DEF Owes
<1> QED
  BY <1>4, <1>7 DEF q

\* At the end all slots hold new pages, and these are the last ones.
LEMMA RaceEnds ==
  ASSUME NEW r, RaceOK(r), Owes(r),
         2 * (r.last - r.first + 1) >= NSlots * (NSlots + 1) - 2
  PROVE  \A s \in Slots :
           /\ Came(r, s) /\ ~r.written[s]
           /\ r.page[s] \in r.last - NSlots + 1 .. r.last
<1>1. r.first \in Nat /\ r.last \in Int /\ r.page \in [Slots -> Nat] /\ NSlots \in Nat \ {0}
  BY CacheAssumption DEF RaceOK, Races
<1>2. Open(r) = {}
  <2>1. CASE 2 * (Cardinality(Open(r)) + (r.last - r.first + 1)) <= NSlots * (NSlots + 1) - 2
    <3>1. NSlots * (NSlots + 1) \in Nat
      BY <1>1
    <3>2. Cardinality(Open(r)) = 0
      BY <1>1, <2>1, <3>1, OpenIsFinite
    <3> QED
      BY <3>2, OpenIsFinite, FS_EmptySet
  <2> QED
    BY <2>1 DEF Owes
<1>3. \A s \in Slots : Settled(r, s)
  <2> TAKE s \in Slots
  <2>1. <<s, s>> \notin Open(r)
    BY <1>2
  <2> QED
    BY <2>1 DEF Open
<1>4. \A s \in Slots : Came(r, s) /\ ~r.written[s] /\ ~Gap(r, s)
  BY <1>3 DEF Settled, RaceOK, Hidden
<1>5. ASSUME NEW s \in Slots, ~(r.page[s] \in r.last - NSlots + 1 .. r.last)
      PROVE  FALSE
  <2> DEFINE Run == r.page[s] .. r.last
             f == [p \in Run |-> CHOOSE t \in Slots : r.page[t] = p]
  <2>1. r.page[s] \in Nat /\ r.page[s] <= r.last - NSlots
    BY <1>1, <1>4, <1>5 DEF Came
  <2>2. \A p \in Run : \E t \in Slots : r.page[t] = p
    BY <1>4 DEF Gap
  <2>3. f \in [Run -> Slots] /\ \A p \in Run : r.page[f[p]] = p
    BY <2>2
  <2>4. IsFiniteSet(Run) /\ Cardinality(Run) > NSlots
    <3>1. r.page[s] \in Int /\ r.last \in Int /\ NSlots \in Nat
      BY <1>1, <2>1
    <3>2. IsFiniteSet(Run) /\ Cardinality(Run) = IF r.page[s] > r.last THEN 0 ELSE r.last - r.page[s] + 1
      BY <3>1, FS_Interval
    <3> QED
      BY <2>1, <3>1, <3>2
  <2>5. IsFiniteSet(Slots) /\ Cardinality(Slots) = NSlots
    BY <1>1, FS_Interval DEF Slots
  <2> HIDE DEF f, Run
  <2>6. Cardinality(Slots) < Cardinality(Run)
    BY <2>4, <2>5
  <2>7. PICK a \in Run, b \in Run : a # b /\ f[a] = f[b]
    BY <2>3, <2>4, <2>5, <2>6, FS_PigeonHole
  <2> QED
    BY <2>3, <2>7
<1> QED
  BY <1>4, <1>5
-----------------------------------------------------------------------------

(***************************************************************************)
(* What is assumed of the layers.                                          *)
(***************************************************************************)

Sled(i) == BodyLength[i] .. CodeLength(i) - 1

\* A sled is long enough for the slots: 14 pages for the 5 slots of the webcam.
LongSled == 2 * SledLength >= NSlots * (NSlots + 1) - 2

\* It is over before the ages of its own pages wrap.
SlowAges == AgeMod > 2 * SledLength + 2

\* It does not cross the sled of the layer before, which the webcam still holds: pages
\* 88 to 101, then 224 to 237, then 96 to 109.
SledsApart == \A i \in Layers : i > 0 => Sled(i) \cap Sled(i - 1) = {}

ASSUME LayersAssumption == LongSled /\ SlowAges /\ SledsApart

(***************************************************************************)
(* The inductive invariant.                                                *)
(***************************************************************************)

DataOfLayers == DataPages \cup {KeyPage, DonePage}

\* No page is in two slots, and only data are written.
TagsOK ==
  /\ \A s, t \in Slots : s # t /\ tag[s] = tag[t] => tag[s] = NoPage
  /\ \A s \in Slots : dirty[s] => tag[s] \in DataOfLayers \cup {TopPage, NoPage}

\* The layer is where its last page says, and waits for a page that is not there.
WhereOK ==
  /\ phase \in {"reply", "loop"} => ~Resident(wanted)
  /\ at \in {"body", "saying"} =>
       far \in Body(layer) /\ wanted \in Body(layer) \cup DataOfLayers
  /\ at = "saying" =>
       phase = "run" /\ far + 1 \notin Body(layer) /\ \E s \in Slots : tag[s] = far /\ age[s] = 0
  /\ at = "sled" =>
       /\ far \in BodyLength[layer] - 1 .. CodeLength(layer) - 2
       /\ wanted \in Body(layer) \cup DataOfLayers \cup BodyLength[layer] .. far + 1
       /\ phase \in {"reply", "loop"} => wanted = far + 1
  /\ phase = "exit" => at = "jump"

\* The pages of code are those of the layer, or of the end of the previous sled.
OldCode(s) ==
  layer > 0 /\ tag[s] \in StillHeld \cap Sled(layer - 1) /\ buf[s] = CodeOf(layer - 1)

CodeOK ==
  /\ \A p \in Code(layer) : ram[p] = CodeOf(layer)
  /\ \A s \in Slots : tag[s] \in Code(layer) => buf[s] = CodeOf(layer) \/ OldCode(s)

\* The page of the key has what the client or the layer has put there.
KeyOK ==
  /\ ram[KeyPage] \in {KeyOf(layer), WrittenBy(layer)}
  /\ \A s \in Slots : tag[s] = KeyPage => buf[s] \in {KeyOf(layer), WrittenBy(layer)}

\* The int is set from the end of the body on, in the client or in a written slot
\* that has not been sent back.
Unsent(s) == dirty[s] /\ ~(phase = "loop" /\ s = slot)

DoneOK ==
  /\ at \in {"body", "saying"} =>
       /\ ram[DonePage] = Blank
       /\ \A s \in Slots : tag[s] = DonePage => ~dirty[s] /\ buf[s] = Blank
  /\ at = "sled" =>
       /\ \A s \in Slots : tag[s] = DonePage => buf[s] = DoneBy(layer)
       /\ ram[DonePage] = DoneBy(layer) \/ \E s \in Slots : tag[s] = DonePage /\ Unsent(s)

\* About to start: nothing is left in the webcam but the end of the previous sled.
StartOK ==
  at = "jump" /\ ram[DonePage] = Blank =>
    /\ wanted = 0
    /\ phase \in {"loop", "run"} /\ (phase = "run" => Resident(0))
    /\ \A s \in Slots :
         \/ tag[s] \in {TopPage, NoPage} /\ layer = 0
         \/ OldCode(s) /\ ~dirty[s]
         \/ phase = "run" /\ tag[s] = 0 /\ ~dirty[s]

\* At its end: nothing is left but the end of the sled.
EndOK ==
  at = "jump" /\ ram[DonePage] # Blank =>
    /\ ram[DonePage] = DoneBy(layer)
    /\ phase # "run" => wanted = 0
    /\ seen = <<CodeLength(layer) - 1, CodeOf(layer)>>
    /\ \A s \in Slots :
         /\ tag[s] \in Sled(layer) /\ tag[s] > CodeLength(layer) - 1 - NSlots
         /\ ~dirty[s] /\ buf[s] = CodeOf(layer)

\* In between: the race of the pages of the sled through the slots.
Pending == at = "sled" /\ wanted = far + 1

Race(now) ==
  [page |-> [s \in Slots |-> IF Pending /\ s = slot THEN far + 1 ELSE tag[s]],
   age |-> [s \in Slots |-> IF Pending /\ s = slot THEN -1 ELSE age[s]],
   written |-> [s \in Slots |-> dirty[s] /\ ~(Pending /\ s = slot)],
   first |-> BodyLength[layer],
   last |-> IF Pending THEN far + 1 ELSE far,
   now |-> now]

\* Two translations for each page, one for a page that is asked for.
LatestNow == 2 * (far - BodyLength[layer] + 1) + (IF Pending THEN 2 ELSE 1)

RaceInv ==
  at = "sled" =>
    /\ Pending /\ phase = "run" => tag[slot] = far + 1 /\ ~dirty[slot]
    /\ \E now \in 0 .. LatestNow : RaceOK(Race(now)) /\ Owes(Race(now))

IInv ==
  /\ TypeOK /\ TagsOK /\ WhereOK
  /\ CodeOK /\ KeyOK /\ DoneOK
  /\ StartOK /\ EndOK /\ RaceInv
-----------------------------------------------------------------------------
(***************************************************************************)
(* Sizes and contents.                                                     *)
(***************************************************************************)

LEMMA Sizes ==
  /\ NSlots \in Nat \ {0} /\ AgeMod \in Nat /\ AgeMod > 1 /\ SledLength \in Nat \ {0}
  /\ Pages \subseteq Nat /\ NoPage \in Nat /\ NoPage \notin Pages /\ TopPage \in Nat
  /\ DataOfLayers \subseteq Pages \ {TopPage} /\ KeyPage \in DataOfLayers /\ DonePage \in DataOfLayers
  /\ KeyPage # DonePage
  /\ 0 \in Pages
  BY CacheAssumption, SessionAssumption DEF Pages, NoPage, TopPage, DataOfLayers

LEMMA CodeSizes ==
  ASSUME NEW i \in Layers
  PROVE  /\ BodyLength[i] \in Nat \ {0} /\ CodeLength(i) \in Nat
         /\ CodeLength(i) = BodyLength[i] + SledLength
         /\ Code(i) \subseteq Pages \ {TopPage} /\ Code(i) \cap DataOfLayers = {}
         /\ Body(i) \subseteq Code(i) /\ Sled(i) \subseteq Code(i)
         /\ 0 \in Body(i) /\ 0 \notin Sled(i)
<1>1. BodyLength[i] \in Nat \ {0} /\ SledLength \in Nat \ {0}
  BY SessionAssumption
<1>2. Code(i) \subseteq Pages \ {TopPage} /\ Code(i) \cap DataOfLayers = {}
  BY SessionAssumption DEF DataOfLayers
<1> QED
  BY <1>1, <1>2 DEF CodeLength, Body, Sled, Code

LEMMA Contents ==
  ASSUME NEW i \in Layers
  PROVE  /\ {Blank, CodeOf(i), KeyOf(i), WrittenBy(i), DoneBy(i)} \subseteq Content
         /\ Blank # DoneBy(i) /\ DoneBy(i)[1] = "done" /\ Blank[1] # "done"
  BY DEF Blank, CodeOf, KeyOf, WrittenBy, DoneBy, Content

\* Layers(i) on the memory of the one before.
LEMMA LoadedIs ==
  ASSUME NEW i \in Layers, NEW mem \in [Pages -> Content]
  PROVE  /\ Loaded(mem, i) \in [Pages -> Content]
         /\ \A p \in Code(i) : Loaded(mem, i)[p] = CodeOf(i)
         /\ Loaded(mem, i)[KeyPage] = KeyOf(i)
         /\ Loaded(mem, i)[DonePage] = mem[DonePage]
  BY Sizes, CodeSizes, Contents DEF Loaded, Content

LEMMA AgedType ==
  ASSUME CacheTypeOK
  PROVE  Aged \in [Slots -> 0 .. AgeMod - 1]
<1>1. \A n \in 0 .. AgeMod - 1 : (n + 1) % AgeMod \in 0 .. AgeMod - 1
  BY CacheAssumption
<1> QED
  BY <1>1 DEF Aged, CacheTypeOK

\* An access that ends.
Accessed(s, p, w, c) ==
  /\ tag[s] = p /\ p \in Pages \cup {NoPage}
  /\ CacheTypeOK' /\ UNCHANGED <<tag, slot>>
  /\ \A t \in Slots : dirty'[t] <=> dirty[t] \/ (w /\ t = s)
  /\ age' = [Aged EXCEPT ![s] = 0]
  /\ buf' \in [Slots -> Content]
  /\ \A t \in Slots : buf'[t] = IF w /\ t = s THEN c ELSE buf[t]
  /\ seen' = <<p, buf'[s]>>

LEMMA AccessIs ==
  ASSUME TypeOK, NEW p, NEW w \in BOOLEAN, NEW c \in Content, Access(p, w, c)
  PROVE  \E s \in Slots : Accessed(s, p, w, c)
<1>1. PICK s \in Slots :
        /\ CacheHit(s, p, w)
        /\ buf' = IF w THEN [buf EXCEPT ![s] = c] ELSE buf
        /\ seen' = <<p, buf'[s]>>
  BY DEF Access
<1>2. tag[s] = p /\ UNCHANGED <<tag, slot>> /\ age' = [Aged EXCEPT ![s] = 0]
      /\ dirty' = [dirty EXCEPT ![s] = dirty[s] \/ w]
  BY <1>1 DEF CacheHit, Matches, TypeOK, CacheTypeOK
<1>3. buf' \in [Slots -> Content] /\ \A t \in Slots : buf'[t] = IF w /\ t = s THEN c ELSE buf[t]
  BY <1>1 DEF TypeOK
<1>4. CacheTypeOK'
  <2>1. age' \in [Slots -> 0 .. AgeMod - 1]
    BY <1>2, AgedType, CacheAssumption DEF TypeOK
  <2>2. dirty' \in [Slots -> BOOLEAN]
    BY <1>2 DEF TypeOK, CacheTypeOK
  <2> QED
    BY <1>2, <2>1, <2>2 DEF TypeOK, CacheTypeOK
<1>5. p \in Pages \cup {NoPage}
  BY <1>2 DEF TypeOK, CacheTypeOK
<1>6. \A t \in Slots : dirty'[t] <=> dirty[t] \/ (w /\ t = s)
  BY <1>2 DEF TypeOK, CacheTypeOK
<1> QED
  BY <1>1, <1>2, <1>3, <1>4, <1>5, <1>6 DEF Accessed

\* One that does not.
LEMMA FaultIs ==
  ASSUME TypeOK, NEW p, Fault(p)
  PROVE  /\ ~Resident(p) /\ wanted' = p /\ phase' = "reply"
         /\ UNCHANGED <<tag, dirty, ram, buf, layer, verdict, far, seen>>
         /\ CacheTypeOK'
         /\ \E v \in Slots : IsVictim(Aged, v) /\ slot' = v /\ age' = [Aged EXCEPT ![v] = 0]
<1>1. PICK v \in Slots : CacheMiss(v, p)
  BY DEF Fault
<1>2. age' \in [Slots -> 0 .. AgeMod - 1]
  BY <1>1, AgedType, CacheAssumption DEF TypeOK, CacheMiss
<1>3. CacheTypeOK'
  BY <1>1, <1>2 DEF CacheMiss, TypeOK, CacheTypeOK
<1> QED
  BY <1>1, <1>3 DEF CacheMiss, Fault
-----------------------------------------------------------------------------
(***************************************************************************)
(* The accesses of a layer.                                                *)
(***************************************************************************)

\* They write data only, and what the layer writes over its key is its own.
LEMMA AccessKeeps ==
  ASSUME TypeOK, TagsOK, CodeOK, KeyOK,
         NEW p, NEW w \in BOOLEAN, NEW c \in Content, Access(p, w, c),
         w => p \in DataOfLayers, w /\ p = KeyPage => c = WrittenBy(layer),
         UNCHANGED <<ram, layer>>
  PROVE  TagsOK' /\ CodeOK' /\ KeyOK'
<1>0. PICK s \in Slots : Accessed(s, p, w, c)
  BY AccessIs
<1>1. /\ tag[s] = p /\ UNCHANGED <<tag, slot>>
      /\ \A t \in Slots : buf'[t] = IF w /\ t = s THEN c ELSE buf[t]
  BY <1>0 DEF Accessed
<1>2. \A t \in Slots : dirty'[t] => dirty[t] \/ (w /\ t = s)
  BY <1>0 DEF Accessed
<1>3. TagsOK'
  BY <1>1, <1>2 DEF TagsOK
<1>4. CodeOK'
  <2> SUFFICES ASSUME NEW t \in Slots, tag[t] \in Code(layer)
               PROVE  buf'[t] = buf[t]
    BY <1>1 DEF CodeOK, OldCode, StillHeld
  <2>1. ~(w /\ t = s)
    BY <1>1, CodeSizes DEF TypeOK
  <2> QED
    BY <1>1, <2>1
<1>5. KeyOK'
  BY <1>1 DEF KeyOK
<1> QED
  BY <1>3, <1>4, <1>5

LEMMA JumpToZeroKeeps == ASSUME IInv, JumpToZero PROVE IInv'
<1> USE DEF IInv
<1>1. /\ phase = "run" /\ at = "jump" /\ Access(0, FALSE, Blank)
      /\ at' = "body" /\ far' = 0 /\ work' = 0
      /\ UNCHANGED <<ram, layer, wanted, verdict, phase>>
  BY DEF JumpToZero, clientVars
<1>2. PICK s \in Slots : Accessed(s, 0, FALSE, Blank)
  BY <1>1, AccessIs, Contents DEF TypeOK
<1>3. layer \in Layers
  BY DEF TypeOK
<1>4. ram[DonePage] = Blank
  BY <1>1, <1>2, <1>3, CodeSizes DEF EndOK, Accessed
<1>5. wanted = 0 /\ \A t \in Slots :
        tag[t] = DonePage => ~dirty[t] /\ buf[t] = Blank
  <2> SUFFICES ASSUME NEW t \in Slots
               PROVE  tag[t] # DonePage
    BY <1>1, <1>4 DEF StartOK
  <2>1. CASE OldCode(t)
    <3>1. layer - 1 \in Layers
      BY <1>3, <2>1, SessionAssumption DEF OldCode, Layers
    <3> QED
      BY <2>1, <3>1, CodeSizes, Sizes DEF OldCode
  <2> QED
    BY <1>1, <1>3, <1>4, <2>1, Sizes, CodeSizes DEF StartOK
<1>6. TypeOK'
  <2>1. far' \in UNION {Code(i) : i \in Layers}
    BY <1>1, <1>3, CodeSizes
  <2>2. seen' \in Pages \X Content
    BY <1>2, Sizes DEF Accessed
  <2> QED
    BY <1>1, <1>2, <2>1, <2>2, SessionAssumption DEF TypeOK, Accessed
<1>7. TagsOK' /\ CodeOK' /\ KeyOK'
  BY <1>1, AccessKeeps, Contents DEF TypeOK
<1>8. WhereOK'
  BY <1>1, <1>3, <1>5, CodeSizes DEF WhereOK
<1>9. DoneOK'
  BY <1>1, <1>2, <1>3, <1>4, <1>5 DEF DoneOK, Accessed
<1>10. StartOK' /\ EndOK' /\ RaceInv'
  BY <1>1 DEF StartOK, EndOK, RaceInv
<1> QED
  BY <1>6, <1>7, <1>8, <1>9, <1>10

LEMMA FetchOnKeeps == ASSUME IInv, FetchOn PROVE IInv'
<1> USE DEF IInv
<1>1. /\ phase = "run" /\ at = "body" /\ far + 1 \in Body(layer) /\ Access(far + 1, FALSE, Blank)
      /\ far' = far + 1
      /\ UNCHANGED <<ram, layer, wanted, verdict, phase, at, work>>
  BY DEF FetchOn, clientVars
<1>2. PICK s \in Slots : Accessed(s, far + 1, FALSE, Blank)
  BY <1>1, AccessIs, Contents DEF TypeOK
<1>3. layer \in Layers
  BY DEF TypeOK
<1>4. TypeOK'
  <2>1. far' \in UNION {Code(i) : i \in Layers} /\ seen' \in Pages \X Content
    BY <1>1, <1>2, <1>3, CodeSizes DEF Accessed
  <2> QED
    BY <1>1, <1>2, <2>1 DEF TypeOK, Accessed
<1>5. TagsOK' /\ CodeOK' /\ KeyOK'
  BY <1>1, AccessKeeps, Contents DEF TypeOK
<1>6. WhereOK'
  BY <1>1, <1>3 DEF WhereOK
<1>7. DoneOK'
  BY <1>1, <1>2, <1>3 DEF DoneOK, Accessed
<1>8. StartOK' /\ EndOK' /\ RaceInv'
  BY <1>1 DEF StartOK, EndOK, RaceInv
<1> QED
  BY <1>4, <1>5, <1>6, <1>7, <1>8

LEMMA WorkKeeps == ASSUME IInv, NEW p \in Pages, Work(p) PROVE IInv'
<1> USE DEF IInv
<1>1. PICK w \in BOOLEAN :
        /\ phase = "run" /\ at = "body" /\ work < MaxWork /\ p \in BodyPages
        /\ w => p \notin Body(layer)
        /\ Access(p, w, WrittenBy(layer))
        /\ work' = work + 1
        /\ UNCHANGED <<ram, layer, wanted, verdict, phase, at, far>>
  BY DEF Work, clientVars
<1>2. layer \in Layers /\ WrittenBy(layer) \in Content /\ (w => p \in DataOfLayers) /\ p # DonePage
  BY <1>1, CodeSizes, Contents, Sizes, SessionAssumption DEF TypeOK, BodyPages, DataOfLayers
<1>3. PICK s \in Slots : Accessed(s, p, w, WrittenBy(layer))
  BY <1>1, <1>2, AccessIs
<1>4. TypeOK'
  BY <1>1, <1>3, SessionAssumption DEF TypeOK, Accessed
<1>5. TagsOK' /\ CodeOK' /\ KeyOK'
  BY <1>1, <1>2, AccessKeeps
<1>6. WhereOK'
  BY <1>1 DEF WhereOK
<1>7. DoneOK'
  BY <1>1, <1>2, <1>3 DEF DoneOK, TypeOK, CacheTypeOK, Accessed
<1>8. StartOK' /\ EndOK' /\ RaceInv'
  BY <1>1 DEF StartOK, EndOK, RaceInv
<1> QED
  BY <1>4, <1>5, <1>6, <1>7, <1>8

LEMMA FetchEndKeeps == ASSUME IInv, FetchEnd PROVE IInv'
<1> USE DEF IInv
<1>1. /\ phase = "run" /\ at = "body" /\ far + 1 \notin Body(layer) /\ Access(far, FALSE, Blank)
      /\ at' = "saying"
      /\ UNCHANGED <<ram, layer, wanted, verdict, phase, far, work>>
  BY DEF FetchEnd, clientVars
<1>2. PICK s \in Slots : Accessed(s, far, FALSE, Blank)
  BY <1>1, AccessIs, Contents DEF TypeOK
<1>3. layer \in Layers /\ age'[s] = 0 /\ far \in Pages
  BY <1>1, <1>2, CodeSizes DEF TypeOK, CacheTypeOK, WhereOK, Aged, Accessed
<1>4. TypeOK'
  BY <1>1, <1>2, <1>3 DEF TypeOK, Accessed
<1>5. TagsOK' /\ CodeOK' /\ KeyOK'
  BY <1>1, AccessKeeps, Contents DEF TypeOK
<1>6. WhereOK'
  BY <1>1, <1>2, <1>3 DEF WhereOK, Accessed
<1>7. DoneOK'
  BY <1>1, <1>2, <1>3 DEF DoneOK, Accessed
<1>8. StartOK' /\ EndOK' /\ RaceInv'
  BY <1>1 DEF StartOK, EndOK, RaceInv
<1> QED
  BY <1>4, <1>5, <1>6, <1>7, <1>8

\* The race starts with the two pages of the instruction that sets the int.
LEMMA SayDoneKeeps == ASSUME IInv, SayDone PROVE IInv'
<1> USE DEF IInv
<1>1. /\ phase = "run" /\ at = "saying" /\ Access(DonePage, TRUE, DoneBy(layer))
      /\ at' = "sled"
      /\ UNCHANGED <<ram, layer, wanted, verdict, phase, far, work>>
  BY DEF SayDone, clientVars
<1>2. layer \in Layers /\ DoneBy(layer) \in Content
  BY Contents DEF TypeOK
<1>3. PICK s \in Slots : Accessed(s, DonePage, TRUE, DoneBy(layer))
  BY <1>1, <1>2, AccessIs
<1>4. PICK c \in Slots : tag[c] = far /\ age[c] = 0
  BY <1>1 DEF WhereOK
<1>5. far = BodyLength[layer] - 1 /\ far \in Pages /\ far \notin DataOfLayers
  <2>1. far \in Body(layer) /\ far + 1 \notin Body(layer)
    BY <1>1 DEF WhereOK
  <2> QED
    BY <1>2, <2>1, CodeSizes DEF Body
<1>6. ~Pending'
  <2>1. wanted \in Body(layer) \cup DataOfLayers
    BY <1>1 DEF WhereOK
  <2>2. far + 1 \in Code(layer) /\ far + 1 \notin Body(layer)
    BY <1>2, <1>5, CodeSizes, Sizes DEF Code, Body
  <2> QED
    BY <1>1, <1>2, <2>1, <2>2, CodeSizes DEF Pending
<1>7. TypeOK'
  <2>1. seen' \in Pages \X Content
    BY <1>3, Sizes DEF Accessed
  <2> QED
    BY <1>1, <1>3, <2>1 DEF TypeOK, Accessed
<1>8. TagsOK' /\ CodeOK' /\ KeyOK'
  BY <1>1, <1>2, Sizes, AccessKeeps
<1>9. WhereOK'
  <2>1. far \in BodyLength[layer] - 1 .. CodeLength(layer) - 2
    BY <1>2, <1>5, CodeSizes, Sizes
  <2>2. wanted \in Body(layer) \cup DataOfLayers
    BY <1>1 DEF WhereOK
  <2> QED
    BY <1>1, <2>1, <2>2, CodeSizes DEF WhereOK, CodeLength
<1>10. DoneOK'
  <2>1. \A t \in Slots : tag[t] = DonePage => t = s
    BY <1>3, Sizes DEF TagsOK, Accessed
  <2> QED
    BY <1>1, <1>3, <2>1 DEF DoneOK, Accessed, Unsent
<1>11. StartOK' /\ EndOK'
  BY <1>1 DEF StartOK, EndOK
<1>12. RaceInv'
  <2> DEFINE q == [page |-> tag', age |-> age', written |-> dirty', first |-> BodyLength[layer],
                   last |-> far, now |-> 1]
  <2>1. Race(1)' = q
    BY <1>1, <1>6, <1>7 DEF Race, TypeOK, CacheTypeOK
  <2>2. q \in Races
    <3>1. tag' \in [Slots -> Nat] /\ dirty' \in [Slots -> BOOLEAN]
      BY <1>7, Sizes, ZenonT(60) DEF TypeOK, CacheTypeOK
    <3>2. age' \in [Slots -> -1 .. AgeMod - 1]
      BY <1>7, Sizes DEF TypeOK, CacheTypeOK
    <3>3. BodyLength[layer] \in Nat /\ far \in Int
      BY <1>2, <1>5, CodeSizes
    <3> QED
      BY <3>1, <3>2, <3>3 DEF Races
  <2>3. s # c /\ age'[s] = 0 /\ age'[c] = 1
    <3>1. s # c
      BY <1>3, <1>4, <1>5, Sizes DEF Accessed
    <3>2. Aged[c] = 1
      BY <1>4, CacheAssumption DEF Aged
    <3> QED
      BY <1>3, <3>1, <3>2 DEF Accessed, Aged
  <2>4. Recent(q, s) /\ Recent(q, c)
    BY <2>3 DEF Recent
  <2>5. q.last = q.first - 1
    BY <1>5
  <2>6. RaceOK(q) /\ Owes(q)
    BY <2>2, <2>3, <2>4, <2>5, RaceStarts
  <2>7. 1 \in 0 .. LatestNow'
    BY <1>1, <1>2, <1>5, <1>6, CodeSizes DEF LatestNow
  <2> QED
    BY <1>6, <2>1, <2>6, <2>7 DEF RaceInv
<1> QED
  BY <1>7, <1>8, <1>9, <1>10, <1>11, <1>12

\* In the sled there is time for two more translations.
LEMMA SledInTime ==
  ASSUME IInv, at = "sled", NEW now \in 0 .. LatestNow
  PROVE  /\ now \in Nat /\ now + 1 < Oldest /\ layer \in Layers
         /\ far \in Int /\ far + 1 \in Sled(layer) /\ far + 1 \in Code(layer)
<1>1. layer \in Layers /\ far \in BodyLength[layer] - 1 .. CodeLength(layer) - 2
  BY DEF IInv, TypeOK, WhereOK
<1>2. far - BodyLength[layer] + 1 <= SledLength - 1 /\ far \in Int
  BY <1>1, CodeSizes, Sizes
<1>3. LatestNow \in Int /\ LatestNow <= 2 * SledLength
  BY <1>1, <1>2, CodeSizes, Sizes DEF LatestNow
<1>4. far + 1 \in Sled(layer)
  BY <1>1, <1>2, CodeSizes, Sizes DEF Sled
<1> QED
  BY <1>1, <1>2, <1>3, <1>4, Sizes, CodeSizes, LayersAssumption DEF SlowAges, Oldest

\* The next page of the sled is reached.
LEMMA SlideRaces ==
  ASSUME IInv, Slide
  PROVE  \E now \in Nat :
           LET q == [page |-> tag, age |-> age', written |-> dirty, first |-> BodyLength[layer],
                     last |-> far + 1, now |-> now]
           IN  /\ RaceOK(q) /\ Owes(q)
               /\ now <= 2 * (far + 1 - BodyLength[layer] + 1) + 1
<1> USE DEF IInv
<1>1. /\ phase = "run" /\ at = "sled" /\ Access(far + 1, FALSE, Blank)
      /\ far' = far + 1 /\ UNCHANGED <<wanted, layer, phase>>
  BY DEF Slide, clientVars
<1>2. PICK s \in Slots : Accessed(s, far + 1, FALSE, Blank)
  BY <1>1, AccessIs, Contents DEF TypeOK
<1>3. PICK now \in 0 .. LatestNow : RaceOK(Race(now)) /\ Owes(Race(now))
  BY <1>1 DEF RaceInv
<1>4. /\ now \in Nat /\ now + 1 < Oldest /\ layer \in Layers
      /\ far \in Int /\ far + 1 \in Sled(layer) /\ far + 1 \in Code(layer)
  BY <1>1, <1>3, SledInTime
<1> DEFINE r == Race(now)
           q == [page |-> tag, age |-> age', written |-> dirty, first |-> BodyLength[layer],
                 last |-> far + 1, now |-> now + 1]
<1>5. tag[s] = far + 1 /\ \A t \in Slots : t # s => tag[t] # far + 1
  BY <1>2, <1>4, CodeSizes, Sizes DEF Accessed, TagsOK
<1>6. InTime(r)
  BY <1>4 DEF InTime, Race
<1>7. /\ tag \in [Slots -> Pages \cup {NoPage}] /\ dirty \in [Slots -> BOOLEAN]
      /\ age \in [Slots -> 0 .. AgeMod - 1] /\ AgeMod \in Nat /\ AgeMod > 1
  BY Sizes DEF TypeOK, CacheTypeOK
<1>8. age' = [Aged EXCEPT ![s] = 0] /\ Aged = [t \in Slots |-> (age[t] + 1) % AgeMod]
  BY <1>2 DEF Accessed, Aged
<1>9. BodyLength[layer] \in Nat
  BY <1>4, CodeSizes
<1>10. CASE Pending
  <2>1. s = slot /\ ~dirty[slot] /\ tag[slot] = far + 1
    <3>1. slot \in Slots
      BY DEF TypeOK, CacheTypeOK
    <3> QED
      BY <1>1, <1>5, <1>10, <3>1 DEF RaceInv
  <2>2. /\ r.page = tag /\ r.written = dirty /\ r.first = BodyLength[layer]
        /\ r.last = far + 1 /\ r.now = now
        /\ r.age = [t \in Slots |-> IF t = s THEN -1 ELSE age[t]]
    BY <1>7, <1>10, <2>1 DEF Race
  <2>3. Later(r) = age'
    BY <1>7, <1>8, <2>2 DEF Later
  <2>4. q = Ticked(r)
    BY <2>2, <2>3 DEF Ticked
  <2>5. RaceOK(q) /\ Owes(q)
    BY <1>3, <1>6, <2>4, RaceTicks
  <2>6. now + 1 <= 2 * (far + 1 - BodyLength[layer] + 1) + 1
    BY <1>3, <1>4, <1>9, <1>10 DEF LatestNow
  <2> QED
    BY <1>4, <2>5, <2>6
<1>11. CASE ~Pending
  <2>1. /\ r.page = tag /\ r.written = dirty /\ r.first = BodyLength[layer]
        /\ r.last = far /\ r.now = now /\ r.age = age
    BY <1>7, <1>11 DEF Race
  <2>2. ~dirty[s]
    BY <1>4, <1>5, CodeSizes, Sizes DEF TagsOK
  <2>3. Later(r) = Aged
    BY <2>1 DEF Later, Aged
  <2>4. q = Moved(r, s, 0)
    BY <1>5, <1>7, <1>8, <2>1, <2>2, <2>3 DEF Moved
  <2>5. Arrives(r, s, 0)
    BY <1>3, <1>5, <1>6, <1>7, <2>1 DEF Arrives
  <2>6. ~Came(r, s)
    BY <1>4, <1>5, <2>1 DEF Came
  <2>7. RaceOK(q) /\ Owes(q)
    BY <1>3, <2>4, <2>5, <2>6, RaceMoves
  <2>8. now + 1 <= 2 * (far + 1 - BodyLength[layer] + 1) + 1
    BY <1>3, <1>4, <1>9, <1>11 DEF LatestNow
  <2> QED
    BY <1>4, <2>7, <2>8
<1> QED
  BY <1>10, <1>11

LEMMA SlideKeeps == ASSUME IInv, Slide PROVE IInv'
<1> USE DEF IInv
<1>1. /\ phase = "run" /\ at = "sled" /\ Access(far + 1, FALSE, Blank)
      /\ far' = far + 1 /\ at' = IF far + 2 \in Code(layer) THEN "sled" ELSE "jump"
      /\ UNCHANGED <<ram, layer, wanted, verdict, phase, work>>
  BY DEF Slide, clientVars
<1>2. PICK s \in Slots : Accessed(s, far + 1, FALSE, Blank)
  BY <1>1, AccessIs, Contents DEF TypeOK
<1>3. /\ layer \in Layers /\ far \in Int /\ far + 1 \in Sled(layer) /\ far + 1 \in Code(layer)
      /\ BodyLength[layer] \in Nat \ {0} /\ CodeLength(layer) = BodyLength[layer] + SledLength
      /\ SledLength \in Nat
  <2>1. \E now \in 0 .. LatestNow : TRUE
    BY <1>1 DEF RaceInv
  <2> QED
    BY <1>1, <2>1, SledInTime, CodeSizes, Sizes
<1>4. TypeOK'
  <2>1. far + 1 \in UNION {Code(i) : i \in Layers} /\ seen' \in Pages \X Content
    BY <1>2, <1>3, CodeSizes DEF Accessed
  <2> QED
    BY <1>1, <1>2, <2>1 DEF TypeOK, Accessed
<1>5. TagsOK' /\ CodeOK' /\ KeyOK'
  BY <1>1, AccessKeeps, Contents DEF TypeOK
<1>6. tag' = tag /\ dirty' = dirty /\ buf' = buf /\ slot' = slot
  BY <1>2 DEF Accessed, TypeOK, CacheTypeOK
<1>7. WhereOK'
  <2>1. wanted \in Body(layer) \cup DataOfLayers \cup BodyLength[layer] .. far + 1
    BY <1>1 DEF WhereOK
  <2>2. at' = "sled" => far' \in BodyLength[layer] - 1 .. CodeLength(layer) - 2
    BY <1>1, <1>3 DEF Code, Sled
  <2>3. wanted \in Body(layer) \cup DataOfLayers \cup BodyLength[layer] .. far' + 1
    BY <1>1, <1>3, <2>1
  <2> QED
    BY <1>1, <2>2, <2>3 DEF WhereOK
<1>8. DoneOK'
  BY <1>1, <1>6 DEF DoneOK, Unsent
<1>9. PICK now \in Nat :
        LET q == [page |-> tag, age |-> age', written |-> dirty, first |-> BodyLength[layer],
                  last |-> far + 1, now |-> now]
        IN  /\ RaceOK(q) /\ Owes(q)
            /\ now <= 2 * (far + 1 - BodyLength[layer] + 1) + 1
  BY SlideRaces
<1> DEFINE q == [page |-> tag, age |-> age', written |-> dirty, first |-> BodyLength[layer],
                 last |-> far + 1, now |-> now]
<1>10. CASE far + 2 \in Code(layer)
  <2>1. ~Pending'
    <3>1. wanted \in Body(layer) \cup DataOfLayers \cup BodyLength[layer] .. far + 1
      BY <1>1 DEF WhereOK
    <3> QED
      BY <1>1, <1>3, <1>10, <3>1, CodeSizes DEF Pending, Sled, Body
  <2>2. Race(now)' = q
    BY <1>1, <1>4, <1>6, <2>1 DEF Race, TypeOK, CacheTypeOK
  <2>3. now \in 0 .. LatestNow'
    BY <1>1, <1>3, <1>9, <2>1 DEF LatestNow
  <2>4. RaceInv'
    BY <1>9, <2>1, <2>2, <2>3 DEF RaceInv
  <2>5. StartOK' /\ EndOK'
    BY <1>1, <1>10 DEF StartOK, EndOK
  <2> QED
    BY <1>4, <1>5, <1>7, <1>8, <2>4, <2>5
<1>11. CASE far + 2 \notin Code(layer)
  <2>1. at' = "jump" /\ far + 1 = CodeLength(layer) - 1
    BY <1>1, <1>3, <1>11 DEF Code, Sled
  <2>2. 2 * (q.last - q.first + 1) >= NSlots * (NSlots + 1) - 2
    BY <1>3, <2>1, LayersAssumption DEF LongSled
  <2>3. \A t \in Slots : Came(q, t) /\ ~q.written[t] /\ q.page[t] \in q.last - NSlots + 1 .. q.last
    BY <1>9, <2>2, RaceEnds
  <2>4. \A t \in Slots : /\ tag[t] \in Sled(layer) /\ ~dirty[t]
                        /\ tag[t] > CodeLength(layer) - 1 - NSlots
    BY <1>3, <2>1, <2>3, Sizes DEF Came, Sled
  <2>5. \A t \in Slots : buf[t] = CodeOf(layer)
    <3> TAKE t \in Slots
    <3>1. tag[t] \in Sled(layer) /\ tag[t] \in Code(layer)
      BY <1>3, <2>4, CodeSizes
    <3>2. ~OldCode(t)
      BY <1>3, <3>1, LayersAssumption DEF OldCode, SledsApart
    <3> QED
      BY <3>1, <3>2 DEF CodeOK
  <2>6. ram[DonePage] = DoneBy(layer)
    BY <1>1, <2>4 DEF DoneOK, Unsent
  <2>7. StartOK'
    BY <1>1, <1>3, <2>6, Contents DEF StartOK
  <2>8. EndOK'
    <3>1. seen' = <<CodeLength(layer) - 1, CodeOf(layer)>>
      BY <1>2, <1>6, <2>1, <2>5 DEF Accessed
    <3> QED
      BY <1>1, <1>6, <2>4, <2>5, <2>6, <3>1 DEF EndOK
  <2>9. RaceInv'
    BY <2>1 DEF RaceInv
  <2> QED
    BY <1>4, <1>5, <1>7, <1>8, <2>7, <2>8, <2>9
<1> QED
  BY <1>10, <1>11

\* The next page of the sled is not there.
LEMMA AskRaces ==
  ASSUME IInv, at = "sled", phase = "run", at' = at, Fault(far + 1)
  PROVE  RaceInv'
<1> USE DEF IInv
<1>1. PICK v \in Slots : IsVictim(Aged, v) /\ slot' = v /\ age' = [Aged EXCEPT ![v] = 0]
  BY FaultIs
<1>2. /\ ~Resident(far + 1) /\ wanted' = far + 1 /\ phase' = "reply"
      /\ UNCHANGED <<tag, dirty, layer, far>> /\ CacheTypeOK'
  BY FaultIs
<1>3. PICK now \in 0 .. LatestNow : RaceOK(Race(now)) /\ Owes(Race(now))
  BY DEF RaceInv
<1>4. now \in Nat /\ now + 1 < Oldest /\ layer \in Layers /\ far \in Int
  BY <1>3, SledInTime
<1>5. BodyLength[layer] \in Nat
  BY <1>4, CodeSizes
<1>6. /\ tag \in [Slots -> Pages \cup {NoPage}] /\ dirty \in [Slots -> BOOLEAN]
      /\ age \in [Slots -> 0 .. AgeMod - 1] /\ AgeMod \in Nat /\ slot \in Slots
  BY Sizes DEF TypeOK, CacheTypeOK
<1>7. ~Pending /\ Pending'
  BY <1>2, <1>6 DEF RaceInv, Resident, Pending
<1> DEFINE r == Race(now)
<1>8. /\ r.page = tag /\ r.written = dirty /\ r.first = BodyLength[layer]
      /\ r.last = far /\ r.now = now /\ r.age = age
  BY <1>6, <1>7 DEF Race
<1>9. Later(r) = Aged /\ Aged \in [Slots -> 0 .. AgeMod - 1]
  BY <1>8, AgedType DEF Later, Aged, TypeOK
<1>10. Race(now + 1)' = Moved(r, v, -1)
  <2>1. [t \in Slots |-> IF t = v THEN far + 1 ELSE tag[t]] = [tag EXCEPT ![v] = far + 1]
    BY <1>6
  <2>2. [t \in Slots |-> IF t = v THEN -1 ELSE age'[t]] = [Aged EXCEPT ![v] = -1]
    BY <1>1, <1>9
  <2>3. [t \in Slots |-> dirty[t] /\ ~(t = v)] = [dirty EXCEPT ![v] = FALSE]
    BY <1>6
  <2> QED
    BY <1>1, <1>2, <1>7, <1>8, <1>9, <2>1, <2>2, <2>3 DEF Race, Moved
<1>11. Arrives(r, v, -1)
  BY <1>2, <1>3, <1>4, <1>6, <1>8 DEF Arrives, InTime, Resident
<1>12. RaceOK(Race(now + 1)') /\ Owes(Race(now + 1)')
  BY <1>1, <1>3, <1>8, <1>9, <1>10, <1>11, RaceMoves
<1>13. now + 1 \in 0 .. LatestNow'
  BY <1>2, <1>3, <1>4, <1>5, <1>7 DEF LatestNow
<1> QED
  BY <1>2, <1>12, <1>13 DEF RaceInv

LEMMA AskForPageKeeps == ASSUME IInv, AskForPage PROVE IInv'
<1> USE DEF IInv
<1>1. PICK p :
        /\ Fault(p)
        /\ \/ at = "jump" /\ p = 0 /\ at' = "jump" /\ work' = work
           \/ at \in {"body", "saying"} /\ p \in Body(layer) \cup DataOfLayers /\ at' = "body"
              /\ (work' = work \/ (work < MaxWork /\ work' = work + 1))
           \/ at = "sled" /\ p = far + 1 /\ at' = "sled" /\ work' = work
  <2>1. at = "body" => far \in Body(layer)
    BY DEF WhereOK
  <2>2. BodyPages \subseteq Body(layer) \cup DataOfLayers
    BY DEF BodyPages, DataOfLayers
  <2> QED
    BY <2>1, <2>2, Sizes DEF AskForPage
<1>2. /\ ~Resident(p) /\ wanted' = p /\ phase' = "reply" /\ phase = "run"
      /\ UNCHANGED <<tag, dirty, ram, buf, layer, verdict, far, seen>> /\ CacheTypeOK'
  BY <1>1, FaultIs DEF AskForPage
<1>3. layer \in Layers
  BY DEF TypeOK
<1>4. p \in Pages
  <2>1. at = "sled" => far + 1 \in Code(layer)
    <3> HAVE at = "sled"
    <3>1. \E now \in 0 .. LatestNow : TRUE
      BY DEF RaceInv
    <3> QED
      BY <3>1, SledInTime
  <2> QED
    BY <1>1, <1>3, <2>1, CodeSizes, Sizes
<1>5. TypeOK'
  <2>1. work' \in 0 .. MaxWork
    BY <1>1, SessionAssumption DEF TypeOK
  <2> QED
    BY <1>1, <1>2, <1>4, <2>1 DEF TypeOK
<1>6. TagsOK' /\ CodeOK' /\ KeyOK'
  BY <1>2 DEF TagsOK, CodeOK, KeyOK, OldCode, StillHeld
<1>7. CASE at = "jump"
  <2>1. ram[DonePage] # Blank
    BY <1>1, <1>2, <1>7 DEF StartOK
  <2>2. EndOK'
    BY <1>1, <1>2, <1>7 DEF EndOK
  <2>3. WhereOK' /\ DoneOK' /\ StartOK' /\ RaceInv'
    BY <1>1, <1>2, <1>7, <2>1 DEF WhereOK, Resident, DoneOK, StartOK, RaceInv
  <2> QED
    BY <1>5, <1>6, <2>2, <2>3
<1>8. CASE at \in {"body", "saying"}
  <2>1. WhereOK'
    BY <1>1, <1>2, <1>8 DEF WhereOK, Resident
  <2>2. DoneOK'
    BY <1>1, <1>2, <1>8 DEF DoneOK
  <2>3. StartOK' /\ EndOK' /\ RaceInv'
    BY <1>1, <1>8 DEF StartOK, EndOK, RaceInv
  <2> QED
    BY <1>5, <1>6, <2>1, <2>2, <2>3
<1>9. CASE at = "sled"
  <2>1. WhereOK'
    <3>1. far \in BodyLength[layer] - 1 .. CodeLength(layer) - 2 /\ BodyLength[layer] \in Nat
      BY <1>3, <1>9, CodeSizes DEF WhereOK
    <3>2. far + 1 \in BodyLength[layer] .. far + 1
      BY <3>1
    <3> QED
      BY <1>1, <1>2, <1>9, <3>2 DEF WhereOK, Resident
  <2>2. DoneOK'
    BY <1>1, <1>2, <1>9 DEF DoneOK, Unsent
  <2>3. StartOK' /\ EndOK'
    BY <1>1, <1>9 DEF StartOK, EndOK
  <2>4. RaceInv'
    BY <1>1, <1>2, <1>9, AskRaces
  <2> QED
    BY <1>5, <1>6, <2>1, <2>2, <2>3, <2>4
<1> QED
  BY <1>1, <1>7, <1>8, <1>9
-----------------------------------------------------------------------------
(***************************************************************************)
(* The steps of the client.                                                *)
(***************************************************************************)

LEMMA SendPageKeeps == ASSUME IInv, SendPage PROVE IInv'
<1> USE DEF IInv
<1>1. /\ phase = "loop" /\ ~LayerOver /\ phase' = "run"
      /\ tag' = [tag EXCEPT ![slot] = wanted] /\ dirty' = [dirty EXCEPT ![slot] = FALSE]
      /\ buf' = [buf EXCEPT ![slot] = ram[wanted]]
      /\ UNCHANGED <<age, slot, ram, layer, wanted, verdict, at, far, work, seen>>
  BY DEF SendPage, CacheFill, clientVars, vmVars
<1>2. /\ slot \in Slots /\ wanted \in Pages /\ layer \in Layers /\ ~Resident(wanted)
      /\ tag \in [Slots -> Pages \cup {NoPage}] /\ dirty \in [Slots -> BOOLEAN]
      /\ buf \in [Slots -> Content] /\ ram \in [Pages -> Content]
  BY <1>1 DEF TypeOK, CacheTypeOK, WhereOK
<1>3. /\ tag'[slot] = wanted /\ ~dirty'[slot] /\ buf'[slot] = ram[wanted]
      /\ \A t \in Slots : t # slot => tag'[t] = tag[t] /\ dirty'[t] = dirty[t] /\ buf'[t] = buf[t]
  BY <1>1, <1>2
<1>4. TypeOK'
  BY <1>1, <1>2 DEF TypeOK, CacheTypeOK
<1>5. TagsOK'
  BY <1>2, <1>3 DEF TagsOK, Resident
<1>6. WhereOK'
  BY <1>1 DEF WhereOK
<1>7. CodeOK' /\ KeyOK'
  BY <1>1, <1>2, <1>3 DEF CodeOK, KeyOK, OldCode, StillHeld
<1>8. CASE at = "jump"
  <2>1. ram[DonePage] = Blank
    BY <1>1, <1>2, <1>8, Contents DEF EndOK, LayerOver, Done
  <2>2. wanted = 0
    BY <1>8, <2>1 DEF StartOK
  <2>3. Resident(0)'
    BY <1>2, <1>3, <2>2 DEF Resident
  <2>4. StartOK'
    BY <1>1, <1>3, <1>8, <2>1, <2>2, <2>3 DEF StartOK, OldCode, StillHeld
  <2>5. DoneOK' /\ EndOK' /\ RaceInv'
    BY <1>1, <1>8, <2>1 DEF DoneOK, EndOK, RaceInv
  <2> QED
    BY <1>4, <1>5, <1>6, <1>7, <2>4, <2>5
<1>9. CASE at \in {"body", "saying"}
  <2>1. DoneOK'
    BY <1>1, <1>2, <1>3, <1>9 DEF DoneOK
  <2> QED
    BY <1>1, <1>4, <1>5, <1>6, <1>7, <1>9, <2>1 DEF StartOK, EndOK, RaceInv
<1>10. CASE at = "sled"
  <2>1. wanted = far + 1 /\ Pending /\ Pending'
    BY <1>1, <1>10 DEF WhereOK, Pending
  <2>2. PICK now \in 0 .. LatestNow : RaceOK(Race(now)) /\ Owes(Race(now))
    BY <1>10 DEF RaceInv
  <2>3. wanted # DonePage
    BY <1>2, <1>10, <2>1, <2>2, CodeSizes, Sizes, SledInTime
  <2>4. DoneOK'
    BY <1>1, <1>3, <1>10, <2>3 DEF DoneOK, Unsent
  <2>5. Race(now)' = Race(now)
    <3>1. \A t \in Slots : /\ (IF t = slot THEN far + 1 ELSE tag'[t]) = (IF t = slot THEN far + 1 ELSE tag[t])
                          /\ (dirty'[t] /\ ~(t = slot)) = (dirty[t] /\ ~(t = slot))
      BY <1>3
    <3> QED
      BY <1>1, <2>1, <3>1 DEF Race
  <2>6. LatestNow' = LatestNow
    BY <1>1, <2>1 DEF LatestNow
  <2>7. RaceInv'
    BY <1>1, <1>3, <2>1, <2>2, <2>5, <2>6 DEF RaceInv
  <2> QED
    BY <1>1, <1>4, <1>5, <1>6, <1>7, <1>10, <2>4, <2>7 DEF StartOK, EndOK
<1> QED
  BY <1>8, <1>9, <1>10 DEF TypeOK

LEMMA WriteBackKeeps == ASSUME IInv, WriteBack PROVE IInv'
<1> USE DEF IInv
<1>1. /\ phase = "reply" /\ phase' = "loop"
      /\ ram' = IF tag[slot] \notin {TopPage, NoPage} /\ dirty[slot]
                  THEN [ram EXCEPT ![tag[slot]] = buf[slot]] ELSE ram
      /\ UNCHANGED <<tag, dirty, age, slot, layer, wanted, verdict, at, far, work, seen, buf>>
  BY DEF WriteBack, cacheVars, vmVars
<1>2. slot \in Slots /\ layer \in Layers /\ ram \in [Pages -> Content] /\ buf[slot] \in Content
  BY DEF TypeOK, CacheTypeOK
<1>3. /\ ram' \in [Pages -> Content]
      /\ \A p \in Pages : ram'[p] = ram[p] \/ (p = tag[slot] /\ dirty[slot] /\ ram'[p] = buf[slot])
      /\ ~dirty[slot] => ram' = ram
  BY <1>1, <1>2 DEF TypeOK, CacheTypeOK
<1>4. TypeOK' /\ TagsOK'
  BY <1>1, <1>3 DEF TypeOK, CacheTypeOK, TagsOK
<1>5. WhereOK'
  BY <1>1 DEF WhereOK, Resident
<1>6. CodeOK'
  <2>1. \A p \in Code(layer) : p \in Pages /\ ~(p = tag[slot] /\ dirty[slot])
    BY <1>2, CodeSizes, Sizes DEF TagsOK
  <2> QED
    BY <1>1, <1>3, <2>1 DEF CodeOK, OldCode, StillHeld
<1>7. KeyOK'
  BY <1>1, <1>2, <1>3, Sizes DEF KeyOK
<1>8. DoneOK'
  <2>1. at \in {"body", "saying"} => DoneOK'
    BY <1>1, <1>2, <1>3, Sizes DEF DoneOK
  <2>2. at = "sled" => DoneOK'
    <3> HAVE at = "sled"
    <3>1. ram'[DonePage] = DoneBy(layer) \/ \E s \in Slots : tag[s] = DonePage /\ Unsent(s)'
      <4>1. CASE ram[DonePage] = DoneBy(layer)
        BY <1>2, <1>3, <4>1, Sizes DEF DoneOK
      <4>2. CASE \E s \in Slots : tag[s] = DonePage /\ Unsent(s)
        <5>1. PICK s \in Slots : tag[s] = DonePage /\ dirty[s]
          BY <4>2 DEF Unsent
        <5>2. s # slot => Unsent(s)'
          BY <1>1, <5>1 DEF Unsent
        <5>3. s = slot => ram'[DonePage] = DoneBy(layer)
          BY <1>1, <1>2, <5>1, Sizes DEF DoneOK
        <5> QED
          BY <5>1, <5>2, <5>3
      <4> QED
        BY <4>1, <4>2 DEF DoneOK
    <3> QED
      BY <1>1, <3>1 DEF DoneOK
  <2> QED
    BY <1>1, <2>1, <2>2 DEF DoneOK
<1>9. StartOK' /\ EndOK'
  <2>1. at = "jump" => ram[DonePage] # Blank /\ ram' = ram
    BY <1>1, <1>2, <1>3 DEF StartOK, EndOK
  <2> QED
    BY <1>1, <2>1 DEF StartOK, EndOK
<1>10. RaceInv'
  <2>1. \A now : Race(now)' = Race(now)
    BY <1>1 DEF Race, Pending
  <2> QED
    BY <1>1, <2>1 DEF RaceInv, LatestNow, Pending
<1> QED
  BY <1>4, <1>5, <1>6, <1>7, <1>8, <1>9, <1>10

\* The client finds a layer over: the sled is.
LEMMA OverIsOver ==
  ASSUME IInv, LayerOver
  PROVE  at = "jump" /\ wanted = 0 /\ ram[DonePage] # Blank
  BY Contents DEF IInv, TypeOK, LayerOver, Done

LEMMA NextLayerKeeps == ASSUME IInv, NextLayer PROVE IInv'
<1> USE DEF IInv
<1>1. /\ phase = "loop" /\ LayerOver /\ layer < NLayers - 1
      /\ verdict' = ram[KeyPage] /\ layer' = layer + 1
      /\ ram' = Loaded([ram EXCEPT ![DonePage] = Blank], layer + 1)
      /\ UNCHANGED <<tag, dirty, age, slot, wanted, at, far, work, seen, buf, phase>>
  BY DEF NextLayer, cacheVars, vmVars
<1>2. at = "jump" /\ wanted = 0 /\ ram[DonePage] # Blank
  BY <1>1, OverIsOver
<1>3. layer \in Layers /\ layer + 1 \in Layers /\ layer \in Nat
  BY <1>1, SessionAssumption DEF TypeOK, Layers
<1> DEFINE mem == [ram EXCEPT ![DonePage] = Blank]
<1>4. mem \in [Pages -> Content] /\ mem[DonePage] = Blank
  BY <1>3, Contents, Sizes DEF TypeOK
<1>5. /\ ram' \in [Pages -> Content] /\ ram'[DonePage] = Blank /\ ram'[KeyPage] = KeyOf(layer')
      /\ \A p \in Code(layer') : ram'[p] = CodeOf(layer')
  BY <1>1, <1>3, <1>4, LoadedIs
<1>6. \A t \in Slots :
        /\ tag[t] \in Sled(layer) /\ tag[t] > CodeLength(layer) - 1 - NSlots
        /\ ~dirty[t] /\ buf[t] = CodeOf(layer)
  BY <1>2 DEF EndOK
<1>7. \A t \in Slots : OldCode(t)' /\ ~dirty'[t]
  <2> TAKE t \in Slots
  <2>1. layer' > 0 /\ layer' - 1 = layer /\ layer' # 0
    BY <1>1, <1>3
  <2>2. tag[t] \in CodeLength(layer) - NSlots .. CodeLength(layer) - 1
    BY <1>3, <1>6, CodeSizes, Sizes DEF Sled
  <2>3. StillHeld' = CodeLength(layer) - NSlots .. CodeLength(layer) - 1
    BY <1>1, <2>1 DEF StillHeld, CodeLength
  <2> QED
    BY <1>1, <1>6, <2>1, <2>2, <2>3 DEF OldCode
<1>8. TypeOK'
  BY <1>1, <1>3, <1>5, Sizes DEF TypeOK, CacheTypeOK
<1>9. TagsOK' /\ WhereOK'
  BY <1>1, <1>2 DEF TagsOK, WhereOK, Resident
<1>10. CodeOK'
  BY <1>5, <1>7 DEF CodeOK
<1>11. KeyOK'
  <2>1. \A t \in Slots : tag'[t] # KeyPage
    BY <1>1, <1>3, <1>6, CodeSizes, Sizes
  <2> QED
    BY <1>5, <2>1 DEF KeyOK
<1>12. StartOK'
  BY <1>1, <1>2, <1>7 DEF StartOK
<1>13. DoneOK' /\ EndOK' /\ RaceInv'
  BY <1>1, <1>2, <1>5 DEF DoneOK, EndOK, RaceInv
<1> QED
  BY <1>8, <1>9, <1>10, <1>11, <1>12, <1>13

LEMMA ExitKeeps == ASSUME IInv, Exit PROVE IInv'
<1> USE DEF IInv
<1>1. /\ phase = "loop" /\ LayerOver /\ verdict' = ram[KeyPage] /\ phase' = "exit"
      /\ UNCHANGED <<tag, dirty, age, slot, ram, layer, wanted, at, far, work, seen, buf>>
  BY DEF Exit, cacheVars, vmVars
<1>2. at = "jump" /\ wanted = 0 /\ ram[DonePage] # Blank
  BY <1>1, OverIsOver
<1>3. TypeOK' /\ TagsOK' /\ WhereOK'
  BY <1>1, <1>2, Sizes DEF TypeOK, CacheTypeOK, TagsOK, WhereOK
<1>4. CodeOK' /\ KeyOK'
  BY <1>1 DEF CodeOK, KeyOK, OldCode, StillHeld
<1>5. DoneOK' /\ StartOK' /\ EndOK' /\ RaceInv'
  BY <1>1, <1>2 DEF DoneOK, StartOK, EndOK, RaceInv
<1> QED
  BY <1>3, <1>4, <1>5

LEMMA StutterKeeps == ASSUME IInv, UNCHANGED vars PROVE IInv'
<1> USE DEF IInv
<1>1. UNCHANGED <<tag, dirty, age, slot, ram, layer, wanted, verdict, at, far, work, seen, buf, phase>>
  BY DEF vars, cacheVars, clientVars, vmVars
<1>2. TypeOK' /\ TagsOK' /\ WhereOK' /\ CodeOK' /\ KeyOK'
  BY <1>1 DEF TypeOK, CacheTypeOK, TagsOK, WhereOK, Resident, CodeOK, KeyOK, OldCode, StillHeld
<1>3. DoneOK' /\ StartOK' /\ EndOK'
  BY <1>1 DEF DoneOK, StartOK, EndOK, Unsent, Resident, OldCode, StillHeld
<1>4. RaceInv'
  BY <1>1 DEF RaceInv, Race, LatestNow, Pending
<1> QED
  BY <1>2, <1>3, <1>4
-----------------------------------------------------------------------------
(***************************************************************************)
(* The beginnings.                                                         *)
(***************************************************************************)

LEMMA FirstMemory ==
  ASSUME NEW mem, mem = Loaded([p \in Pages |-> Blank], 0)
  PROVE  /\ 0 \in Layers
         /\ mem \in [Pages -> Content]
         /\ \A p \in Code(0) : mem[p] = CodeOf(0)
         /\ mem[KeyPage] = KeyOf(0) /\ mem[DonePage] = Blank
<1>1. 0 \in Layers
  BY SessionAssumption DEF Layers
<1>2. [p \in Pages |-> Blank] \in [Pages -> Content] /\ DonePage \in Pages
  BY <1>1, Contents, Sizes
<1> QED
  BY <1>1, <1>2, LoadedIs

LEMMA InitIsSafe == ASSUME Init PROVE IInv
<1>1. /\ tag = [s \in Slots |-> IF s = 0 THEN TopPage ELSE NoPage]
      /\ dirty = [s \in Slots |-> s % 2 = 0]
      /\ age = [s \in Slots |-> Oldest] /\ slot = 0
      /\ ram = Loaded([p \in Pages |-> Blank], 0) /\ buf = [s \in Slots |-> Blank]
      /\ layer = 0 /\ phase = "loop" /\ wanted = 0 /\ at = "jump" /\ far = 0 /\ work = 0
      /\ seen = <<0, CodeOf(0)>> /\ verdict = Blank
  BY DEF Init, CacheInit
<1>2. /\ 0 \in Layers /\ ram \in [Pages -> Content] /\ \A p \in Code(0) : ram[p] = CodeOf(0)
      /\ ram[KeyPage] = KeyOf(0) /\ ram[DonePage] = Blank
  BY <1>1, FirstMemory
<1>3. \A s \in Slots : tag[s] \in {TopPage, NoPage} /\ tag[s] \notin Code(0) \cup DataOfLayers /\ tag[s] # 0
  <2>1. TopPage \notin DataOfLayers /\ NoPage \notin DataOfLayers
    BY Sizes
  <2>2. TopPage \notin Code(0) /\ NoPage \notin Code(0) /\ 0 \in Code(0)
    BY <1>2, CodeSizes, Sizes
  <2> QED
    BY <1>1, <2>1, <2>2
<1>4. TypeOK
  <2>1. CacheTypeOK
    BY <1>1, Sizes, CacheAssumption DEF CacheTypeOK, Slots, TopPage, Pages, Oldest
  <2>2. far \in UNION {Code(i) : i \in Layers}
    BY <1>1, <1>2, CodeSizes
  <2> QED
    BY <1>1, <1>2, <2>1, <2>2, Contents, Sizes, SessionAssumption DEF TypeOK
<1>5. TagsOK
  BY <1>1, <1>3 DEF TagsOK
<1>6. WhereOK
  BY <1>1, <1>3 DEF WhereOK, Resident
<1>7. CodeOK /\ KeyOK
  BY <1>1, <1>2, <1>3, Sizes DEF CodeOK, KeyOK
<1>8. StartOK
  BY <1>1, <1>3 DEF StartOK
<1>9. DoneOK /\ EndOK /\ RaceInv
  BY <1>1, <1>2 DEF DoneOK, EndOK, RaceInv
<1> QED
  BY <1>4, <1>5, <1>6, <1>7, <1>8, <1>9 DEF IInv

LEMMA SledInitIsSafe == ASSUME SledInit PROVE IInv
<1>1. PICK c \in Slots, n \in Slots :
        /\ tag[c] = BodyLength[0] - 1 /\ tag[n] = DonePage
        /\ dirty \in [Slots -> BOOLEAN] /\ dirty[n]
        /\ \A s \in Slots : tag[s] \in Body(0) \cup {NoPage} => ~dirty[s]
        /\ age \in LeftAges /\ age[c] = 1 /\ age[n] = 0
  BY DEF SledInit
<1>2. /\ layer = 0
      /\ tag \in [Slots -> Body(0) \cup DataPages \cup {KeyPage, DonePage, NoPage}]
      /\ \A s, t \in Slots : s # t /\ tag[s] = tag[t] => tag[s] = NoPage
      /\ slot = 0 /\ ram = Loaded([p \in Pages |-> Blank], 0)
      /\ phase = "run" /\ wanted = DonePage
      /\ at = "sled" /\ far = BodyLength[0] - 1 /\ work = 0
      /\ seen = <<DonePage, DoneBy(0)>> /\ verdict = Blank
  BY DEF SledInit
<1>3. buf = [s \in Slots |-> IF tag[s] = DonePage THEN DoneBy(0)
                            ELSE IF tag[s] = NoPage THEN Blank
                            ELSE IF dirty[s] THEN WrittenBy(0) ELSE ram[tag[s]]]
  BY DEF SledInit
<1>4. /\ 0 \in Layers /\ ram \in [Pages -> Content] /\ \A p \in Code(0) : ram[p] = CodeOf(0)
      /\ ram[KeyPage] = KeyOf(0) /\ ram[DonePage] = Blank
  BY <1>2, FirstMemory
<1>5. /\ BodyLength[0] \in Nat \ {0} /\ CodeLength(0) = BodyLength[0] + SledLength
      /\ Body(0) \subseteq Code(0) /\ Code(0) \subseteq Pages \ {TopPage} /\ Code(0) \cap DataOfLayers = {}
      /\ SledLength \in Nat \ {0}
  BY <1>4, CodeSizes, Sizes
<1>6. \A s \in Slots : tag[s] \in Body(0) \cup DataOfLayers \cup {NoPage}
  BY <1>2 DEF DataOfLayers
<1>7. TypeOK
  <2>1. slot \in Slots
    BY <1>2, CacheAssumption DEF Slots
  <2>2. tag \in [Slots -> Pages \cup {NoPage}]
    BY <1>2, <1>5, <1>6, Sizes
  <2>3. CacheTypeOK
    BY <1>1, <2>1, <2>2, LeftAgesAssumption DEF CacheTypeOK
  <2>4. buf \in [Slots -> Content]
    <3>1. \A s \in Slots : tag[s] \in Pages \cup {NoPage}
      BY <2>2
    <3> QED
      BY <1>3, <1>4, <3>1, Contents
  <2>5. far \in UNION {Code(i) : i \in Layers}
    BY <1>2, <1>4, <1>5 DEF Code
  <2>6. wanted \in Pages /\ seen \in Pages \X Content /\ verdict \in Content
    BY <1>2, <1>4, Contents, Sizes, SessionAssumption
  <2>7. work \in 0 .. MaxWork
    BY <1>2, SessionAssumption
  <2> QED
    BY <1>2, <1>4, <2>3, <2>4, <2>5, <2>6, <2>7 DEF TypeOK
<1>8. TagsOK
  BY <1>1, <1>2, <1>6 DEF TagsOK
<1>9. WhereOK
  BY <1>2, <1>5, Sizes DEF WhereOK
<1>10. CodeOK
  <2>1. \A s \in Slots : tag[s] \in Code(0) => tag[s] # DonePage /\ tag[s] # NoPage /\ ~dirty[s]
    BY <1>1, <1>5, <1>6, Sizes
  <2> QED
    BY <1>2, <1>3, <1>4, <2>1 DEF CodeOK
<1>11. KeyOK
  BY <1>2, <1>3, <1>4, Sizes DEF KeyOK
<1>12. DoneOK
  BY <1>1, <1>2, <1>3 DEF DoneOK, Unsent
<1>13. ~Pending
  <2>1. far + 1 \in Code(0)
    BY <1>2, <1>5 DEF Code
  <2> QED
    BY <1>2, <1>5, <2>1, Sizes DEF Pending
<1>14. RaceInv
  <2>1. Race(1) = [page |-> tag, age |-> age, written |-> dirty, first |-> BodyLength[0],
                   last |-> far, now |-> 1]
    BY <1>1, <1>2, <1>7, <1>13 DEF Race, TypeOK, CacheTypeOK
  <2>2. Race(1) \in Races
    <3>1. tag \in [Slots -> Nat]
      BY <1>7, Sizes DEF TypeOK, CacheTypeOK
    <3>2. age \in [Slots -> -1 .. AgeMod - 1]
      BY <1>7, Sizes DEF TypeOK, CacheTypeOK
    <3> QED
      BY <1>1, <1>2, <1>5, <2>1, <3>1, <3>2 DEF Races
  <2>3. c # n /\ Recent(Race(1), c) /\ Recent(Race(1), n)
    BY <1>1, <2>1 DEF Recent
  <2>4. Race(1).last = Race(1).first - 1
    BY <1>2, <2>1
  <2>5. RaceOK(Race(1)) /\ Owes(Race(1))
    BY <2>2, <2>3, <2>4, RaceStarts
  <2>6. 1 \in 0 .. LatestNow
    BY <1>2, <1>5, <1>13 DEF LatestNow
  <2> QED
    BY <1>13, <2>5, <2>6 DEF RaceInv
<1> QED
  BY <1>2, <1>7, <1>8, <1>9, <1>10, <1>11, <1>12, <1>14 DEF IInv, StartOK, EndOK
-----------------------------------------------------------------------------
LEMMA NextKeeps == ASSUME IInv, [Next]_vars PROVE IInv'
<1>1. CASE \E p \in Pages : Work(p)
  BY <1>1, WorkKeeps
<1>2. CASE UNCHANGED vars
  BY <1>2, StutterKeeps
<1> QED
  BY <1>1, <1>2, SendPageKeeps, WriteBackKeeps, NextLayerKeeps, ExitKeeps, JumpToZeroKeeps,
     FetchOnKeeps, FetchEndKeeps, SayDoneKeeps, SlideKeeps, AskForPageKeeps DEF Next

LEMMA Invariance == Spec => []IInv
<1>1. Init \/ SledInit => IInv
  BY InitIsSafe, SledInitIsSafe
<1>2. IInv /\ [Next]_vars => IInv'
  BY NextKeeps
<1> QED
  BY <1>1, <1>2, PTL DEF Spec

\* Every variable of a session keeps its type.
THEOREM TypeCorrect == Spec => []TypeOK
<1>1. IInv => TypeOK
  BY DEF IInv
<1> QED
  BY <1>1, Invariance, PTL

\* N(N+1)/2 - 1 fresh pages drive out of N slots all that matters: at the end of its sled
\* a layer's first page is asked for again, and no write of its is left to come back over
\* what vicpwn_handle loads next.
THEOREM SledsFlush == Spec => []SledFlushes
<1>1. IInv => SledFlushes
  <2> SUFFICES ASSUME IInv, at = "jump"
               PROVE  /\ wanted # 0 => ~Resident(0)
                      /\ phase = "loop" => \A s \in Slots : dirty[s] => tag[s] \in {TopPage, NoPage}
    BY DEF SledFlushes
  <2>1. layer \in Layers
    BY DEF IInv, TypeOK
  <2>2. CASE ram[DonePage] = Blank
    BY <2>2 DEF IInv, StartOK
  <2>3. CASE ram[DonePage] # Blank
    BY <2>1, <2>3, CodeSizes DEF IInv, EndOK, Resident
  <2> QED
    BY <2>2, <2>3
<1> QED
  BY <1>1, Invariance, PTL

LEMMA RunsLoaded ==
  ASSUME IInv, Next, phase = "run", phase' = "run"
  PROVE  /\ seen'[1] \in Code(layer) =>
              \/ seen'[2] = CodeOf(layer)
              \/ seen'[1] \in StillHeld /\ seen'[2] = CodeOf(layer - 1)
         /\ seen'[1] = KeyPage => seen'[2] \in {KeyOf(layer), WrittenBy(layer)}
<1>1. ~AskForPage /\ ~SendPage /\ ~WriteBack /\ ~NextLayer /\ ~Exit
  BY DEF AskForPage, Fault, SendPage, WriteBack, NextLayer, Exit
<1>2. layer \in Layers
  BY DEF IInv, TypeOK
<1>3. \E p, w, c : w \in BOOLEAN /\ c \in Content /\ Access(p, w, c)
  BY <1>1, <1>2, Contents DEF Next, JumpToZero, FetchOn, Work, FetchEnd, SayDone, Slide
<1>4. PICK p, w, c : w \in BOOLEAN /\ c \in Content /\ Access(p, w, c)
  BY <1>3
<1>5. PICK s \in Slots : Accessed(s, p, w, c)
  BY <1>4, AccessIs DEF IInv
<1>6. layer' = layer
  BY <1>1 DEF Next, JumpToZero, FetchOn, Work, FetchEnd, SayDone, Slide, clientVars
<1>7. IInv'
  BY NextKeeps
<1>8. tag'[s] = p /\ seen' = <<p, buf'[s]>>
  BY <1>5 DEF Accessed
<1> QED
  BY <1>2, <1>6, <1>7, <1>8 DEF IInv, CodeOK, KeyOK, OldCode, StillHeld, CodeLength

\* A layer runs the code that load_layer has put in the memory and finds the key of
\* set_my_key, but for the last pages of the sled before.
THEOREM WhatRunsWasLoaded == Spec => RunsWhatIsLoaded
<1>1. IInv /\ [Next]_vars =>
        [phase = "run" /\ phase' = "run"
           => /\ seen'[1] \in Code(layer) =>
                   \/ seen'[2] = CodeOf(layer)
                   \/ seen'[1] \in StillHeld /\ seen'[2] = CodeOf(layer - 1)
              /\ seen'[1] = KeyPage => seen'[2] \in {KeyOf(layer), WrittenBy(layer)}]_vars
  BY RunsLoaded
<1> QED
  BY <1>1, Invariance, PTL DEF Spec, RunsWhatIsLoaded

LEMMA VerdictIs ==
  ASSUME IInv, Next, verdict' # verdict
  PROVE  verdict' = View(KeyPage)
<1>1. NextLayer \/ Exit
  BY DEF Next, SendPage, WriteBack, JumpToZero, FetchOn, Work, FetchEnd, SayDone, Slide,
         AskForPage, Fault, clientVars
<1>2. LayerOver /\ verdict' = ram[KeyPage]
  BY <1>1 DEF NextLayer, Exit
<1>3. at = "jump" /\ ram[DonePage] # Blank
  BY <1>2, OverIsOver
<1>4. ~Resident(KeyPage)
  BY <1>3, CodeSizes, Sizes DEF IInv, TypeOK, EndOK, Resident, DataOfLayers
<1> QED
  BY <1>2, <1>4 DEF View

\* The verdict that vicpwn_check reads in the client's memory is what the layer would
\* read there.
THEOREM VerdictsAreCurrent == Spec => VerdictIsCurrent
<1>1. IInv /\ [Next]_vars => [verdict' # verdict => verdict' = View(KeyPage)]_vars
  BY VerdictIs
<1> QED
  BY <1>1, Invariance, PTL DEF Spec, VerdictIsCurrent

LEMMA StartsBlank ==
  ASSUME IInv, Next, at = "jump", at' = "body"
  PROVE  ram[DonePage] = Blank
<1>1. JumpToZero
  BY DEF Next, NextLayer, Exit, SendPage, WriteBack, FetchOn, Work, FetchEnd,
         SayDone, Slide, AskForPage, vmVars
<1>2. Resident(0) /\ phase = "run" /\ layer \in Layers
  BY <1>1 DEF JumpToZero, Access, CacheHit, Matches, Resident, IInv, TypeOK
<1> QED
  BY <1>2, CodeSizes DEF IInv, EndOK, Resident

LEMMA EndsRun ==
  ASSUME IInv, Next, layer' # layer \/ (phase' = "exit" /\ phase # "exit")
  PROVE  seen = <<CodeLength(layer) - 1, CodeOf(layer)>>
<1>1. NextLayer \/ Exit
  BY DEF Next, SendPage, WriteBack, JumpToZero, FetchOn, Work, FetchEnd, SayDone, Slide,
         AskForPage, Fault, clientVars
<1>2. LayerOver
  BY <1>1 DEF NextLayer, Exit
<1> QED
  BY <1>2, OverIsOver DEF IInv, EndOK

\* The client takes note of the end of a layer when its sled has been run, before it
\* starts again.
THEOREM LayersAreRunOnce == Spec => LayersRunOnce
<1>1. IInv /\ [Next]_vars =>
        [/\ at = "jump" /\ at' = "body" => ram[DonePage] = Blank
         /\ layer' # layer \/ (phase' = "exit" /\ phase # "exit")
              => seen = <<CodeLength(layer) - 1, CodeOf(layer)>>]_vars
  BY StartsBlank, EndsRun
<1> QED
  BY <1>1, Invariance, PTL DEF Spec, LayersRunOnce
=============================================================================
