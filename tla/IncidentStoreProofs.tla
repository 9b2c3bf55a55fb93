------------------------ MODULE IncidentStoreProofs ------------------------
(***************************************************************************)
(* Theorems about what the Wi-Fi security monitor keeps of the past: its   *)
(* incidents, for any things and profiles, any limit of the store, and any *)
(* number of captures, saves, crashes and restarts (what is shown as one   *)
(* incident is one, and an open incident ends by quiet that was heard or   *)
(* for room), and the history of its replay rules, for any channels,       *)
(* traffic and limits (no replay is reported across a break).              *)
(*                                                                         *)
(* A list that is trimmed, aged or restored derives from the one before;   *)
(* the reports of a capture are taken one by one, by the lemmas of         *)
(* Iteration.                                                              *)
(***************************************************************************)
EXTENDS IncidentStore, WifiReplay, Iteration, SequenceTheorems, FiniteSetTheorems

Lists == {s \in Seq(IncidentType) : Len(s) <= MaxIncidents}
Stores == [list : Lists, next : Nat \ {0}]
Files == [incidents : Lists, nextId : Nat \ {0}]

-----------------------------------------------------------------------------
(* Lists of incidents *)

Below(s, n) == \A k \in DOMAIN s : s[k].id < n
Agree(s, g) == \A j \in DOMAIN s, k \in DOMAIN g : s[j].id = g[k].id => s[j].thing = g[k].thing
OneId(s) == \A j, k \in DOMAIN s : s[j].id = s[k].id => j = k
OneOpen(s) ==
  \A j, k \in DOMAIN s : (s[j].open /\ s[k].open /\ s[j].thing = s[k].thing) => j = k

\* r has items of s, at the places f names, some of them closed since.
DerivesAt(r, s, f) ==
  /\ f \in [DOMAIN r -> DOMAIN s]
  /\ \A j, k \in DOMAIN r : f[j] = f[k] => j = k
  /\ \A k \in DOMAIN r : /\ r[k].id = s[f[k]].id
                         /\ r[k].thing = s[f[k]].thing
                         /\ r[k].open => s[f[k]].open

Derives(r, s) == \E f : DerivesAt(r, s, f)

\* What holds of a list holds of one that derives from it.
LEMMA DerivesKeeps ==
  ASSUME NEW r, NEW s, Derives(r, s)
  PROVE  /\ \A n : Below(s, n) => Below(r, n)
         /\ \A g : Agree(s, g) => Agree(r, g)
         /\ \A g : Agree(g, s) => Agree(g, r)
         /\ OneId(s) => OneId(r)
         /\ OneOpen(s) => OneOpen(r)
<1>1. PICK f : DerivesAt(r, s, f)
  BY DEF Derives
<1>2. /\ \A k \in DOMAIN r : f[k] \in DOMAIN s
      /\ \A j, k \in DOMAIN r : f[j] = f[k] => j = k
      /\ \A k \in DOMAIN r : r[k].id = s[f[k]].id /\ r[k].thing = s[f[k]].thing
      /\ \A k \in DOMAIN r : r[k].open => s[f[k]].open
  BY <1>1 DEF DerivesAt
<1>3. ASSUME NEW n, Below(s, n) PROVE Below(r, n)
  BY ONLY <1>2, <1>3 DEF Below
<1>4. ASSUME NEW g, Agree(s, g) PROVE Agree(r, g)
  BY ONLY <1>2, <1>4 DEF Agree
<1>5. ASSUME NEW g, Agree(g, s) PROVE Agree(g, r)
  BY ONLY <1>2, <1>5 DEF Agree
<1>6. ASSUME OneId(s) PROVE OneId(r)
  BY ONLY <1>2, <1>6 DEF OneId
<1>7. ASSUME OneOpen(s) PROVE OneOpen(r)
  <2> SUFFICES ASSUME NEW j \in DOMAIN r, NEW k \in DOMAIN r,
                      r[j].open, r[k].open, r[j].thing = r[k].thing
               PROVE  j = k
    BY DEF OneOpen
  <2>1. s[f[j]].open /\ s[f[k]].open /\ s[f[j]].thing = s[f[k]].thing
    BY <1>2
  <2>2. f[j] = f[k]
    BY <1>2, <1>7, <2>1 DEF OneOpen
  <2> QED BY <1>2, <2>2
<1> QED BY <1>3, <1>4, <1>5, <1>6, <1>7

\* A list whose items kept their names and places derives from it.
LEMMA SamePlaces ==
  ASSUME NEW r, NEW s, DOMAIN r = DOMAIN s,
         \A k \in DOMAIN r : r[k].id = s[k].id /\ r[k].thing = s[k].thing
                             /\ (r[k].open => s[k].open)
  PROVE  Derives(r, s)
<1> DEFINE f == [k \in DOMAIN r |-> k]
<1>1. DerivesAt(r, s, f)
  BY DEF DerivesAt
<1> QED BY <1>1 DEF Derives

\* Taking one item out.
LEMMA RemoveAtIs ==
  ASSUME NEW S, NEW s \in Seq(S), NEW d \in 1..Len(s)
  PROVE  /\ RemoveAt(s, d) \in Seq(S)
         /\ Len(RemoveAt(s, d)) = Len(s) - 1
         /\ \A k \in 1..(Len(s) - 1) :
              RemoveAt(s, d)[k] = s[IF k < d THEN k ELSE k + 1]
<1> DEFINE a == SubSeq(s, 1, d - 1)
           b == SubSeq(s, d + 1, Len(s))
<1>1. a \in Seq(S) /\ b \in Seq(S) /\ Len(a) = d - 1 /\ Len(b) = Len(s) - d
  OBVIOUS
<1>2. /\ \A k \in 1..(d - 1) : a[k] = s[k]
      /\ \A k \in 1..(Len(s) - d) : b[k] = s[d + k]
  OBVIOUS
<1>3. RemoveAt(s, d) = a \o b
  BY DEF RemoveAt
<1> HIDE DEF a, b
<1>4. /\ a \o b \in Seq(S) /\ Len(a \o b) = Len(s) - 1
      /\ \A k \in 1..(Len(s) - 1) :
           (a \o b)[k] = IF k <= d - 1 THEN a[k] ELSE b[k - (d - 1)]
  BY SMTT(30), <1>1
<1>5. ASSUME NEW k \in 1..(Len(s) - 1)
      PROVE  (a \o b)[k] = s[IF k < d THEN k ELSE k + 1]
  <2>1. CASE k < d
    BY <1>2, <1>4, <2>1
  <2>2. CASE ~(k < d)
    <3>1. k - (d - 1) \in 1..(Len(s) - d) /\ d + (k - (d - 1)) = k + 1 /\ ~(k <= d - 1)
      BY <2>2
    <3>2. b[k - (d - 1)] = s[k + 1]
      BY <1>2, <3>1
    <3> QED BY <1>4, <2>2, <3>1, <3>2
  <2> QED BY <2>1, <2>2
<1> QED BY <1>3, <1>4, <1>5

\* A set of numbers has a least one, and a greatest if it is bounded.
LEMMA MinIs ==
  ASSUME NEW I \in SUBSET Nat, I # {}
  PROVE  Min(I) \in I /\ \A y \in I : Min(I) <= y
<1> DEFINE R == OpToRel(<, Nat)
<1>1. IsWellFoundedOn(R, Nat)
  BY NatLessThanWellFounded
<1>2. R = {p \in Nat \X Nat : p[1] < p[2]}
  BY DEF OpToRel
<1> HIDE DEF R
<1>3. PICK m \in I : \A k \in I : <<k, m>> \notin R
  <2>1. I \subseteq Nat /\ I # {}
    OBVIOUS
  <2> QED BY ONLY <1>1, <2>1, WFMin
<1>4. ASSUME NEW k \in I PROVE m <= k
  <2>1. k \in Nat /\ m \in Nat /\ <<k, m>> \notin R
    BY <1>3
  <2>2. <<k, m>> \in Nat \X Nat
    BY <2>1
  <2>3. ~(k < m)
    BY ONLY <1>2, <2>1, <2>2
  <2> QED BY <2>1, <2>3
<1> QED BY <1>4 DEF Min

\* The greatest.
LEMMA MaxIs ==
  ASSUME NEW S \in SUBSET Nat, S # {}, NEW b \in Nat, \A x \in S : x <= b
  PROVE  Max(S) \in S /\ \A x \in S : x <= Max(S)
<1> DEFINE U == {u \in Nat : \A x \in S : x <= u}
<1>1. U \in SUBSET Nat /\ U # {}
  OBVIOUS
<1>2. PICK u \in U : \A y \in U : u <= y
  <2> HIDE DEF U
  <2> QED BY <1>1, MinIs
<1>3. u \in S
  <2> SUFFICES ASSUME u \notin S PROVE FALSE
    OBVIOUS
  <2>1. \A x \in S : x < u /\ x \in Nat
    BY <1>2
  <2>2. PICK x \in S : TRUE
    OBVIOUS
  <2>3. u - 1 \in U
    BY <1>2, <2>1, <2>2
  <2> QED BY <1>2, <2>3
<1>4. \A x \in S : u >= x
  BY <1>2
<1> QED BY <1>3, <1>4 DEF Max

-----------------------------------------------------------------------------
(* One report *)

\* m is list with room for one more: all of it, or without one item, an open one
\* only if every item is open.
Room(m, list) ==
  \/ m = list /\ Len(list) < MaxIncidents
  \/ /\ Len(list) = MaxIncidents
     /\ \E d \in DOMAIN list :
          /\ m = RemoveAt(list, d)
          /\ list[d].open => \A k \in DOMAIN list : list[k].open

\* The first closed incident goes, or the first.
LEMMA MakeRoomIs ==
  ASSUME NEW list \in Lists
  PROVE  Room(MakeRoom(list), list)
<1> DEFINE I == {i \in 1..Len(list) : ~list[i].open}
           closed == IF I # {} THEN Min(I) ELSE 0
<1>1. /\ list \in Seq(IncidentType) /\ Len(list) <= MaxIncidents /\ Len(list) \in Nat
      /\ MaxIncidents \in Nat \ {0} /\ DOMAIN list = 1..Len(list)
  BY IncidentAssumption DEF Lists
<1>2. MakeRoom(list) = IF Len(list) < MaxIncidents THEN list
                       ELSE RemoveAt(list, IF closed # 0 THEN closed ELSE 1)
  BY DEF MakeRoom, SelectInSeq
<1>3. I # {} => Min(I) \in I
  <2>1. I \in SUBSET Nat
    BY <1>1
  <2> HIDE DEF I
  <2> QED BY <2>1, MinIs
<1>4. CASE Len(list) < MaxIncidents
  BY <1>2, <1>4 DEF Room
<1>5. CASE ~(Len(list) < MaxIncidents) /\ I # {}
  <2>1. closed \in 1..Len(list) /\ ~list[closed].open /\ closed # 0
    BY <1>3, <1>5
  <2> HIDE DEF closed
  <2>2. MakeRoom(list) = RemoveAt(list, closed)
    BY <1>2, <1>5, <2>1
  <2>3. Len(list) = MaxIncidents
    <3>1. ~(Len(list) < MaxIncidents)
      BY <1>5
    <3>2. Len(list) <= MaxIncidents /\ Len(list) \in Nat /\ MaxIncidents \in Nat
      BY <1>1
    <3> QED BY ONLY <3>1, <3>2
  <2>4. closed \in DOMAIN list /\ (list[closed].open => FALSE)
    BY <1>1, <2>1
  <2> QED BY ONLY <2>2, <2>3, <2>4 DEF Room
<1>6. CASE ~(Len(list) < MaxIncidents) /\ I = {}
  <2>1. closed = 0
    BY <1>6
  <2> HIDE DEF closed
  <2>2. MakeRoom(list) = RemoveAt(list, 1)
    BY ONLY <1>2, <1>6, <2>1
  <2>3. 1 \in DOMAIN list /\ \A k \in DOMAIN list : list[k].open \/ ~list[k].open
    BY <1>1, <1>6
  <2>4. \A k \in DOMAIN list : list[k].open
    BY <1>1, <1>6
  <2>5. Len(list) = MaxIncidents
    <3>1. ~(Len(list) < MaxIncidents)
      BY <1>6
    <3>2. Len(list) <= MaxIncidents /\ Len(list) \in Nat /\ MaxIncidents \in Nat
      BY <1>1
    <3> QED BY ONLY <3>1, <3>2
  <2> QED BY <2>2, <2>3, <2>4, <2>5 DEF Room
<1> QED BY <1>4, <1>5, <1>6

\* What such a list holds.
LEMMA RoomIs ==
  ASSUME NEW list \in Lists, NEW m, Room(m, list)
  PROVE  /\ m \in Seq(IncidentType) /\ Len(m) < MaxIncidents
         /\ Derives(m, list)
         /\ \A k \in DOMAIN m : \E i \in DOMAIN list : m[k] = list[i]
         /\ \A i \in DOMAIN list :
              \/ \E k \in DOMAIN m : m[k] = list[i]
              \/ /\ Len(m) + 1 = MaxIncidents
                 /\ list[i].open => \A k \in DOMAIN m : m[k].open
<1>1. /\ list \in Seq(IncidentType) /\ Len(list) \in Nat /\ DOMAIN list = 1..Len(list)
      /\ MaxIncidents \in Nat \ {0}
  BY IncidentAssumption DEF Lists
<1>2. CASE m = list /\ Len(list) < MaxIncidents
  <2>1. Derives(m, list)
    BY <1>2, SamePlaces
  <2> QED BY <1>1, <1>2, <2>1
<1>3. ASSUME NEW d \in DOMAIN list, m = RemoveAt(list, d), Len(list) = MaxIncidents,
             list[d].open => \A k \in DOMAIN list : list[k].open
      PROVE  /\ m \in Seq(IncidentType) /\ Len(m) < MaxIncidents
             /\ Derives(m, list)
             /\ \A k \in DOMAIN m : \E i \in DOMAIN list : m[k] = list[i]
             /\ \A i \in DOMAIN list :
                  \/ \E k \in DOMAIN m : m[k] = list[i]
                  \/ /\ Len(m) + 1 = MaxIncidents
                     /\ list[i].open => \A k \in DOMAIN m : m[k].open
  <2> DEFINE f == [k \in DOMAIN m |-> IF k < d THEN k ELSE k + 1]
  <2>1. /\ m \in Seq(IncidentType) /\ Len(m) = Len(list) - 1
        /\ \A k \in 1..(Len(list) - 1) : m[k] = list[IF k < d THEN k ELSE k + 1]
    BY <1>1, <1>3, RemoveAtIs
  <2>2. DOMAIN m = 1..(Len(list) - 1) /\ Len(m) < MaxIncidents
    BY <1>1, <1>3, <2>1
  <2>3. \A k \in DOMAIN m : f[k] \in DOMAIN list /\ m[k] = list[f[k]]
    BY <1>1, <2>1, <2>2
  <2>4. \A j, k \in DOMAIN m : f[j] = f[k] => j = k
    BY <1>1, <2>2
  <2>5. f \in [DOMAIN m -> DOMAIN list]
    BY <2>3
  <2>6. ASSUME NEW i \in DOMAIN list
        PROVE  \/ \E k \in DOMAIN m : m[k] = list[i]
               \/ /\ Len(m) + 1 = MaxIncidents
                  /\ list[i].open => \A k \in DOMAIN m : m[k].open
    <3>1. CASE i < d
      <4>1. i \in DOMAIN m /\ f[i] = i
        BY <1>1, <2>2, <3>1
      <4> QED BY <2>3, <4>1
    <3>2. CASE d < i
      <4>1. i - 1 \in DOMAIN m /\ f[i - 1] = i
        BY <1>1, <2>2, <3>2
      <4> QED BY <2>3, <4>1
    <3>3. CASE i = d
      <4>1. Len(m) + 1 = MaxIncidents
        BY <1>1, <1>3, <2>1
      <4>2. list[i].open => \A k \in DOMAIN m : m[k].open
        BY ONLY <1>3, <2>3, <3>3
      <4> QED BY <4>1, <4>2
    <3> QED BY <1>1, <3>1, <3>2, <3>3
  <2> HIDE DEF f
  <2>7. DerivesAt(m, list, f)
    BY ONLY <2>3, <2>4, <2>5 DEF DerivesAt
  <2>8. Derives(m, list)
    BY <2>7 DEF Derives
  <2> QED BY <2>1, <2>2, <2>3, <2>6, <2>8
<1> QED BY <1>2, <1>3 DEF Room

\* A report stops the clock of the open incident of its thing, or opens one.
Again(s, t, r) ==
  \E k \in DOMAIN s.list :
    /\ s.list[k].open /\ s.list[k].thing = t
    /\ r.next = s.next
    /\ r.list = [i \in DOMAIN s.list |->
                   IF i = k THEN [s.list[i] EXCEPT !.quiet = 0] ELSE s.list[i]]

Anew(s, t, r) ==
  /\ \A k \in DOMAIN s.list : ~(s.list[k].open /\ s.list[k].thing = t)
  /\ r.next = s.next + 1
  /\ \E m : /\ Room(m, s.list)
            /\ r.list = Append(m, [id |-> s.next, thing |-> t, open |-> TRUE, quiet |-> 0])

\* Every report is one of the two.
LEMMA ObserveIs ==
  ASSUME NEW s \in Stores, NEW t \in Thing
  PROVE  /\ Observe(s, t) = [list |-> Observe(s, t).list, next |-> Observe(s, t).next]
         /\ Again(s, t, Observe(s, t)) \/ Anew(s, t, Observe(s, t))
<1> DEFINE I == {i \in 1..Len(s.list) : s.list[i].open /\ s.list[i].thing = t}
           k == IF I # {} THEN Min(I) ELSE 0
           r == Observe(s, t)
<1>1. /\ s = [list |-> s.list, next |-> s.next] /\ s.list \in Lists
      /\ s.list \in Seq(IncidentType) /\ DOMAIN s.list = 1..Len(s.list)
      /\ Len(s.list) \in Nat
  BY DEF Stores, Lists
<1>2. r = IF k # 0 THEN [s EXCEPT !.list[k].quiet = 0] ELSE Opened(s, t)
  BY DEF Observe, SelectInSeq
<1>3. CASE I # {}
  <2>1. Min(I) \in I
    <3>1. I \in SUBSET Nat
      OBVIOUS
    <3> HIDE DEF I
    <3> QED BY <1>3, <3>1, MinIs
  <2>2. k \in DOMAIN s.list /\ s.list[k].open /\ s.list[k].thing = t /\ k # 0
    BY <1>1, <1>3, <2>1
  <2> HIDE DEF k
  <2>3. r = [s EXCEPT !.list[k].quiet = 0]
    BY ONLY <1>2, <2>2
  <2>4. r.next = s.next /\ r.list = [s.list EXCEPT ![k].quiet = 0]
    BY ONLY <1>1, <2>3
  <2>5. r.list = [i \in DOMAIN s.list |->
                    IF i = k THEN [s.list[i] EXCEPT !.quiet = 0] ELSE s.list[i]]
    BY ONLY <2>2, <2>4
  <2>6. r = [list |-> r.list, next |-> r.next]
    BY ONLY <1>1, <2>3
  <2>7. Again(s, t, r)
    BY <2>2, <2>4, <2>5 DEF Again
  <2> QED BY <2>6, <2>7
<1>4. CASE I = {}
  <2>1. k = 0
    BY <1>4
  <2>2. \A i \in DOMAIN s.list : ~(s.list[i].open /\ s.list[i].thing = t)
    BY <1>1, <1>4
  <2> HIDE DEF k
  <2>3. r = Opened(s, t)
    BY ONLY <1>2, <2>1
  <2>4. /\ r.list = Append(MakeRoom(s.list),
                           [id |-> s.next, thing |-> t, open |-> TRUE, quiet |-> 0])
        /\ r.next = s.next + 1
    BY ONLY <2>3 DEF Opened
  <2>5. Room(MakeRoom(s.list), s.list)
    BY <1>1, MakeRoomIs
  <2>6. r = [list |-> r.list, next |-> r.next]
    BY ONLY <2>3 DEF Opened
  <2>7. Anew(s, t, r)
    BY <2>2, <2>4, <2>5 DEF Anew
  <2> QED BY <2>6, <2>7
<1> QED BY <1>3, <1>4

-----------------------------------------------------------------------------
(* The reports of a capture: s is the store after some of them, o the one before *)

Named(s) == Below(s.list, s.next) /\ Agree(s.list, s.list)
Filed(s, f) == Agree(s.list, f.incidents) /\ f.nextId <= s.next
Single(s) == OneId(s.list) /\ OneOpen(s.list)
Clocked(s, ts) ==
  \A k \in DOMAIN s.list : (s.list[k].open /\ s.list[k].thing \in ts) => s.list[k].quiet = 0

\* An item is new, or one of o with its clock as it was or stopped.
Kin(i, o) ==
  \/ i.id >= o.next /\ i.open /\ i.quiet = 0
  \/ \E e \in DOMAIN o.list :
       /\ o.list[e].id = i.id /\ o.list[e].thing = i.thing /\ o.list[e].open = i.open
       /\ i.quiet \in {0, o.list[e].quiet}

\* The open incident e of o is not open in s.
Gone(e, s) == \A k \in DOMAIN s.list : s.list[k].id = e.id => ~s.list[k].open

Crowded(list) == Len(list) = MaxIncidents /\ \A k \in DOMAIN list : list[k].open

Heir(s, o) ==
  /\ s.next >= o.next
  /\ \A k \in DOMAIN s.list : Kin(s.list[k], o)
  /\ \A e \in DOMAIN o.list : o.list[e].open /\ Gone(o.list[e], s) => Crowded(s.list)

\* What an item and the store are made of.
LEMMA ItemIs ==
  ASSUME NEW i \in IncidentType
  PROVE  /\ i.id \in Nat \ {0} /\ i.thing \in Thing /\ i.open \in BOOLEAN /\ i.quiet \in Nat
         /\ i = [id |-> i.id, thing |-> i.thing, open |-> i.open, quiet |-> i.quiet]
  BY DEF IncidentType

\* What the store is made of.
LEMMA StoreIs ==
  ASSUME NEW s \in Stores
  PROVE  /\ s.list \in Lists /\ s.list \in Seq(IncidentType) /\ s.next \in Nat \ {0}
         /\ Len(s.list) \in Nat /\ Len(s.list) <= MaxIncidents
         /\ DOMAIN s.list = 1..Len(s.list)
         /\ \A k \in DOMAIN s.list :
              /\ s.list[k] \in IncidentType
              /\ s.list[k].id \in Nat \ {0} /\ s.list[k].thing \in Thing
              /\ s.list[k].open \in BOOLEAN /\ s.list[k].quiet \in Nat
              /\ s.list[k] = [id |-> s.list[k].id, thing |-> s.list[k].thing,
                              open |-> s.list[k].open, quiet |-> s.list[k].quiet]
<1>1. s.list \in Lists /\ s.next \in Nat \ {0}
  BY DEF Stores
<1>2. s.list \in Seq(IncidentType) /\ Len(s.list) \in Nat /\ Len(s.list) <= MaxIncidents
      /\ DOMAIN s.list = 1..Len(s.list)
  BY <1>1 DEF Lists
<1>3. \A k \in DOMAIN s.list : s.list[k] \in IncidentType
  BY <1>2
<1> QED BY <1>1, <1>2, <1>3, ItemIs

\* A report that stops a clock.
LEMMA AgainKeeps ==
  ASSUME NEW s \in Stores, NEW t \in Thing, NEW r, r = [list |-> r.list, next |-> r.next],
         Again(s, t, r)
  PROVE  /\ r \in Stores /\ r.next = s.next
         /\ Derives(r.list, s.list)
         /\ \A o : Heir(s, o) => Heir(r, o)
         /\ \A ts : Clocked(s, ts) /\ OneOpen(s.list) => Clocked(r, ts \cup {t})
<1>1. PICK k \in DOMAIN s.list :
        /\ s.list[k].open /\ s.list[k].thing = t
        /\ r.next = s.next
        /\ r.list = [i \in DOMAIN s.list |->
                       IF i = k THEN [s.list[i] EXCEPT !.quiet = 0] ELSE s.list[i]]
  BY DEF Again
<1>2. /\ DOMAIN r.list = DOMAIN s.list
      /\ \A i \in DOMAIN s.list : i # k => r.list[i] = s.list[i]
      /\ r.list[k] = [s.list[k] EXCEPT !.quiet = 0]
  BY <1>1
<1>3. /\ r.list[k].id = s.list[k].id /\ r.list[k].thing = s.list[k].thing
      /\ r.list[k].open = s.list[k].open /\ r.list[k].quiet = 0
      /\ r.list[k] \in IncidentType
  <2> DEFINE i == s.list[k]
  <2>1. /\ i.id \in Nat \ {0} /\ i.thing \in Thing /\ i.open \in BOOLEAN /\ i.quiet \in Nat
        /\ i = [id |-> i.id, thing |-> i.thing, open |-> i.open, quiet |-> i.quiet]
    BY <1>1, StoreIs
  <2>2. r.list[k] = [i EXCEPT !.quiet = 0]
    BY <1>2
  <2> HIDE DEF i
  <2>3. r.list[k] = [id |-> i.id, thing |-> i.thing, open |-> i.open, quiet |-> 0]
    BY ONLY <2>1, <2>2
  <2>4. /\ r.list[k].id = i.id /\ r.list[k].thing = i.thing
        /\ r.list[k].open = i.open /\ r.list[k].quiet = 0
        /\ r.list[k] \in IncidentType
    BY ONLY <2>1, <2>3 DEF IncidentType
  <2> QED BY <2>4 DEF i
<1>4. \A i \in DOMAIN s.list : /\ r.list[i].id = s.list[i].id
                               /\ r.list[i].thing = s.list[i].thing
                               /\ r.list[i].open = s.list[i].open
                               /\ r.list[i].quiet \in {0, s.list[i].quiet}
                               /\ r.list[i] \in IncidentType
  BY <1>2, <1>3, StoreIs
<1>5. r \in Stores
  <2>1. r.list \in [1..Len(s.list) -> IncidentType] /\ Len(s.list) \in Nat
    <3>1. DOMAIN s.list = 1..Len(s.list) /\ Len(s.list) \in Nat
      BY StoreIs
    <3>2. r.list = [i \in DOMAIN s.list |-> r.list[i]]
      BY <1>1
    <3>3. r.list \in [DOMAIN s.list -> IncidentType]
      BY ONLY <1>4, <3>2
    <3> QED BY ONLY <3>1, <3>3
  <2>2. r.list \in Seq(IncidentType) /\ Len(r.list) = Len(s.list)
    BY ONLY <2>1
  <2>3. r.list \in Lists /\ r.next \in Nat \ {0}
    BY <1>1, <2>2, StoreIs DEF Lists
  <2> QED BY <2>3 DEF Stores
<1>6. Derives(r.list, s.list)
  BY <1>2, <1>4, SamePlaces
<1>7. ASSUME NEW o, Heir(s, o) PROVE Heir(r, o)
  <2>1. r.next >= o.next
    BY <1>1, <1>7 DEF Heir
  <2>2. ASSUME NEW i \in DOMAIN r.list PROVE Kin(r.list[i], o)
    <3>1. Kin(s.list[i], o) /\ i \in DOMAIN s.list
      BY <1>2, <1>7 DEF Heir
    <3>2. /\ r.list[i].id = s.list[i].id /\ r.list[i].thing = s.list[i].thing
          /\ r.list[i].open = s.list[i].open /\ r.list[i].quiet \in {0, s.list[i].quiet}
      BY <1>4, <3>1
    <3> QED BY ONLY <3>1, <3>2 DEF Kin
  <2>3. ASSUME NEW e \in DOMAIN o.list, o.list[e].open, Gone(o.list[e], r)
        PROVE  Crowded(r.list)
    <3>1. Gone(o.list[e], s)
      BY ONLY <1>2, <1>4, <2>3 DEF Gone
    <3>2. Crowded(s.list)
      BY <1>7, <2>3, <3>1 DEF Heir
    <3>3. Len(r.list) = Len(s.list)
      BY <1>2, <1>5, StoreIs
    <3> QED BY ONLY <1>2, <1>4, <3>2, <3>3 DEF Crowded
  <2> QED BY <2>1, <2>2, <2>3 DEF Heir
<1>8. ASSUME NEW ts, Clocked(s, ts), OneOpen(s.list) PROVE Clocked(r, ts \cup {t})
  <2> SUFFICES ASSUME NEW i \in DOMAIN r.list, r.list[i].open,
                      r.list[i].thing \in ts \cup {t}
               PROVE  r.list[i].quiet = 0
    BY DEF Clocked
  <2>1. CASE i = k
    BY <1>3, <2>1
  <2>2. CASE i # k
    <3>1. i \in DOMAIN s.list /\ r.list[i] = s.list[i] /\ k \in DOMAIN s.list
      BY <1>2, <2>2
    <3>2. s.list[i].thing # t
      BY ONLY <1>1, <1>8, <2>2, <3>1, r.list[i].open DEF OneOpen
    <3>3. s.list[i].thing \in ts /\ s.list[i].open
      BY <3>1, <3>2
    <3>4. s.list[i].quiet = 0
      BY ONLY <1>8, <3>1, <3>3 DEF Clocked
    <3> QED BY <3>1, <3>4
  <2> QED BY <2>1, <2>2
<1> QED BY <1>1, <1>5, <1>6, <1>7, <1>8

\* A report that opens an incident.
LEMMA AnewKeeps ==
  ASSUME NEW s \in Stores, NEW t \in Thing, NEW r, r = [list |-> r.list, next |-> r.next],
         Anew(s, t, r)
  PROVE  /\ r \in Stores /\ r.next = s.next + 1
         /\ Named(s) => Named(r)
         /\ \A f \in Files : Below(f.incidents, f.nextId) /\ Filed(s, f) => Filed(r, f)
         /\ Named(s) /\ Single(s) => Single(r)
         /\ \A o \in Stores : Heir(s, o) => Heir(r, o)
         /\ \A ts : Clocked(s, ts) => Clocked(r, ts \cup {t})
<1> DEFINE new == [id |-> s.next, thing |-> t, open |-> TRUE, quiet |-> 0]
<1>1. PICK m : Room(m, s.list) /\ r.list = Append(m, new)
  BY DEF Anew
<1>2. /\ \A k \in DOMAIN s.list : ~(s.list[k].open /\ s.list[k].thing = t)
      /\ r.next = s.next + 1
  BY DEF Anew
<1>3. /\ m \in Seq(IncidentType) /\ Len(m) < MaxIncidents
      /\ Derives(m, s.list)
      /\ \A k \in DOMAIN m : \E i \in DOMAIN s.list : m[k] = s.list[i]
      /\ \A i \in DOMAIN s.list :
           \/ \E k \in DOMAIN m : m[k] = s.list[i]
           \/ /\ Len(m) + 1 = MaxIncidents
              /\ s.list[i].open => \A k \in DOMAIN m : m[k].open
  BY <1>1, StoreIs, RoomIs
<1> DEFINE n == Len(m) + 1
<1>4. new \in IncidentType
  BY StoreIs DEF IncidentType
<1>5. /\ new.id = s.next /\ new.thing = t /\ new.open = TRUE /\ new.quiet = 0
  OBVIOUS
<1> HIDE DEF new
<1>6. /\ r.list \in Seq(IncidentType) /\ Len(r.list) = n /\ n \in Nat /\ n <= MaxIncidents
      /\ DOMAIN r.list = DOMAIN m \cup {n} /\ n \notin DOMAIN m
      /\ r.list[n] = new /\ \A k \in DOMAIN m : r.list[k] = m[k]
  <2>1. MaxIncidents \in Nat /\ Len(m) \in Nat
    BY <1>3, IncidentAssumption
  <2> QED BY <1>1, <1>3, <1>4, <2>1
<1>7. r \in Stores
  BY <1>2, <1>6, StoreIs DEF Stores, Lists
<1> HIDE DEF n
<1>8. ASSUME Named(s) PROVE Named(r)
  <2>1. Below(m, s.next) /\ Agree(s.list, s.list)
    BY <1>3, <1>8, DerivesKeeps DEF Named
  <2>2. Agree(m, m)
    BY <1>3, <2>1, DerivesKeeps
  <2>3. \A k \in DOMAIN m : m[k].id < s.next /\ m[k].id \in Nat /\ s.next \in Nat
    BY ZenonT(40), <1>3, <2>1, StoreIs DEF Below
  <2>4. Below(r.list, r.next)
    <3> SUFFICES ASSUME NEW k \in DOMAIN r.list PROVE r.list[k].id < r.next
      BY DEF Below
    <3>1. CASE k \in DOMAIN m
      BY <1>2, <1>6, <2>3, <3>1
    <3>2. CASE k = n
      BY <1>2, <1>5, <1>6, <3>2, StoreIs
    <3> QED BY <1>6, <3>1, <3>2
  <2>5. \A k \in DOMAIN m : m[k].id # new.id
    BY <1>5, <2>3
  <2>6. Agree(r.list, r.list)
    BY ONLY <1>6, <2>2, <2>5 DEF Agree
  <2> QED BY <2>4, <2>6 DEF Named
<1>9. ASSUME NEW f \in Files, Below(f.incidents, f.nextId), Filed(s, f) PROVE Filed(r, f)
  <2>1. /\ f.nextId <= s.next /\ f.nextId \in Nat /\ s.next \in Nat
        /\ \A k \in DOMAIN f.incidents : f.incidents[k].id < f.nextId
                                         /\ f.incidents[k].id \in Nat
    <3>1. \A k \in DOMAIN f.incidents : f.incidents[k].id \in Nat
      <4>1. f.incidents \in Seq(IncidentType)
        BY DEF Files, Lists
      <4> QED BY <4>1, ItemIs
    <3> QED BY <1>9, <3>1, StoreIs DEF Filed, Below, Files
  <2>2. Agree(m, f.incidents)
    BY <1>3, <1>9, DerivesKeeps DEF Filed
  <2>3. \A k \in DOMAIN f.incidents : f.incidents[k].id # new.id
    BY <1>5, <2>1
  <2>4. Agree(r.list, f.incidents)
    BY ONLY <1>6, <2>2, <2>3 DEF Agree
  <2>5. f.nextId <= r.next
    BY <1>2, <2>1
  <2> QED BY <2>4, <2>5 DEF Filed
<1>10. ASSUME Named(s), Single(s) PROVE Single(r)
  <2>1. OneId(m) /\ OneOpen(m) /\ Below(m, s.next)
    BY <1>3, <1>10, DerivesKeeps DEF Single, Named
  <2>2. \A k \in DOMAIN m : m[k].id # new.id
    <3>1. \A k \in DOMAIN m : m[k].id < s.next /\ m[k].id \in Nat /\ s.next \in Nat
      BY ZenonT(40), <1>3, <2>1, StoreIs DEF Below
    <3> QED BY <1>5, <3>1
  <2>3. \A k \in DOMAIN m : ~(m[k].open /\ m[k].thing = new.thing)
    BY ONLY <1>2, <1>3, <1>5
  <2>4. OneId(r.list)
    BY ONLY <1>6, <2>1, <2>2 DEF OneId
  <2>5. OneOpen(r.list)
    BY ONLY <1>6, <2>1, <2>3 DEF OneOpen
  <2> QED BY <2>4, <2>5 DEF Single
<1>11. ASSUME NEW o \in Stores, Heir(s, o) PROVE Heir(r, o)
  <2>1. s.next >= o.next /\ s.next \in Nat /\ o.next \in Nat
    BY <1>11, StoreIs DEF Heir
  <2>2. r.next >= o.next
    BY <1>2, <2>1
  <2>3. ASSUME NEW k \in DOMAIN r.list PROVE Kin(r.list[k], o)
    <3>1. CASE k \in DOMAIN m
      <4>1. PICK i \in DOMAIN s.list : m[k] = s.list[i]
        BY <1>3, <3>1
      <4>2. Kin(s.list[i], o)
        BY <1>11 DEF Heir
      <4> QED BY <1>6, <3>1, <4>1, <4>2
    <3>2. CASE k = n
      BY <1>5, <1>6, <2>1, <3>2 DEF Kin
    <3> QED BY <1>6, <3>1, <3>2
  <2>4. ASSUME NEW e \in DOMAIN o.list, o.list[e].open, Gone(o.list[e], r)
        PROVE  Crowded(r.list)
    <3>1. \A k \in DOMAIN m : m[k].id = o.list[e].id => ~m[k].open
      BY ONLY <1>6, <2>4 DEF Gone
    <3>2. Len(m) + 1 = MaxIncidents /\ \A k \in DOMAIN m : m[k].open
      <4>1. CASE Gone(o.list[e], s)
        <5>1. Len(s.list) = MaxIncidents /\ \A k \in DOMAIN s.list : s.list[k].open
          BY <1>11, <2>4, <4>1 DEF Heir, Crowded
        <5>2. \A k \in DOMAIN m : m[k].open
          BY ONLY <1>3, <5>1
        <5>3. PICK d \in DOMAIN s.list : m = RemoveAt(s.list, d)
          <6>1. ~(Len(s.list) < MaxIncidents)
            BY <5>1, IncidentAssumption
          <6> QED BY ONLY <1>1, <6>1 DEF Room
        <5>4. Len(m) = Len(s.list) - 1 /\ Len(s.list) \in Nat
          BY <5>3, StoreIs, RemoveAtIs
        <5> QED BY <5>1, <5>2, <5>4
      <4>2. CASE ~Gone(o.list[e], s)
        <5>1. PICK i \in DOMAIN s.list : s.list[i].id = o.list[e].id /\ s.list[i].open
          BY <4>2 DEF Gone
        <5>2. ~\E k \in DOMAIN m : m[k] = s.list[i]
          BY <3>1, <5>1
        <5> QED BY ONLY <1>3, <5>1, <5>2
      <4> QED BY <4>1, <4>2
    <3>3. Len(r.list) = MaxIncidents
      BY <1>6, <3>2 DEF n
    <3>4. \A k \in DOMAIN r.list : r.list[k].open
      BY ONLY <1>5, <1>6, <3>2
    <3> QED BY <3>3, <3>4 DEF Crowded
  <2> QED BY <2>2, <2>3, <2>4 DEF Heir
<1>12. ASSUME NEW ts, Clocked(s, ts) PROVE Clocked(r, ts \cup {t})
  <2>1. \A k \in DOMAIN m : m[k].open => m[k].thing # t
    BY ONLY <1>2, <1>3
  <2>2. \A k \in DOMAIN m : (m[k].open /\ m[k].thing \in ts) => m[k].quiet = 0
    BY ONLY <1>3, <1>12 DEF Clocked
  <2> QED BY ONLY <1>5, <1>6, <2>1, <2>2 DEF Clocked
<1> QED BY <1>2, <1>7, <1>8, <1>9, <1>10, <1>11, <1>12

\* What the store r has kept of s when the things of ts were reported.
Follows(r, s, ts) ==
  /\ r \in Stores /\ Heir(r, s)
  /\ Named(s) => Named(r)
  /\ \A f \in Files : Below(f.incidents, f.nextId) /\ Filed(s, f) => Filed(r, f)
  /\ Named(s) /\ Single(s) => Single(r) /\ Clocked(r, ts)

\* One more report.
LEMMA ObserveFollows ==
  ASSUME NEW s \in Stores, NEW r, NEW ts, NEW t \in Thing, Follows(r, s, ts)
  PROVE  Follows(Observe(r, t), s, ts \cup {t})
<1> DEFINE q == Observe(r, t)
<1>1. /\ r \in Stores /\ Heir(r, s)
      /\ Named(s) => Named(r)
      /\ \A f \in Files : Below(f.incidents, f.nextId) /\ Filed(s, f) => Filed(r, f)
      /\ Named(s) /\ Single(s) => Single(r) /\ Clocked(r, ts)
  BY DEF Follows
<1>2. q = [list |-> q.list, next |-> q.next] /\ (Again(r, t, q) \/ Anew(r, t, q))
  BY <1>1, ObserveIs
<1> HIDE DEF q
<1>3. CASE Again(r, t, q)
  <2>1. /\ q \in Stores /\ q.next = r.next /\ Derives(q.list, r.list)
        /\ \A o : Heir(r, o) => Heir(q, o)
        /\ \A us : Clocked(r, us) /\ OneOpen(r.list) => Clocked(q, us \cup {t})
    BY <1>1, <1>2, <1>3, AgainKeeps
  <2>2. Heir(q, s)
    BY <1>1, <2>1
  <2>3. ASSUME Named(s) PROVE Named(q)
    <3>1. Below(r.list, r.next) /\ Agree(r.list, r.list)
      BY <1>1, <2>3 DEF Named
    <3>2. Below(q.list, q.next) /\ Agree(q.list, r.list)
      BY <2>1, <3>1, DerivesKeeps
    <3>3. Agree(q.list, q.list)
      BY <2>1, <3>2, DerivesKeeps
    <3> QED BY <3>2, <3>3 DEF Named
  <2>4. ASSUME NEW f \in Files, Below(f.incidents, f.nextId), Filed(s, f) PROVE Filed(q, f)
    <3>1. Agree(r.list, f.incidents) /\ f.nextId <= r.next
      BY <1>1, <2>4 DEF Filed
    <3>2. Agree(q.list, f.incidents)
      BY <2>1, <3>1, DerivesKeeps
    <3> QED BY <2>1, <3>1, <3>2 DEF Filed
  <2>5. ASSUME Named(s), Single(s) PROVE Single(q) /\ Clocked(q, ts \cup {t})
    <3>1. OneId(r.list) /\ OneOpen(r.list) /\ Clocked(r, ts)
      BY <1>1, <2>5 DEF Single
    <3>2. OneId(q.list) /\ OneOpen(q.list)
      BY <2>1, <3>1, DerivesKeeps
    <3> QED BY <2>1, <3>1, <3>2 DEF Single
  <2>6. q \in Stores
    BY <2>1
  <2>7. Follows(q, s, ts \cup {t})
    BY ONLY <2>2, <2>3, <2>4, <2>5, <2>6 DEF Follows
  <2> QED BY <2>7 DEF q
<1>4. CASE Anew(r, t, q)
  <2>1. /\ q \in Stores
        /\ Named(r) => Named(q)
        /\ \A f \in Files : Below(f.incidents, f.nextId) /\ Filed(r, f) => Filed(q, f)
        /\ Named(r) /\ Single(r) => Single(q)
        /\ \A o \in Stores : Heir(r, o) => Heir(q, o)
        /\ \A us : Clocked(r, us) => Clocked(q, us \cup {t})
    BY <1>1, <1>2, <1>4, AnewKeeps
  <2>2. q \in Stores /\ Heir(q, s)
    BY <1>1, <2>1
  <2>3. ASSUME Named(s) PROVE Named(q)
    BY <1>1, <2>1, <2>3
  <2>4. ASSUME NEW f \in Files, Below(f.incidents, f.nextId), Filed(s, f) PROVE Filed(q, f)
    BY <1>1, <2>1, <2>4
  <2>5. ASSUME Named(s), Single(s) PROVE Single(q) /\ Clocked(q, ts \cup {t})
    BY <1>1, <2>1, <2>5
  <2>6. Follows(q, s, ts \cup {t})
    BY ONLY <2>2, <2>3, <2>4, <2>5 DEF Follows
  <2> QED BY <2>6 DEF q
<1> QED BY <1>2, <1>3, <1>4 DEF q

\* All the reports of a capture, in any order.
LEMMA ReportedFollows ==
  ASSUME NEW s \in Stores, NEW n \in Nat, NEW order \in [1..n -> Thing]
  PROVE  Follows(Reported(s, order), s, {order[k] : k \in 1..n})
<1> DEFINE step == [p \in (1..n) \X Stores |-> Observe(p[2], order[p[1]])]
           after == CHOOSE a : a = [k \in 0..Len(order) |->
                                      IF k = 0 THEN s ELSE Observe(a[k - 1], order[k])]
           ts(k) == {order[i] : i \in 1..k}
<1>1. order \in Seq(Thing) /\ Len(order) = n
  OBVIOUS
<1>2. Reported(s, order) = after[n]
  BY <1>1 DEF Reported
<1>3. PICK f : Iterates(f, s, step, n)
  BY IteratesExists
<1>4. \A k \in 0..n : f[k] = IF k = 0 THEN s ELSE step[<<k, f[k - 1]>>]
  BY <1>3 DEF Iterates
<1>5. \A k \in 1..n, r \in Stores : step[<<k, r>>] = Observe(r, order[k])
  OBVIOUS
<1> HIDE DEF step
<1>6. ASSUME NEW g, g[0] = s,
             \A k \in 1..n : g[k - 1] \in Stores => g[k] = Observe(g[k - 1], order[k])
      PROVE  \A k \in 0..n : Follows(g[k], s, ts(k))
  <2> DEFINE S == {k \in 0..n : Follows(g[k], s, ts(k))}
  <2>1. 0 \in S
    <3>1. ts(0) = {}
      OBVIOUS
    <3>2. Heir(s, s)
      <4>1. \A e \in DOMAIN s.list : s.list[e].open => ~Gone(s.list[e], s)
        BY DEF Gone
      <4>2. \A k \in DOMAIN s.list : Kin(s.list[k], s)
        BY DEF Kin
      <4>3. s.next >= s.next
        BY StoreIs
      <4> QED BY ONLY <4>1, <4>2, <4>3 DEF Heir
    <3>3. Clocked(s, {})
      BY DEF Clocked
    <3>4. Follows(s, s, {})
      BY <3>2, <3>3 DEF Follows
    <3> HIDE DEF ts
    <3> QED BY <1>6, <3>1, <3>4
  <2>2. ASSUME NEW k \in 1..n, k - 1 \in S PROVE k \in S
    <3>1. Follows(g[k - 1], s, ts(k - 1)) /\ order[k] \in Thing
      BY <2>2
    <3>2. ts(k) = ts(k - 1) \cup {order[k]}
      <4>1. 1..k = (1..(k - 1)) \cup {k}
        OBVIOUS
      <4> QED BY <4>1
    <3> HIDE DEF ts
    <3>3. g[k] = Observe(g[k - 1], order[k])
      BY <1>6, <3>1 DEF Follows
    <3>4. Follows(g[k], s, ts(k))
      BY <3>1, <3>2, <3>3, ObserveFollows
    <3> QED BY <3>4
  <2> HIDE DEF S
  <2>3. \A k \in 0..n : k \in S
    BY <2>1, <2>2, UpTo
  <2> QED BY <2>3 DEF S
<1>7. \A k \in 0..n : f[k] \in Stores
  <2>1. f[0] = s
    <3>1. 0 \in 0..n
      OBVIOUS
    <3> QED BY ONLY <1>4, <3>1
  <2>2. \A k \in 1..n : f[k - 1] \in Stores => f[k] = Observe(f[k - 1], order[k])
    <3> SUFFICES ASSUME NEW k \in 1..n, f[k - 1] \in Stores
                 PROVE  f[k] = Observe(f[k - 1], order[k])
      OBVIOUS
    <3>1. k \in 0..n /\ k # 0
      OBVIOUS
    <3>2. f[k] = step[<<k, f[k - 1]>>]
      BY ONLY <1>4, <3>1
    <3> QED BY <1>5, <3>2
  <2>3. \A k \in 0..n : Follows(f[k], s, ts(k))
    BY <1>6, <2>1, <2>2
  <2> QED BY <2>3 DEF Follows
<1>8. f = [k \in 0..n |-> IF k = 0 THEN s ELSE Observe(f[k - 1], order[k])]
  <2>1. ASSUME NEW k \in 0..n
        PROVE  f[k] = IF k = 0 THEN s ELSE Observe(f[k - 1], order[k])
    <3>1. CASE k = 0
      BY <1>4, <3>1
    <3>2. CASE k # 0
      <4>1. k \in 1..n /\ k - 1 \in 0..n
        BY <3>2
      <4>2. f[k] = step[<<k, f[k - 1]>>] /\ f[k - 1] \in Stores
        BY ONLY <1>4, <1>7, <3>2, <4>1, k \in 0..n
      <4> QED BY <1>5, <3>2, <4>1, <4>2
    <3> QED BY <3>1, <3>2
  <2>2. f = [k \in 0..n |-> f[k]]
    BY <1>3 DEF Iterates
  <2> QED BY ONLY <2>1, <2>2
<1>9. after = [k \in 0..n |-> IF k = 0 THEN s ELSE Observe(after[k - 1], order[k])]
  BY <1>1, <1>8
<1> HIDE DEF after
<1>10. /\ after[0] = s
       /\ \A k \in 1..n : after[k - 1] \in Stores => after[k] = Observe(after[k - 1], order[k])
  <2>1. 0 \in 0..n /\ \A k \in 1..n : k \in 0..n /\ k # 0
    OBVIOUS
  <2> QED BY ONLY <1>9, <2>1
<1>11. \A k \in 0..n : Follows(after[k], s, ts(k))
  BY <1>6, <1>10
<1>12. n \in 0..n
  OBVIOUS
<1> QED BY ONLY <1>2, <1>11, <1>12

-----------------------------------------------------------------------------
(* The state: what is inductive *)

\* Every variable has its type, and the store and the file their limit.
IncTyped ==
  /\ incidents \in Lists /\ nextId \in Nat \ {0}
  /\ file \subseteq Files /\ \A f, g \in file : f = g
  /\ up \in BOOLEAN /\ quietAir \in [Thing -> 0..CloseQuiet]
  /\ opened \in Nat /\ saves \in Nat /\ crashes \in Nat /\ restarts \in Nat

\* No id is handed out that the store or the file has, and an id names one thing.
IdsApart ==
  /\ Below(incidents, nextId) /\ Agree(incidents, incidents)
  /\ \A f \in file :
       /\ Below(f.incidents, f.nextId) /\ Agree(f.incidents, f.incidents)
       /\ Agree(incidents, f.incidents)
       /\ up => f.nextId <= nextId
  /\ ~up /\ restarts = 0 => incidents = <<>>

\* Until a monitor is restarted on its own file, incidents are listed once.
Once ==
  restarts = 0 =>
    /\ OneId(incidents) /\ OneOpen(incidents)
    /\ \A f \in file : OneId(f.incidents) /\ OneOpen(f.incidents)

\* The clock of an open incident has run no longer than it was quiet.
ClocksTrue ==
  restarts = 0 =>
    \A k \in DOMAIN incidents :
      incidents[k].open => /\ incidents[k].quiet <= quietAir[incidents[k].thing]
                           /\ incidents[k].quiet < CloseQuiet

IncInv == IncTyped /\ IdsApart /\ Once /\ ClocksTrue

Store == [list |-> incidents, next |-> nextId]

\* The invariant in terms of the store.
LEMMA StoreSound ==
  ASSUME IncInv
  PROVE  /\ Store \in Stores /\ Store.list = incidents /\ Store.next = nextId
         /\ Named(Store)
         /\ up => \A f \in file : f \in Files /\ Below(f.incidents, f.nextId) /\ Filed(Store, f)
         /\ restarts = 0 => Single(Store)
<1>1. Store \in Stores /\ Store.list = incidents /\ Store.next = nextId
  BY DEF IncInv, IncTyped, Store, Stores
<1> HIDE DEF Store
<1>2. Named(Store)
  BY <1>1 DEF IncInv, IdsApart, Named
<1>3. up => \A f \in file : f \in Files /\ Below(f.incidents, f.nextId) /\ Filed(Store, f)
  BY <1>1 DEF IncInv, IncTyped, IdsApart, Filed
<1>4. restarts = 0 => Single(Store)
  BY <1>1 DEF IncInv, Once, Single
<1> QED BY <1>1, <1>2, <1>3, <1>4

\* What one capture does: the reports, and each open incident that ages.
Ages(c, role, usable, i) ==
  usable /\ i.open /\ role[i.thing] = "absent" /\ Covers(c, i.thing)

Captured(c, role, usable, r) ==
  /\ up /\ UNCHANGED <<file, up, saves, crashes, restarts>>
  /\ nextId' = r.next
  /\ opened' = opened + (r.next - nextId)
  /\ Follows(r, Store, {t \in Thing : role[t] = "seen"})
  /\ DOMAIN incidents' = DOMAIN r.list /\ Len(incidents') = Len(r.list)
  /\ incidents' \in Lists
  /\ \A k \in DOMAIN r.list :
       /\ incidents'[k].id = r.list[k].id /\ incidents'[k].thing = r.list[k].thing
       /\ incidents'[k].open =
            (r.list[k].open /\ (Ages(c, role, usable, r.list[k]) =>
                                  r.list[k].quiet + 1 < CloseQuiet))
       /\ incidents'[k].quiet =
            IF Ages(c, role, usable, r.list[k]) THEN r.list[k].quiet + 1
            ELSE IF r.list[k].open /\ role[r.list[k].thing] = "active" THEN 0
                 ELSE r.list[k].quiet
  /\ quietAir' \in [Thing -> 0..CloseQuiet]
  /\ \A t \in Thing :
       quietAir'[t] = IF role[t] = "seen" \/ role[t] = "active" THEN 0
                      ELSE IF usable /\ Covers(c, t) /\ role[t] = "absent"
                              /\ quietAir[t] < CloseQuiet
                           THEN quietAir[t] + 1 ELSE quietAir[t]

\* One item, its clock stopped by activity, one capture older.
LEMMA ItemAges ==
  ASSUME NEW i \in IncidentType
  PROVE  /\ [i EXCEPT !.quiet = 0] \in IncidentType
         /\ [i EXCEPT !.quiet = 0].id = i.id
         /\ [i EXCEPT !.quiet = 0].thing = i.thing
         /\ [i EXCEPT !.quiet = 0].open = i.open
         /\ [i EXCEPT !.quiet = 0].quiet = 0
         /\ LET a == [i EXCEPT !.quiet = @ + 1, !.open = i.quiet + 1 < CloseQuiet]
            IN  /\ a \in IncidentType /\ a.id = i.id /\ a.thing = i.thing
                /\ a.open = (i.quiet + 1 < CloseQuiet) /\ a.quiet = i.quiet + 1
<1>1. /\ i.id \in Nat \ {0} /\ i.thing \in Thing /\ i.open \in BOOLEAN /\ i.quiet \in Nat
      /\ i = [id |-> i.id, thing |-> i.thing, open |-> i.open, quiet |-> i.quiet]
  BY ItemIs
<1>2. [i EXCEPT !.quiet = 0] = [id |-> i.id, thing |-> i.thing, open |-> i.open, quiet |-> 0]
  BY ONLY <1>1
<1>3. i.quiet + 1 \in Nat /\ (i.quiet + 1 < CloseQuiet) \in BOOLEAN
  BY <1>1
<1>4. ASSUME NEW q \in Nat, NEW b \in BOOLEAN
      PROVE  LET a == [i EXCEPT !.quiet = q, !.open = b]
             IN  a \in IncidentType /\ a.id = i.id /\ a.thing = i.thing /\ a.open = b /\ a.quiet = q
  BY DEF IncidentType
<1> QED BY ONLY <1>1, <1>2, <1>3, <1>4 DEF IncidentType


\* The lists between the reports and the end of a capture.
Stopped(c, role, list, s) ==
  /\ DOMAIN s = DOMAIN list
  /\ \A k \in DOMAIN list :
       /\ s[k] \in IncidentType /\ s[k].id = list[k].id /\ s[k].thing = list[k].thing
       /\ s[k].open = list[k].open
       /\ s[k].quiet = IF list[k].open /\ role[list[k].thing] = "active" THEN 0
                       ELSE list[k].quiet

\* What activity short of an observation does.
LEMMA StoppedIs ==
  ASSUME NEW c, NEW role \in [Thing -> Roles], NEW list \in Seq(IncidentType)
  PROVE  Stopped(c, role, list, ResetQuiet(list, {t \in Thing : role[t] = "active"}))
<1> DEFINE ts == {t \in Thing : role[t] = "active"}
           s == ResetQuiet(list, ts)
<1>1. s = [k \in DOMAIN list |-> IF list[k].open /\ list[k].thing \in ts
                                 THEN [list[k] EXCEPT !.quiet = 0] ELSE list[k]]
  BY DEF ResetQuiet
<1>2. \A k \in DOMAIN list : list[k] \in IncidentType
  OBVIOUS
<1> HIDE DEF s
<1>3. DOMAIN s = DOMAIN list
  BY <1>1
<1>4. ASSUME NEW k \in DOMAIN list
      PROVE  /\ s[k] \in IncidentType /\ s[k].id = list[k].id /\ s[k].thing = list[k].thing
             /\ s[k].open = list[k].open
             /\ s[k].quiet = IF list[k].open /\ role[list[k].thing] = "active" THEN 0
                             ELSE list[k].quiet
  <2>1. list[k] \in IncidentType /\ list[k].thing \in Thing
    BY <1>2, ItemIs
  <2>2. list[k].thing \in ts <=> role[list[k].thing] = "active"
    BY <2>1
  <2> HIDE DEF ts
  <2>3. CASE list[k].open /\ role[list[k].thing] = "active"
    <3>1. s[k] = [list[k] EXCEPT !.quiet = 0]
      BY <1>1, <2>2, <2>3
    <3>2. /\ s[k] \in IncidentType /\ s[k].id = list[k].id /\ s[k].thing = list[k].thing
          /\ s[k].open = list[k].open /\ s[k].quiet = 0
      BY <2>1, <3>1, ItemAges
    <3> QED BY ONLY <2>3, <3>2
  <2>4. CASE ~(list[k].open /\ role[list[k].thing] = "active")
    <3>1. s[k] = list[k]
      BY <1>1, <2>2, <2>4
    <3> QED BY ONLY <2>1, <2>4, <3>1
  <2> QED BY <2>3, <2>4
<1> QED BY ONLY <1>3, <1>4 DEF Stopped, s, ts

\* One capture, item by item.
Aged(c, role, usable, s, a) ==
  /\ DOMAIN a = DOMAIN s
  /\ \A k \in DOMAIN s :
       /\ a[k] \in IncidentType /\ a[k].id = s[k].id /\ a[k].thing = s[k].thing
       /\ a[k].open = (s[k].open /\ (Ages(c, role, usable, s[k]) => s[k].quiet + 1 < CloseQuiet))
       /\ a[k].quiet = IF Ages(c, role, usable, s[k]) THEN s[k].quiet + 1 ELSE s[k].quiet

\* What a capture that could prove quiet does.
LEMMA AgedIs ==
  ASSUME NEW c, NEW role \in [Thing -> Roles], NEW usable \in BOOLEAN,
         NEW s, \A k \in DOMAIN s : s[k] \in IncidentType,
         NEW a, a = IF usable THEN NoteAnalysed(s, c, {t \in Thing : role[t] # "absent"}) ELSE s
  PROVE  Aged(c, role, usable, s, a)
<1> DEFINE exempt == {t \in Thing : role[t] # "absent"}
           b == NoteAnalysed(s, c, exempt)
<1>1. CASE ~usable
  <2>1. a = s
    BY <1>1
  <2>2. \A k \in DOMAIN s : ~Ages(c, role, usable, s[k])
    BY <1>1 DEF Ages
  <2>3. \A k \in DOMAIN s : s[k].open \in BOOLEAN
    BY ItemIs
  <2>4. ASSUME NEW k \in DOMAIN s
        PROVE  a[k].open = (s[k].open /\ (Ages(c, role, usable, s[k]) =>
                                            s[k].quiet + 1 < CloseQuiet))
    BY <2>1, <2>2, <2>3
  <2> QED BY <2>1, <2>2, <2>4 DEF Aged
<1>2. CASE usable
  <2>1. a = [k \in DOMAIN s |->
               IF ~s[k].open \/ s[k].thing \in exempt \/ ~Covers(c, s[k].thing)
               THEN s[k]
               ELSE [s[k] EXCEPT !.quiet = @ + 1, !.open = s[k].quiet + 1 < CloseQuiet]]
    BY <1>2 DEF NoteAnalysed
  <2>2. DOMAIN a = DOMAIN s
    BY <2>1
  <2>3. ASSUME NEW k \in DOMAIN s
        PROVE  /\ a[k] \in IncidentType /\ a[k].id = s[k].id /\ a[k].thing = s[k].thing
               /\ a[k].open = (s[k].open /\ (Ages(c, role, usable, s[k]) =>
                                               s[k].quiet + 1 < CloseQuiet))
               /\ a[k].quiet = IF Ages(c, role, usable, s[k]) THEN s[k].quiet + 1
                               ELSE s[k].quiet
    <3>1. s[k] \in IncidentType /\ s[k].thing \in Thing /\ s[k].open \in BOOLEAN
      BY ItemIs
    <3>2. s[k].thing \in exempt <=> role[s[k].thing] # "absent"
      BY <3>1
    <3> HIDE DEF exempt
    <3>3. CASE Ages(c, role, usable, s[k])
      <4>1. ~(~s[k].open \/ s[k].thing \in exempt \/ ~Covers(c, s[k].thing)) /\ s[k].open
        BY <3>2, <3>3 DEF Ages
      <4>2. a[k] = [s[k] EXCEPT !.quiet = @ + 1, !.open = s[k].quiet + 1 < CloseQuiet]
        BY <2>1, <4>1
      <4>3. /\ a[k] \in IncidentType /\ a[k].id = s[k].id /\ a[k].thing = s[k].thing
            /\ a[k].open = (s[k].quiet + 1 < CloseQuiet) /\ a[k].quiet = s[k].quiet + 1
        BY <3>1, <4>2, ItemAges
      <4>4. a[k].open = (s[k].open /\ (Ages(c, role, usable, s[k]) =>
                                         s[k].quiet + 1 < CloseQuiet))
        BY ONLY <3>3, <4>1, <4>3
      <4> QED BY ONLY <3>3, <4>3, <4>4
    <3>4. CASE ~Ages(c, role, usable, s[k])
      <4>1. ~s[k].open \/ s[k].thing \in exempt \/ ~Covers(c, s[k].thing)
        BY <1>2, <3>2, <3>4 DEF Ages
      <4>2. a[k] = s[k]
        BY <2>1, <4>1
      <4>3. a[k].open = (s[k].open /\ (Ages(c, role, usable, s[k]) =>
                                         s[k].quiet + 1 < CloseQuiet))
        BY <3>1, <3>4, <4>2
      <4> QED BY ONLY <3>1, <3>4, <4>2, <4>3
    <3> QED BY <3>3, <3>4
  <2> QED BY ONLY <2>2, <2>3 DEF Aged
<1> QED BY <1>1, <1>2

\* What a capture does to the state.
LEMMA CaptureIs ==
  ASSUME IncInv, NEW c, NEW role \in [Thing -> Roles], NEW usable \in BOOLEAN,
         IngestCapture(c, role, usable)
  PROVE  \E r : Captured(c, role, usable, r)
<1> DEFINE seen == {t \in Thing : role[t] = "seen"}
           active == {t \in Thing : role[t] = "active"}
           exempt == {t \in Thing : role[t] # "absent"}
           n == Cardinality(seen)
<1>1. PICK order \in Orders(seen) :
        LET reported == Reported([list |-> incidents, next |-> nextId], order)
            stopped == ResetQuiet(reported.list, active)
        IN  /\ incidents' = IF usable THEN NoteAnalysed(stopped, c, exempt) ELSE stopped
            /\ nextId' = reported.next
            /\ opened' = opened + (reported.next - nextId)
  BY DEF IngestCapture
<1> DEFINE r == Reported(Store, order)
           s == ResetQuiet(r.list, active)
<1>2. /\ incidents' = IF usable THEN NoteAnalysed(s, c, exempt) ELSE s
      /\ nextId' = r.next /\ opened' = opened + (r.next - nextId)
  BY <1>1 DEF Store
<1>3. /\ up /\ UNCHANGED <<file, up, saves, crashes, restarts>>
      /\ quietAir' = [t \in Thing |->
           IF t \in seen \cup active THEN 0
           ELSE IF t \in {u \in Thing : usable /\ Covers(c, u) /\ role[u] = "absent"}
                   /\ quietAir[t] < CloseQuiet
                THEN quietAir[t] + 1 ELSE quietAir[t]]
  BY DEF IngestCapture
<1>4. n \in Nat
  <2>1. IsFiniteSet(seen)
    BY IncidentAssumption, FS_Subset
  <2> QED BY <2>1, FS_CardinalityType
<1>5. /\ order \in [1..n -> seen]
      /\ \A t \in seen : \E k \in DOMAIN order : order[k] = t
  BY DEF Orders
<1>6. order \in [1..n -> Thing] /\ {order[k] : k \in 1..n} = seen
  <2> HIDE DEF n
  <2> QED BY <1>5
<1> HIDE DEF n, r
<1>7. Follows(r, Store, seen)
  <2>1. Store \in Stores
    BY StoreSound
  <2>2. Follows(Reported(Store, order), Store, {order[k] : k \in 1..n})
    BY <1>4, <1>6, <2>1, ReportedFollows
  <2> QED BY <1>6, <2>2 DEF r
<1>8. r \in Stores /\ r.list \in Seq(IncidentType) /\ Len(r.list) <= MaxIncidents
      /\ DOMAIN r.list = 1..Len(r.list) /\ Len(r.list) \in Nat
  BY <1>7, StoreIs DEF Follows
<1>9. Stopped(c, role, r.list, s)
  BY <1>8, StoppedIs
<1> HIDE DEF s
<1>10. Aged(c, role, usable, s, incidents')
  BY <1>2, <1>9, AgedIs DEF Stopped
<1>11. DOMAIN incidents' = DOMAIN r.list /\ Len(incidents') = Len(r.list) /\ incidents' \in Lists
  <2>1. DOMAIN incidents' = DOMAIN r.list /\ DOMAIN s = DOMAIN r.list
    BY ONLY <1>9, <1>10 DEF Stopped, Aged
  <2>2. incidents' = [k \in DOMAIN s |-> incidents'[k]]
    <3>1. CASE usable
      <4>1. \E e : incidents' = [k \in DOMAIN s |-> e[k]]
        <5> DEFINE e == [k \in DOMAIN s |->
                          IF ~s[k].open \/ s[k].thing \in exempt \/ ~Covers(c, s[k].thing)
                          THEN s[k]
                          ELSE [s[k] EXCEPT !.quiet = @ + 1, !.open = s[k].quiet + 1 < CloseQuiet]]
        <5>1. incidents' = e
          BY <1>2, <3>1 DEF NoteAnalysed
        <5>2. e = [k \in DOMAIN s |-> e[k]]
          OBVIOUS
        <5> HIDE DEF e
        <5> QED BY ONLY <5>1, <5>2
      <4> QED BY <4>1
    <3>2. CASE ~usable
      <4>1. s = [k \in DOMAIN r.list |->
                   IF r.list[k].open /\ r.list[k].thing \in active
                   THEN [r.list[k] EXCEPT !.quiet = 0] ELSE r.list[k]]
        BY DEF s, ResetQuiet
      <4>2. incidents' = s
        BY <1>2, <3>2
      <4>3. s = [k \in DOMAIN s |-> s[k]]
        BY <4>1
      <4> QED BY ONLY <4>2, <4>3
    <3> QED BY <3>1, <3>2
  <2>3. incidents' \in [1..Len(r.list) -> IncidentType]
    BY ONLY <1>8, <1>10, <2>1, <2>2 DEF Aged
  <2>4. incidents' \in Seq(IncidentType) /\ Len(incidents') = Len(r.list)
    BY ONLY <1>8, <2>3
  <2> QED BY <1>8, <2>1, <2>4 DEF Lists
<1>12. ASSUME NEW k \in DOMAIN r.list
       PROVE  /\ incidents'[k].id = r.list[k].id /\ incidents'[k].thing = r.list[k].thing
              /\ incidents'[k].open =
                   (r.list[k].open /\ (Ages(c, role, usable, r.list[k]) =>
                                         r.list[k].quiet + 1 < CloseQuiet))
              /\ incidents'[k].quiet =
                   IF Ages(c, role, usable, r.list[k]) THEN r.list[k].quiet + 1
                   ELSE IF r.list[k].open /\ role[r.list[k].thing] = "active" THEN 0
                        ELSE r.list[k].quiet
  <2>1. /\ k \in DOMAIN s
        /\ s[k].id = r.list[k].id /\ s[k].thing = r.list[k].thing
        /\ s[k].open = r.list[k].open
        /\ s[k].quiet = IF r.list[k].open /\ role[r.list[k].thing] = "active" THEN 0
                        ELSE r.list[k].quiet
    BY ONLY <1>9, k \in DOMAIN r.list DEF Stopped
  <2>2. /\ incidents'[k].id = s[k].id /\ incidents'[k].thing = s[k].thing
        /\ incidents'[k].open = (s[k].open /\ (Ages(c, role, usable, s[k]) =>
                                                 s[k].quiet + 1 < CloseQuiet))
        /\ incidents'[k].quiet = IF Ages(c, role, usable, s[k]) THEN s[k].quiet + 1
                                 ELSE s[k].quiet
    BY ONLY <1>10, <2>1 DEF Aged
  <2>3. Ages(c, role, usable, s[k]) = Ages(c, role, usable, r.list[k])
    BY ONLY <2>1 DEF Ages
  <2>4. Ages(c, role, usable, r.list[k]) => role[r.list[k].thing] # "active"
    BY DEF Ages
  <2>5. Ages(c, role, usable, r.list[k]) => s[k].quiet = r.list[k].quiet
    BY ONLY <2>1, <2>4
  <2>6. CASE Ages(c, role, usable, r.list[k])
    BY ONLY <2>1, <2>2, <2>3, <2>5, <2>6
  <2>7. CASE ~Ages(c, role, usable, r.list[k])
    BY ONLY <2>1, <2>2, <2>3, <2>7
  <2> QED BY <2>6, <2>7
<1>13. ASSUME NEW t \in Thing
       PROVE  /\ quietAir'[t] = IF role[t] = "seen" \/ role[t] = "active" THEN 0
                      ELSE IF usable /\ Covers(c, t) /\ role[t] = "absent"
                              /\ quietAir[t] < CloseQuiet
                           THEN quietAir[t] + 1 ELSE quietAir[t]
              /\ quietAir'[t] \in 0..CloseQuiet
  <2>1. quietAir[t] \in 0..CloseQuiet /\ CloseQuiet \in Nat
    BY IncidentAssumption DEF IncInv, IncTyped
  <2>2. quietAir'[t] = IF role[t] = "seen" \/ role[t] = "active" THEN 0
                      ELSE IF usable /\ Covers(c, t) /\ role[t] = "absent"
                              /\ quietAir[t] < CloseQuiet
                           THEN quietAir[t] + 1 ELSE quietAir[t]
    BY <1>3
  <2> QED BY ONLY <2>1, <2>2
<1>14. quietAir' \in [Thing -> 0..CloseQuiet]
  <2>1. quietAir' = [t \in Thing |-> quietAir'[t]]
    BY <1>3
  <2> QED BY ONLY <1>13, <2>1
<1>15. Captured(c, role, usable, r)
  BY ONLY <1>2, <1>3, <1>7, <1>11, <1>12, <1>13, <1>14 DEF Captured, seen
<1> QED BY <1>15

\* What an item of the store has become when the reports are in.
LEMMA KinIs ==
  ASSUME IncInv, NEW i \in IncidentType, Kin(i, Store)
  PROVE  /\ i.id < nextId =>
              \E e \in DOMAIN incidents :
                /\ incidents[e].id = i.id /\ incidents[e].thing = i.thing
                /\ incidents[e].open = i.open /\ i.quiet \in {0, incidents[e].quiet}
         /\ restarts = 0 /\ i.open => i.quiet <= quietAir[i.thing] /\ i.quiet < CloseQuiet
<1>1. Store.list = incidents /\ Store.next = nextId
  BY StoreSound
<1>2. \/ i.id >= nextId /\ i.open /\ i.quiet = 0
      \/ \E e \in DOMAIN incidents :
           /\ incidents[e].id = i.id /\ incidents[e].thing = i.thing
           /\ incidents[e].open = i.open /\ i.quiet \in {0, incidents[e].quiet}
  BY ONLY <1>1, Kin(i, Store) DEF Kin
<1>3. i.id \in Nat /\ nextId \in Nat /\ i.thing \in Thing
  BY ItemIs DEF IncInv, IncTyped
<1>4. quietAir[i.thing] \in Nat /\ CloseQuiet \in Nat \ {0}
  BY <1>3, IncidentAssumption DEF IncInv, IncTyped
<1>5. ASSUME restarts = 0, i.open PROVE i.quiet <= quietAir[i.thing] /\ i.quiet < CloseQuiet
  <2>1. CASE i.quiet = 0
    BY <1>4, <2>1
  <2>2. CASE i.quiet # 0
    <3>1. PICK e \in DOMAIN incidents :
            /\ incidents[e].thing = i.thing /\ incidents[e].open
            /\ i.quiet = incidents[e].quiet
      BY <1>2, <1>5, <2>2
    <3>2. incidents[e].quiet <= quietAir[incidents[e].thing] /\ incidents[e].quiet < CloseQuiet
      BY <1>5, <3>1 DEF IncInv, ClocksTrue
    <3> QED BY <3>1, <3>2
  <2> QED BY <2>1, <2>2
<1> QED BY <1>2, <1>3, <1>5

\* What a capture's reports have left of the state.
LEMMA CapturedIs ==
  ASSUME IncInv, NEW c, NEW role, NEW usable, NEW r, Captured(c, role, usable, r)
  PROVE  /\ r \in Stores /\ Heir(r, Store) /\ Named(r)
         /\ \A f \in file : Filed(r, f)
         /\ restarts = 0 => Single(r) /\ Clocked(r, {t \in Thing : role[t] = "seen"})
         /\ Derives(incidents', r.list)
         /\ \A k \in DOMAIN r.list : r.list[k] \in IncidentType /\ Kin(r.list[k], Store)
<1>1. Follows(r, Store, {t \in Thing : role[t] = "seen"}) /\ up
  BY DEF Captured
<1>2. /\ Named(Store)
      /\ \A f \in file : f \in Files /\ Below(f.incidents, f.nextId) /\ Filed(Store, f)
      /\ restarts = 0 => Single(Store)
  BY <1>1, StoreSound
<1>3. /\ r \in Stores /\ Heir(r, Store) /\ Named(r)
      /\ \A f \in file : Filed(r, f)
      /\ restarts = 0 => Single(r) /\ Clocked(r, {t \in Thing : role[t] = "seen"})
  BY ONLY <1>1, <1>2 DEF Follows
<1>4. Derives(incidents', r.list)
  <2>1. /\ DOMAIN incidents' = DOMAIN r.list
        /\ \A k \in DOMAIN r.list :
             /\ incidents'[k].id = r.list[k].id /\ incidents'[k].thing = r.list[k].thing
             /\ incidents'[k].open => r.list[k].open
    BY DEF Captured
  <2> QED BY <2>1, SamePlaces
<1>5. \A k \in DOMAIN r.list : r.list[k] \in IncidentType /\ Kin(r.list[k], Store)
  BY <1>3, StoreIs DEF Heir
<1> QED BY <1>3, <1>4, <1>5

\* A capture leaves every clock true.
LEMMA CaptureClocks ==
  ASSUME IncInv, NEW c, NEW role \in [Thing -> Roles], NEW usable \in BOOLEAN, NEW r,
         Captured(c, role, usable, r)
  PROVE  ClocksTrue'
<1> SUFFICES ASSUME restarts' = 0, NEW k \in DOMAIN incidents', incidents'[k].open
             PROVE  /\ incidents'[k].quiet <= quietAir'[incidents'[k].thing]
                    /\ incidents'[k].quiet < CloseQuiet
  BY DEF ClocksTrue
<1> DEFINE i == r.list[k]
           t == i.thing
           q == incidents'[k].quiet
<1>1. restarts = 0 /\ k \in DOMAIN r.list
  BY DEF Captured
<1>2. i \in IncidentType /\ Kin(i, Store) /\ t \in Thing /\ i.quiet \in Nat
  BY <1>1, CapturedIs, ItemIs
<1>3. /\ incidents'[k].thing = t /\ i.open
      /\ Ages(c, role, usable, i) => i.quiet + 1 < CloseQuiet
      /\ q = IF Ages(c, role, usable, i) THEN i.quiet + 1
             ELSE IF i.open /\ role[t] = "active" THEN 0 ELSE i.quiet
  BY <1>1 DEF Captured
<1>4. i.quiet <= quietAir[t] /\ i.quiet < CloseQuiet
  BY <1>1, <1>2, <1>3, KinIs
<1>5. quietAir[t] \in 0..CloseQuiet /\ CloseQuiet \in Nat /\ CloseQuiet > 0
  BY <1>2, IncidentAssumption DEF IncInv, IncTyped
<1>6. quietAir'[t] = IF role[t] = "seen" \/ role[t] = "active" THEN 0
                     ELSE IF usable /\ Covers(c, t) /\ role[t] = "absent"
                             /\ quietAir[t] < CloseQuiet
                          THEN quietAir[t] + 1 ELSE quietAir[t]
  BY <1>2 DEF Captured
<1>7. role[t] = "seen" => i.quiet = 0
  <2>1. Clocked(r, {u \in Thing : role[u] = "seen"})
    BY <1>1, CapturedIs
  <2> QED BY <1>1, <1>2, <1>3, <2>1 DEF Clocked
<1>8. Ages(c, role, usable, i) <=> usable /\ Covers(c, t) /\ role[t] = "absent"
  BY <1>3 DEF Ages
<1> HIDE DEF i, t, q
<1>9. CASE Ages(c, role, usable, i)
  <2>1. q = i.quiet + 1 /\ q < CloseQuiet
    BY <1>3, <1>9
  <2>2. quietAir'[t] = IF quietAir[t] < CloseQuiet THEN quietAir[t] + 1 ELSE quietAir[t]
    BY <1>6, <1>8, <1>9
  <2>3. q <= quietAir'[t]
    BY ONLY <1>2, <1>4, <1>5, <2>1, <2>2
  <2> QED BY <1>3, <2>1, <2>3 DEF q
<1>10. CASE ~Ages(c, role, usable, i)
  <2>1. q = IF role[t] = "active" THEN 0 ELSE i.quiet
    BY <1>3, <1>10
  <2>2. quietAir'[t] = IF role[t] = "seen" \/ role[t] = "active" THEN 0 ELSE quietAir[t]
    BY <1>6, <1>8, <1>10
  <2>3. q <= quietAir'[t] /\ q < CloseQuiet
    BY ONLY <1>2, <1>4, <1>5, <1>7, <2>1, <2>2
  <2> QED BY <1>3, <2>3 DEF q
<1> QED BY <1>9, <1>10

\* A capture keeps the invariant.
LEMMA CaptureKeeps ==
  ASSUME IncInv, NEW c, NEW role \in [Thing -> Roles], NEW usable \in BOOLEAN, NEW r,
         Captured(c, role, usable, r)
  PROVE  IncInv'
<1>1. /\ r \in Stores /\ Heir(r, Store) /\ Named(r)
      /\ \A f \in file : Filed(r, f)
      /\ restarts = 0 => Single(r)
      /\ Derives(incidents', r.list)
  BY CapturedIs
<1>2. /\ up /\ UNCHANGED <<file, up, saves, crashes, restarts>>
      /\ nextId' = r.next /\ opened' = opened + (r.next - nextId)
      /\ incidents' \in Lists /\ quietAir' \in [Thing -> 0..CloseQuiet]
  BY DEF Captured
<1>3. IncTyped'
  <2>1. r.next >= nextId /\ r.next \in Nat \ {0} /\ nextId \in Nat /\ opened \in Nat
    BY <1>1, StoreIs, StoreSound DEF Heir, IncInv, IncTyped
  <2>2. nextId' \in Nat \ {0} /\ opened' \in Nat
    BY ONLY <1>2, <2>1
  <2> QED BY <1>2, <2>2 DEF IncInv, IncTyped
<1>4. IdsApart'
  <2>1. Below(r.list, nextId') /\ Agree(r.list, r.list)
    BY <1>1, <1>2 DEF Named
  <2>2. Below(incidents', nextId') /\ Agree(incidents', r.list)
    BY <1>1, <2>1, DerivesKeeps
  <2>3. Agree(incidents', incidents')
    BY <1>1, <2>2, DerivesKeeps
  <2>4. ASSUME NEW f \in file PROVE Agree(incidents', f.incidents) /\ f.nextId <= nextId'
    <3>1. Agree(r.list, f.incidents) /\ f.nextId <= r.next
      BY <1>1 DEF Filed
    <3> QED BY <1>1, <1>2, <3>1, DerivesKeeps
  <2> QED BY <1>2, <2>2, <2>3, <2>4 DEF IncInv, IdsApart
<1>5. Once'
  <2>1. restarts = 0 => OneId(incidents') /\ OneOpen(incidents')
    BY <1>1, DerivesKeeps DEF Single
  <2> QED BY <1>2, <2>1 DEF IncInv, Once
<1> QED BY <1>3, <1>4, <1>5, CaptureClocks DEF IncInv

\* After a capture an open incident has ended only by quiet, or for room.
LEMMA CaptureEnds ==
  ASSUME IncInv, NEW c, NEW role \in [Thing -> Roles], NEW usable \in BOOLEAN, NEW r,
         Captured(c, role, usable, r)
  PROVE  ClosedByQuiet /\ ForgottenForRoom
<1>1. /\ r \in Stores /\ Heir(r, Store)
      /\ \A k \in DOMAIN r.list : r.list[k] \in IncidentType /\ Kin(r.list[k], Store)
  BY CapturedIs
<1>2. /\ DOMAIN incidents' = DOMAIN r.list /\ Len(incidents') = Len(r.list)
      /\ \A k \in DOMAIN r.list :
           /\ incidents'[k].id = r.list[k].id /\ incidents'[k].thing = r.list[k].thing
           /\ incidents'[k].open =
                (r.list[k].open /\ (Ages(c, role, usable, r.list[k]) =>
                                      r.list[k].quiet + 1 < CloseQuiet))
  BY DEF Captured
<1>3. Store.list = incidents
  BY StoreSound
<1>4. \A j \in DOMAIN incidents : incidents[j].id < nextId
  BY DEF IncInv, IdsApart, Below
<1>5. ClosedByQuiet
  <2> SUFFICES ASSUME NEW j \in DOMAIN incidents, NEW k \in DOMAIN incidents',
                      restarts = 0, incidents[j].id = incidents'[k].id,
                      incidents[j].open, ~incidents'[k].open
               PROVE  quietAir'[incidents[j].thing] = CloseQuiet
    BY DEF ClosedByQuiet
  <2> DEFINE i == r.list[k]
             t == i.thing
  <2>1. k \in DOMAIN r.list /\ i.id = incidents[j].id /\ i.id < nextId
        /\ i \in IncidentType /\ Kin(i, Store)
    BY <1>1, <1>2, <1>4
  <2>2. PICK e \in DOMAIN incidents : /\ incidents[e].id = i.id /\ incidents[e].thing = t
                                      /\ incidents[e].open = i.open
    BY <2>1, KinIs
  <2>3. e = j
    BY ONLY <2>1, <2>2, restarts = 0, IncInv, j \in DOMAIN incidents DEF IncInv, Once, OneId
  <2>4. incidents[j].thing = t /\ i.open /\ t \in Thing /\ i.quiet \in Nat
    BY <2>1, <2>2, <2>3, ItemIs
  <2>5. Ages(c, role, usable, i) /\ ~(i.quiet + 1 < CloseQuiet)
    BY <1>2, <2>1, <2>4
  <2>6. i.quiet <= quietAir[t] /\ i.quiet < CloseQuiet
    BY <2>1, <2>4, KinIs
  <2>7. quietAir[t] \in 0..CloseQuiet /\ CloseQuiet \in Nat
    BY <2>4, IncidentAssumption DEF IncInv, IncTyped
  <2>8. quietAir'[t] = IF role[t] = "seen" \/ role[t] = "active" THEN 0
                       ELSE IF usable /\ Covers(c, t) /\ role[t] = "absent"
                               /\ quietAir[t] < CloseQuiet
                            THEN quietAir[t] + 1 ELSE quietAir[t]
    BY <2>4 DEF Captured
  <2>9. usable /\ Covers(c, t) /\ role[t] = "absent"
    BY <2>5 DEF Ages
  <2> HIDE DEF i, t
  <2>10. quietAir'[t] = IF quietAir[t] < CloseQuiet THEN quietAir[t] + 1 ELSE quietAir[t]
    BY ONLY <2>8, <2>9
  <2>11. quietAir'[t] = CloseQuiet
    BY ONLY <2>4, <2>5, <2>6, <2>7, <2>10
  <2> QED BY <2>4, <2>11
<1>6. ForgottenForRoom
  <2> SUFFICES ASSUME NEW j \in DOMAIN incidents, incidents[j].open,
                      \A k \in DOMAIN incidents' : incidents'[k].id # incidents[j].id
               PROVE  /\ Len(incidents') = MaxIncidents
                      /\ \A i \in DOMAIN incidents, k \in DOMAIN incidents' :
                           incidents[i].id = incidents'[k].id
                             => \E o \in DOMAIN incidents :
                                  incidents[o].open /\ incidents[o].id = incidents[i].id
    BY DEF ForgottenForRoom
  <2>1. Gone(incidents[j], r)
    BY <1>2 DEF Gone
  <2>2. Crowded(r.list)
    BY <1>1, <1>3, <2>1 DEF Heir
  <2>3. Len(incidents') = MaxIncidents
    BY <1>2, <2>2 DEF Crowded
  <2>4. ASSUME NEW i \in DOMAIN incidents, NEW k \in DOMAIN incidents',
               incidents[i].id = incidents'[k].id
        PROVE  \E o \in DOMAIN incidents :
                 incidents[o].open /\ incidents[o].id = incidents[i].id
    <3>1. /\ k \in DOMAIN r.list /\ r.list[k].id = incidents[i].id /\ r.list[k].id < nextId
          /\ r.list[k].open /\ r.list[k] \in IncidentType /\ Kin(r.list[k], Store)
      BY <1>1, <1>2, <1>4, <2>2, <2>4 DEF Crowded
    <3>2. PICK e \in DOMAIN incidents :
            incidents[e].id = r.list[k].id /\ incidents[e].open = r.list[k].open
      <4>1. r.list[k].id < nextId =>
              \E e \in DOMAIN incidents :
                /\ incidents[e].id = r.list[k].id /\ incidents[e].thing = r.list[k].thing
                /\ incidents[e].open = r.list[k].open
                /\ r.list[k].quiet \in {0, incidents[e].quiet}
        BY <3>1, KinIs
      <4> QED BY ONLY <3>1, <4>1
    <3> QED BY <3>1, <3>2
  <2> QED BY <2>3, <2>4
<1> QED BY <1>5, <1>6

-----------------------------------------------------------------------------
(* Saving, reading, crash and restart *)

\* What the store is after a file was read into it.
Read(f) ==
  /\ incidents' \in Lists /\ nextId' \in Nat \ {0} /\ f.nextId <= nextId'
  /\ Below(incidents', nextId') /\ Agree(incidents', incidents')
  /\ Agree(incidents', f.incidents)
  /\ restarts = 0 => /\ Derives(incidents', f.incidents)
                     /\ \A k \in DOMAIN incidents' : incidents'[k].quiet = 0

\* A function on 1..n is a sequence of n items.
LEMMA ListedUpTo ==
  ASSUME NEW T, NEW n \in Nat, NEW s \in [1..n -> T]
  PROVE  s \in Seq(T) /\ Len(s) = n /\ DOMAIN s = 1..n
OBVIOUS

\* What import_json does.
LEMMA ImportIs ==
  ASSUME IncInv, ~up, NEW f \in file, Import(f)
  PROVE  Read(f)
<1> DEFINE restored == [k \in DOMAIN f.incidents |-> [f.incidents[k] EXCEPT !.quiet = 0]]
           all == incidents \o restored
           m == Len(incidents)
           n == Len(f.incidents)
           S == {nextId, f.nextId} \cup {all[k].id + 1 : k \in DOMAIN all}
           past == m + n - MaxIncidents
<1>1. /\ incidents \in Seq(IncidentType) /\ f.incidents \in Seq(IncidentType)
      /\ m \in Nat /\ n \in Nat /\ MaxIncidents \in Nat \ {0}
      /\ DOMAIN incidents = 1..m /\ DOMAIN f.incidents = 1..n
      /\ m <= MaxIncidents /\ n <= MaxIncidents
      /\ nextId \in Nat \ {0} /\ f.nextId \in Nat \ {0}
  BY IncidentAssumption DEF IncInv, IncTyped, Lists, Files
<1>2. /\ incidents' = IF Len(all) > MaxIncidents
                      THEN SubSeq(all, Len(all) - MaxIncidents + 1, Len(all)) ELSE all
      /\ nextId' = Max(S)
  BY DEF Import
<1>3. /\ Below(incidents, nextId) /\ Below(f.incidents, f.nextId)
      /\ Agree(incidents, incidents) /\ Agree(f.incidents, f.incidents)
      /\ Agree(incidents, f.incidents)
      /\ restarts = 0 => incidents = <<>>
  BY DEF IncInv, IdsApart
<1>4. ASSUME NEW k \in DOMAIN f.incidents
      PROVE  /\ restored[k] \in IncidentType
             /\ restored[k].id = f.incidents[k].id /\ restored[k].thing = f.incidents[k].thing
             /\ restored[k].open = f.incidents[k].open /\ restored[k].quiet = 0
  <2>1. f.incidents[k] \in IncidentType /\ restored[k] = [f.incidents[k] EXCEPT !.quiet = 0]
    BY <1>1
  <2> HIDE DEF restored
  <2> QED BY ZenonT(40), <2>1, ItemAges
<1>5. restored \in Seq(IncidentType) /\ Len(restored) = n /\ DOMAIN restored = 1..n
  <2>1. restored \in [1..n -> IncidentType]
    BY <1>1, <1>4
  <2>2. n \in Nat
    BY <1>1
  <2> HIDE DEF restored, n
  <2> QED BY ONLY <2>1, <2>2, ListedUpTo
<1> HIDE DEF restored
<1>6. Derives(restored, f.incidents)
  BY <1>1, <1>4, <1>5, SamePlaces
<1>7. Below(restored, f.nextId) /\ Agree(restored, restored) /\ Agree(restored, f.incidents)
      /\ Agree(incidents, restored)
  BY <1>3, <1>6, DerivesKeeps
<1>8. /\ all \in Seq(IncidentType) /\ Len(all) = m + n /\ DOMAIN all = 1..(m + n)
      /\ \A k \in 1..m : all[k] = incidents[k]
      /\ \A k \in (m + 1)..(m + n) : all[k] = restored[k - m]
  <2> HIDE DEF n
  <2>1. /\ all \in Seq(IncidentType) /\ Len(all) = m + n
        /\ \A k \in 1..(m + n) : all[k] = IF k <= m THEN incidents[k] ELSE restored[k - m]
    BY SMTT(30), <1>1, <1>5
  <2> HIDE DEF all, m
  <2>2. DOMAIN all = 1..(m + n)
    BY <1>1, <2>1
  <2>3. ASSUME NEW k \in 1..m PROVE all[k] = incidents[k]
    BY <1>1, <2>1
  <2>4. ASSUME NEW k \in (m + 1)..(m + n) PROVE all[k] = restored[k - m]
    <3>1. k \in 1..(m + n) /\ ~(k <= m)
      BY <1>1
    <3> QED BY ONLY <2>1, <3>1
  <2> QED BY <2>1, <2>2, <2>3, <2>4
<1> HIDE DEF all, m, n
<1>9. \A k \in DOMAIN all : \/ k \in DOMAIN incidents /\ all[k] = incidents[k]
                            \/ \E i \in DOMAIN restored : all[k] = restored[i]
  <2> SUFFICES ASSUME NEW k \in 1..(m + n)
               PROVE  \/ k \in DOMAIN incidents /\ all[k] = incidents[k]
                      \/ \E i \in DOMAIN restored : all[k] = restored[i]
    BY <1>8
  <2>1. CASE k <= m
    BY <1>1, <1>8, <2>1
  <2>2. CASE ~(k <= m)
    <3>1. k \in (m + 1)..(m + n) /\ k - m \in DOMAIN restored
      BY <1>1, <1>5, <2>2
    <3> QED BY <1>8, <3>1
  <2> QED BY <2>1, <2>2
<1>10. nextId' \in Nat \ {0} /\ nextId <= nextId' /\ f.nextId <= nextId' /\ Below(all, nextId')
  <2>1. ASSUME NEW k \in DOMAIN all
        PROVE  all[k].id \in Nat /\ all[k].id + 1 <= nextId + f.nextId
    <3>1. all[k] \in IncidentType
      BY <1>8
    <3>2. all[k].id \in Nat
      BY <3>1, ItemIs
    <3>3. all[k].id < nextId \/ all[k].id < f.nextId
      BY <1>3, <1>7, <1>9 DEF Below
    <3> QED BY <1>1, <3>2, <3>3
  <2>2. /\ S \in SUBSET Nat /\ nextId \in S /\ f.nextId \in S
        /\ \A x \in S : x <= nextId + f.nextId
        /\ \A k \in DOMAIN all : all[k].id + 1 \in S
    BY <1>1, <2>1
  <2>3. nextId + f.nextId \in Nat
    BY <1>1
  <2> HIDE DEF S
  <2>4. nextId' \in S /\ \A x \in S : x <= nextId'
    BY <1>2, <2>2, <2>3, MaxIs
  <2>5. nextId' \in Nat /\ nextId <= nextId' /\ f.nextId <= nextId'
        /\ \A k \in DOMAIN all : all[k].id + 1 <= nextId'
    BY <2>2, <2>4
  <2>6. Below(all, nextId')
    BY <2>1, <2>5 DEF Below
  <2> QED BY <1>1, <2>5, <2>6
<1>11. Agree(all, all)
  <2> SUFFICES ASSUME NEW j \in DOMAIN all, NEW k \in DOMAIN all, all[j].id = all[k].id
               PROVE  all[j].thing = all[k].thing
    BY DEF Agree
  <2>1. CASE j \in DOMAIN incidents /\ all[j] = incidents[j]
    BY <1>3, <1>7, <1>9, <2>1 DEF Agree
  <2>2. CASE \E i \in DOMAIN restored : all[j] = restored[i]
    BY <1>7, <1>9, <2>2 DEF Agree
  <2> QED BY <1>9, <2>1, <2>2
<1>12. Agree(all, f.incidents)
  BY <1>3, <1>7, <1>9 DEF Agree
<1>13. incidents' \in Lists /\ Derives(incidents', all)
       /\ \A k \in DOMAIN incidents' : \E i \in DOMAIN all : incidents'[k] = all[i]
  <2>1. CASE ~(m + n > MaxIncidents)
    <3>1. incidents' = all /\ Len(all) <= MaxIncidents
      BY <1>1, <1>2, <1>8, <2>1
    <3>2. Derives(all, all)
      BY SamePlaces
    <3> QED BY <1>8, <3>1, <3>2 DEF Lists
  <2>2. CASE m + n > MaxIncidents
    <3> DEFINE g == [k \in DOMAIN incidents' |-> k + past]
    <3>1. incidents' = SubSeq(all, past + 1, m + n) /\ past \in Nat /\ past + MaxIncidents = m + n
      BY <1>1, <1>2, <1>8, <2>2
    <3> HIDE DEF past
    <3>2. /\ incidents' \in Seq(IncidentType) /\ Len(incidents') = MaxIncidents
          /\ DOMAIN incidents' = 1..MaxIncidents
          /\ \A k \in 1..MaxIncidents : incidents'[k] = all[k + past]
      <4>1. past + 1 \in 1..(Len(all) + 1) /\ m + n \in 0..Len(all)
        BY <1>1, <1>8, <3>1
      <4>2. (m + n) - (past + 1) + 1 = MaxIncidents
        BY <1>1, <3>1
      <4>3. /\ incidents' \in Seq(IncidentType) /\ Len(incidents') = MaxIncidents
            /\ \A k \in 1..MaxIncidents : incidents'[k] = all[(past + 1) + k - 1]
        BY <1>1, <1>8, <3>1, <4>1, <4>2
      <4>4. \A k \in 1..MaxIncidents : (past + 1) + k - 1 = k + past
        BY <1>1, <3>1
      <4> QED BY <1>1, <4>3, <4>4
    <3>3. \A k \in DOMAIN incidents' : k + past \in DOMAIN all
      BY <1>1, <1>8, <3>1, <3>2
    <3>4. \A j, k \in DOMAIN incidents' : j + past = k + past => j = k
      <4>1. \A k \in DOMAIN incidents' : k \in Nat
        BY ONLY <3>2
      <4> QED BY ONLY <3>1, <4>1
    <3>5. DerivesAt(incidents', all, g)
      BY <3>2, <3>3, <3>4 DEF DerivesAt
    <3>6. Derives(incidents', all)
      BY <3>5 DEF Derives
    <3>7. \A k \in DOMAIN incidents' : \E i \in DOMAIN all : incidents'[k] = all[i]
      BY <3>2, <3>3
    <3>8. incidents' \in Lists
      BY <1>1, <3>2 DEF Lists
    <3> QED BY <3>6, <3>7, <3>8
  <2> QED BY <2>1, <2>2
<1>14. Below(incidents', nextId') /\ Agree(incidents', incidents') /\ Agree(incidents', f.incidents)
  <2>1. Below(incidents', nextId') /\ Agree(incidents', all) /\ Agree(incidents', f.incidents)
    BY <1>10, <1>11, <1>12, <1>13, DerivesKeeps
  <2>2. Agree(incidents', incidents')
    BY <1>13, <2>1, DerivesKeeps
  <2> QED BY <2>1, <2>2
<1>15. ASSUME restarts = 0
       PROVE  /\ Derives(incidents', f.incidents)
              /\ \A k \in DOMAIN incidents' : incidents'[k].quiet = 0
  <2>1. incidents = <<>> /\ m = 0
    BY <1>3, <1>15 DEF m
  <2>2. incidents' = all /\ DOMAIN all = 1..n /\ \A k \in 1..n : all[k] = restored[k]
    BY <1>1, <1>2, <1>8, <2>1
  <2>3. \A k \in 1..n : /\ all[k].id = f.incidents[k].id /\ all[k].thing = f.incidents[k].thing
                        /\ all[k].open = f.incidents[k].open /\ all[k].quiet = 0
    BY <1>1, <1>4, <2>2
  <2>4. Derives(all, f.incidents)
    BY <1>1, <2>2, <2>3, SamePlaces
  <2> QED BY <2>2, <2>3, <2>4
<1> QED BY <1>10, <1>13, <1>14, <1>15 DEF Read

\* Starting and reading the file keep the invariant.
LEMMA StartKeeps == IncInv /\ Start => IncInv'
<1> SUFFICES ASSUME IncInv, Start PROVE IncInv'
  OBVIOUS
<1>1. /\ ~up /\ up' = TRUE /\ quietAir' = NoQuiet
      /\ UNCHANGED <<file, opened, saves, crashes, restarts>>
  BY DEF Start
<1>2. quietAir' \in [Thing -> 0..CloseQuiet] /\ \A t \in Thing : quietAir'[t] = 0
  BY <1>1, IncidentAssumption DEF NoQuiet
<1>3. CASE file = {}
  <2>1. UNCHANGED <<incidents, nextId>>
    BY <1>3 DEF Start
  <2>2. restarts = 0 => incidents = <<>>
    BY <1>1 DEF IncInv, IdsApart
  <2>3. restarts = 0 => DOMAIN incidents = {}
    BY <2>2
  <2>4. ClocksTrue'
    BY ONLY <1>1, <2>1, <2>3 DEF ClocksTrue
  <2> QED BY <1>1, <1>2, <1>3, <2>1, <2>4 DEF IncInv, IncTyped, IdsApart, Once
<1>4. ASSUME NEW f \in file, Import(f) PROVE IncInv'
  <2>1. Read(f)
    BY <1>1, <1>4, ImportIs
  <2>2. /\ incidents' \in Lists /\ nextId' \in Nat \ {0} /\ f.nextId <= nextId'
        /\ Below(incidents', nextId') /\ Agree(incidents', incidents')
        /\ Agree(incidents', f.incidents)
        /\ restarts = 0 => /\ Derives(incidents', f.incidents)
                           /\ \A k \in DOMAIN incidents' : incidents'[k].quiet = 0
    BY ONLY <2>1 DEF Read
  <2>3. \A g \in file : g = f
    BY DEF IncInv, IncTyped
  <2>4. IncTyped'
    BY <1>1, <1>2, <2>2 DEF IncInv, IncTyped
  <2>5. IdsApart'
    BY <1>1, <2>2, <2>3 DEF IncInv, IdsApart
  <2>6. restarts = 0 => OneId(incidents') /\ OneOpen(incidents')
    BY <1>4, <2>2, DerivesKeeps DEF IncInv, Once
  <2>7. Once'
    BY <1>1, <2>6 DEF IncInv, Once
  <2>8. ClocksTrue'
    <3> SUFFICES ASSUME restarts = 0, NEW k \in DOMAIN incidents'
                 PROVE  /\ incidents'[k].quiet <= quietAir'[incidents'[k].thing]
                        /\ incidents'[k].quiet < CloseQuiet
      BY <1>1 DEF ClocksTrue
    <3>1. incidents'[k].quiet = 0 /\ incidents'[k] \in IncidentType
      BY <2>2 DEF Lists
    <3>2. quietAir'[incidents'[k].thing] = 0
      BY <1>2, <3>1, ItemIs
    <3> QED BY <3>1, <3>2, IncidentAssumption
  <2> QED BY <2>4, <2>5, <2>7, <2>8 DEF IncInv
<1> QED BY <1>3, <1>4 DEF Start

\* A save keeps the invariant, and so does a stop with or without one.
LEMMA SaveKeeps ==
  ASSUME IncInv, up, file' = {Export} \/ file' = file, UNCHANGED <<incidents, nextId, quietAir>>,
         up' \in BOOLEAN, opened' \in Nat, saves' \in Nat, crashes' \in Nat, restarts' \in Nat,
         \/ restarts' = restarts /\ up'
         \/ restarts' # 0
  PROVE  IncInv'
<1>1. Export \in Files /\ Export.incidents = incidents /\ Export.nextId = nextId
  BY DEF IncInv, IncTyped, Export, Files
<1> HIDE DEF Export
<1>2. nextId \in Nat
  BY DEF IncInv, IncTyped
<1>3. CASE file' = {Export}
  <2>1. IncTyped'
    BY <1>1, <1>3 DEF IncInv, IncTyped
  <2>2. IdsApart'
    BY <1>1, <1>2, <1>3 DEF IncInv, IdsApart
  <2>3. Once'
    BY <1>1, <1>3 DEF IncInv, Once
  <2>4. ClocksTrue'
    BY DEF IncInv, ClocksTrue
  <2> QED BY <2>1, <2>2, <2>3, <2>4 DEF IncInv
<1>4. CASE file' = file
  <2>1. IncTyped'
    BY <1>4 DEF IncInv, IncTyped
  <2>2. IdsApart'
    BY <1>4 DEF IncInv, IdsApart
  <2>3. Once'
    BY <1>4 DEF IncInv, Once
  <2>4. ClocksTrue'
    BY DEF IncInv, ClocksTrue
  <2> QED BY <2>1, <2>2, <2>3, <2>4 DEF IncInv
<1> QED BY <1>3, <1>4

\* A crash leaves the file.
LEMMA CrashKeeps == IncInv /\ Crash => IncInv'
<1> SUFFICES ASSUME IncInv, Crash PROVE IncInv'
  OBVIOUS
<1>1. /\ incidents' = <<>> /\ nextId' = 1 /\ up' = FALSE /\ crashes' = crashes + 1
      /\ UNCHANGED <<file, quietAir, opened, saves, restarts>>
  BY DEF Crash
<1>2. incidents' \in Lists /\ DOMAIN incidents' = {}
  BY <1>1, IncidentAssumption DEF Lists
<1>3. IncTyped'
  <2>1. nextId' \in Nat \ {0} /\ up' \in BOOLEAN
    <3>1. nextId' \in Nat \ {0}
      BY <1>1
    <3>2. up' \in BOOLEAN
      BY ONLY <1>1, Zenon
    <3> QED BY <3>1, <3>2
  <2>2. crashes' \in Nat
    BY <1>1 DEF IncInv, IncTyped
  <2>3. /\ file' \subseteq Files /\ \A f, g \in file' : f = g
        /\ quietAir' \in [Thing -> 0..CloseQuiet]
        /\ opened' \in Nat /\ saves' \in Nat /\ restarts' \in Nat
    BY <1>1 DEF IncInv, IncTyped
  <2> QED BY ONLY <1>2, <2>1, <2>2, <2>3 DEF IncTyped
<1>4. IdsApart'
  BY <1>1, <1>2 DEF IncInv, IdsApart, Below, Agree
<1>5. Once'
  BY <1>1, <1>2 DEF IncInv, Once, OneId, OneOpen
<1>6. ClocksTrue'
  BY <1>2 DEF ClocksTrue
<1> QED BY <1>3, <1>4, <1>5, <1>6 DEF IncInv

\* Init and every step.
LEMMA IncInvInit == Init => IncInv
<1> SUFFICES ASSUME Init PROVE IncInv
  OBVIOUS
<1>1. /\ incidents = <<>> /\ nextId = 1 /\ file = {} /\ up = FALSE /\ quietAir = NoQuiet
      /\ opened = 0 /\ saves = 0 /\ crashes = 0 /\ restarts = 0
  BY DEF Init
<1>2. incidents \in Lists /\ DOMAIN incidents = {}
  BY <1>1, IncidentAssumption DEF Lists
<1>3. quietAir \in [Thing -> 0..CloseQuiet]
  BY <1>1, IncidentAssumption DEF NoQuiet
<1>4. IncTyped
  <2>1. /\ nextId \in Nat \ {0} /\ up \in BOOLEAN
        /\ opened \in Nat /\ saves \in Nat /\ crashes \in Nat /\ restarts \in Nat
    <3>1. /\ nextId \in Nat \ {0}
          /\ opened \in Nat /\ saves \in Nat /\ crashes \in Nat /\ restarts \in Nat
      BY <1>1
    <3>2. up \in BOOLEAN
      BY ONLY <1>1, Zenon
    <3> QED BY <3>1, <3>2
  <2>2. file \subseteq Files /\ \A f, g \in file : f = g
    BY <1>1
  <2> QED BY ONLY <1>2, <1>3, <2>1, <2>2 DEF IncTyped
<1>5. IdsApart /\ Once /\ ClocksTrue
  BY <1>1, <1>2 DEF IdsApart, Below, Agree, Once, OneId, OneOpen, ClocksTrue
<1> QED BY <1>4, <1>5 DEF IncInv

\* Every step keeps the invariant.
LEMMA IncInvStep == IncInv /\ [Next]_vars => IncInv'
<1> SUFFICES ASSUME IncInv, [Next]_vars PROVE IncInv'
  OBVIOUS
<1>1. CASE Capturing
  <2>1. PICK c \in Capture, role \in [Thing -> Roles], usable \in BOOLEAN :
          IngestCapture(c, role, usable)
    BY <1>1 DEF Capturing
  <2>2. PICK r : Captured(c, role, usable, r)
    BY <2>1, CaptureIs
  <2> QED BY <2>2, CaptureKeeps
<1>2. CASE Start
  BY <1>2, StartKeeps
<1>3. CASE SaveState
  <2>1. /\ up /\ up' = up /\ file' = {Export} /\ saves' = saves + 1 /\ restarts' = restarts
        /\ UNCHANGED <<incidents, nextId, quietAir>> /\ UNCHANGED <<opened, crashes>>
    BY <1>3 DEF SaveState
  <2>2. /\ up' \in BOOLEAN /\ opened' \in Nat /\ saves' \in Nat /\ crashes' \in Nat
        /\ restarts' \in Nat
    BY <2>1 DEF IncInv, IncTyped
  <2> QED BY <2>1, <2>2, SaveKeeps
<1>4. CASE Crash
  BY <1>4, CrashKeeps
<1>5. ASSUME NEW ok \in BOOLEAN, Stop(ok) PROVE IncInv'
  <2>1. /\ up /\ up' = FALSE /\ (file' = {Export} \/ file' = file) /\ restarts' = restarts + 1
        /\ UNCHANGED <<incidents, nextId, quietAir>> /\ UNCHANGED <<opened, saves, crashes>>
    BY <1>5 DEF Stop
  <2>2. /\ up' \in BOOLEAN /\ opened' \in Nat /\ saves' \in Nat /\ crashes' \in Nat
        /\ restarts' \in Nat /\ restarts' # 0
    <3>1. /\ restarts \in Nat /\ opened \in Nat /\ saves \in Nat /\ crashes \in Nat
      BY DEF IncInv, IncTyped
    <3>2. restarts + 1 \in Nat /\ restarts + 1 # 0
      BY <3>1
    <3>3. up' \in BOOLEAN
      BY ONLY <2>1, Zenon
    <3> QED BY ONLY <2>1, <3>1, <3>2, <3>3
  <2> QED BY <2>1, <2>2, SaveKeeps
<1>6. CASE UNCHANGED vars
  BY <1>6 DEF vars, IncInv, IncTyped, IdsApart, Once, ClocksTrue
<1> QED BY <1>1, <1>2, <1>3, <1>4, <1>5, <1>6 DEF Next

\* A step other than a capture ends no incident while a monitor runs.
LEMMA StepEnds == IncInv /\ [Next]_vars => [ClosedByQuiet /\ ForgottenForRoom]_vars
<1> SUFFICES ASSUME IncInv, Next PROVE ClosedByQuiet /\ ForgottenForRoom
  OBVIOUS
<1>1. CASE Capturing
  <2>1. PICK c \in Capture, role \in [Thing -> Roles], usable \in BOOLEAN :
          IngestCapture(c, role, usable)
    BY <1>1 DEF Capturing
  <2>2. PICK r : Captured(c, role, usable, r)
    BY <2>1, CaptureIs
  <2> QED BY <2>2, CaptureEnds
<1>2. CASE Start
  <2>1. ~up /\ (restarts = 0 => incidents = <<>>)
    BY <1>2 DEF Start, IncInv, IdsApart
  <2>2. restarts = 0 => DOMAIN incidents = {}
    BY <2>1
  <2> QED BY <2>1, <2>2 DEF ClosedByQuiet, ForgottenForRoom
<1>3. ASSUME UNCHANGED incidents PROVE ClosedByQuiet /\ ForgottenForRoom
  <2>1. restarts = 0 => \A j, k \in DOMAIN incidents : incidents[j].id = incidents[k].id => j = k
    BY DEF IncInv, Once, OneId
  <2>2. ClosedByQuiet
    BY ONLY <1>3, <2>1 DEF ClosedByQuiet
  <2>3. ForgottenForRoom
    BY ONLY <1>3 DEF ForgottenForRoom
  <2> QED BY <2>2, <2>3
<1>4. CASE Crash
  <2>1. incidents' = <<>> /\ ~up'
    BY <1>4 DEF Crash
  <2>2. DOMAIN incidents' = {}
    BY <2>1
  <2> QED BY <2>1, <2>2 DEF ClosedByQuiet, ForgottenForRoom
<1> QED BY <1>1, <1>2, <1>3, <1>4 DEF Next, SaveState, Stop

\* What the operator sees as one incident is one, through captures, saves, crashes and
\* starts (src/security/wifi_security_incidents.cpp: observe, import_json).
THEOREM IncidentsAreOneHolds == Spec => []IncidentsAreOne
<1>1. IncInv => IncidentsAreOne
  BY DEF IncInv, IdsApart, Once, OneId, OneOpen, Agree, IncidentsAreOne, OneOpenPerThing,
         IdsNameOneIncident
<1> QED BY <1>1, IncInvInit, IncInvStep, PTL DEF Spec

\* An open incident is closed only by quiet that was heard, and forgotten only for room and
\* after the closed ones (note_analysed, make room in observe, SecurityState::ingest).
THEOREM OpenIncidentsEndHolds == Spec => OpenIncidentsEnd
<1> QED BY IncInvInit, IncInvStep, StepEnds, PTL DEF Spec, OpenIncidentsEnd

-----------------------------------------------------------------------------
(* The replay rules *)

WrFrames == [kind : Kinds \cup {"beacon", "reset", "none"}, counter : Nat, epoch : Nat,
             request : BOOLEAN, stage : Nat, retry : BOOLEAN, time : Nat, stamp : Nat \X Nat]

\* What the property says of one alarm.
RealAlarm(a) ==
  /\ a.old.time < a.newer.time /\ a.newer.time < a.again.time
  /\ a.again.time - a.old.time \in WrMinDelay..WrRetention
  /\ a.old.stamp[1] = a.again.stamp[1] /\ a.newer.stamp[1] = a.again.stamp[1]
  /\ a.again.kind \in {"beacon", "eapol"} => a.newer.counter > a.again.counter
  /\ a.again.kind # "beacon" => a.old.stamp = a.again.stamp /\ SentInOrder(a)
  /\ a.again.kind = "eapol" => a.newer.epoch = a.again.epoch

RealAlarms ==
  {a \in [old : WrFrames, newer : WrFrames, again : WrFrames, since : Seq(WrFrames)] : RealAlarm(a)}

\* Frames in the order of their time, all before t.
InOrder(frames, t) ==
  /\ frames \in Seq(WrFrames)
  /\ \A i \in 1..Len(frames) : frames[i].time < t
  /\ \A i, j \in 1..Len(frames) : i < j => frames[i].time < frames[j].time

\* Beacons of the stretch x.
BeaconsOk(h, x, t) ==
  /\ h \in [frames : Seq(WrFrames), newest : WrFrames]
  /\ InOrder(h.frames, t)
  /\ \A i \in 1..Len(h.frames) : h.frames[i].stamp[1] = x
  /\ h.newest # NoFrame => h.newest.stamp[1] = x

\* The assumption, where the provers need it.
LEMMA WrLimits ==
  /\ WrMinDelay \in Nat \ {0} /\ WrRetention \in Nat \ {0} /\ WrMaxGap \in Nat \ {0}
  /\ WrHistory \in Nat \ {0} /\ WrProfiles \in Nat \ {0}
  /\ WrRetention >= WrMinDelay
BY WifiReplayAssumption DEF WifiReplayAssumption

\* No frame is one.
LEMMA NoFrameTyped == NoFrame \in WrFrames
BY DEF NoFrame, WrFrames, Kinds

\* What a frame has.
LEMMA FrameTyped ==
  ASSUME NEW f \in WrFrames
  PROVE  f.counter \in Nat /\ f.epoch \in Nat /\ f.time \in Nat /\ f.stage \in Nat
         /\ f.stamp \in Nat \X Nat /\ f.request \in BOOLEAN /\ f.retry \in BOOLEAN
BY DEF WrFrames

\* The least of some numbers is one of them.
LEMMA LeastIsOne ==
  ASSUME NEW S, S \subseteq Nat, S # {}
  PROVE  Min(S) \in S
<1> DEFINE R == OpToRel(<, Nat)
<1>1. IsWellFoundedOn(R, Nat)
  BY NatLessThanWellFounded
<1>2. R = {p \in Nat \X Nat : p[1] < p[2]}
  BY DEF OpToRel
<1> HIDE DEF R
<1>3. PICK m \in S : \A k \in S : <<k, m>> \notin R
  BY ONLY <1>1, WFMin, S \subseteq Nat, S # {}
<1>4. ASSUME NEW k \in S PROVE m =< k
  <2>1. k \in Nat /\ m \in Nat /\ <<k, m>> \notin R
    BY <1>3
  <2> QED BY <1>2, <2>1
<1>5. \E x \in S : \A y \in S : x =< y
  BY <1>3, <1>4
<1> QED BY ONLY <1>5 DEF Min

\* The rest of a sequence.
LEMMA RestOf ==
  ASSUME NEW S, NEW s \in Seq(S), NEW m \in 1..(Len(s) + 1)
  PROVE  /\ SubSeq(s, m, Len(s)) \in Seq(S)
         /\ Len(SubSeq(s, m, Len(s))) = Len(s) - m + 1
         /\ \A i \in 1..(Len(s) - m + 1) : SubSeq(s, m, Len(s))[i] = s[m + i - 1]
OBVIOUS

\* popping the front leaves a rest, none of it too old.
LEMMA RecentIs ==
  ASSUME NEW S, NEW history \in Seq(S), NEW t, NEW frames, InOrder(frames, t),
         Len(frames) = Len(history), NEW now \in Nat
  PROVE  \E m \in 1..(Len(history) + 1) :
           /\ Recent(history, frames, now) = SubSeq(history, m, Len(history))
           /\ \A i \in m..Len(history) : now - frames[i].time <= WrRetention
<1> DEFINE n == Len(history)
           young == {i \in DOMAIN frames : now - frames[i].time <= WrRetention}
           m == Min(young \cup {n + 1})
<1>1. n \in Nat /\ DOMAIN frames = 1..n /\ \A i \in 1..n : frames[i].time \in Nat
  <2>1. frames \in Seq(WrFrames) /\ n \in Nat /\ Len(frames) = n
    BY DEF InOrder
  <2>2. DOMAIN frames = 1..n /\ \A i \in 1..n : frames[i] \in WrFrames
    BY ONLY <2>1
  <2> QED BY <2>1, <2>2, FrameTyped
<1>2. \A i \in 1..n, j \in 1..n : i < j => frames[i].time < frames[j].time
  BY DEF InOrder
<1>3. young \cup {n + 1} \subseteq Nat /\ young \cup {n + 1} # {}
  BY <1>1
<1>4. m \in young \cup {n + 1}
  BY ONLY <1>3, LeastIsOne
<1>5. young \subseteq 1..n /\ \A i \in young : now - frames[i].time <= WrRetention
  BY <1>1
<1>6. Recent(history, frames, now) = SubSeq(history, m, n)
  BY DEF Recent
<1> HIDE DEF m, young, n
<1>7. m \in 1..(n + 1)
  BY <1>1, <1>4, <1>5
<1>8. ASSUME NEW i \in m..n PROVE now - frames[i].time <= WrRetention
  <2>1. m \in young /\ m \in 1..n /\ i \in 1..n
    BY <1>1, <1>4, <1>5, <1>7
  <2>2. now - frames[m].time <= WrRetention
    BY <1>5, <2>1
  <2>3. CASE i = m
    BY <2>2, <2>3
  <2>4. CASE i # m
    <3>1. m < i
      BY <1>1, <2>1, <2>4
    <3>2. frames[m].time < frames[i].time /\ frames[m].time \in Nat /\ frames[i].time \in Nat
      BY <1>1, <1>2, <2>1, <3>1
    <3> QED BY SMTT(30), <2>2, <3>2, WrLimits
  <2> QED BY <2>3, <2>4
<1> QED BY <1>6, <1>7, <1>8 DEF n

\* A rest of frames in order is in order.
LEMMA RestInOrder ==
  ASSUME NEW t, NEW frames, InOrder(frames, t), NEW m \in 1..(Len(frames) + 1)
  PROVE  InOrder(SubSeq(frames, m, Len(frames)), t)
<1> DEFINE n == Len(frames)
           g == SubSeq(frames, m, n)
<1>1. frames \in Seq(WrFrames) /\ n \in Nat
  BY DEF InOrder
<1>2. /\ g \in Seq(WrFrames) /\ Len(g) = n - m + 1
      /\ \A i \in 1..(n - m + 1) : g[i] = frames[m + i - 1]
  BY <1>1, RestOf
<1>3. /\ \A i \in 1..n : frames[i].time < t
      /\ \A i, j \in 1..n : i < j => frames[i].time < frames[j].time
  BY DEF InOrder
<1>4. \A i \in 1..(n - m + 1) : m + i - 1 \in 1..n
  BY <1>1
<1>5. \A i, j \in 1..(n - m + 1) : i < j => m + i - 1 < m + j - 1
  BY <1>1
<1> HIDE DEF g, n
<1>6. \A i \in 1..(n - m + 1) : g[i].time < t
  BY ONLY <1>2, <1>3, <1>4
<1>7. \A i, j \in 1..(n - m + 1) : i < j => g[i].time < g[j].time
  <2> SUFFICES ASSUME NEW i \in 1..(n - m + 1), NEW j \in 1..(n - m + 1), i < j
               PROVE  g[i].time < g[j].time
    OBVIOUS
  <2>1. m + i - 1 \in 1..n /\ m + j - 1 \in 1..n /\ m + i - 1 < m + j - 1
    BY <1>4, <1>5
  <2>2. frames[m + i - 1].time < frames[m + j - 1].time
    BY ONLY <1>3, <2>1
  <2> QED BY <1>2, <2>2
<1>8. InOrder(g, t)
  BY ONLY <1>2, <1>6, <1>7 DEF InOrder
<1> QED BY <1>8 DEF g, n

\* A later frame goes at the end.
LEMMA AppendInOrder ==
  ASSUME NEW t, NEW frames, InOrder(frames, t), NEW b \in WrFrames, t <= b.time, t \in Nat
  PROVE  InOrder(Append(frames, b), b.time + 1)
<1> DEFINE n == Len(frames)
           g == Append(frames, b)
<1>1. /\ frames \in Seq(WrFrames) /\ n \in Nat /\ b.time \in Nat
      /\ \A i \in 1..n : frames[i] \in WrFrames
  BY FrameTyped DEF InOrder
<1>2. /\ g \in Seq(WrFrames) /\ Len(g) = n + 1 /\ g[n + 1] = b
      /\ \A i \in 1..n : g[i] = frames[i]
  BY <1>1
<1>3. /\ \A i \in 1..n : frames[i].time < t /\ frames[i].time \in Nat
      /\ \A i, j \in 1..n : i < j => frames[i].time < frames[j].time
  BY <1>1, FrameTyped DEF InOrder
<1>4. \A i \in 1..(n + 1) : i \in 1..n \/ i = n + 1
  BY <1>1
<1> HIDE DEF g, n
<1>5. \A i \in 1..(n + 1) : g[i].time < b.time + 1
  BY <1>1, <1>2, <1>3, <1>4
<1>6. ASSUME NEW i \in 1..(n + 1), NEW j \in 1..(n + 1), i < j PROVE g[i].time < g[j].time
  <2>1. i \in 1..n
    BY <1>1, <1>6
  <2>2. CASE j \in 1..n
    BY ONLY <1>2, <1>3, <1>6, <2>1, <2>2
  <2>3. CASE j = n + 1
    <3>1. g[i] = frames[i] /\ g[j] = b
      BY ONLY <1>2, <2>1, <2>3
    <3> QED BY <1>1, <1>3, <2>1, <3>1
  <2> QED BY <1>4, <2>2, <2>3
<1>7. InOrder(g, b.time + 1)
  BY ONLY <1>2, <1>5, <1>6 DEF InOrder
<1> QED BY <1>7 DEF g

\* Frames in order before t are so before a later time.
LEMMA LaterInOrder ==
  ASSUME NEW t \in Nat, NEW u \in Nat, t <= u, NEW frames, InOrder(frames, t)
  PROVE  InOrder(frames, u)
<1>1. frames \in Seq(WrFrames) /\ \A i \in 1..Len(frames) : frames[i] \in WrFrames
  BY DEF InOrder
<1>2. \A i \in 1..Len(frames) : frames[i].time \in Nat
  BY <1>1, FrameTyped
<1>3. \A i \in 1..Len(frames) : frames[i].time < t
  BY DEF InOrder
<1>4. \A i \in 1..Len(frames) : frames[i].time < u
  BY ONLY <1>2, <1>3, t \in Nat, u \in Nat, t <= u
<1>5. \A i, j \in 1..Len(frames) : i < j => frames[i].time < frames[j].time
  BY DEF InOrder
<1> QED BY ONLY <1>1, <1>4, <1>5 DEF InOrder

\* A frame found to have the bytes of v is one of the frames.
LEMMA FirstSameIs ==
  ASSUME NEW frames \in Seq(WrFrames), NEW v
  PROVE  \/ FirstSame(frames, v) = 0
         \/ /\ FirstSame(frames, v) \in 1..Len(frames)
            /\ SameBytes(frames[FirstSame(frames, v)], v)
<1> DEFINE same == {i \in DOMAIN frames : SameBytes(frames[i], v)}
<1>1. same \subseteq 1..Len(frames) /\ same \subseteq Nat
  OBVIOUS
<1>2. FirstSame(frames, v) = IF same = {} THEN 0 ELSE Min(same)
  BY DEF FirstSame
<1>3. \A i \in same : SameBytes(frames[i], v)
  OBVIOUS
<1> HIDE DEF same
<1>4. CASE same = {}
  BY ONLY <1>2, <1>4
<1>5. CASE same # {}
  <2>1. Min(same) \in same
    BY ONLY <1>1, <1>5, LeastIsOne
  <2>2. FirstSame(frames, v) = Min(same)
    BY ONLY <1>2, <1>5
  <2> QED BY ONLY <1>1, <1>3, <2>1, <2>2
<1> QED BY <1>4, <1>5

-----------------------------------------------------------------------------
(* The beacons *)

\* The last of the frames.
LEMMA LastOfInOrder ==
  ASSUME NEW t, NEW frames, InOrder(frames, t), NEW n \in Nat \ {0}
  PROVE  /\ InOrder(LastOf(frames, n), t)
         /\ \A i \in 1..Len(LastOf(frames, n)) :
              \E j \in 1..Len(frames) : LastOf(frames, n)[i] = frames[j]
<1>1. frames \in Seq(WrFrames) /\ Len(frames) \in Nat
  BY DEF InOrder
<1>2. CASE Len(frames) > n
  <2> DEFINE m == Len(frames) - n + 1
             g == SubSeq(frames, m, Len(frames))
  <2>1. m \in 1..(Len(frames) + 1) /\ LastOf(frames, n) = g
    BY <1>1, <1>2 DEF LastOf
  <2>2. InOrder(g, t)
    BY <2>1, RestInOrder
  <2>3. /\ Len(g) = Len(frames) - m + 1
        /\ \A i \in 1..(Len(frames) - m + 1) : g[i] = frames[m + i - 1]
    BY <1>1, <2>1, RestOf
  <2>4. \A i \in 1..(Len(frames) - m + 1) : m + i - 1 \in 1..Len(frames)
    BY <1>1, <2>1
  <2> HIDE DEF g, m
  <2> QED BY ONLY <2>1, <2>2, <2>3, <2>4
<1>3. CASE ~(Len(frames) > n)
  BY <1>3 DEF LastOf
<1> QED BY <1>2, <1>3

\* No beacons are in order.
LEMMA NoBeaconsOk ==
  ASSUME NEW x, NEW t
  PROVE  BeaconsOk(NoBeacons, x, t)
<1>1. <<>> \in Seq(WrFrames) /\ Len(<<>>) = 0
  OBVIOUS
<1>2. NoBeacons.frames = <<>> /\ NoBeacons.newest = NoFrame
  BY DEF NoBeacons
<1>3. NoBeacons \in [frames : Seq(WrFrames), newest : WrFrames]
  BY <1>1, NoFrameTyped DEF NoBeacons
<1>4. InOrder(<<>>, t)
  BY <1>1 DEF InOrder
<1> QED BY <1>1, <1>2, <1>3, <1>4 DEF BeaconsOk

\* The history when a beacon comes: in order, and nothing too old.
LEMMA BeforeOk ==
  ASSUME NEW x, NEW t \in Nat, NEW h, BeaconsOk(h, x, t), NEW b \in WrFrames
  PROVE  /\ BeaconsOk(BeaconsBefore(h, b), x, t)
         /\ \A i \in 1..Len(BeaconsBefore(h, b).frames) :
              b.time - BeaconsBefore(h, b).frames[i].time <= WrRetention
<1> DEFINE g == BeaconsBefore(h, b)
           n == Len(h.frames)
<1>1. /\ h.frames \in Seq(WrFrames) /\ h.newest \in WrFrames /\ InOrder(h.frames, t)
      /\ n \in Nat /\ \A i \in 1..n : h.frames[i].stamp[1] = x
      /\ h.newest # NoFrame => h.newest.stamp[1] = x
  BY DEF BeaconsOk
<1>2. CASE h.newest # NoFrame /\ b.time - h.newest.time > WrRetention
  <2>1. g = NoBeacons
    BY <1>2 DEF BeaconsBefore
  <2>2. Len(NoBeacons.frames) = 0
    BY DEF NoBeacons
  <2> QED BY <2>1, <2>2, NoBeaconsOk
<1>3. CASE ~(h.newest # NoFrame /\ b.time - h.newest.time > WrRetention)
  <2> DEFINE r == Recent(h.frames, h.frames, b.time)
  <2>1. g = [newest |-> h.newest, frames |-> r]
    BY <1>3 DEF BeaconsBefore
  <2>2. b.time \in Nat
    BY FrameTyped
  <2>3. PICK m \in 1..(n + 1) :
          /\ r = SubSeq(h.frames, m, n)
          /\ \A i \in m..n : b.time - h.frames[i].time <= WrRetention
    BY <1>1, <2>2, RecentIs
  <2>4. InOrder(r, t)
    BY <1>1, <2>3, RestInOrder
  <2>5. /\ r \in Seq(WrFrames) /\ Len(r) = n - m + 1
        /\ \A i \in 1..(n - m + 1) : r[i] = h.frames[m + i - 1]
    BY <1>1, <2>3, RestOf
  <2>6. \A i \in 1..(n - m + 1) : m + i - 1 \in 1..n /\ m + i - 1 \in m..n
    BY <1>1, <2>3
  <2> HIDE DEF r, g, n
  <2>7. \A i \in 1..Len(r) : r[i].stamp[1] = x /\ b.time - r[i].time <= WrRetention
    BY ONLY <1>1, <2>3, <2>5, <2>6
  <2>8. g.frames = r /\ g.newest = h.newest
    BY <2>1
  <2>9. g \in [frames : Seq(WrFrames), newest : WrFrames]
    BY <1>1, <2>1, <2>5
  <2>10. BeaconsOk(g, x, t)
    BY ONLY <1>1, <2>4, <2>7, <2>8, <2>9 DEF BeaconsOk
  <2> QED BY <2>7, <2>8, <2>10 DEF g
<1> QED BY <1>2, <1>3

\* A beacon reported is a repetition across no break.
LEMMA BeaconAlarmsReal ==
  ASSUME NEW x, NEW t \in Nat, NEW h, BeaconsOk(h, x, t), NEW b \in WrFrames,
         b.stamp[1] = x, b.kind = "beacon",
         \A i \in 1..Len(h.frames) : b.time - h.frames[i].time <= WrRetention,
         NEW a \in BeaconAlarms(h, b)
  PROVE  a \in RealAlarms
<1> DEFINE i == FirstSame(h.frames, b)
<1>1. /\ h.frames \in Seq(WrFrames) /\ h.newest \in WrFrames
      /\ \A j \in 1..Len(h.frames) : h.frames[j].stamp[1] = x
      /\ h.newest # NoFrame => h.newest.stamp[1] = x
  BY DEF BeaconsOk
<1>2. /\ i > 0 /\ h.newest # NoFrame
      /\ h.newest.counter > b.counter
      /\ h.newest.time > h.frames[i].time /\ b.time > h.newest.time
      /\ b.time - h.frames[i].time >= WrMinDelay
      /\ a = [old |-> h.frames[i], newer |-> h.newest, again |-> b, since |-> <<>>]
  BY DEF BeaconAlarms
<1>3. i \in 1..Len(h.frames)
  BY <1>1, <1>2, FirstSameIs
<1>4. h.frames[i] \in WrFrames
  BY <1>1, <1>3
<1>5. a.old = h.frames[i] /\ a.newer = h.newest /\ a.again = b
  BY <1>2
<1>6. b.time \in Nat /\ h.frames[i].time \in Nat /\ h.newest.time \in Nat
  BY <1>1, <1>4, FrameTyped
<1> HIDE DEF i
<1>7. b.time - h.frames[i].time \in WrMinDelay..WrRetention
  BY <1>2, <1>3, <1>6, WrLimits
<1>8. h.frames[i].stamp[1] = x /\ h.newest.stamp[1] = x
  BY <1>1, <1>2, <1>3
<1>9. h.frames[i].time < h.newest.time /\ h.newest.time < b.time
  BY <1>2, <1>6
<1>10. h.newest.counter > b.counter
  BY <1>2
<1>11. b.kind # "eapol"
  OBVIOUS
<1>12. RealAlarm(a)
  BY ONLY <1>5, <1>7, <1>8, <1>9, <1>10, <1>11, b.kind = "beacon", b.stamp[1] = x DEF RealAlarm
<1>13. a \in [old : WrFrames, newer : WrFrames, again : WrFrames, since : Seq(WrFrames)]
  <2>1. <<>> \in Seq(WrFrames)
    OBVIOUS
  <2> QED BY <1>1, <1>2, <1>4, <2>1
<1> QED BY ONLY <1>12, <1>13 DEF RealAlarms

\* The history with a beacon of the same stretch is in order.
LEMMA WithBeaconOk ==
  ASSUME NEW x, NEW t \in Nat, NEW h, BeaconsOk(h, x, t), NEW b \in WrFrames,
         b.stamp[1] = x, t <= b.time
  PROVE  BeaconsOk(WithBeacon(h, b), x, b.time + 1)
<1> DEFINE known == FirstSame(h.frames, b) > 0
           g == IF known THEN h ELSE BeaconAfter(h, b)
           newest == IF g.newest = NoFrame \/ b.counter > g.newest.counter THEN b ELSE g.newest
           grown == Append(g.frames, b)
           w == [newest |-> newest,
                 frames |-> IF known THEN g.frames ELSE LastOf(grown, WrHistory)]
<1>1. BeaconsOk(g, x, t)
  BY NoBeaconsOk DEF BeaconAfter
<1>2. WithBeacon(h, b) = w
  BY DEF WithBeacon
<1> HIDE DEF g
<1>3. /\ g.frames \in Seq(WrFrames) /\ g.newest \in WrFrames /\ InOrder(g.frames, t)
      /\ \A i \in 1..Len(g.frames) : g.frames[i].stamp[1] = x
      /\ g.newest # NoFrame => g.newest.stamp[1] = x
  BY <1>1 DEF BeaconsOk
<1>4. newest \in WrFrames /\ (newest # NoFrame => newest.stamp[1] = x)
  BY <1>3
<1>5. b.time \in Nat /\ b.time + 1 \in Nat /\ t <= b.time + 1
  BY FrameTyped
<1>6. InOrder(g.frames, b.time + 1)
  BY ONLY <1>3, <1>5, LaterInOrder, t \in Nat
<1>7. /\ InOrder(grown, b.time + 1)
      /\ \A i \in 1..Len(grown) : grown[i].stamp[1] = x
  <2>1. InOrder(grown, b.time + 1)
    BY <1>3, AppendInOrder
  <2>2. /\ Len(grown) = Len(g.frames) + 1 /\ grown[Len(g.frames) + 1] = b
        /\ \A i \in 1..Len(g.frames) : grown[i] = g.frames[i]
    BY <1>3
  <2>3. \A i \in 1..(Len(g.frames) + 1) : i \in 1..Len(g.frames) \/ i = Len(g.frames) + 1
    BY <1>3
  <2> HIDE DEF grown
  <2> QED BY ONLY <1>3, <2>1, <2>2, <2>3, b.stamp[1] = x
<1> HIDE DEF grown, newest
<1>8. /\ InOrder(LastOf(grown, WrHistory), b.time + 1)
      /\ \A i \in 1..Len(LastOf(grown, WrHistory)) :
           \E j \in 1..Len(grown) : LastOf(grown, WrHistory)[i] = grown[j]
  BY <1>7, WrLimits, LastOfInOrder
<1>9. /\ InOrder(w.frames, b.time + 1) /\ w.newest = newest
      /\ \A i \in 1..Len(w.frames) : w.frames[i].stamp[1] = x
  <2>1. CASE known
    <3>1. w.frames = g.frames
      BY <2>1
    <3> QED BY <1>3, <1>6, <3>1
  <2>2. CASE ~known
    <3>1. w.frames = LastOf(grown, WrHistory)
      BY <2>2
    <3> QED BY <1>7, <1>8, <3>1
  <2> QED BY <2>1, <2>2
<1>10. w \in [frames : Seq(WrFrames), newest : WrFrames]
  <2>1. w.frames \in Seq(WrFrames)
    BY <1>9 DEF InOrder
  <2>2. w = [newest |-> newest, frames |-> w.frames]
    OBVIOUS
  <2> HIDE DEF w
  <2> QED BY <1>4, <2>1, <2>2
<1> HIDE DEF w
<1>11. BeaconsOk(w, x, b.time + 1)
  BY ONLY <1>4, <1>9, <1>10 DEF BeaconsOk
<1> QED BY <1>2, <1>11

\* One beacon of the stretch: the history stays in order, and what is reported is real.
LEMMA BeaconStepOk ==
  ASSUME NEW x, NEW t \in Nat, NEW acc, BeaconsOk(acc.h, x, t),
         acc.alarms \subseteq RealAlarms,
         NEW b \in WrFrames, b.stamp[1] = x, b.kind = "beacon", t <= b.time
  PROVE  /\ BeaconsOk(BeaconStep(acc, b).h, x, b.time + 1)
         /\ BeaconStep(acc, b).alarms \subseteq RealAlarms
         /\ BeaconStep(acc, b) = [alarms |-> BeaconStep(acc, b).alarms,
                                  h |-> BeaconStep(acc, b).h]
<1> DEFINE h == BeaconsBefore(acc.h, b)
<1>1. /\ BeaconsOk(h, x, t)
      /\ \A i \in 1..Len(h.frames) : b.time - h.frames[i].time <= WrRetention
  BY BeforeOk
<1>2. /\ BeaconStep(acc, b).alarms = acc.alarms \cup BeaconAlarms(h, b)
      /\ BeaconStep(acc, b).h = WithBeacon(h, b)
      /\ BeaconStep(acc, b) = [alarms |-> BeaconStep(acc, b).alarms,
                               h |-> BeaconStep(acc, b).h]
  BY DEF BeaconStep
<1> HIDE DEF h
<1>3. BeaconAlarms(h, b) \subseteq RealAlarms
  BY <1>1, BeaconAlarmsReal
<1>4. BeaconsOk(WithBeacon(h, b), x, b.time + 1)
  BY <1>1, WithBeaconOk
<1> QED BY <1>2, <1>3, <1>4

-----------------------------------------------------------------------------
(* The exchanges *)

Exchanges == [request : WrFrames, response : WrFrames]

\* The counter of each is ahead of the last one's.
Rising(history) ==
  \A i \in 1..(Len(history) - 1) :
    CounterAhead(history[i + 1].request.kind, history[i + 1].request.counter,
                 history[i].request.counter)

\* Exchanges since one reset in one stretch, in order of time and counter.
ExchangesOk(history, stamp, t) ==
  /\ history \in Seq(Exchanges)
  /\ InOrder(Requests(history), t)
  /\ \A i \in 1..Len(history) : history[i].request.stamp = stamp
  /\ Rising(history)

\* They are of the link's kind, a handshake's under one nonce.
LinkOk(link, k, stamp, t) ==
  /\ link \in [nonce : Nat, history : Seq(Exchanges)]
  /\ ExchangesOk(link.history, stamp, t)
  /\ \A i \in 1..Len(link.history) :
       /\ link.history[i].request.kind = k
       /\ k = "eapol" => link.history[i].request.epoch = link.nonce

\* The requests of exchanges.
LEMMA RequestsAre ==
  ASSUME NEW history \in Seq(Exchanges)
  PROVE  /\ Requests(history) \in Seq(WrFrames) /\ Len(Requests(history)) = Len(history)
         /\ \A i \in 1..Len(history) : Requests(history)[i] = history[i].request
<1> DEFINE n == Len(history)
           r == [i \in 1..n |-> history[i].request]
<1>1. n \in Nat /\ DOMAIN history = 1..n /\ \A i \in 1..n : history[i] \in Exchanges
  OBVIOUS
<1>2. \A i \in 1..n : history[i].request \in WrFrames
  BY <1>1 DEF Exchanges
<1>3. Requests(history) = r
  BY <1>1 DEF Requests
<1>4. r \in Seq(WrFrames) /\ Len(r) = n
  BY <1>1, <1>2
<1>5. \A i \in 1..n : r[i] = history[i].request
  OBVIOUS
<1> HIDE DEF r, n
<1> QED BY <1>3, <1>4, <1>5 DEF n

\* No exchanges are in order.
LEMMA NoExchangesOk ==
  ASSUME NEW stamp, NEW t
  PROVE  ExchangesOk(<<>>, stamp, t)
<1>1. <<>> \in Seq(Exchanges) /\ Len(<<>>) = 0
  OBVIOUS
<1>2. Requests(<<>>) \in Seq(WrFrames) /\ Len(Requests(<<>>)) = 0
  BY <1>1, RequestsAre
<1> QED BY <1>1, <1>2 DEF ExchangesOk, InOrder, Rising

\* A link without exchanges.
LEMMA EmptyLinkOk ==
  ASSUME NEW stamp, NEW t, NEW k, NEW nonce \in Nat
  PROVE  LinkOk([nonce |-> nonce, history |-> <<>>], k, stamp, t)
<1> DEFINE link == [nonce |-> nonce, history |-> <<>>]
<1>1. link.history = <<>> /\ Len(<<>>) = 0 /\ <<>> \in Seq(Exchanges)
  OBVIOUS
<1>2. link \in [nonce : Nat, history : Seq(Exchanges)]
  BY <1>1
<1> HIDE DEF link
<1>3. LinkOk(link, k, stamp, t)
  BY <1>1, <1>2, NoExchangesOk DEF LinkOk
<1> QED BY <1>3 DEF link

\* A rest of exchanges is in order.
LEMMA ExchangesRest ==
  ASSUME NEW stamp, NEW t, NEW history, ExchangesOk(history, stamp, t),
         NEW m \in 1..(Len(history) + 1)
  PROVE  /\ ExchangesOk(SubSeq(history, m, Len(history)), stamp, t)
         /\ \A i \in 1..Len(SubSeq(history, m, Len(history))) :
              /\ m + i - 1 \in m..Len(history)
              /\ SubSeq(history, m, Len(history))[i] = history[m + i - 1]
<1> DEFINE n == Len(history)
           g == SubSeq(history, m, n)
           r == Requests(history)
<1>1. /\ history \in Seq(Exchanges) /\ n \in Nat /\ InOrder(r, t)
      /\ \A i \in 1..n : history[i].request.stamp = stamp
  BY DEF ExchangesOk
<1>2. /\ g \in Seq(Exchanges) /\ Len(g) = n - m + 1
      /\ \A i \in 1..(n - m + 1) : g[i] = history[m + i - 1]
  BY <1>1, RestOf
<1>3. \A i \in 1..(n - m + 1) : m + i - 1 \in 1..n /\ m + i - 1 \in m..n
  BY <1>1
<1>4. \A i, j \in 1..(n - m + 1) : i < j => m + i - 1 < m + j - 1
  BY <1>1
<1>5. r \in Seq(WrFrames) /\ Len(r) = n /\ \A i \in 1..n : r[i] = history[i].request
  BY <1>1, RequestsAre
<1>6. /\ Requests(g) \in Seq(WrFrames) /\ Len(Requests(g)) = n - m + 1
      /\ \A i \in 1..(n - m + 1) : Requests(g)[i] = g[i].request
  BY <1>2, RequestsAre
<1> HIDE DEF r, g, n
<1>7. \A i \in 1..(n - m + 1) : Requests(g)[i] = r[m + i - 1]
  BY ONLY <1>2, <1>3, <1>5, <1>6
<1>8. /\ \A i \in 1..n : r[i].time < t
      /\ \A i, j \in 1..n : i < j => r[i].time < r[j].time
  BY <1>1, <1>5 DEF InOrder
<1>9. \A i, j \in 1..(n - m + 1) : i < j => Requests(g)[i].time < Requests(g)[j].time
  <2> SUFFICES ASSUME NEW i \in 1..(n - m + 1), NEW j \in 1..(n - m + 1), i < j
               PROVE  Requests(g)[i].time < Requests(g)[j].time
    OBVIOUS
  <2>1. m + i - 1 \in 1..n /\ m + j - 1 \in 1..n /\ m + i - 1 < m + j - 1
    BY <1>3, <1>4
  <2>2. r[m + i - 1].time < r[m + j - 1].time
    BY ONLY <1>8, <2>1
  <2> QED BY <1>7, <2>2
<1>10. \A i \in 1..(n - m + 1) : Requests(g)[i].time < t /\ g[i].request.stamp = stamp
  BY ONLY <1>1, <1>2, <1>3, <1>7, <1>8
<1>11. InOrder(Requests(g), t)
  BY ONLY <1>6, <1>9, <1>10 DEF InOrder
<1>12. Rising(g)
  <2> SUFFICES ASSUME NEW i \in 1..(n - m)
               PROVE  CounterAhead(g[i + 1].request.kind, g[i + 1].request.counter,
                                   g[i].request.counter)
    BY <1>1, <1>2 DEF Rising
  <2> DEFINE k == m + i - 1
  <2>1. /\ k \in 1..(n - 1) /\ m + (i + 1) - 1 = k + 1
        /\ i \in 1..(n - m + 1) /\ i + 1 \in 1..(n - m + 1)
    BY <1>1
  <2>2. g[i] = history[k] /\ g[i + 1] = history[k + 1]
    BY <1>2, <2>1
  <2> HIDE DEF k
  <2>3. CounterAhead(history[k + 1].request.kind, history[k + 1].request.counter,
                     history[k].request.counter)
    BY <2>1 DEF ExchangesOk, Rising, n
  <2> QED BY <2>2, <2>3
<1>13. ExchangesOk(g, stamp, t)
  BY ONLY <1>2, <1>10, <1>11, <1>12 DEF ExchangesOk
<1> QED BY <1>2, <1>3, <1>13 DEF g, n

\* A later request whose counter is ahead begins an exchange at the end.
LEMMA ExchangesAppend ==
  ASSUME NEW stamp, NEW t \in Nat, NEW history, ExchangesOk(history, stamp, t),
         NEW v \in WrFrames, v.stamp = stamp, t <= v.time,
         history # <<>> =>
           CounterAhead(v.kind, v.counter, history[Len(history)].request.counter)
  PROVE  /\ ExchangesOk(Append(history, [request |-> v, response |-> NoFrame]), stamp, v.time + 1)
         /\ \A i \in 1..(Len(history) + 1) :
              Append(history, [request |-> v, response |-> NoFrame])[i].request
                = IF i = Len(history) + 1 THEN v ELSE history[i].request
<1> DEFINE n == Len(history)
           e == [request |-> v, response |-> NoFrame]
           g == Append(history, e)
           r == Requests(history)
<1>1. /\ history \in Seq(Exchanges) /\ n \in Nat /\ InOrder(r, t)
      /\ \A i \in 1..n : history[i].request.stamp = stamp
      /\ \A i \in 1..(n - 1) :
           CounterAhead(history[i + 1].request.kind, history[i + 1].request.counter,
                        history[i].request.counter)
      /\ n > 0 => CounterAhead(v.kind, v.counter, history[n].request.counter)
  BY DEF ExchangesOk, Rising
<1>2. e \in Exchanges /\ e.request = v
  BY NoFrameTyped DEF Exchanges
<1> HIDE DEF e
<1>3. /\ g \in Seq(Exchanges) /\ Len(g) = n + 1 /\ g[n + 1] = e
      /\ \A i \in 1..n : g[i] = history[i]
  BY <1>1, <1>2
<1>4. r \in Seq(WrFrames) /\ Len(r) = n /\ \A i \in 1..n : r[i] = history[i].request
  BY <1>1, RequestsAre
<1>5. /\ Requests(g) \in Seq(WrFrames) /\ Len(Requests(g)) = n + 1
      /\ \A i \in 1..(n + 1) : Requests(g)[i] = g[i].request
  BY <1>3, RequestsAre
<1>6. InOrder(Append(r, v), v.time + 1)
  BY <1>1, AppendInOrder
<1>7. \A i \in 1..(n + 1) : i \in 1..n \/ (i = n + 1 /\ i \notin 1..n)
  BY <1>1
<1>8. /\ Append(r, v) \in Seq(WrFrames) /\ Len(Append(r, v)) = n + 1
      /\ Append(r, v)[n + 1] = v /\ \A i \in 1..n : Append(r, v)[i] = r[i]
  BY <1>4
<1> HIDE DEF g, r, n
<1>9. \A i \in 1..(n + 1) : Requests(g)[i] = Append(r, v)[i]
  BY ONLY <1>2, <1>3, <1>4, <1>5, <1>7, <1>8
<1>10. Requests(g) = Append(r, v)
  BY <1>5, <1>8, <1>9
<1>11. \A i \in 1..(n + 1) : g[i].request.stamp = stamp
  BY ONLY <1>1, <1>2, <1>3, <1>7, v.stamp = stamp
<1>12. Rising(g)
  <2> SUFFICES ASSUME NEW i \in 1..n
               PROVE  CounterAhead(g[i + 1].request.kind, g[i + 1].request.counter,
                                   g[i].request.counter)
    BY <1>1, <1>3 DEF Rising
  <2>1. i \in 1..(n - 1) \/ (i = n /\ n > 0)
    BY <1>1
  <2>2. CASE i \in 1..(n - 1)
    <3>1. i + 1 \in 1..n
      BY <1>1, <2>2
    <3> QED BY ONLY <1>1, <1>3, <2>2, <3>1, i \in 1..n
  <2>3. CASE i = n /\ n > 0
    BY ONLY <1>1, <1>2, <1>3, <2>3, i \in 1..n
  <2> QED BY <2>1, <2>2, <2>3
<1>13. ExchangesOk(g, stamp, v.time + 1)
  BY ONLY <1>3, <1>6, <1>10, <1>11, <1>12 DEF ExchangesOk
<1>14. \A i \in 1..(n + 1) : g[i].request = IF i = n + 1 THEN v ELSE history[i].request
  BY ONLY <1>2, <1>3, <1>7
<1> QED BY <1>13, <1>14 DEF g, n, e

\* An answer leaves the requests.
LEMMA WithAnswerOk ==
  ASSUME NEW stamp, NEW t, NEW history, ExchangesOk(history, stamp, t), NEW v \in WrFrames
  PROVE  /\ ExchangesOk(WithAnswer(history, v), stamp, t)
         /\ Len(WithAnswer(history, v)) = Len(history)
         /\ \A i \in 1..Len(history) : WithAnswer(history, v)[i].request = history[i].request
<1> DEFINE n == Len(history)
           g == [history EXCEPT ![n].response = v]
<1>1. /\ history \in Seq(Exchanges) /\ n \in Nat /\ InOrder(Requests(history), t)
      /\ \A i \in 1..n : history[i].request.stamp = stamp
      /\ \A i \in 1..(n - 1) :
           CounterAhead(history[i + 1].request.kind, history[i + 1].request.counter,
                        history[i].request.counter)
  BY DEF ExchangesOk, Rising
<1>2. WithAnswer(history, v) = history \/ (history # <<>> /\ WithAnswer(history, v) = g)
  BY DEF WithAnswer
<1>3. CASE WithAnswer(history, v) = history
  BY <1>3
<1>4. CASE history # <<>> /\ WithAnswer(history, v) = g
  <2>1. n \in 1..n
    BY <1>1, <1>4
  <2>2. history[n] \in Exchanges /\ \A i \in 1..n : history[i] \in Exchanges
    BY <1>1, <2>1
  <2> DEFINE e == [history[n] EXCEPT !.response = v]
  <2>3. e \in Exchanges /\ e.request = history[n].request
    BY <2>2 DEF Exchanges
  <2>4. g = [history EXCEPT ![n] = e]
    OBVIOUS
  <2> HIDE DEF e, g
  <2>5. g \in Seq(Exchanges) /\ Len(g) = n /\ \A i \in 1..n : g[i] = IF i = n THEN e ELSE history[i]
    BY <1>1, <2>1, <2>3, <2>4
  <2>6. \A i \in 1..n : g[i].request = history[i].request
    BY ONLY <2>3, <2>5
  <2>7. /\ Requests(g) \in Seq(WrFrames) /\ Len(Requests(g)) = n
        /\ \A i \in 1..n : Requests(g)[i] = g[i].request
    BY <2>5, RequestsAre
  <2>8. /\ Requests(history) \in Seq(WrFrames) /\ Len(Requests(history)) = n
        /\ \A i \in 1..n : Requests(history)[i] = history[i].request
    BY <1>1, RequestsAre
  <2> HIDE DEF n
  <2>9. \A i \in 1..n : Requests(g)[i] = Requests(history)[i]
    BY ONLY <2>6, <2>7, <2>8
  <2>10. Requests(g) = Requests(history)
    BY <2>7, <2>8, <2>9
  <2>11. \A i \in 1..(n - 1) : i \in 1..n /\ i + 1 \in 1..n
    BY <1>1
  <2>12. Rising(g)
    BY ONLY <1>1, <2>5, <2>6, <2>11 DEF Rising
  <2>13. ExchangesOk(g, stamp, t)
    BY ONLY <1>1, <2>5, <2>6, <2>10, <2>12 DEF ExchangesOk
  <2> QED BY <1>4, <2>5, <2>6, <2>13 DEF n
<1> QED BY <1>2, <1>3, <1>4

\* What v is compared with: in order, nothing too old, a handshake's under its nonce.
LEMMA LinkBeforeOk ==
  ASSUME NEW stamp, NEW t \in Nat, NEW v \in WrFrames, NEW link, LinkOk(link, v.kind, stamp, t)
  PROVE  /\ LinkOk(LinkBefore(link, v), v.kind, stamp, t)
         /\ \A i \in 1..Len(LinkBefore(link, v).history) :
              v.time - LinkBefore(link, v).history[i].request.time <= WrRetention
         /\ v.kind = "eapol" /\ v.request => LinkBefore(link, v).nonce \in {0, v.epoch}
<1> DEFINE n == Len(link.history)
           r == Recent(link.history, Requests(link.history), v.time)
           nonce == IF r = <<>> THEN 0 ELSE link.nonce
           l == [nonce |-> nonce, history |-> r]
           b == LinkBefore(link, v)
<1>1. /\ link.history \in Seq(Exchanges) /\ link.nonce \in Nat /\ n \in Nat
      /\ ExchangesOk(link.history, stamp, t) /\ InOrder(Requests(link.history), t)
  BY DEF LinkOk, ExchangesOk
<1>2. /\ Len(Requests(link.history)) = n
      /\ \A i \in 1..n : Requests(link.history)[i] = link.history[i].request
  BY <1>1, RequestsAre
<1>3. v.time \in Nat /\ v.epoch \in Nat
  BY FrameTyped
<1>4. PICK m \in 1..(n + 1) :
        /\ r = SubSeq(link.history, m, n)
        /\ \A i \in m..n : v.time - Requests(link.history)[i].time <= WrRetention
  BY <1>1, <1>2, <1>3, RecentIs
<1>5. /\ ExchangesOk(r, stamp, t)
      /\ \A i \in 1..Len(r) : m + i - 1 \in m..n /\ r[i] = link.history[m + i - 1]
  BY <1>1, <1>4, ExchangesRest
<1>6. \A i \in m..n : i \in 1..n
  BY <1>1
<1>7. \A i \in 1..n :
       /\ link.history[i].request.kind = v.kind
       /\ v.kind = "eapol" => link.history[i].request.epoch = link.nonce
  BY DEF LinkOk
<1> HIDE DEF r
<1>8. \A i \in 1..Len(r) : v.time - r[i].request.time <= WrRetention
  BY ONLY <1>2, <1>4, <1>5, <1>6
<1>9. r \in Seq(Exchanges) /\ Len(r) \in Nat
  BY <1>5 DEF ExchangesOk
<1>10. \A i \in 1..Len(r) :
       /\ r[i].request.kind = v.kind
       /\ v.kind = "eapol" => r[i].request.epoch = nonce
  <2>1. r = <<>> => Len(r) = 0
    OBVIOUS
  <2>2. CASE r = <<>>
    BY <2>1, <2>2
  <2>3. CASE r # <<>>
    <3>1. nonce = link.nonce
      BY <2>3
    <3> HIDE DEF nonce, n
    <3> QED BY ONLY <1>5, <1>6, <1>7, <3>1
  <2> QED BY <2>2, <2>3
<1>11. nonce \in Nat /\ l \in [nonce : Nat, history : Seq(Exchanges)]
  BY <1>1, <1>9
<1>12. l.nonce = nonce /\ l.history = r
  OBVIOUS
<1> HIDE DEF l, nonce
<1>13. LinkOk(l, v.kind, stamp, t)
  <2>1. \A i \in 1..Len(l.history) :
          /\ l.history[i].request.kind = v.kind
          /\ v.kind = "eapol" => l.history[i].request.epoch = l.nonce
    <3> SUFFICES ASSUME NEW i \in 1..Len(r)
                 PROVE  /\ r[i].request.kind = v.kind
                        /\ v.kind = "eapol" => r[i].request.epoch = nonce
      BY <1>12
    <3> QED BY <1>10
  <2> QED BY ONLY <1>5, <1>11, <1>12, <2>1 DEF LinkOk
<1>14. b = LinkAtNonce(l, v)
  BY DEF LinkBefore, l, nonce, r
<1> HIDE DEF b
<1>15. CASE v.kind # "eapol" \/ ~v.request \/ l.nonce = v.epoch
  <2>1. b = l
    BY <1>14, <1>15 DEF LinkAtNonce
  <2> QED BY <1>8, <1>12, <1>13, <1>15, <2>1 DEF b
<1>16. CASE ~(v.kind # "eapol" \/ ~v.request \/ l.nonce = v.epoch)
  <2>1. PICK x \in {0, v.epoch} : b = [nonce |-> x, history |-> <<>>]
    BY <1>14, <1>16 DEF LinkAtNonce, NoLink
  <2>2. x \in Nat
    BY <1>3
  <2>3. LinkOk(b, v.kind, stamp, t)
    BY <2>1, <2>2, EmptyLinkOk
  <2>4. b.nonce = x /\ b.history = <<>> /\ Len(b.history) = 0
    BY <2>1
  <2> QED BY <2>3, <2>4 DEF b
<1> QED BY <1>15, <1>16

\* A transaction reported is a repetition across no break and no reset.
LEMMA TransactionAlarmsReal ==
  ASSUME NEW stamp, NEW t \in Nat, NEW v \in WrFrames, NEW link, LinkOk(link, v.kind, stamp, t),
         \A i \in 1..Len(link.history) : v.time - link.history[i].request.time <= WrRetention,
         v.kind = "eapol" /\ v.request => link.nonce \in {0, v.epoch},
         v.stamp = stamp, t <= v.time, v.kind \in Kinds, NEW a \in TransactionAlarms(link, v)
  PROVE  a \in RealAlarms
<1> DEFINE history == link.history
           n == Len(history)
           i == FirstSame(Requests(history), v)
<1>1. /\ history \in Seq(Exchanges) /\ n \in Nat /\ InOrder(Requests(history), t)
      /\ \A j \in 1..n : history[j].request.stamp = stamp
      /\ \A j \in 1..n :
             /\ history[j].request.kind = v.kind
             /\ v.kind = "eapol" => history[j].request.epoch = link.nonce
      /\ \A j \in 1..(n - 1) :
           CounterAhead(history[j + 1].request.kind, history[j + 1].request.counter,
                        history[j].request.counter)
  BY DEF LinkOk, ExchangesOk, Rising
<1>2. /\ Requests(history) \in Seq(WrFrames) /\ Len(Requests(history)) = n
      /\ \A j \in 1..n : Requests(history)[j] = history[j].request
  BY <1>1, RequestsAre
<1>3. /\ v.request /\ ~OutOfPlace(link, v) /\ i > 0 /\ Reportable(history, i, v)
      /\ a = [old |-> history[i].request, newer |-> history[n].request, again |-> v,
              since |-> SubSeq(Requests(history), i, n)]
  BY DEF TransactionAlarms
<1>4. i \in 1..n /\ SameBytes(Requests(history)[i], v)
  BY <1>2, <1>3, FirstSameIs
<1> HIDE DEF i
<1> DEFINE old == history[i].request
           newer == history[n].request
<1>5. i < n /\ v.time - old.time >= WrMinDelay
  BY <1>3 DEF Reportable
<1>6. n \in 1..n
  BY <1>1, <1>4
<1>7. old \in WrFrames /\ newer \in WrFrames
  <2>1. history[i] \in Exchanges /\ history[n] \in Exchanges
    BY <1>1, <1>4, <1>6
  <2> QED BY ONLY <2>1 DEF Exchanges
<1>8. old.time < newer.time /\ newer.time < t
  <2>1. /\ \A j \in 1..n : Requests(history)[j].time < t
        /\ \A j, k \in 1..n : j < k => Requests(history)[j].time < Requests(history)[k].time
    BY <1>1, <1>2 DEF InOrder
  <2>2. Requests(history)[i] = old /\ Requests(history)[n] = newer
    BY <1>2, <1>4, <1>6
  <2>3. Requests(history)[i].time < Requests(history)[n].time /\ Requests(history)[n].time < t
    BY ONLY <1>4, <1>5, <1>6, <2>1
  <2> QED BY <2>2, <2>3
<1>9. v.time \in Nat /\ old.time \in Nat /\ newer.time \in Nat
  BY <1>7, FrameTyped
<1>10. newer.time < v.time
  BY <1>8, <1>9
<1>11. v.time - old.time \in WrMinDelay..WrRetention
  BY <1>4, <1>5, <1>9, WrLimits
<1>12. old.stamp = v.stamp /\ newer.stamp = v.stamp
  BY <1>1, <1>4, <1>6
<1>13. v.kind \in {"beacon", "eapol"} => newer.counter > v.counter
  <2>1. v.kind = "eapol" => newer.counter > v.counter
    BY <1>3 DEF Reportable
  <2>2. v.kind # "beacon"
    BY DEF Kinds
  <2> QED BY <2>1, <2>2
<1>14. v.kind = "eapol" => newer.epoch = v.epoch
  <2> SUFFICES ASSUME v.kind = "eapol" PROVE newer.epoch = v.epoch
    OBVIOUS
  <2>1. link.nonce # 0
    BY <1>3 DEF OutOfPlace
  <2>2. link.nonce = v.epoch
    BY <1>3, <2>1
  <2>3. newer.epoch = link.nonce
    <3> HIDE DEF history, n
    <3> QED BY ONLY <1>1, <1>6, v.kind = "eapol"
  <2> QED BY <2>2, <2>3
<1> DEFINE since == SubSeq(Requests(history), i, n)
<1>15. a.old = old /\ a.newer = newer /\ a.again = v /\ a.since = since
  BY <1>3
<1>16. /\ since \in Seq(WrFrames) /\ Len(since) = n - i + 1
       /\ \A j \in 1..(n - i + 1) : since[j] = history[i + j - 1].request
  <2>1. /\ since \in Seq(WrFrames) /\ Len(since) = n - i + 1
        /\ \A j \in 1..(n - i + 1) : since[j] = Requests(history)[i + j - 1]
    <3>1. i \in 1..(Len(Requests(history)) + 1)
      BY <1>1, <1>2, <1>4
    <3> QED BY <1>2, <3>1, RestOf
  <2>2. \A j \in 1..(n - i + 1) : i + j - 1 \in 1..n
    BY <1>1, <1>4
  <2> HIDE DEF since, history, n
  <2> QED BY ONLY <1>2, <2>1, <2>2
<1>17. a \in [old : WrFrames, newer : WrFrames, again : WrFrames, since : Seq(WrFrames)]
  BY <1>3, <1>7, <1>16
<1>18. /\ since # <<>> /\ since[1] = old /\ since[Len(since)] = newer
  <2>1. 1 \in 1..(n - i + 1) /\ n - i + 1 \in 1..(n - i + 1)
        /\ i + 1 - 1 = i /\ i + (n - i + 1) - 1 = n /\ n - i + 1 # 0
    <3>1. n \in Nat /\ i \in 1..n
      BY <1>1, <1>4
    <3> HIDE DEF n
    <3> QED BY ONLY <3>1
  <2>2. since[1] = history[i].request /\ since[n - i + 1] = history[n].request
    BY <1>16, <2>1
  <2> HIDE DEF since, n
  <2>3. since # <<>>
    BY <1>16, <2>1
  <2> QED BY <1>16, <2>2, <2>3
<1>19. ASSUME NEW j \in 1..(Len(since) - 1)
       PROVE  CounterAhead(v.kind, since[j + 1].counter, since[j].counter)
  <2> DEFINE k == i + j - 1
  <2>1. /\ k \in 1..(n - 1) /\ i + (j + 1) - 1 = k + 1 /\ k + 1 \in 1..n
        /\ j \in 1..(n - i + 1) /\ j + 1 \in 1..(n - i + 1)
    BY <1>1, <1>4, <1>16
  <2>2. since[j] = history[k].request /\ since[j + 1] = history[k + 1].request
    BY <1>16, <2>1
  <2> HIDE DEF k, since, n, history
  <2>3. CounterAhead(history[k + 1].request.kind, history[k + 1].request.counter,
                     history[k].request.counter)
    BY ONLY <1>1, <2>1
  <2>4. history[k + 1].request.kind = v.kind
    <3>1. \A x \in 1..n : history[x].request.kind = v.kind
      BY ONLY <1>1
    <3> QED BY ONLY <2>1, <3>1
  <2> QED BY <2>2, <2>3, <2>4
<1> HIDE DEF old, newer, since
<1>20. SentInOrder(a)
  BY <1>15, <1>18, <1>19 DEF SentInOrder
<1>21. RealAlarm(a)
  BY ONLY <1>8, <1>10, <1>11, <1>12, <1>13, <1>14, <1>15, <1>20 DEF RealAlarm
<1> QED BY ONLY <1>17, <1>21 DEF RealAlarms

\* The last of the exchanges.
LEMMA LastOfExchanges ==
  ASSUME NEW stamp, NEW t, NEW history, ExchangesOk(history, stamp, t), NEW n \in Nat \ {0}
  PROVE  /\ ExchangesOk(LastOf(history, n), stamp, t)
         /\ \A i \in 1..Len(LastOf(history, n)) :
              \E j \in 1..Len(history) : LastOf(history, n)[i] = history[j]
<1>1. history \in Seq(Exchanges) /\ Len(history) \in Nat
  BY DEF ExchangesOk
<1>2. CASE Len(history) > n
  <2> DEFINE m == Len(history) - n + 1
             g == SubSeq(history, m, Len(history))
  <2>1. m \in 1..(Len(history) + 1) /\ LastOf(history, n) = g
    BY <1>1, <1>2 DEF LastOf
  <2>2. /\ ExchangesOk(g, stamp, t)
        /\ \A i \in 1..Len(g) :
             m + i - 1 \in m..Len(history) /\ g[i] = history[m + i - 1]
    BY <2>1, ExchangesRest
  <2>3. \A j \in m..Len(history) : j \in 1..Len(history)
    BY <1>1, <2>1
  <2> HIDE DEF g, m
  <2> QED BY ONLY <2>1, <2>2, <2>3
<1>3. CASE ~(Len(history) > n)
  BY <1>3 DEF LastOf
<1> QED BY <1>2, <1>3

\* Exchanges in order before t are so before a later time.
LEMMA LaterExchanges ==
  ASSUME NEW stamp, NEW t \in Nat, NEW u \in Nat, t <= u, NEW history,
         ExchangesOk(history, stamp, t)
  PROVE  ExchangesOk(history, stamp, u)
<1>1. InOrder(Requests(history), u)
  BY LaterInOrder DEF ExchangesOk
<1> QED BY <1>1 DEF ExchangesOk

\* The exchanges of a link with v among them.
LEMMA HistoryWithOk ==
  ASSUME NEW stamp, NEW t \in Nat, NEW v \in WrFrames, NEW link, LinkOk(link, v.kind, stamp, t),
         v.kind = "eapol" /\ v.request => link.nonce \in {0, v.epoch},
         v.stamp = stamp, t <= v.time
  PROVE  LinkOk([nonce |-> link.nonce, history |-> HistoryWith(link, v)], v.kind, stamp,
                v.time + 1)
<1> DEFINE history == link.history
           w == HistoryWith(link, v)
           l == [nonce |-> link.nonce, history |-> w]
           u == v.time + 1
<1>1. /\ ExchangesOk(history, stamp, t) /\ link.nonce \in Nat
      /\ \A i \in 1..Len(history) :
           /\ history[i].request.kind = v.kind
           /\ v.kind = "eapol" => history[i].request.epoch = link.nonce
      /\ history \in Seq(Exchanges) /\ Len(history) \in Nat
  BY DEF LinkOk
<1>2. v.time \in Nat /\ u \in Nat /\ t <= u /\ v.counter \in Nat
  BY FrameTyped
<1>3. /\ ExchangesOk(w, stamp, u)
      /\ \A i \in 1..Len(w) :
           /\ w[i].request.kind = v.kind
           /\ v.kind = "eapol" => w[i].request.epoch = link.nonce
  <2>1. CASE Fresh(link, v)
    <3> DEFINE base == IF Stale(history, v) THEN <<>> ELSE history
               e == [request |-> v, response |-> NoFrame]
               g == Append(base, e)
    <3>1. ExchangesOk(base, stamp, t) /\ base \in Seq(Exchanges) /\ Len(base) \in Nat
      BY <1>1, NoExchangesOk DEF ExchangesOk
    <3>2. base # <<>> => CounterAhead(v.kind, v.counter, base[Len(base)].request.counter)
      BY DEF Stale
    <3>3. \A i \in 1..Len(base) :
            /\ base[i].request.kind = v.kind
            /\ v.kind = "eapol" => base[i].request.epoch = link.nonce
      <4>1. base = <<>> \/ base = history
        OBVIOUS
      <4>2. CASE base = <<>>
        BY <4>2
      <4>3. CASE base = history
        BY <1>1, <4>3
      <4> QED BY <4>1, <4>2, <4>3
    <3> HIDE DEF base
    <3>4. /\ ExchangesOk(g, stamp, u)
          /\ \A i \in 1..(Len(base) + 1) :
               g[i].request = IF i = Len(base) + 1 THEN v ELSE base[i].request
      BY ONLY <3>1, <3>2, ExchangesAppend, t \in Nat, v \in WrFrames, v.stamp = stamp,
              t <= v.time
    <3>5. Len(g) = Len(base) + 1
      BY <3>1
    <3>6. v.kind = "eapol" => v.epoch = link.nonce
      BY <2>1 DEF Fresh, OutOfPlace
    <3>7. \A i \in 1..(Len(base) + 1) : i \in 1..Len(base) \/ i = Len(base) + 1
      BY <3>1
    <3>8. \A i \in 1..Len(g) :
            /\ g[i].request.kind = v.kind
            /\ v.kind = "eapol" => g[i].request.epoch = link.nonce
      <4> HIDE DEF g
      <4> QED BY ONLY <3>3, <3>4, <3>5, <3>6, <3>7
    <3>9. w = LastOf(g, WrHistory)
      BY <2>1 DEF HistoryWith, base
    <3> HIDE DEF g, w
    <3>10. /\ ExchangesOk(LastOf(g, WrHistory), stamp, u)
           /\ \A i \in 1..Len(LastOf(g, WrHistory)) :
                \E j \in 1..Len(g) : LastOf(g, WrHistory)[i] = g[j]
      BY <3>4, WrLimits, LastOfExchanges
    <3> QED BY ONLY <3>8, <3>9, <3>10
  <2>2. CASE ~Fresh(link, v) /\ v.request
    <3>1. w = history
      BY <2>2 DEF HistoryWith
    <3>2. ExchangesOk(history, stamp, u)
      BY <1>1, <1>2, LaterExchanges
    <3> QED BY <1>1, <3>1, <3>2
  <2>3. CASE ~Fresh(link, v) /\ ~v.request
    <3>1. w = WithAnswer(history, v)
      BY <2>3 DEF HistoryWith
    <3>2. /\ ExchangesOk(w, stamp, t) /\ Len(w) = Len(history)
          /\ \A i \in 1..Len(history) : w[i].request = history[i].request
      BY <1>1, <3>1, WithAnswerOk
    <3> HIDE DEF w
    <3>3. ExchangesOk(w, stamp, u)
      BY <1>2, <3>2, LaterExchanges
    <3> QED BY ONLY <1>1, <3>2, <3>3
  <2> QED BY <2>1, <2>2, <2>3
<1> HIDE DEF w
<1>4. w \in Seq(Exchanges)
  BY <1>3 DEF ExchangesOk
<1>5. l \in [nonce : Nat, history : Seq(Exchanges)] /\ l.history = w /\ l.nonce = link.nonce
  BY <1>1, <1>4
<1> HIDE DEF l
<1>6. LinkOk(l, v.kind, stamp, u)
  BY ONLY <1>3, <1>5 DEF LinkOk
<1> QED BY <1>6 DEF l, w

\* The links of a pair, each in order.
LinksOk(links, stamp, t) == \A k \in Kinds : LinkOk(links[k], k, stamp, t)

\* No exchanges on any.
LEMMA NoLinksOk ==
  ASSUME NEW stamp, NEW t
  PROVE  LinksOk([k \in Kinds |-> NoLink], stamp, t)
<1>1. \A k \in Kinds : LinkOk(NoLink, k, stamp, t)
  BY EmptyLinkOk DEF NoLink
<1> QED BY ONLY <1>1 DEF LinksOk

\* In order before t, so before a later time.
LEMMA LaterLinks ==
  ASSUME NEW stamp, NEW t \in Nat, NEW u \in Nat, t <= u, NEW links, LinksOk(links, stamp, t)
  PROVE  LinksOk(links, stamp, u)
<1> SUFFICES ASSUME NEW k \in Kinds PROVE LinkOk(links[k], k, stamp, u)
  BY DEF LinksOk
<1>1. LinkOk(links[k], k, stamp, t)
  BY DEF LinksOk
<1>2. ExchangesOk(links[k].history, stamp, u)
  BY <1>1, LaterExchanges DEF LinkOk
<1> QED BY <1>1, <1>2 DEF LinkOk

\* Beacons in order before t are so before a later time.
LEMMA LaterBeacons ==
  ASSUME NEW x, NEW t \in Nat, NEW u \in Nat, t <= u, NEW h, BeaconsOk(h, x, t)
  PROVE  BeaconsOk(h, x, u)
<1>1. InOrder(h.frames, u)
  BY LaterInOrder DEF BeaconsOk
<1> QED BY <1>1 DEF BeaconsOk

\* One other frame of the stretch: the links stay in order, and what is reported is
\* real; only a reset begins anew.
LEMMA TransactionStepOk ==
  ASSUME NEW stamp, NEW t \in Nat, NEW acc, LinksOk(acc.links, stamp, t),
         acc.alarms \subseteq RealAlarms, NEW v \in WrFrames, v.kind \in Kinds \cup {"reset"},
         v.kind # "reset" => v.stamp = stamp, t <= v.time
  PROVE  /\ LinksOk(TransactionStep(acc, v).links, v.stamp, v.time + 1)
         /\ TransactionStep(acc, v).alarms \subseteq RealAlarms
         /\ TransactionStep(acc, v) = [alarms |-> TransactionStep(acc, v).alarms,
                                       links |-> TransactionStep(acc, v).links]
<1> DEFINE s == TransactionStep(acc, v)
<1>1. CASE v.kind = "reset"
  <2>1. s = [alarms |-> acc.alarms, links |-> [k \in Kinds |-> NoLink]]
    BY <1>1 DEF TransactionStep, LinksAfterReset
  <2>2. LinksOk([k \in Kinds |-> NoLink], v.stamp, v.time + 1)
    BY NoLinksOk
  <2>3. s.alarms = acc.alarms /\ s.links = [k \in Kinds |-> NoLink]
    BY <2>1
  <2> HIDE DEF s
  <2>4. s = [alarms |-> s.alarms, links |-> s.links]
    BY <2>1, <2>3
  <2> QED BY <2>2, <2>3, <2>4 DEF s
<1>2. CASE v.kind # "reset"
  <2> DEFINE link == LinkBefore(acc.links[v.kind], v)
             new == [nonce |-> link.nonce, history |-> HistoryWith(link, v)]
             u == v.time + 1
  <2>1. v.kind \in Kinds /\ v.stamp = stamp
    BY <1>2
  <2>2. v.time \in Nat /\ u \in Nat /\ t <= u
    BY FrameTyped
  <2>3. LinkOk(acc.links[v.kind], v.kind, stamp, t)
    BY <2>1 DEF LinksOk
  <2>4. /\ LinkOk(link, v.kind, stamp, t)
        /\ \A i \in 1..Len(link.history) :
             v.time - link.history[i].request.time <= WrRetention
        /\ v.kind = "eapol" /\ v.request => link.nonce \in {0, v.epoch}
    BY <2>3, LinkBeforeOk
  <2>5. /\ s.alarms = acc.alarms \cup TransactionAlarms(link, v)
        /\ s.links = LinksWith(acc.links, link, v)
        /\ s = [alarms |-> s.alarms, links |-> s.links]
    BY <1>2 DEF TransactionStep
  <2> HIDE DEF s, link
  <2>6. TransactionAlarms(link, v) \subseteq RealAlarms
    BY <2>1, <2>4, TransactionAlarmsReal
  <2>7. LinkOk(new, v.kind, stamp, u)
    BY <2>1, <2>4, HistoryWithOk
  <2>8. LinksOk(acc.links, stamp, u)
    BY <2>2, LaterLinks
  <2>9. s.links = [k \in Kinds |-> IF k = v.kind THEN new
                                   ELSE IF v.kind # "eapol" /\ Fresh(link, v) THEN NoLink
                                   ELSE acc.links[k]]
    BY <2>5 DEF LinksWith
  <2> HIDE DEF new, u
  <2>10. ASSUME NEW k \in Kinds PROVE LinkOk(s.links[k], k, stamp, u)
    <3>1. \/ s.links[k] = new /\ k = v.kind
          \/ s.links[k] = NoLink
          \/ s.links[k] = acc.links[k]
      BY <2>9
    <3>2. LinkOk(NoLink, k, stamp, u)
      BY EmptyLinkOk DEF NoLink
    <3>3. LinkOk(acc.links[k], k, stamp, u)
      BY <2>8 DEF LinksOk
    <3> QED BY ONLY <2>7, <3>1, <3>2, <3>3
  <2>11. LinksOk(s.links, v.stamp, u)
    BY ONLY <2>1, <2>10 DEF LinksOk
  <2> QED BY <2>5, <2>6, <2>11 DEF s, u
<1> QED BY <1>1, <1>2

-----------------------------------------------------------------------------
(* The loops over a capture *)

\* The stamp after i frames of a capture that begins with one.
StampAt(frames, stamp, i) == IF i = 0 THEN stamp ELSE frames[i].stamp

\* A capture in one stretch, all of whose resets are among its frames.
CaptureOk(frames, stamp, start) ==
  /\ frames \in Seq(WrFrames) /\ start \in Nat
  /\ \A i \in 1..Len(frames) :
       /\ frames[i].kind # "none" /\ frames[i].time = start + i - 1
       /\ frames[i].stamp[1] = stamp[1]
       /\ frames[i].kind # "reset" => frames[i].stamp = StampAt(frames, stamp, i - 1)

BeaconAccs == [alarms : SUBSET RealAlarms, h : [frames : Seq(WrFrames), newest : WrFrames]]
BeaconsAt(x, t) == {acc \in BeaconAccs : BeaconsOk(acc.h, x, t)}
BeaconTurn(acc, f) == IF f.kind = "beacon" THEN BeaconStep(acc, f) ELSE acc

LinkAccs == [alarms : SUBSET RealAlarms, links : [Kinds -> [nonce : Nat, history : Seq(Exchanges)]]]
LinksAt(stamp, t) == {acc \in LinkAccs : LinksOk(acc.links, stamp, t)}
TransactionTurn(acc, f) == IF f.kind # "beacon" THEN TransactionStep(acc, f) ELSE acc

\* What BeaconLoop and TransactionLoop compute after each frame.
BeaconTurns(h, frames) == CHOOSE after :
  after = [i \in 0..Len(frames) |->
             IF i = 0 THEN [alarms |-> {}, h |-> h]
             ELSE IF frames[i].kind = "beacon" THEN BeaconStep(after[i - 1], frames[i])
             ELSE after[i - 1]]
TransactionTurns(links, frames) == CHOOSE after :
  after = [i \in 0..Len(frames) |->
             IF i = 0 THEN [alarms |-> {}, links |-> links]
             ELSE IF frames[i].kind # "beacon" THEN TransactionStep(after[i - 1], frames[i])
             ELSE after[i - 1]]

\* A frame of the capture leads the beacons on.
LEMMA BeaconTurnOk ==
  ASSUME NEW frames, NEW stamp, NEW start, CaptureOk(frames, stamp, start),
         NEW i \in 1..Len(frames), NEW acc \in BeaconsAt(stamp[1], start + i - 1)
  PROVE  BeaconTurn(acc, frames[i]) \in BeaconsAt(stamp[1], start + i)
<1> DEFINE f == frames[i]
           x == stamp[1]
           t == start + i - 1
           s == BeaconStep(acc, f)
<1>1. /\ f \in WrFrames /\ f.stamp[1] = x /\ f.time = t /\ t \in Nat /\ f.time + 1 = start + i
      /\ start + i \in Nat /\ t <= start + i
  BY DEF CaptureOk
<1>2. acc \in BeaconAccs /\ BeaconsOk(acc.h, x, t)
  BY DEF BeaconsAt
<1>3. acc.alarms \subseteq RealAlarms
  BY <1>2 DEF BeaconAccs
<1> HIDE DEF f, x, t
<1>4. CASE f.kind = "beacon"
  <2>1. /\ BeaconsOk(s.h, x, f.time + 1) /\ s.alarms \subseteq RealAlarms
        /\ s = [alarms |-> s.alarms, h |-> s.h]
    <3>1. t \in Nat /\ t <= f.time /\ f \in WrFrames /\ f.stamp[1] = x
      BY <1>1
    <3> QED BY ONLY <1>2, <1>3, <1>4, <3>1, BeaconStepOk
  <2>2. s.h \in [frames : Seq(WrFrames), newest : WrFrames]
    BY <2>1 DEF BeaconsOk
  <2> HIDE DEF s
  <2>3. s \in BeaconAccs
    BY ONLY <2>1, <2>2 DEF BeaconAccs
  <2>4. BeaconTurn(acc, f) = s
    BY <1>4 DEF BeaconTurn, s
  <2>5. s \in BeaconsAt(x, start + i)
    BY <1>1, <2>1, <2>3 DEF BeaconsAt
  <2> QED BY ONLY <2>4, <2>5 DEF f, x
<1>5. CASE f.kind # "beacon"
  <2>1. BeaconsOk(acc.h, x, start + i)
    BY <1>1, <1>2, LaterBeacons
  <2>2. acc \in BeaconsAt(x, start + i)
    BY <1>2, <2>1 DEF BeaconsAt
  <2>3. BeaconTurn(acc, f) = acc
    BY <1>5 DEF BeaconTurn
  <2> QED BY ONLY <2>2, <2>3 DEF f, x
<1> QED BY <1>4, <1>5

\* A frame of the capture leads the links on.
LEMMA TransactionTurnOk ==
  ASSUME NEW frames, NEW stamp, NEW start, CaptureOk(frames, stamp, start),
         NEW i \in 1..Len(frames),
         NEW acc \in LinksAt(StampAt(frames, stamp, i - 1), start + i - 1)
  PROVE  TransactionTurn(acc, frames[i]) \in LinksAt(StampAt(frames, stamp, i), start + i)
<1> DEFINE f == frames[i]
           before == StampAt(frames, stamp, i - 1)
           t == start + i - 1
           s == TransactionStep(acc, f)
<1>1. /\ f \in WrFrames /\ f.time = t /\ t \in Nat /\ f.time + 1 = start + i
      /\ start + i \in Nat /\ t <= start + i
  BY DEF CaptureOk
<1>2. f.kind # "none" /\ (f.kind # "reset" => f.stamp = before)
  BY DEF CaptureOk
<1>3. StampAt(frames, stamp, i) = f.stamp
  BY DEF StampAt
<1>4. acc \in LinkAccs /\ LinksOk(acc.links, before, t)
  BY DEF LinksAt
<1>5. acc.alarms \subseteq RealAlarms
  BY <1>4 DEF LinkAccs
<1>6. f.kind \in Kinds \cup {"beacon", "reset", "none"}
  BY <1>1 DEF WrFrames
<1> HIDE DEF f, before, t
<1>7. CASE f.kind # "beacon"
  <2>1. f.kind \in Kinds \cup {"reset"}
    BY <1>2, <1>6, <1>7
  <2>2. /\ LinksOk(s.links, f.stamp, f.time + 1) /\ s.alarms \subseteq RealAlarms
        /\ s = [alarms |-> s.alarms, links |-> s.links]
    <3>1. t \in Nat /\ t <= f.time /\ f \in WrFrames
      BY <1>1
    <3>2. f.kind # "reset" => f.stamp = before
      BY <1>2
    <3> QED BY ONLY <1>4, <1>5, <2>1, <3>1, <3>2, TransactionStepOk
  <2>3. s.links \in [Kinds -> [nonce : Nat, history : Seq(Exchanges)]]
    <3>1. \A k \in Kinds : s.links[k] \in [nonce : Nat, history : Seq(Exchanges)]
      BY <2>2 DEF LinksOk, LinkOk
    <3>2. s.links = [k \in Kinds |-> s.links[k]]
      BY DEF TransactionStep, LinksAfterReset, LinksWith
    <3> HIDE DEF s
    <3> QED BY ONLY <3>1, <3>2
  <2> HIDE DEF s
  <2>4. s \in LinkAccs
    BY ONLY <2>2, <2>3 DEF LinkAccs
  <2>5. TransactionTurn(acc, f) = s
    BY <1>7 DEF TransactionTurn, s
  <2>6. s \in LinksAt(f.stamp, start + i)
    BY <1>1, <2>2, <2>4 DEF LinksAt
  <2> QED BY ONLY <1>3, <2>5, <2>6 DEF f
<1>8. CASE f.kind = "beacon"
  <2>1. LinksOk(acc.links, before, start + i)
    BY <1>1, <1>4, LaterLinks
  <2>2. f.stamp = before
    BY <1>2, <1>8
  <2>3. acc \in LinksAt(f.stamp, start + i)
    BY <1>4, <2>1, <2>2 DEF LinksAt
  <2>4. TransactionTurn(acc, f) = acc
    BY <1>8 DEF TransactionTurn
  <2> QED BY ONLY <1>3, <2>3, <2>4 DEF f
<1> QED BY <1>7, <1>8

\* The beacons of a capture: in order, and what is reported is real.
LEMMA BeaconLoopOk ==
  ASSUME NEW frames, NEW stamp, NEW start, CaptureOk(frames, stamp, start),
         NEW from, BeaconsOk(from, stamp[1], start),
         from \in [frames : Seq(WrFrames), newest : WrFrames]
  PROVE  BeaconLoop(from, frames)
           \in BeaconsAt(stamp[1], start + Len(frames))
<1> DEFINE N == Len(frames)
           first == [alarms |-> {}, h |-> from]
           Accs == BeaconAccs
           step == [p \in (1..N) \X Accs |-> BeaconTurn(p[2], frames[p[1]])]
           At(i) == BeaconsAt(stamp[1], start + i)
           g == BeaconTurns(from, frames)
<1>1. N \in Nat /\ 0 \in 0..N /\ \A i \in 1..N : i \in 0..N /\ i # 0 /\ i - 1 \in 0..N
  BY DEF CaptureOk
<1>2. first \in At(0)
  <2>1. first.h = from /\ start + 0 = start
    BY DEF CaptureOk
  <2>2. first \in Accs
    BY DEF BeaconAccs
  <2> QED BY <2>1, <2>2 DEF BeaconsAt
<1>3. \A i \in 1..N : \A acc \in At(i - 1) : BeaconTurn(acc, frames[i]) \in At(i)
  <2> SUFFICES ASSUME NEW i \in 1..N, NEW acc \in At(i - 1)
               PROVE  BeaconTurn(acc, frames[i]) \in At(i)
    OBVIOUS
  <2>1. start + (i - 1) = start + i - 1
    BY DEF CaptureOk
  <2> QED BY <2>1, BeaconTurnOk
<1>4. \A i \in 0..N : At(i) \subseteq Accs
  BY DEF BeaconsAt
<1>5. \A i \in 1..N, acc \in Accs : step[<<i, acc>>] = BeaconTurn(acc, frames[i])
  OBVIOUS
<1>6. BeaconLoop(from, frames) = g[N]
  BY DEF BeaconLoop, BeaconTurns
<1> HIDE DEF N, step, Accs, At, first
<1>7. PICK f : Iterates(f, first, step, N)
  BY <1>1, IteratesExists
<1>8. f = [i \in 0..N |-> IF i = 0 THEN first ELSE step[<<i, f[i - 1]>>]]
  BY <1>7 DEF Iterates
<1>9. \A i \in 0..N : f[i] = IF i = 0 THEN first ELSE step[<<i, f[i - 1]>>]
  BY ONLY <1>8
<1> DEFINE S == {i \in 0..N : f[i] \in At(i)}
<1>10. 0 \in S
  BY <1>1, <1>2, <1>9
<1>11. \A i \in 1..N : i - 1 \in S => i \in S
  <2> SUFFICES ASSUME NEW i \in 1..N, i - 1 \in S PROVE i \in S
    OBVIOUS
  <2>1. f[i - 1] \in At(i - 1) /\ f[i - 1] \in Accs
    BY <1>1, <1>4
  <2>2. f[i] = step[<<i, f[i - 1]>>]
    BY <1>1, <1>9
  <2>3. f[i] = BeaconTurn(f[i - 1], frames[i])
    BY <1>5, <2>1, <2>2
  <2> QED BY <1>1, <1>3, <2>1, <2>3
<1> HIDE DEF S
<1>12. \A i \in 0..N : i \in S
  <2>1. N \in Nat
    BY <1>1
  <2> QED BY ONLY <1>10, <1>11, <2>1, UpTo
<1>13. \A i \in 0..N : f[i] = IF i = 0 THEN first ELSE BeaconTurn(f[i - 1], frames[i])
  <2> SUFFICES ASSUME NEW i \in 0..N, i # 0 PROVE f[i] = BeaconTurn(f[i - 1], frames[i])
    BY <1>9
  <2>1. i \in 1..N /\ i - 1 \in 0..N
    BY <1>1
  <2>2. f[i - 1] \in Accs
    BY <1>4, <1>12, <2>1 DEF S
  <2>3. f[i] = step[<<i, f[i - 1]>>]
    BY ONLY <1>9, i \in 0..N, i # 0
  <2> QED BY <1>5, <2>1, <2>2, <2>3
<1>14. f = [i \in 0..N |-> IF i = 0 THEN first ELSE BeaconTurn(f[i - 1], frames[i])]
  <2>1. f = [i \in 0..N |-> f[i]]
    BY ONLY <1>8
  <2> QED BY ONLY <1>13, <2>1
<1>15. g = [i \in 0..N |-> IF i = 0 THEN first ELSE BeaconTurn(g[i - 1], frames[i])]
  BY <1>14 DEF BeaconTurns, BeaconTurn, N, first
<1> HIDE DEF g
<1>16. \A i \in 0..N : g[i] = IF i = 0 THEN first ELSE BeaconTurn(g[i - 1], frames[i])
  BY ONLY <1>15
<1> DEFINE T == {i \in 0..N : g[i] \in At(i)}
<1>17. 0 \in T
  BY ONLY <1>1, <1>2, <1>16
<1>18. \A i \in 1..N : i - 1 \in T => i \in T
  BY ONLY <1>1, <1>3, <1>16
<1> HIDE DEF T
<1>19. N \in T
  <2>1. N \in Nat
    BY <1>1
  <2>2. \A i \in 0..N : i \in T
    BY ONLY <1>17, <1>18, <2>1, UpTo
  <2> QED BY <2>1, <2>2
<1>20. g[N] \in At(N)
  BY <1>19 DEF T
<1> QED BY ONLY <1>6, <1>20 DEF At, N

\* The other frames of a capture: the same of the links, since its last reset.
LEMMA TransactionLoopOk ==
  ASSUME NEW frames, NEW stamp, NEW start, CaptureOk(frames, stamp, start),
         NEW from, LinksOk(from, stamp, start),
         from \in [Kinds -> [nonce : Nat, history : Seq(Exchanges)]]
  PROVE  TransactionLoop(from, frames)
           \in LinksAt(StampAt(frames, stamp, Len(frames)), start + Len(frames))
<1> DEFINE N == Len(frames)
           first == [alarms |-> {}, links |-> from]
           Accs == LinkAccs
           step == [p \in (1..N) \X Accs |-> TransactionTurn(p[2], frames[p[1]])]
           At(i) == LinksAt(StampAt(frames, stamp, i), start + i)
           g == TransactionTurns(from, frames)
<1>1. N \in Nat /\ 0 \in 0..N /\ \A i \in 1..N : i \in 0..N /\ i # 0 /\ i - 1 \in 0..N
  BY DEF CaptureOk
<1>2. first \in At(0)
  <2>1. first.links = from /\ start + 0 = start
    BY DEF CaptureOk
  <2>2. first \in Accs
    BY DEF LinkAccs
  <2> QED BY <2>1, <2>2 DEF LinksAt, StampAt
<1>3. \A i \in 1..N : \A acc \in At(i - 1) : TransactionTurn(acc, frames[i]) \in At(i)
  <2> SUFFICES ASSUME NEW i \in 1..N, NEW acc \in At(i - 1)
               PROVE  TransactionTurn(acc, frames[i]) \in At(i)
    OBVIOUS
  <2>1. start + (i - 1) = start + i - 1
    BY DEF CaptureOk
  <2> QED BY <2>1, TransactionTurnOk
<1>4. \A i \in 0..N : At(i) \subseteq Accs
  BY DEF LinksAt
<1>5. \A i \in 1..N, acc \in Accs : step[<<i, acc>>] = TransactionTurn(acc, frames[i])
  OBVIOUS
<1>6. TransactionLoop(from, frames) = g[N]
  BY DEF TransactionLoop, TransactionTurns
<1> HIDE DEF N, step, Accs, At, first
<1>7. PICK f : Iterates(f, first, step, N)
  BY <1>1, IteratesExists
<1>8. f = [i \in 0..N |-> IF i = 0 THEN first ELSE step[<<i, f[i - 1]>>]]
  BY <1>7 DEF Iterates
<1>9. \A i \in 0..N : f[i] = IF i = 0 THEN first ELSE step[<<i, f[i - 1]>>]
  BY ONLY <1>8
<1> DEFINE S == {i \in 0..N : f[i] \in At(i)}
<1>10. 0 \in S
  BY <1>1, <1>2, <1>9
<1>11. \A i \in 1..N : i - 1 \in S => i \in S
  <2> SUFFICES ASSUME NEW i \in 1..N, i - 1 \in S PROVE i \in S
    OBVIOUS
  <2>1. f[i - 1] \in At(i - 1) /\ f[i - 1] \in Accs
    BY <1>1, <1>4
  <2>2. f[i] = step[<<i, f[i - 1]>>]
    BY <1>1, <1>9
  <2>3. f[i] = TransactionTurn(f[i - 1], frames[i])
    BY <1>5, <2>1, <2>2
  <2> QED BY <1>1, <1>3, <2>1, <2>3
<1> HIDE DEF S
<1>12. \A i \in 0..N : i \in S
  <2>1. N \in Nat
    BY <1>1
  <2> QED BY ONLY <1>10, <1>11, <2>1, UpTo
<1>13. \A i \in 0..N : f[i] = IF i = 0 THEN first ELSE TransactionTurn(f[i - 1], frames[i])
  <2> SUFFICES ASSUME NEW i \in 0..N, i # 0 PROVE f[i] = TransactionTurn(f[i - 1], frames[i])
    BY <1>9
  <2>1. i \in 1..N /\ i - 1 \in 0..N
    BY <1>1
  <2>2. f[i - 1] \in Accs
    BY <1>4, <1>12, <2>1 DEF S
  <2>3. f[i] = step[<<i, f[i - 1]>>]
    BY ONLY <1>9, i \in 0..N, i # 0
  <2> QED BY <1>5, <2>1, <2>2, <2>3
<1>14. f = [i \in 0..N |-> IF i = 0 THEN first ELSE TransactionTurn(f[i - 1], frames[i])]
  <2>1. f = [i \in 0..N |-> f[i]]
    BY ONLY <1>8
  <2> QED BY ONLY <1>13, <2>1
<1>15. g = [i \in 0..N |-> IF i = 0 THEN first ELSE TransactionTurn(g[i - 1], frames[i])]
  BY <1>14 DEF TransactionTurns, TransactionTurn, N, first
<1> HIDE DEF g
<1>16. \A i \in 0..N : g[i] = IF i = 0 THEN first ELSE TransactionTurn(g[i - 1], frames[i])
  BY ONLY <1>15
<1> DEFINE T == {i \in 0..N : g[i] \in At(i)}
<1>17. 0 \in T
  BY ONLY <1>1, <1>2, <1>16
<1>18. \A i \in 1..N : i - 1 \in T => i \in T
  BY ONLY <1>1, <1>3, <1>16
<1> HIDE DEF T
<1>19. N \in T
  <2>1. N \in Nat
    BY <1>1
  <2>2. \A i \in 0..N : i \in T
    BY ONLY <1>17, <1>18, <2>1, UpTo
  <2> QED BY <2>1, <2>2
<1>20. g[N] \in At(N)
  BY <1>19 DEF T
<1> QED BY ONLY <1>6, <1>20 DEF At, N

-----------------------------------------------------------------------------
(* The profiles, through captures, losses and sessions *)

WrProfileSet == [session : Nat, end : Nat, beacons : [frames : Seq(WrFrames), newest : WrFrames],
                 links : [Kinds -> [nonce : Nat, history : Seq(Exchanges)]]]

\* What is remembered of a channel is of one stretch, since one reset.
ProfileOk(p, stamp, t) == BeaconsOk(p.beacons, stamp[1], t) /\ LinksOk(p.links, stamp, t)

\* Between the captures of a channel: a profile of this session is of the stretch that
\* the next capture goes on with, if the pause is short.
Settled(c) ==
  wrProfiles[c].session = wrSession =>
    /\ wrProfiles[c].end = wrEnds[c]
    /\ ProfileOk(wrProfiles[c], <<wrContext[c], wrResets[c]>>, wrEnds[c])

\* Nothing of the capture being delivered was lost so far.
Whole == wrAir.healthy /\ ~wrLost /\ Len(wrReceived) = wrAir.next - 1

\* Then it goes on with the stretch of its profile, and ends in that of its channel.
GoesOn(stamp) ==
  /\ CaptureOk(wrAir.frames, stamp, wrAir.start)
  /\ <<wrContext[wrAir.channel], wrResets[wrAir.channel]>>
       = StampAt(wrAir.frames, stamp, Len(wrAir.frames))
  /\ wrAir.channel \in DOMAIN wrProfiles /\ Continues(wrProfiles[wrAir.channel], wrAir.start) =>
       ProfileOk(wrProfiles[wrAir.channel], stamp, wrAir.start)

Airs == [channel : WrChannels, start : Nat \ {0}, frames : Seq(WrFrames), next : Nat,
         healthy : BOOLEAN]

OnAir ==
  /\ wrAir \in Airs
  /\ wrAir.next \in 1..(Len(wrAir.frames) + 1) /\ Len(wrAir.frames) <= WrSpan
  /\ wrEnds[wrAir.channel] = wrAir.start + WrSpan
  /\ wrReceived \in Seq(WrFrames) /\ Len(wrReceived) <= wrAir.next - 1
  /\ Whole =>
       /\ \A i \in 1..Len(wrReceived) : wrReceived[i] = wrAir.frames[i]
       /\ \E stamp \in Nat \X Nat : GoesOn(stamp)

Refused == [NoAir EXCEPT !.channel = "refused"]

WrTyped ==
  /\ wrTraffic \in WrTraffic /\ wrNow \in Nat \ {0} /\ wrSession \in Nat \ {0}
  /\ wrContext \in [WrChannels -> Nat] /\ wrResets \in [WrChannels -> Nat]
  /\ wrEnds \in [WrChannels -> Nat] /\ \A c \in WrChannels : wrEnds[c] <= wrNow
  /\ DOMAIN wrProfiles \subseteq WrChannels
  /\ \A c \in DOMAIN wrProfiles :
       wrProfiles[c] \in WrProfileSet /\ wrProfiles[c].session <= wrSession
  /\ wrAlarms \subseteq RealAlarms /\ wrLost \in BOOLEAN

AirOk ==
  \/ wrAir = NoAir /\ wrReceived = <<>> /\ \A c \in DOMAIN wrProfiles : Settled(c)
  \/ wrAir = Refused /\ wrOwed
  \/ OnAir /\ \A c \in DOMAIN wrProfiles : c # wrAir.channel => Settled(c)

WrInv == WrTyped /\ AirOk

\* The three shapes of what is on the air.
LEMMA AirShapes ==
  /\ NoAir.start = 0 /\ NoAir.channel = "none" /\ Refused.start = 0
  /\ Refused.channel = "refused" /\ Refused # NoAir
  /\ OnAir => wrAir.start > 0 /\ wrAir # NoAir /\ wrAir # Refused
<1>1. NoAir.start = 0 /\ NoAir.channel = "none"
  BY DEF NoAir
<1>2. Refused.start = 0 /\ Refused.channel = "refused"
  BY DEF NoAir, Refused
<1>3. Refused # NoAir
  BY <1>1, <1>2
<1>4. ASSUME OnAir PROVE wrAir.start > 0
  BY <1>4 DEF OnAir, Airs
<1> QED BY <1>1, <1>2, <1>3, <1>4

\* A profile in order before t is so before a later time.
LEMMA LaterProfile ==
  ASSUME NEW p, NEW stamp, NEW t \in Nat, NEW u \in Nat, t <= u, ProfileOk(p, stamp, t)
  PROVE  ProfileOk(p, stamp, u)
BY LaterBeacons, LaterLinks DEF ProfileOk

\* No profile yet.
LEMMA NoProfileOk ==
  /\ NoProfile \in WrProfileSet
  /\ \A stamp, t : ProfileOk(NoProfile, stamp, t)
<1>1. <<>> \in Seq(WrFrames) /\ <<>> \in Seq(Exchanges)
  OBVIOUS
<1>2. NoBeacons \in [frames : Seq(WrFrames), newest : WrFrames]
  BY <1>1, NoFrameTyped DEF NoBeacons
<1>3. [k \in Kinds |-> NoLink] \in [Kinds -> [nonce : Nat, history : Seq(Exchanges)]]
  BY <1>1 DEF NoLink
<1>4. NoProfile \in WrProfileSet
  BY <1>2, <1>3 DEF NoProfile, WrProfileSet
<1>5. NoProfile.beacons = NoBeacons /\ NoProfile.links = [k \in Kinds |-> NoLink]
  BY DEF NoProfile
<1> QED BY <1>4, <1>5, NoBeaconsOk, NoLinksOk DEF ProfileOk

\* At the beginning.
LEMMA WrInitOk == WrInit => WrInv
<1> SUFFICES ASSUME WrInit PROVE WrInv
  OBVIOUS
<1>1. /\ wrTraffic \in WrTraffic /\ wrNow = 1 /\ wrSession = 1 /\ wrAir = NoAir
      /\ wrReceived = <<>> /\ wrLost = FALSE /\ wrProfiles = [c \in {} |-> NoProfile]
      /\ wrContext = [c \in WrChannels |-> 0] /\ wrEnds = [c \in WrChannels |-> 0]
      /\ wrResets = [c \in WrChannels |-> 0] /\ wrAlarms = {}
  BY DEF WrInit
<1>2. DOMAIN wrProfiles = {}
  BY <1>1
<1>3. \A c \in WrChannels : wrEnds[c] <= wrNow
  BY <1>1
<1>4. wrNow \in Nat \ {0} /\ wrSession \in Nat \ {0} /\ wrAlarms \subseteq RealAlarms
  BY ONLY <1>1
<1>8. wrLost \in BOOLEAN
  BY ONLY <1>1
<1>5. /\ wrContext \in [WrChannels -> Nat] /\ wrResets \in [WrChannels -> Nat]
      /\ wrEnds \in [WrChannels -> Nat]
  BY ONLY <1>1
<1>6. /\ DOMAIN wrProfiles \subseteq WrChannels
      /\ \A c \in DOMAIN wrProfiles :
           wrProfiles[c] \in WrProfileSet /\ wrProfiles[c].session <= wrSession
  BY ONLY <1>2
<1>7. WrTyped
  BY ONLY <1>1, <1>3, <1>4, <1>5, <1>6, <1>8 DEF WrTyped
<1> QED BY ONLY <1>1, <1>2, <1>7 DEF WrInv, AirOk

\* The deauthentications up to each frame of a capture, of all there were.
ResetsUpTo(content, before) ==
  [i \in 0..Len(content) |-> before + Cardinality({j \in 1..i : content[j].kind = "reset"})]

RisesAtResets(content, r) ==
  \A i \in 1..Len(content) : content[i].kind # "reset" => r[i] = r[i - 1]

\* Its frames, as the radio makes them.
Stamped(content, start, context, r) ==
  [i \in DOMAIN content |->
     [content[i] EXCEPT !.time = start + i - 1, !.stamp = <<context, r[i]>>]]

\* A capture as the radio makes it: the frames carry its stretch and the resets so far.
LEMMA CaptureIsOk ==
  ASSUME NEW traffic \in WrTraffic, NEW content \in traffic, NEW start \in Nat \ {0},
         NEW context \in Nat, NEW r \in [0..Len(content) -> Nat],
         RisesAtResets(content, r),
         NEW frames, frames = Stamped(content, start, context, r)
  PROVE  /\ CaptureOk(frames, <<context, r[0]>>, start)
         /\ Len(frames) = Len(content) /\ Len(frames) <= WrSpan
         /\ StampAt(frames, <<context, r[0]>>, Len(frames)) = <<context, r[Len(content)]>>
<1> DEFINE n == Len(content)
           stamp == <<context, r[0]>>
<1>1. content \in Seq(WrContent) /\ n <= WrSpan
  BY WifiReplayAssumption DEF WifiReplayAssumption
<1>2. n \in Nat /\ DOMAIN content = 1..n /\ \A i \in 1..n : content[i] \in WrContent
  BY ONLY <1>1
<1>3. \A i \in 1..n : frames[i] = [content[i] EXCEPT !.time = start + i - 1,
                                                     !.stamp = <<context, r[i]>>]
  BY ONLY <1>2, frames = Stamped(content, start, context, r) DEF Stamped
<1>4. \A i \in 1..n : start + i - 1 \in Nat /\ i \in 0..n /\ i - 1 \in 0..n
  <2> HIDE DEF n
  <2> QED BY ONLY <1>2, start \in Nat \ {0}
<1>5. \A i \in 1..n : <<context, r[i]>> \in Nat \X Nat
  <2> HIDE DEF n
  <2>1. r \in [0..n -> Nat]
    BY DEF n
  <2> QED BY ONLY <1>4, <2>1, context \in Nat
<1>6. ASSUME NEW i \in 1..n
      PROVE  /\ frames[i] \in WrFrames /\ frames[i].kind = content[i].kind
             /\ frames[i].kind # "none" /\ frames[i].time = start + i - 1
             /\ frames[i].stamp = <<context, r[i]>>
  <2> DEFINE d == content[i]
             time == start + i - 1
             s == <<context, r[i]>>
  <2>1. d \in WrContent /\ time \in Nat /\ s \in Nat \X Nat
    BY <1>2, <1>4, <1>5
  <2>2. frames[i] = [d EXCEPT !.time = time, !.stamp = s]
    BY <1>3
  <2> HIDE DEF d, time, s
  <2>3. /\ frames[i] \in WrContent /\ frames[i].kind = d.kind /\ frames[i].time = time
        /\ frames[i].stamp = s
    BY ONLY <2>1, <2>2 DEF WrContent
  <2>4. frames[i] \in WrFrames
    BY ONLY <2>3 DEF WrContent, WrFrames
  <2>5. frames[i].kind # "none"
    BY ONLY <2>3 DEF WrContent, Kinds
  <2> QED BY <2>3, <2>4, <2>5 DEF d, time, s
<1>7. frames \in Seq(WrFrames) /\ Len(frames) = n
  <2>1. \A i \in 1..n : frames[i] \in WrFrames
    BY ONLY <1>6
  <2>2. frames = [i \in 1..n |-> frames[i]]
    BY ONLY <1>2, frames = Stamped(content, start, context, r) DEF Stamped
  <2> HIDE DEF n
  <2>3. frames \in [1..n -> WrFrames] /\ DOMAIN frames = 1..n
    BY ONLY <2>1, <2>2
  <2> QED BY ONLY <1>2, <2>3
<1>8. ASSUME NEW i \in 1..n
      PROVE  /\ frames[i].stamp[1] = stamp[1]
             /\ frames[i].kind # "reset" => frames[i].stamp = StampAt(frames, stamp, i - 1)
  <2>1. frames[i].kind # "reset" => r[i] = r[i - 1]
    <3>1. content[i].kind # "reset" => r[i] = r[i - 1]
      BY DEF RisesAtResets
    <3> QED BY ONLY <1>6, <3>1, i \in 1..n
  <2>2. frames[i].stamp = <<context, r[i]>>
    BY ONLY <1>6, i \in 1..n
  <2>3. StampAt(frames, stamp, i - 1) = <<context, r[i - 1]>>
    <3> HIDE DEF n
    <3>1. CASE i = 1
      <4>1. i - 1 = 0
        BY ONLY <3>1
      <4> QED BY ONLY <4>1 DEF StampAt, stamp
    <3>2. CASE i # 1
      <4>1. i - 1 \in 1..n /\ i - 1 # 0
        BY ONLY <1>2, <3>2, i \in 1..n
      <4>2. frames[i - 1].stamp = <<context, r[i - 1]>>
        BY ONLY <1>6, <4>1
      <4> QED BY ONLY <4>1, <4>2 DEF StampAt
    <3> QED BY ONLY <3>1, <3>2
  <2>4. frames[i].stamp[1] = context /\ stamp[1] = context
    BY ONLY <2>2 DEF stamp
  <2>5. frames[i].kind # "reset" => frames[i].stamp = StampAt(frames, stamp, i - 1)
    BY ONLY <2>1, <2>2, <2>3
  <2> QED BY <2>4, <2>5
<1>9. StampAt(frames, stamp, n) = <<context, r[n]>>
  <2>1. CASE n = 0
    BY ONLY <2>1 DEF StampAt, stamp
  <2>2. CASE n # 0
    <3>1. n \in 1..n
      <4> HIDE DEF n
      <4> QED BY ONLY <1>2, <2>2
    <3>2. frames[n].stamp = <<context, r[n]>>
      BY ONLY <1>6, <3>1
    <3> QED BY ONLY <2>2, <3>2 DEF StampAt
  <2> QED BY ONLY <2>1, <2>2
<1>10. start \in Nat
  OBVIOUS
<1> HIDE DEF n, stamp
<1>11. CaptureOk(frames, stamp, start)
  <2>1. \A i \in 1..n : frames[i].kind # "none" /\ frames[i].time = start + i - 1
    BY ONLY <1>6
  <2>2. \A i \in 1..n :
          /\ frames[i].stamp[1] = stamp[1]
          /\ frames[i].kind # "reset" => frames[i].stamp = StampAt(frames, stamp, i - 1)
    BY ONLY <1>8
  <2> QED BY ONLY <1>7, <1>10, <2>1, <2>2 DEF CaptureOk
<1>12. Len(frames) <= WrSpan
  BY ONLY <1>1, <1>7 DEF n
<1> QED BY ONLY <1>7, <1>9, <1>11, <1>12 DEF n, stamp

\* The next frame's turn.
LEMMA AirNext ==
  ASSUME NEW a \in Airs, NEW n \in Nat, NEW b, b = [a EXCEPT !.next = n]
  PROVE  /\ b \in Airs /\ b.channel = a.channel /\ b.start = a.start /\ b.frames = a.frames
         /\ b.next = n /\ b.healthy = a.healthy
<1>1. /\ b.channel = a.channel /\ b.start = a.start /\ b.frames = a.frames
      /\ b.next = n /\ b.healthy = a.healthy
  BY DEF Airs
<1>2. b \in Airs
  BY DEF Airs
<1> QED BY ONLY <1>1, <1>2

\* What is of a capture on the air.
LEMMA AirTyped ==
  ASSUME NEW a \in Airs
  PROVE  /\ a.channel \in WrChannels /\ a.start \in Nat /\ a.start > 0
         /\ a.frames \in Seq(WrFrames) /\ a.next \in Nat /\ a.healthy \in BOOLEAN
BY DEF Airs

\* A new session: no profile is of it yet.
LEMMA ReconnectOk == WrInv /\ WrReconnect => WrInv'
<1> SUFFICES ASSUME WrInv, WrReconnect PROVE WrInv'
  OBVIOUS
<1>1. WrTyped /\ AirOk
  BY DEF WrInv
<1>2. /\ wrAir = NoAir /\ wrSession' = wrSession + 1
      /\ wrContext' = [c \in WrChannels |-> wrContext[c] + 1]
      /\ wrTraffic' = wrTraffic /\ wrNow' = wrNow /\ wrEnds' = wrEnds /\ wrResets' = wrResets
      /\ wrAir' = wrAir /\ wrReceived' = wrReceived /\ wrLost' = wrLost
      /\ wrProfiles' = wrProfiles /\ wrAlarms' = wrAlarms
  BY DEF WrReconnect
<1>3. wrReceived = <<>>
  BY ONLY <1>1, <1>2, AirShapes DEF AirOk
<1>4. wrSession \in Nat \ {0} /\ wrSession' \in Nat \ {0} /\ wrSession < wrSession'
  BY ONLY <1>1, <1>2 DEF WrTyped
<1>5. \A c \in DOMAIN wrProfiles : wrProfiles[c] \in WrProfileSet
  BY ONLY <1>1 DEF WrTyped
<1>6. \A c \in DOMAIN wrProfiles : wrProfiles[c].session < wrSession'
  <2> TAKE c \in DOMAIN wrProfiles
  <2>1. wrProfiles[c].session <= wrSession
    BY ONLY <1>1, c \in DOMAIN wrProfiles DEF WrTyped
  <2>2. wrProfiles[c].session \in Nat
    BY ONLY <1>5, c \in DOMAIN wrProfiles DEF WrProfileSet
  <2> QED BY ONLY <1>4, <2>1, <2>2
<1>7. \A c \in DOMAIN wrProfiles :
        wrProfiles[c].session <= wrSession' /\ wrProfiles[c].session # wrSession'
  <2> TAKE c \in DOMAIN wrProfiles
  <2>2. wrProfiles[c].session \in Nat
    BY ONLY <1>5, c \in DOMAIN wrProfiles DEF WrProfileSet
  <2>3. wrProfiles[c].session < wrSession'
    BY ONLY <1>6, c \in DOMAIN wrProfiles
  <2> QED BY ONLY <1>4, <2>2, <2>3
<1>8. wrContext' \in [WrChannels -> Nat]
  <2>1. wrContext \in [WrChannels -> Nat]
    BY ONLY <1>1 DEF WrTyped
  <2> QED BY ONLY <1>2, <2>1
<1>9. WrTyped'
  BY ONLY <1>1, <1>2, <1>4, <1>5, <1>7, <1>8 DEF WrTyped
<1>10. \A c \in DOMAIN wrProfiles' : Settled(c)'
  BY ONLY <1>2, <1>7 DEF Settled
<1> QED BY ONLY <1>2, <1>3, <1>9, <1>10 DEF WrInv, AirOk

\* The notice of a loss: nothing is remembered.
LEMMA LossNoticeOk == WrInv /\ WrLossNotice => WrInv'
<1> SUFFICES ASSUME WrInv, WrLossNotice PROVE WrInv'
  OBVIOUS
<1>1. WrTyped /\ AirOk
  BY DEF WrInv
<1>2. /\ wrReceived' = <<>> /\ wrLost' = TRUE /\ wrProfiles' = [c \in {} |-> NoProfile]
      /\ wrAir' = (IF wrAir.channel = "refused" THEN NoAir ELSE wrAir)
      /\ wrTraffic' = wrTraffic /\ wrNow' = wrNow /\ wrEnds' = wrEnds /\ wrResets' = wrResets
      /\ wrContext' = wrContext /\ wrSession' = wrSession /\ wrAlarms' = wrAlarms
  BY DEF WrLossNotice, WrInterrupt, wrRadio
<1>3. DOMAIN wrProfiles' = {}
  BY ONLY <1>2
<1>4. wrLost' \in BOOLEAN
  BY ONLY <1>2
<1>5. WrTyped'
  <2>1. /\ DOMAIN wrProfiles' \subseteq WrChannels
        /\ \A c \in DOMAIN wrProfiles' :
             wrProfiles'[c] \in WrProfileSet /\ wrProfiles'[c].session <= wrSession'
    BY ONLY <1>3
  <2> QED BY ONLY <1>1, <1>2, <1>4, <2>1 DEF WrTyped
<1>6. \A c \in DOMAIN wrProfiles' : Settled(c)'
  BY ONLY <1>3
<1>7. CASE wrAir = NoAir \/ wrAir = Refused
  <2>1. wrAir' = NoAir
    BY ONLY <1>2, <1>7, AirShapes
  <2> QED BY ONLY <1>2, <1>5, <1>6, <2>1 DEF WrInv, AirOk
<1>8. CASE OnAir /\ ~(wrAir = NoAir \/ wrAir = Refused)
  <2>1. wrAir.channel \in WrChannels
    BY ONLY <1>8, AirTyped DEF OnAir
  <2>2. CASE wrAir.channel = "refused"
    <3>1. wrAir' = NoAir
      BY ONLY <1>2, <2>2
    <3> QED BY ONLY <1>2, <1>5, <1>6, <3>1 DEF WrInv, AirOk
  <2>3. CASE wrAir.channel # "refused"
    <3>1. wrAir' = wrAir
      BY ONLY <1>2, <2>3
    <3>2. ~Whole'
      BY ONLY <1>2 DEF Whole
    <3>3. wrReceived' \in Seq(WrFrames) /\ Len(wrReceived') = 0
      BY ONLY <1>2
    <3>4. wrAir.next \in 1..(Len(wrAir.frames) + 1) /\ wrAir.frames \in Seq(WrFrames)
      BY ONLY <1>8, AirTyped DEF OnAir
    <3>5. Len(wrReceived') <= wrAir.next - 1
      BY ONLY <3>3, <3>4
    <3>6. OnAir'
      BY ONLY <1>2, <1>8, <3>1, <3>2, <3>3, <3>5 DEF OnAir
    <3> QED BY ONLY <1>3, <1>5, <3>6 DEF WrInv, AirOk
  <2> QED BY ONLY <2>2, <2>3
<1> QED BY ONLY <1>1, <1>7, <1>8 DEF AirOk

\* The record of a capture refused: the notice is owed.
LEMMA MissRecordOk == WrInv /\ WrMissRecord => WrInv'
<1> SUFFICES ASSUME WrInv, WrMissRecord PROVE WrInv'
  OBVIOUS
<1>1. WrTyped /\ AirOk
  BY DEF WrInv
<1>2. /\ wrAir.start > 0 /\ wrAir' = Refused /\ wrOwed' = TRUE
      /\ wrContext' = [wrContext EXCEPT ![wrAir.channel] = @ + 1]
      /\ wrTraffic' = wrTraffic /\ wrNow' = wrNow /\ wrEnds' = wrEnds /\ wrResets' = wrResets
      /\ wrSession' = wrSession /\ wrLost' = wrLost /\ wrProfiles' = wrProfiles
      /\ wrAlarms' = wrAlarms
  BY DEF WrMissRecord, Delivering, wrRadio, Refused
<1>3. OnAir
  BY ONLY <1>1, <1>2, AirShapes DEF AirOk
<1>4. wrAir.channel \in WrChannels
  BY ONLY <1>3, AirTyped DEF OnAir
<1>5. wrContext' \in [WrChannels -> Nat]
  <2>1. wrContext \in [WrChannels -> Nat]
    BY ONLY <1>1 DEF WrTyped
  <2> QED BY ONLY <1>2, <1>4, <2>1
<1>6. WrTyped'
  BY ONLY <1>1, <1>2, <1>5 DEF WrTyped
<1> QED BY ONLY <1>2, <1>6 DEF WrInv, AirOk

\* A frame refused or not accepted: the capture is not whole any more.
LEMMA MissFrameOk == WrInv /\ WrMissFrame => WrInv'
<1> SUFFICES ASSUME WrInv, WrMissFrame PROVE WrInv'
  OBVIOUS
<1>1. WrTyped /\ AirOk
  BY DEF WrInv
<1>2. /\ wrAir.start > 0 /\ wrAir.next <= Len(wrAir.frames)
      /\ wrAir' = [wrAir EXCEPT !.next = wrAir.next + 1]
      /\ wrContext' = [wrContext EXCEPT ![wrAir.channel] = @ + 1]
      /\ wrTraffic' = wrTraffic /\ wrNow' = wrNow /\ wrEnds' = wrEnds /\ wrResets' = wrResets
      /\ wrSession' = wrSession /\ wrLost' = wrLost /\ wrProfiles' = wrProfiles
      /\ wrAlarms' = wrAlarms /\ wrReceived' = wrReceived
  BY DEF WrMissFrame, Delivering, wrRadio
<1>3. OnAir /\ \A c \in DOMAIN wrProfiles : c # wrAir.channel => Settled(c)
  BY ONLY <1>1, <1>2, AirShapes DEF AirOk
<1>4. /\ wrAir \in Airs
      /\ wrAir.next \in 1..(Len(wrAir.frames) + 1) /\ Len(wrAir.frames) <= WrSpan
      /\ wrEnds[wrAir.channel] = wrAir.start + WrSpan
      /\ wrReceived \in Seq(WrFrames) /\ Len(wrReceived) <= wrAir.next - 1
  BY ONLY <1>3 DEF OnAir
<1>5. /\ wrContext' \in [WrChannels -> Nat]
      /\ \A c \in WrChannels : c # wrAir.channel => wrContext'[c] = wrContext[c]
  <2>1. wrContext \in [WrChannels -> Nat] /\ wrAir.channel \in WrChannels
    BY ONLY <1>1, <1>4, AirTyped DEF WrTyped
  <2>2. wrContext' = [wrContext EXCEPT ![wrAir.channel] = @ + 1]
    BY ONLY <1>2
  <2> QED BY ONLY <2>1, <2>2
<1>6. WrTyped'
  BY ONLY <1>1, <1>2, <1>5 DEF WrTyped
<1>7. /\ wrAir'.channel = wrAir.channel /\ wrAir'.start = wrAir.start
      /\ wrAir'.frames = wrAir.frames /\ wrAir'.next = wrAir.next + 1
      /\ wrAir'.healthy = wrAir.healthy /\ wrAir' \in Airs
  <2>1. wrAir.next + 1 \in Nat
    BY ONLY <1>4, AirTyped
  <2> QED BY ONLY <1>2, <1>4, <2>1, AirNext
<1>8. Len(wrReceived) \in Nat /\ Len(wrAir.frames) \in Nat
  BY ONLY <1>4, AirTyped
<1>9. /\ wrAir.next + 1 \in 1..(Len(wrAir.frames) + 1)
      /\ Len(wrReceived) <= wrAir.next + 1 - 1 /\ Len(wrReceived) # wrAir.next + 1 - 1
  BY ONLY <1>2, <1>4, <1>8
<1>10. ~Whole'
  <2>1. Len(wrReceived) # wrAir'.next - 1
    BY ONLY <1>4, <1>7, <1>8, <1>9
  <2> QED BY ONLY <1>2, <2>1 DEF Whole
<1>11. OnAir'
  BY ONLY <1>2, <1>4, <1>7, <1>9, <1>10 DEF OnAir
<1>12. DOMAIN wrProfiles \subseteq WrChannels
  BY ONLY <1>1 DEF WrTyped
<1>13. \A c \in DOMAIN wrProfiles' : c # wrAir'.channel => Settled(c)'
  BY ONLY <1>2, <1>3, <1>5, <1>7, <1>12 DEF Settled
<1> QED BY ONLY <1>6, <1>11, <1>13 DEF WrInv, AirOk

\* A frame noted: the same of the capture.
LEMMA NoteFrameOk == WrInv /\ WrNoteFrame => WrInv'
<1> SUFFICES ASSUME WrInv, WrNoteFrame PROVE WrInv'
  OBVIOUS
<1>1. WrTyped /\ AirOk
  BY DEF WrInv
<1>2. /\ wrAir.start > 0 /\ wrAir.next <= Len(wrAir.frames)
      /\ wrAir' = [wrAir EXCEPT !.next = wrAir.next + 1]
      /\ wrReceived' = Append(wrReceived, wrAir.frames[wrAir.next])
      /\ wrTraffic' = wrTraffic /\ wrNow' = wrNow /\ wrEnds' = wrEnds /\ wrResets' = wrResets
      /\ wrSession' = wrSession /\ wrLost' = wrLost /\ wrProfiles' = wrProfiles
      /\ wrAlarms' = wrAlarms /\ wrContext' = wrContext
  BY DEF WrNoteFrame, Delivering, wrRadio
<1>3. OnAir /\ \A c \in DOMAIN wrProfiles : c # wrAir.channel => Settled(c)
  BY ONLY <1>1, <1>2, AirShapes DEF AirOk
<1>4. /\ wrAir \in Airs
      /\ wrAir.next \in 1..(Len(wrAir.frames) + 1) /\ Len(wrAir.frames) <= WrSpan
      /\ wrEnds[wrAir.channel] = wrAir.start + WrSpan
      /\ wrReceived \in Seq(WrFrames) /\ Len(wrReceived) <= wrAir.next - 1
  BY ONLY <1>3 DEF OnAir
<1>5. WrTyped'
  BY ONLY <1>1, <1>2 DEF WrTyped
<1>6. /\ wrAir'.channel = wrAir.channel /\ wrAir'.start = wrAir.start
      /\ wrAir'.frames = wrAir.frames /\ wrAir'.next = wrAir.next + 1
      /\ wrAir'.healthy = wrAir.healthy /\ wrAir' \in Airs
  <2>1. wrAir.next + 1 \in Nat
    BY ONLY <1>4, AirTyped
  <2> QED BY ONLY <1>2, <1>4, <2>1, AirNext
<1>7. /\ Len(wrReceived) \in Nat /\ Len(wrAir.frames) \in Nat
      /\ wrAir.next \in 1..Len(wrAir.frames) /\ wrAir.frames[wrAir.next] \in WrFrames
  BY ONLY <1>2, <1>4, AirTyped
<1>8. /\ wrReceived' \in Seq(WrFrames) /\ Len(wrReceived') = Len(wrReceived) + 1
      /\ \A i \in 1..Len(wrReceived) : wrReceived'[i] = wrReceived[i]
      /\ wrReceived'[Len(wrReceived) + 1] = wrAir.frames[wrAir.next]
  BY ONLY <1>2, <1>4, <1>7
<1>9. /\ wrAir.next + 1 \in 1..(Len(wrAir.frames) + 1)
      /\ Len(wrReceived) + 1 <= wrAir.next + 1 - 1
      /\ Len(wrReceived) + 1 = wrAir.next + 1 - 1 => Len(wrReceived) = wrAir.next - 1
  BY ONLY <1>4, <1>7
<1>10. Whole' => Whole /\ Len(wrReceived) = wrAir.next - 1
  <2>1. Len(wrReceived') = wrAir'.next - 1 => Len(wrReceived) = wrAir.next - 1
    BY ONLY <1>6, <1>7, <1>8
  <2> QED BY ONLY <1>2, <1>6, <2>1 DEF Whole
<1>11. ASSUME Whole'
       PROVE  /\ \A i \in 1..Len(wrReceived') : wrReceived'[i] = wrAir'.frames[i]
              /\ \E stamp \in Nat \X Nat : GoesOn(stamp)'
  <2>1. Whole /\ Len(wrReceived) = wrAir.next - 1
    BY ONLY <1>10, <1>11
  <2>2. /\ \A i \in 1..Len(wrReceived) : wrReceived[i] = wrAir.frames[i]
        /\ \E stamp \in Nat \X Nat : GoesOn(stamp)
    BY ONLY <1>3, <2>1 DEF OnAir
  <2>3. Len(wrReceived) + 1 = wrAir.next
    BY ONLY <1>7, <2>1
  <2>4. \A i \in 1..Len(wrReceived') : wrReceived'[i] = wrAir'.frames[i]
    <3> TAKE i \in 1..Len(wrReceived')
    <3>1. CASE i = Len(wrReceived) + 1
      BY ONLY <1>6, <1>8, <2>3, <3>1
    <3>2. CASE i # Len(wrReceived) + 1
      <4>1. i \in 1..Len(wrReceived)
        BY ONLY <1>7, <1>8, <3>2, i \in 1..Len(wrReceived')
      <4> QED BY ONLY <1>6, <1>8, <2>2, <4>1
    <3> QED BY ONLY <3>1, <3>2
  <2>5. PICK stamp \in Nat \X Nat : GoesOn(stamp)
    BY ONLY <2>2
  <2>6. GoesOn(stamp)'
    BY ONLY <1>2, <1>6, <2>5 DEF GoesOn, Continues
  <2> QED BY ONLY <2>4, <2>6, stamp \in Nat \X Nat
<1>12. OnAir'
  <2>1. Len(wrReceived') <= wrAir'.next - 1
    BY ONLY <1>6, <1>7, <1>8, <1>9
  <2>2. wrAir'.next \in 1..(Len(wrAir'.frames) + 1)
    BY ONLY <1>6, <1>9
  <2>3. /\ wrAir' \in Airs /\ wrReceived' \in Seq(WrFrames)
        /\ Len(wrAir'.frames) <= WrSpan /\ wrEnds'[wrAir'.channel] = wrAir'.start + WrSpan
    BY ONLY <1>2, <1>4, <1>6, <1>8
  <2> QED BY ONLY <1>11, <2>1, <2>2, <2>3 DEF OnAir
<1>13. \A c \in DOMAIN wrProfiles' : c # wrAir'.channel => Settled(c)'
  BY ONLY <1>2, <1>3, <1>6 DEF Settled
<1> QED BY ONLY <1>5, <1>12, <1>13 DEF WrInv, AirOk

\* How many of the first frames are deauthentications.
LEMMA ResetsCounted ==
  ASSUME NEW content \in Seq(WrContent), NEW before \in Nat, NEW r,
         r = ResetsUpTo(content, before)
  PROVE  /\ r \in [0..Len(content) -> Nat] /\ r[0] = before
         /\ RisesAtResets(content, r)
<1> DEFINE n == Len(content)
           Resets(i) == {j \in 1..i : content[j].kind = "reset"}
<1>1. n \in Nat
  OBVIOUS
<1>2. \A i \in 0..n : r[i] = before + Cardinality(Resets(i))
  BY DEF ResetsUpTo
<1>3. \A i \in 0..n : Cardinality(Resets(i)) \in Nat
  <2> TAKE i \in 0..n
  <2>1. IsFiniteSet(1..i)
    BY FS_Interval
  <2>2. Resets(i) \subseteq 1..i
    OBVIOUS
  <2> HIDE DEF Resets
  <2> QED BY ONLY <2>1, <2>2, FS_Subset, FS_CardinalityType
<1>4. Resets(0) = {}
  OBVIOUS
<1>5. ASSUME NEW i \in 1..n, content[i].kind # "reset" PROVE Resets(i) = Resets(i - 1)
  <2>1. \A j : j \in 1..i <=> j \in 1..(i - 1) \/ j = i
    <3> HIDE DEF n
    <3> QED BY ONLY i \in 1..n, <1>1
  <2> QED BY ONLY <1>5, <2>1
<1> HIDE DEF Resets, n
<1>6. r = [i \in 0..n |-> r[i]]
  BY DEF n, ResetsUpTo
<1>7. \A i \in 0..n : r[i] \in Nat
  BY ONLY <1>2, <1>3, before \in Nat
<1>8. r \in [0..n -> Nat]
  BY ONLY <1>6, <1>7
<1>9. 0 \in 0..n /\ \A i \in 1..n : i \in 0..n /\ i - 1 \in 0..n
  BY ONLY <1>1
<1>10. r[0] = before
  <2>1. Cardinality(Resets(0)) = 0
    BY ONLY <1>4, FS_EmptySet
  <2> QED BY ONLY <1>2, <1>9, <2>1, before \in Nat
<1>11. \A i \in 1..n : content[i].kind # "reset" => r[i] = r[i - 1]
  BY ONLY <1>2, <1>5, <1>9
<1> QED BY ONLY <1>8, <1>10, <1>11 DEF n, RisesAtResets

\* A capture begins: all that is remembered of its channel goes on with it, or not.
LEMMA CaptureBegins == WrInv /\ WrCapture => WrInv'
<1> SUFFICES ASSUME WrInv, WrCapture PROVE WrInv'
  OBVIOUS
<1>1. WrTyped /\ AirOk
  BY DEF WrInv
<1>2. /\ wrAir = NoAir /\ wrTraffic' = wrTraffic /\ wrSession' = wrSession
      /\ wrReceived' = wrReceived /\ wrLost' = wrLost /\ wrProfiles' = wrProfiles
      /\ wrAlarms' = wrAlarms
  BY DEF WrCapture
<1>3. wrReceived = <<>> /\ \A c \in DOMAIN wrProfiles : Settled(c)
  BY ONLY <1>1, <1>2, AirShapes DEF AirOk
<1>4. PICK c \in WrChannels, pause \in (IF wrCaptures = 0 THEN {0} ELSE {0, WrMaxGap + 1}),
           content \in wrTraffic, healthy \in BOOLEAN :
       LET start == wrNow + pause
           broken == ~healthy \/ start - wrEnds[c] > WrMaxGap
           context == wrContext[c] + (IF broken THEN 1 ELSE 0)
           resetsBefore(i) == wrResets[c] + Cardinality({j \in 1..i : content[j].kind = "reset"}) IN
       /\ ~healthy => wrFaults < WrMaxFaults
       /\ wrFaults' = wrFaults + (IF healthy THEN 0 ELSE 1)
       /\ wrAir' = [channel |-> c, start |-> start, next |-> 1, healthy |-> healthy,
                    frames |-> [i \in DOMAIN content |->
                                  [content[i] EXCEPT !.time = start + i - 1,
                                                     !.stamp = <<context, resetsBefore(i)>>]]]
       /\ wrContext' = [wrContext EXCEPT ![c] = context + (IF healthy THEN 0 ELSE 1)]
       /\ wrNow' = start + WrSpan /\ wrEnds' = [wrEnds EXCEPT ![c] = start + WrSpan]
       /\ wrResets' = [wrResets EXCEPT ![c] = resetsBefore(Len(content))]
  BY Zenon DEF WrCapture
<1> DEFINE start == wrNow + pause
           context == wrContext[c] + (IF ~healthy \/ start - wrEnds[c] > WrMaxGap THEN 1 ELSE 0)
           n == Len(content)
           r == ResetsUpTo(content, wrResets[c])
           frames == Stamped(content, start, context, r)
           stamp == <<context, r[0]>>
<1>5. /\ wrNow \in Nat \ {0} /\ wrContext \in [WrChannels -> Nat]
      /\ wrResets \in [WrChannels -> Nat] /\ wrEnds \in [WrChannels -> Nat]
      /\ wrTraffic \in WrTraffic /\ \A k \in WrChannels : wrEnds[k] <= wrNow
      /\ DOMAIN wrProfiles \subseteq WrChannels
  BY ONLY <1>1 DEF WrTyped
<1>6. content \in Seq(WrContent) /\ n <= WrSpan
  BY <1>5, WifiReplayAssumption DEF WifiReplayAssumption
<1>7. pause \in Nat
  BY WrLimits
<1>8. n \in Nat /\ DOMAIN content = 1..n
  BY ONLY <1>6
<1>9. \A i \in DOMAIN content :
        r[i] = wrResets[c] + Cardinality({j \in 1..i : content[j].kind = "reset"})
  <2>1. \A i \in 1..n : i \in 0..n
    <3> HIDE DEF n
    <3> QED BY ONLY <1>8
  <2> QED BY ONLY <1>8, <2>1 DEF ResetsUpTo
<1>10. /\ r[n] = wrResets[c] + Cardinality({j \in 1..n : content[j].kind = "reset"})
  <2>1. n \in 0..n
    <3> HIDE DEF n
    <3> QED BY ONLY <1>8
  <2> QED BY ONLY <2>1 DEF ResetsUpTo
<1>11. wrAir' = [channel |-> c, start |-> start, next |-> 1, healthy |-> healthy,
                 frames |-> frames]
  <2>1. wrAir' = [channel |-> c, start |-> start, next |-> 1, healthy |-> healthy,
                  frames |-> [i \in DOMAIN content |->
                    [content[i] EXCEPT !.time = start + i - 1,
                       !.stamp = <<context, wrResets[c]
                            + Cardinality({j \in 1..i : content[j].kind = "reset"})>>]]]
    BY <1>4
  <2> DEFINE F(i, s) == [content[i] EXCEPT !.time = start + i - 1, !.stamp = <<context, s>>]
             Q(i) == wrResets[c] + Cardinality({j \in 1..i : content[j].kind = "reset"})
  <2>2. frames = [i \in DOMAIN content |-> F(i, r[i])]
    BY ONLY TRUE DEF Stamped
  <2>3. \A i \in DOMAIN content : r[i] = Q(i)
    BY ONLY <1>9
  <2> HIDE DEF F, Q, r, frames
  <2>4. frames = [i \in DOMAIN content |-> F(i, Q(i))]
    BY ONLY <2>2, <2>3
  <2> QED BY ONLY <2>1, <2>4 DEF F, Q
<1>12. /\ wrContext' = [wrContext EXCEPT ![c] = context + (IF healthy THEN 0 ELSE 1)]
       /\ wrNow' = start + WrSpan /\ wrEnds' = [wrEnds EXCEPT ![c] = start + WrSpan]
       /\ wrResets' = [wrResets EXCEPT ![c] = r[n]]
  BY <1>4, <1>10
<1>13. start \in Nat \ {0} /\ start >= wrNow
  BY ONLY <1>5, <1>7
<1>14. context \in Nat /\ (healthy /\ start - wrEnds[c] <= WrMaxGap => context = wrContext[c])
  <2> HIDE DEF start
  <2>1. wrContext[c] \in Nat /\ wrEnds[c] \in Nat
    BY <1>5
  <2> QED BY ONLY <1>13, <2>1, WrLimits
<1>15. wrResets[c] \in Nat
  BY <1>5
<1>16. /\ r \in [0..n -> Nat] /\ r[0] = wrResets[c]
       /\ RisesAtResets(content, r)
  <2> HIDE DEF r
  <2>1. r = ResetsUpTo(content, wrResets[c])
    BY ONLY TRUE DEF r
  <2> QED BY ONLY <1>6, <1>15, <2>1, ResetsCounted
<1>17. frames = Stamped(content, start, context, r)
  BY ONLY TRUE DEF frames
<1>18. content \in wrTraffic
  OBVIOUS
<1> HIDE DEF start, context, r, frames
<1>19. /\ CaptureOk(frames, stamp, start) /\ Len(frames) = n /\ Len(frames) <= WrSpan
       /\ StampAt(frames, stamp, Len(frames)) = <<context, r[n]>>
  <2>1. wrTraffic \in WrTraffic /\ content \in wrTraffic
    BY ONLY <1>5, <1>18
  <2>2. start \in Nat \ {0} /\ context \in Nat /\ r \in [0..Len(content) -> Nat]
    BY ONLY <1>13, <1>14, <1>16
  <2>3. RisesAtResets(content, r)
    BY ONLY <1>16
  <2>4. /\ CaptureOk(frames, <<context, r[0]>>, start)
        /\ Len(frames) = Len(content) /\ Len(frames) <= WrSpan
        /\ StampAt(frames, <<context, r[0]>>, Len(frames)) = <<context, r[Len(content)]>>
    BY ONLY <1>17, <2>1, <2>2, <2>3, CaptureIsOk
  <2> QED BY ONLY <2>4
<1>20. frames \in Seq(WrFrames)
  BY ONLY <1>19 DEF CaptureOk
<1>21. wrAir' \in Airs
  BY ONLY <1>11, <1>13, <1>20, c \in WrChannels, healthy \in BOOLEAN DEF Airs
<1>22. /\ wrAir'.channel = c /\ wrAir'.start = start /\ wrAir'.next = 1
       /\ wrAir'.healthy = healthy /\ wrAir'.frames = frames
  BY ONLY <1>11
<1>23. r[n] \in Nat /\ r[0] \in Nat
  <2>1. n \in 0..n /\ 0 \in 0..n
    <3> HIDE DEF n
    <3> QED BY ONLY <1>8
  <2> QED BY ONLY <1>16, <2>1
<1>24. /\ wrContext' \in [WrChannels -> Nat] /\ (healthy => wrContext'[c] = context)
       /\ \A k \in WrChannels : k # c => wrContext'[k] = wrContext[k]
  <2>1. wrContext' = [wrContext EXCEPT ![c] = context + (IF healthy THEN 0 ELSE 1)]
    BY ONLY <1>12
  <2>2. context + (IF healthy THEN 0 ELSE 1) \in Nat
    BY ONLY <1>14
  <2>3. wrContext' \in [WrChannels -> Nat]
    BY ONLY <1>5, <2>1, <2>2, c \in WrChannels
  <2>4. \A k \in WrChannels : k # c => wrContext'[k] = wrContext[k]
    BY ONLY <1>5, <2>1, c \in WrChannels
  <2>5. wrContext'[c] = context + (IF healthy THEN 0 ELSE 1)
    BY ONLY <1>5, <2>1, c \in WrChannels
  <2>6. healthy => wrContext'[c] = context
    BY ONLY <1>14, <2>5
  <2> QED BY ONLY <2>3, <2>4, <2>6
<1>25. /\ wrResets' \in [WrChannels -> Nat] /\ wrResets'[c] = r[n]
       /\ \A k \in WrChannels : k # c => wrResets'[k] = wrResets[k]
  <2>1. wrResets' = [wrResets EXCEPT ![c] = r[n]]
    BY ONLY <1>12
  <2> QED BY ONLY <1>5, <1>23, <2>1, c \in WrChannels
<1>26. wrNow' \in Nat \ {0} /\ wrNow' = start + WrSpan /\ wrNow <= wrNow'
  BY ONLY <1>5, <1>12, <1>13 DEF WrSpan
<1>27. /\ wrEnds' \in [WrChannels -> Nat] /\ wrEnds'[c] = start + WrSpan
       /\ \A k \in WrChannels : k # c => wrEnds'[k] = wrEnds[k]
  <2>1. wrEnds' = [wrEnds EXCEPT ![c] = start + WrSpan]
    BY ONLY <1>12
  <2>2. start + WrSpan \in Nat
    BY ONLY <1>13 DEF WrSpan
  <2> QED BY ONLY <1>5, <2>1, <2>2, c \in WrChannels
<1>28. \A k \in WrChannels : wrEnds'[k] <= wrNow'
  <2> TAKE k \in WrChannels
  <2>1. CASE k = c
    BY ONLY <1>26, <1>27, <2>1
  <2>2. CASE k # c
    <3>1. wrEnds'[k] = wrEnds[k] /\ wrEnds[k] <= wrNow /\ wrEnds[k] \in Nat
      BY ONLY <1>5, <1>27, <2>2, k \in WrChannels
    <3> QED BY ONLY <1>5, <1>26, <3>1
  <2> QED BY ONLY <2>1, <2>2
<1>29. WrTyped'
  BY ONLY <1>1, <1>2, <1>24, <1>25, <1>26, <1>27, <1>28 DEF WrTyped
<1>30. ASSUME healthy, c \in DOMAIN wrProfiles, Continues(wrProfiles[c], start)
       PROVE  ProfileOk(wrProfiles[c], stamp, start)
  <2>1. /\ wrProfiles[c].session = wrSession
        /\ start >= wrProfiles[c].end /\ start - wrProfiles[c].end <= WrMaxGap
    BY ONLY <1>30 DEF Continues
  <2>2. /\ wrProfiles[c].end = wrEnds[c]
        /\ ProfileOk(wrProfiles[c], <<wrContext[c], wrResets[c]>>, wrEnds[c])
    BY ONLY <1>3, <1>30, <2>1 DEF Settled
  <2>3. context = wrContext[c]
    BY ONLY <1>14, <1>30, <2>1, <2>2
  <2>4. stamp = <<wrContext[c], wrResets[c]>>
    BY ONLY <1>16, <2>3
  <2>5. wrEnds[c] \in Nat /\ start \in Nat /\ wrEnds[c] <= start
    <3>1. wrEnds[c] \in Nat
      BY ONLY <1>5, c \in WrChannels
    <3> QED BY ONLY <1>13, <2>1, <2>2, <3>1
  <2> HIDE DEF stamp
  <2> QED BY ONLY <2>2, <2>4, <2>5, LaterProfile
<1>31. stamp \in Nat \X Nat
  BY ONLY <1>14, <1>23
<1>32. PICK s \in Nat \X Nat : s = stamp
  BY ONLY <1>31
<1>33. ASSUME Whole' PROVE GoesOn(s)'
  <2>1. healthy
    BY ONLY <1>22, <1>33 DEF Whole
  <2>2. <<wrContext'[c], wrResets'[c]>> = StampAt(frames, s, Len(frames))
    BY ONLY <1>19, <1>24, <1>25, <1>32, <2>1
  <2>3. CaptureOk(wrAir'.frames, s, wrAir'.start)
    BY ONLY <1>19, <1>22, <1>32
  <2>4. <<wrContext'[wrAir'.channel], wrResets'[wrAir'.channel]>>
          = StampAt(wrAir'.frames, s, Len(wrAir'.frames))
    BY ONLY <1>22, <2>2
  <2>5. ASSUME wrAir'.channel \in DOMAIN wrProfiles',
               Continues(wrProfiles[wrAir.channel], wrAir.start)'
        PROVE  ProfileOk(wrProfiles'[wrAir'.channel], s, wrAir'.start)
    <3>1. c \in DOMAIN wrProfiles /\ Continues(wrProfiles[c], start)
      BY ONLY <1>2, <1>22, <2>5 DEF Continues
    <3>2. ProfileOk(wrProfiles[c], s, start)
      BY ONLY <1>30, <1>32, <2>1, <3>1
    <3> QED BY ONLY <1>2, <1>22, <3>2
  <2> QED BY ONLY <2>3, <2>4, <2>5 DEF GoesOn
<1>34. Len(wrReceived') = 0 /\ wrReceived' \in Seq(WrFrames)
  BY ONLY <1>2, <1>3
<1>35. OnAir'
  <2>1. wrAir'.next \in 1..(Len(wrAir'.frames) + 1) /\ Len(wrAir'.frames) <= WrSpan
    <3> HIDE DEF n
    <3> QED BY ONLY <1>8, <1>19, <1>22
  <2>2. wrEnds'[wrAir'.channel] = wrAir'.start + WrSpan
    BY ONLY <1>22, <1>27
  <2>3. Len(wrReceived') <= wrAir'.next - 1
    BY ONLY <1>22, <1>34
  <2>4. Whole' =>
          /\ \A i \in 1..Len(wrReceived') : wrReceived'[i] = wrAir'.frames[i]
          /\ \E u \in Nat \X Nat : GoesOn(u)'
    BY ONLY <1>33, <1>34, s \in Nat \X Nat
  <2> QED BY ONLY <1>21, <1>34, <2>1, <2>2, <2>3, <2>4 DEF OnAir
<1>36. \A k \in DOMAIN wrProfiles' : k # wrAir'.channel => Settled(k)'
  BY ONLY <1>2, <1>3, <1>5, <1>22, <1>24, <1>25, <1>27 DEF Settled
<1> QED BY ONLY <1>29, <1>35, <1>36 DEF WrInv, AirOk

\* The end of a capture that is not usable: its channel is forgotten.
LEMMA UnusableOk == WrInv /\ WrFinish /\ ~Usable => WrInv'
<1> SUFFICES ASSUME WrInv, WrFinish, ~Usable PROVE WrInv'
  OBVIOUS
<1>1. WrTyped /\ AirOk
  BY DEF WrInv
<1>2. /\ wrAir.start > 0 /\ wrAir' = NoAir /\ wrReceived' = <<>> /\ wrLost' = FALSE
      /\ wrTraffic' = wrTraffic /\ wrNow' = wrNow /\ wrEnds' = wrEnds /\ wrResets' = wrResets
      /\ wrSession' = wrSession /\ wrContext' = wrContext
      /\ wrProfiles' = Without(wrProfiles, {wrAir.channel}) /\ wrAlarms' = wrAlarms
  BY DEF WrFinish, Delivering, wrRadio
<1>3. \A c \in DOMAIN wrProfiles : c # wrAir.channel => Settled(c)
  BY ONLY <1>1, <1>2, AirShapes DEF AirOk
<1>4. /\ DOMAIN wrProfiles' = DOMAIN wrProfiles \ {wrAir.channel}
      /\ \A c \in DOMAIN wrProfiles' : wrProfiles'[c] = wrProfiles[c]
  BY ONLY <1>2 DEF Without
<1>5. wrLost' \in BOOLEAN
  BY ONLY <1>2
<1>6. WrTyped'
  BY ONLY <1>1, <1>2, <1>4, <1>5 DEF WrTyped
<1>7. \A c \in DOMAIN wrProfiles' : Settled(c)'
  BY ONLY <1>2, <1>3, <1>4 DEF Settled
<1> QED BY ONLY <1>2, <1>6, <1>7 DEF WrInv, AirOk

\* Frames received in full are those of the capture.
LEMMA SameFrames ==
  ASSUME NEW a \in Seq(WrFrames), NEW b \in Seq(WrFrames), Len(a) = Len(b),
         \A i \in 1..Len(a) : a[i] = b[i]
  PROVE  a = b
BY SeqEqual

\* A capture ends in the stretch it began in.
LEMMA OneStretch ==
  ASSUME NEW frames, NEW stamp, NEW start, CaptureOk(frames, stamp, start)
  PROVE  StampAt(frames, stamp, Len(frames))[1] = stamp[1]
<1>1. frames \in Seq(WrFrames) /\ Len(frames) \in Nat
  BY DEF CaptureOk
<1>2. CASE Len(frames) = 0
  BY <1>2 DEF StampAt
<1>3. CASE Len(frames) # 0
  <2>1. Len(frames) \in 1..Len(frames)
    BY ONLY <1>1, <1>3
  <2>2. frames[Len(frames)].stamp[1] = stamp[1]
    BY <2>1 DEF CaptureOk
  <2> QED BY ONLY <1>3, <2>2 DEF StampAt
<1> QED BY <1>2, <1>3

\* The end of a usable capture: what the loops leave is of one stretch, since one reset.
LEMMA UsableOk == WrInv /\ WrFinish /\ Usable => WrInv'
<1> SUFFICES ASSUME WrInv, WrFinish, Usable PROVE WrInv'
  OBVIOUS
<1> DEFINE c == wrAir.channel
           old == IF c \in DOMAIN wrProfiles THEN wrProfiles[c] ELSE NoProfile
           p == IF Continues(old, wrAir.start) THEN old ELSE NoProfile
           b == BeaconLoop(p.beacons, wrReceived)
           t == TransactionLoop(p.links, wrReceived)
           q == [session |-> wrSession, end |-> wrAir.start + WrSpan,
                 beacons |-> b.h, links |-> t.links]
           start == wrAir.start
           frames == wrAir.frames
<1>1. WrTyped /\ AirOk
  BY DEF WrInv
<1>2. /\ wrAir.start > 0 /\ wrAir.next > Len(wrAir.frames)
      /\ wrAir' = NoAir /\ wrReceived' = <<>> /\ wrLost' = FALSE
      /\ wrTraffic' = wrTraffic /\ wrNow' = wrNow /\ wrEnds' = wrEnds /\ wrResets' = wrResets
      /\ wrSession' = wrSession /\ wrContext' = wrContext
  BY DEF WrFinish, Delivering, wrRadio
<1>3. /\ wrProfiles' = [k \in DOMAIN WithRoom(c) \cup {c} |-> IF k = c THEN q ELSE wrProfiles[k]]
      /\ wrAlarms' = wrAlarms \cup b.alarms \cup t.alarms
  BY Zenon DEF WrFinish
<1>4. /\ wrAir.healthy /\ ~wrLost /\ Len(wrReceived) = Len(wrAir.frames)
  BY DEF Usable
<1> HIDE DEF p, b, t, q
<1>5. OnAir /\ \A k \in DOMAIN wrProfiles : k # c => Settled(k)
  BY ONLY <1>1, <1>2, AirShapes DEF AirOk
<1>6. /\ c \in WrChannels /\ start \in Nat /\ frames \in Seq(WrFrames) /\ wrAir.next \in Nat
      /\ wrReceived \in Seq(WrFrames) /\ Len(frames) <= WrSpan
      /\ wrAir.next \in 1..(Len(frames) + 1) /\ wrEnds[c] = start + WrSpan
  BY ONLY <1>5, AirTyped DEF OnAir
<1>7. Whole
  <2>1. Len(frames) \in Nat
    BY ONLY <1>6
  <2>2. Len(wrReceived) = wrAir.next - 1
    BY ONLY <1>2, <1>4, <1>6, <2>1
  <2> QED BY ONLY <1>4, <2>2 DEF Whole
<1>8. /\ \A i \in 1..Len(wrReceived) : wrReceived[i] = frames[i]
      /\ \E stamp \in Nat \X Nat : GoesOn(stamp)
  BY ONLY <1>5, <1>7 DEF OnAir
<1>9. wrReceived = frames
  BY ONLY <1>4, <1>6, <1>8, SameFrames
<1>10. PICK stamp \in Nat \X Nat : GoesOn(stamp)
  BY ONLY <1>8
<1>11. /\ CaptureOk(frames, stamp, start)
       /\ <<wrContext[c], wrResets[c]>> = StampAt(frames, stamp, Len(frames))
       /\ c \in DOMAIN wrProfiles /\ Continues(wrProfiles[c], start) =>
            ProfileOk(wrProfiles[c], stamp, start)
  BY ONLY <1>10 DEF GoesOn
<1>12. /\ wrSession \in Nat \ {0} /\ DOMAIN wrProfiles \subseteq WrChannels
       /\ wrAlarms \subseteq RealAlarms
       /\ \A k \in DOMAIN wrProfiles :
            wrProfiles[k] \in WrProfileSet /\ wrProfiles[k].session <= wrSession
  BY ONLY <1>1 DEF WrTyped
<1>13. p \in WrProfileSet /\ ProfileOk(p, stamp, start)
  <2>1. CASE Continues(old, start)
    <3>1. old.session = wrSession
      BY ONLY <2>1 DEF Continues
    <3>2. NoProfile.session = 0
      BY DEF NoProfile
    <3>3. c \in DOMAIN wrProfiles
      BY ONLY <1>12, <3>1, <3>2
    <3>4. p = wrProfiles[c]
      BY ONLY <2>1, <3>3 DEF p
    <3>5. Continues(wrProfiles[c], start)
      BY ONLY <2>1, <3>3
    <3> QED BY ONLY <1>11, <1>12, <3>3, <3>4, <3>5
  <2>2. CASE ~Continues(old, start)
    <3>1. p = NoProfile
      BY ONLY <2>2 DEF p
    <3> QED BY ONLY <3>1, NoProfileOk
  <2> QED BY ONLY <2>1, <2>2
<1>14. /\ p.beacons \in [frames : Seq(WrFrames), newest : WrFrames]
       /\ p.links \in [Kinds -> [nonce : Nat, history : Seq(Exchanges)]]
       /\ BeaconsOk(p.beacons, stamp[1], start) /\ LinksOk(p.links, stamp, start)
  BY ONLY <1>13 DEF WrProfileSet, ProfileOk
<1>15. b \in BeaconsAt(stamp[1], start + Len(frames))
  <2>1. BeaconLoop(p.beacons, frames) \in BeaconsAt(stamp[1], start + Len(frames))
    BY ONLY <1>11, <1>14, BeaconLoopOk
  <2> QED BY ONLY <1>9, <2>1 DEF b
<1>16. t \in LinksAt(<<wrContext[c], wrResets[c]>>, start + Len(frames))
  <2>1. TransactionLoop(p.links, frames)
          \in LinksAt(StampAt(frames, stamp, Len(frames)), start + Len(frames))
    BY ONLY <1>11, <1>14, TransactionLoopOk
  <2> QED BY ONLY <1>9, <1>11, <2>1 DEF t
<1>17. /\ start + Len(frames) \in Nat /\ start + WrSpan \in Nat
       /\ start + Len(frames) <= start + WrSpan
  <2>1. /\ start \in Nat /\ Len(frames) \in Nat /\ Len(frames) <= WrSpan
    BY ONLY <1>6
  <2> QED BY ONLY <2>1 DEF WrSpan
<1>18. wrContext[c] = stamp[1]
  <2>1. StampAt(frames, stamp, Len(frames))[1] = stamp[1]
    BY ONLY <1>11, OneStretch
  <2> QED BY ONLY <1>11, <2>1
<1>19. /\ b.alarms \subseteq RealAlarms /\ BeaconsOk(b.h, wrContext[c], start + Len(frames))
       /\ b.h \in [frames : Seq(WrFrames), newest : WrFrames]
  BY ONLY <1>15, <1>18 DEF BeaconsAt, BeaconAccs
<1>20. /\ t.alarms \subseteq RealAlarms
       /\ LinksOk(t.links, <<wrContext[c], wrResets[c]>>, start + Len(frames))
       /\ t.links \in [Kinds -> [nonce : Nat, history : Seq(Exchanges)]]
  BY ONLY <1>16 DEF LinksAt, LinkAccs
<1>21. /\ q.session = wrSession /\ q.end = start + WrSpan /\ q.beacons = b.h
       /\ q.links = t.links /\ q \in WrProfileSet
  <2>1. q = [session |-> wrSession, end |-> start + WrSpan, beacons |-> b.h, links |-> t.links]
    BY ONLY TRUE DEF q
  <2> QED BY ONLY <1>12, <1>17, <1>19, <1>20, <2>1 DEF WrProfileSet
<1>22. ProfileOk(q, <<wrContext[c], wrResets[c]>>, wrEnds[c])
  <2>1. BeaconsOk(q.beacons, wrContext[c], wrEnds[c])
    BY ONLY <1>6, <1>17, <1>19, <1>21, LaterBeacons
  <2>2. LinksOk(q.links, <<wrContext[c], wrResets[c]>>, wrEnds[c])
    BY ONLY <1>6, <1>17, <1>20, <1>21, LaterLinks
  <2> QED BY ONLY <2>1, <2>2 DEF ProfileOk
<1>23. DOMAIN WithRoom(c) \subseteq DOMAIN wrProfiles
  BY DEF WithRoom, Without
<1>24. /\ DOMAIN wrProfiles' \subseteq DOMAIN wrProfiles \cup {c} /\ wrProfiles'[c] = q
       /\ \A k \in DOMAIN wrProfiles' :
            k # c => k \in DOMAIN wrProfiles /\ wrProfiles'[k] = wrProfiles[k]
  <2> DEFINE D == DOMAIN WithRoom(c)
  <2>1. D \subseteq DOMAIN wrProfiles
    BY ONLY <1>23
  <2>2. wrProfiles' = [k \in D \cup {c} |-> IF k = c THEN q ELSE wrProfiles[k]]
    BY ONLY <1>3
  <2> HIDE DEF c, D
  <2> QED BY ONLY <2>1, <2>2
<1> HIDE DEF c, start, frames
<1>25. \A k \in DOMAIN wrProfiles' :
         wrProfiles'[k] \in WrProfileSet /\ wrProfiles'[k].session <= wrSession
  <2> TAKE k \in DOMAIN wrProfiles'
  <2>1. CASE k = c
    BY ONLY <1>12, <1>21, <1>24, <2>1
  <2>2. CASE k # c
    BY ONLY <1>12, <1>24, <2>2, k \in DOMAIN wrProfiles'
  <2> QED BY ONLY <2>1, <2>2
<1>26. wrAlarms' \subseteq RealAlarms
  BY ONLY <1>3, <1>12, <1>19, <1>20
<1>27. wrLost' \in BOOLEAN
  BY ONLY <1>2
<1>28. DOMAIN wrProfiles' \subseteq WrChannels
  BY ONLY <1>6, <1>12, <1>24
<1>29. WrTyped'
  BY ONLY <1>1, <1>2, <1>25, <1>26, <1>27, <1>28 DEF WrTyped
<1>30. ASSUME NEW k \in DOMAIN wrProfiles' PROVE Settled(k)'
  <2>1. CASE k = c
    <3>1. /\ wrProfiles'[k] = q /\ q.end = wrEnds[k]
          /\ ProfileOk(q, <<wrContext[k], wrResets[k]>>, wrEnds[k])
      BY ONLY <1>6, <1>21, <1>22, <1>24, <2>1
    <3> QED BY ONLY <1>2, <3>1 DEF Settled
  <2>2. CASE k # c
    <3>1. Settled(k) /\ wrProfiles'[k] = wrProfiles[k]
      BY ONLY <1>5, <1>24, <2>2, k \in DOMAIN wrProfiles'
    <3> QED BY ONLY <1>2, <3>1 DEF Settled
  <2> QED BY ONLY <2>1, <2>2
<1> QED BY ONLY <1>2, <1>29, <1>30 DEF WrInv, AirOk

\* No replay is reported across a break, in every reachable state.
THEOREM WrReplaysRealHolds == WrSpec => []WrReplaysReal
<1>1. WrInv /\ [WrNext]_wrVars => WrInv'
  <2> SUFFICES ASSUME WrInv, [WrNext]_wrVars PROVE WrInv'
    OBVIOUS
  <2>1. CASE WrCapture
    BY <2>1, CaptureBegins
  <2>2. CASE WrReconnect
    BY <2>2, ReconnectOk
  <2>3. CASE WrNoteFrame
    BY <2>3, NoteFrameOk
  <2>4. CASE WrMissFrame
    BY <2>4, MissFrameOk
  <2>5. CASE WrMissRecord
    BY <2>5, MissRecordOk
  <2>6. CASE WrLossNotice
    BY <2>6, LossNoticeOk
  <2>7. CASE WrFinish
    BY <2>7, UnusableOk, UsableOk
  <2>8. CASE UNCHANGED wrVars
    <3>1. /\ wrTraffic' = wrTraffic /\ wrNow' = wrNow /\ wrSession' = wrSession
          /\ wrEnds' = wrEnds /\ wrResets' = wrResets /\ wrAir' = wrAir
          /\ wrReceived' = wrReceived /\ wrLost' = wrLost /\ wrProfiles' = wrProfiles
          /\ wrOwed' = wrOwed /\ wrContext' = wrContext /\ wrAlarms' = wrAlarms
      BY <2>8 DEF wrVars, wrRadio
    <3> QED BY <3>1 DEF WrInv, WrTyped, AirOk, OnAir, Settled, Whole, GoesOn, Continues
  <2> QED BY <2>1, <2>2, <2>3, <2>4, <2>5, <2>6, <2>7, <2>8 DEF WrNext
<1>2. WrInv => WrReplaysReal
  BY DEF WrInv, WrTyped, RealAlarms, RealAlarm, WrReplaysReal
<1> QED BY <1>1, <1>2, WrInitOk, PTL DEF WrSpec

=============================================================================
