---------------------------- MODULE ReturnsProofs ----------------------------
(***************************************************************************)
(* Dynamic transfers go where the 6502 would go, through whatever guards   *)
(* the passes have put in front of the dispatcher, and the passes know     *)
(* every return of a program that leaves its stack alone.                  *)
(***************************************************************************)
EXTENDS Returns, Arithmetic

Bytes == PageSize * NumPages
Words == 0 .. Bytes - 1

-----------------------------------------------------------------------------
(* Bytes of an address.                                                    *)
LEMMA Division ==
  ASSUME NEW a \in Nat
  PROVE  /\ Hi(a) \in Nat /\ Lo(a) \in 0 .. PageSize - 1
         /\ a = PageSize * Hi(a) + Lo(a)
<1>1. PageSize \in Nat \ {0}
  BY ReturnsAssumption
<1> QED
  BY <1>1, Divided DEF Hi, Lo

LEMMA SplitUnique ==
  ASSUME NEW a \in Nat, NEW b \in Nat, Hi(a) = Hi(b), Lo(a) = Lo(b)
  PROVE  a = b
BY Division, ReturnsAssumption

LEMMA BytesType == Bytes \in Nat \ {0} /\ Addresses = 1 .. Bytes - 1
BY ReturnsAssumption DEF Bytes, Addresses

LEMMA AddressType == \A a \in Addresses : a \in Nat /\ a \in Words /\ a # 0
BY BytesType DEF Words

LEMMA Wraps ==
  ASSUME NEW a \in Nat
  PROVE  /\ Wrap(a) \in Words
         /\ a < Bytes => Wrap(a) = a
         /\ Wrap(a + Bytes) = Wrap(a)
<1>1. Bytes \in Nat \ {0} /\ Wrap(a) = a % Bytes /\ Wrap(a + Bytes) = (a + Bytes) % Bytes
  BY BytesType DEF Wrap, Bytes
<1> HIDE DEF Bytes
<1>2. a % Bytes \in 0 .. Bytes - 1 /\ a \div Bytes \in Nat /\ a = Bytes * (a \div Bytes) + (a % Bytes)
  BY <1>1, Divided
<1>3. a < Bytes => Wrap(a) = a
  <2> SUFFICES ASSUME a < Bytes PROVE a % Bytes = a
    BY <1>1
  <2>1. a = Bytes * 0 + a /\ a \in 0 .. Bytes - 1
    BY <1>1
  <2> QED
    BY <1>1, <2>1, DividedBy
<1>4. (a + Bytes) % Bytes = a % Bytes
  <2>0. ASSUME NEW n \in Nat \ {0}, NEW q \in Nat, NEW r \in 0 .. n - 1
        PROVE  (n * q + r + n) % n = r
    <3>1. n * q + r + n = n * (q + 1) + r /\ q + 1 \in Nat
      OBVIOUS
    <3>2. (n * (q + 1) + r) % n = r
      BY <3>1, DividedBy
    <3> QED
      BY <3>1, <3>2
  <2>1. (Bytes * (a \div Bytes) + (a % Bytes) + Bytes) % Bytes = a % Bytes
    BY <1>1, <1>2, <2>0, Zenon
  <2> QED
    BY <1>2, <2>1, Zenon
<1> QED
  BY <1>1, <1>2, <1>3, <1>4 DEF Words

LEMMA WordType ==
  ASSUME NEW a \in Words
  PROVE  a \in Nat /\ a + 1 \in Nat /\ Wrap(a + 1) \in Words /\ Wrap(a + 1) \in Nat
<1>1. a \in Nat /\ a + 1 \in Nat /\ Words \in SUBSET Nat
  BY BytesType DEF Words
<1> QED
  BY <1>1, Wraps

LEMMA PopOfPush ==
  ASSUME NEW n \in Words
  PROVE  /\ Wrap(n + PageSize * NumPages - 1) \in Words
         /\ Wrap(Wrap(n + PageSize * NumPages - 1) + 1) = n
         /\ n # 0 => Wrap(n + PageSize * NumPages - 1) = n - 1
<1>1. Bytes \in Nat \ {0} /\ n \in Nat /\ n < Bytes
  BY BytesType DEF Words
<1>2. CASE n = 0
  BY <1>1, <1>2 DEF Wrap, Words, Bytes
<1>3. CASE n # 0
  <2>1. n - 1 \in Nat /\ n + PageSize * NumPages - 1 = (n - 1) + Bytes
    BY <1>1, <1>3 DEF Bytes
  <2>2. Wrap(n + PageSize * NumPages - 1) = n - 1
    BY <1>1, <2>1, Wraps
  <2> QED
    BY <1>1, <2>1, <2>2, Wraps DEF Words
<1> QED
  BY <1>2, <1>3

-----------------------------------------------------------------------------
(* The order of the guards.                                                *)
Before(w, u, t) == w[u] > w[t] \/ (w[u] = w[t] /\ u < t)
Ordered(S, w) == IsFiniteSet(S) /\ S \in SUBSET Nat /\ \A t \in S : w[t] \in Int

LEMMA RankFits ==
  ASSUME NEW S, NEW w, Ordered(S, w), NEW t \in S
  PROVE  Rank(S, w, t) \in 0 .. Cardinality(S) - 1
<1> DEFINE T == {u \in S : Before(w, u, t)}
<1>1. Rank(S, w, t) = Cardinality(T)
  BY DEF Rank, Before
<1>2. T \in SUBSET (S \ {t})
  BY DEF Before, Ordered
<1>3. IsFiniteSet(S \ {t}) /\ Cardinality(S \ {t}) = Cardinality(S) - 1 /\ Cardinality(S) \in Nat
  BY FS_RemoveElement, FS_CardinalityType DEF Ordered
<1> HIDE DEF T
<1>4. IsFiniteSet(T) /\ Cardinality(T) <= Cardinality(S) - 1 /\ Cardinality(T) \in Nat
  BY <1>2, <1>3, FS_Subset, FS_CardinalityType
<1> QED
  BY <1>1, <1>3, <1>4

LEMMA RankGrows ==
  ASSUME NEW S, NEW w, Ordered(S, w), NEW t \in S, NEW u \in S, Before(w, t, u)
  PROVE  Rank(S, w, t) < Rank(S, w, u)
<1> DEFINE T == {v \in S : Before(w, v, t)}
           U == {v \in S : Before(w, v, u)}
<1>1. Rank(S, w, t) = Cardinality(T) /\ Rank(S, w, u) = Cardinality(U)
  BY DEF Rank, Before
<1>2. t \notin T /\ T \cup {t} \in SUBSET U
  <2>1. \A v \in S : v \in Nat /\ w[v] \in Int
    BY DEF Ordered
  <2> QED
    BY <2>1 DEF Before
<1>3. T \in SUBSET S /\ U \in SUBSET S
  OBVIOUS
<1> HIDE DEF T, U
<1>4. IsFiniteSet(T) /\ IsFiniteSet(U) /\ Cardinality(T) \in Nat /\ Cardinality(U) \in Nat
  BY <1>3, FS_Subset, FS_CardinalityType DEF Ordered
<1>5. Cardinality(T \cup {t}) = Cardinality(T) + 1 /\ Cardinality(T \cup {t}) <= Cardinality(U)
  BY <1>2, <1>4, FS_AddElement, FS_Subset
<1> QED
  BY <1>1, <1>4, <1>5

LEMMA RankHit ==
  ASSUME NEW S, NEW w, Ordered(S, w), NEW n \in 0 .. Cardinality(S) - 1
  PROVE  \E t \in S : Rank(S, w, t) = n
<1> DEFINE m == Cardinality(S)
           f == [t \in S |-> Rank(S, w, t)]
<1>0. IsFiniteSet(S) /\ m \in Nat
  BY FS_CardinalityType DEF Ordered
<1>1. f \in [S -> 0 .. m - 1]
  BY RankFits
<1>2. \A t, u \in S : f[t] = f[u] => t = u
  <2> SUFFICES ASSUME NEW t \in S, NEW u \in S, t # u PROVE Rank(S, w, t) # Rank(S, w, u)
    OBVIOUS
  <2>1. Before(w, t, u) \/ Before(w, u, t)
    BY DEF Before, Ordered
  <2>2. Rank(S, w, t) \in Int /\ Rank(S, w, u) \in Int
    BY RankFits
  <2> QED
    BY <2>1, <2>2, RankGrows
<1>3. f \in Injection(S, 0 .. m - 1)
  BY <1>1, <1>2 DEF Injection, IsInjective
<1>4. IsFiniteSet(0 .. m - 1) /\ Cardinality(0 .. m - 1) = m
  <2>1. 0 \in Int /\ m - 1 \in Int
    BY <1>0
  <2> QED
    BY <1>0, <2>1, FS_Interval
<1>5. f \in Surjection(S, 0 .. m - 1)
  <2> HIDE DEF f
  <2> QED
    BY <1>3, <1>4, FS_Injection
<1> QED
  BY <1>5 DEF Surjection

LEMMA BestOf ==
  ASSUME NEW S, NEW w, Ordered(S, w), NEW n \in Nat
  PROVE  /\ DOMAIN Best(S, w, n) = 1 .. Len(Best(S, w, n))
         /\ Best(S, w, n) \in Seq(S)
         /\ \A i \in DOMAIN Best(S, w, n) : Best(S, w, n)[i] \in S
<1> DEFINE k == IF Cardinality(S) < n THEN Cardinality(S) ELSE n
<1>1. k \in Nat /\ k <= Cardinality(S) /\ Cardinality(S) \in Nat
  BY FS_CardinalityType DEF Ordered
<1>2. \A i \in 1 .. k : (CHOOSE t \in S : Rank(S, w, t) = i - 1) \in S
  <2> TAKE i \in 1 .. k
  <2>1. i - 1 \in 0 .. Cardinality(S) - 1
    BY <1>1
  <2>2. \E t \in S : Rank(S, w, t) = i - 1
    BY <2>1, RankHit
  <2> QED
    BY <2>2
<1>3. Best(S, w, n) = [i \in 1 .. k |-> CHOOSE t \in S : Rank(S, w, t) = i - 1]
  BY DEF Best
<1> HIDE DEF k
<1>4. Best(S, w, n) \in [1 .. k -> S]
  BY <1>2, <1>3
<1> QED
  BY <1>1, <1>4

-----------------------------------------------------------------------------
(* Sites. Every arm sends what matches it to where the 6502 would go.      *)
Arms == [lo : 0 .. PageSize - 1, to : Addresses]
GroupsOfArms == [hi : Nat, arms : Seq(Arms)]
Stages == [inc : BOOLEAN, groups : Seq(GroupsOfArms)]
Sites == [stages : Seq(Stages), lastInc : BOOLEAN]

Want(b, a) == IF Op(b) = "rts" THEN Wrap(a + 1) ELSE a

StageRight(b, stage) ==
  \A g \in DOMAIN stage.groups : \A j \in DOMAIN stage.groups[g].arms : \A a \in Words :
    Matches(stage, g, j, a) => stage.groups[g].arms[j].to = Want(b, a)

SiteRight(b, site) ==
  /\ site \in Sites
  /\ \A k \in DOMAIN site.stages : StageRight(b, site.stages[k])
  /\ Incremented(site) <=> Op(b) = "rts"

LEMMA FirstHit ==
  ASSUME NEW X \in SUBSET (Nat \X Nat \X Nat), X # {}
  PROVE  \E x \in X : \A y \in X : ~Earlier(y, x)
<1> DEFINE X1 == {x[1] : x \in X}
<1>1. X1 \in SUBSET Nat /\ X1 # {}
  OBVIOUS
<1>2. PICK a \in X1 : \A n \in X1 : a <= n
  BY <1>1, LeastNatural
<1> DEFINE X2 == {x[2] : x \in {z \in X : z[1] = a}}
<1>3. X2 \in SUBSET Nat /\ X2 # {}
  OBVIOUS
<1>4. PICK b \in X2 : \A n \in X2 : b <= n
  <2> HIDE DEF X2
  <2> QED
    BY <1>3, LeastNatural
<1> DEFINE X3 == {x[3] : x \in {z \in X : z[1] = a /\ z[2] = b}}
<1>5. X3 \in SUBSET Nat /\ X3 # {}
  OBVIOUS
<1>6. PICK c \in X3 : \A n \in X3 : c <= n
  <2> HIDE DEF X3
  <2> QED
    BY <1>5, LeastNatural
<1>7. PICK x \in X : x[1] = a /\ x[2] = b /\ x[3] = c
  OBVIOUS
<1>8. ASSUME NEW y \in X PROVE ~Earlier(y, x)
  <2>1. y[1] \in Nat /\ y[2] \in Nat /\ y[3] \in Nat /\ a \in Nat /\ b \in Nat /\ c \in Nat
    BY <1>1, <1>3, <1>5
  <2>2. a <= y[1] /\ (y[1] = a => b <= y[2]) /\ (y[1] = a /\ y[2] = b => c <= y[3])
    BY <1>2, <1>4, <1>6
  <2> QED
    BY <1>7, <2>1, <2>2 DEF Earlier
<1> QED
  BY <1>7, <1>8

(* Whatever the guards, control goes where the instruction would.          *)
LEMMA ThroughRight ==
  ASSUME NEW b, NEW site, SiteRight(b, site), NEW a \in Words
  PROVE  Through(site, a) = Want(b, a)
<1> DEFINE n == Cardinality(Labels)
           hits == {x \in (DOMAIN site.stages) \X (1 .. n) \X (1 .. n) :
                      Matches(site.stages[x[1]], x[2], x[3], a)}
           first == CHOOSE x \in hits : \A y \in hits : ~Earlier(y, x)
<1>1. DOMAIN site.stages \subseteq Nat
  BY DEF SiteRight, Sites
<1>2. Through(site, a) = IF hits # {} THEN site.stages[first[1]].groups[first[2]].arms[first[3]].to
                         ELSE IF Incremented(site) THEN Wrap(a + 1) ELSE a
  BY DEF Through
<1>3. CASE hits = {}
  BY <1>2, <1>3 DEF SiteRight, Want
<1>4. CASE hits # {}
  <2>1. hits \in SUBSET (Nat \X Nat \X Nat)
    BY <1>1
  <2>2. first \in hits
    <3> HIDE DEF hits
    <3> QED
      BY <1>4, <2>1, FirstHit
  <2>3. first[1] \in DOMAIN site.stages /\ Matches(site.stages[first[1]], first[2], first[3], a)
    BY <2>2
  <2> HIDE DEF first, hits
  <2>4. StageRight(b, site.stages[first[1]])
    BY <2>3 DEF SiteRight
  <2>5. site.stages[first[1]].groups[first[2]].arms[first[3]].to = Want(b, a)
    BY <2>3, <2>4 DEF StageRight, Matches
  <2> QED
    BY <1>2, <1>4, <2>5
<1> QED
  BY <1>3, <1>4

(* Guards on the addresses of S, whatever their weights.                   *)
ArmsOf(S, w, h) ==
  LET ts == Best({t \in S : Hi(t) = h}, w, Cardinality(S))
  IN [i \in DOMAIN ts |-> Arm(Lo(ts[i]), ts[i])]

LEMMA ArmsOfType ==
  ASSUME NEW S \in SUBSET Addresses, IsFiniteSet(S), NEW w, NatOn(w, S), NEW h
  PROVE  /\ ArmsOf(S, w, h) \in Seq(Arms)
         /\ \A j \in DOMAIN ArmsOf(S, w, h) :
              /\ ArmsOf(S, w, h)[j].lo = Lo(ArmsOf(S, w, h)[j].to)
              /\ ArmsOf(S, w, h)[j].to \in S /\ Hi(ArmsOf(S, w, h)[j].to) = h
<1> DEFINE T == {t \in S : Hi(t) = h}
           ts == Best(T, w, Cardinality(S))
<1>1. Ordered(T, w) /\ Cardinality(S) \in Nat
  <2>1. T \in SUBSET S /\ T \in SUBSET Nat
    BY AddressType
  <2>2. IsFiniteSet(S) /\ \A t \in S : w[t] \in Int
    BY DEF NatOn
  <2> HIDE DEF T
  <2>3. IsFiniteSet(T) /\ Cardinality(S) \in Nat
    BY <2>1, <2>2, FS_Subset, FS_CardinalityType
  <2> QED
    BY <2>1, <2>2, <2>3 DEF Ordered
<1>2. ts \in Seq(T) /\ DOMAIN ts = 1 .. Len(ts) /\ \A i \in DOMAIN ts : ts[i] \in T
  <2> HIDE DEF T
  <2> QED
    BY <1>1, BestOf
<1>3. ArmsOf(S, w, h) = [i \in DOMAIN ts |-> Arm(Lo(ts[i]), ts[i])]
  BY DEF ArmsOf
<1>4. \A i \in DOMAIN ts : ts[i] \in S /\ Hi(ts[i]) = h /\ Lo(ts[i]) \in 0 .. PageSize - 1
  <2> SUFFICES ASSUME NEW i \in DOMAIN ts
               PROVE  ts[i] \in S /\ Hi(ts[i]) = h /\ Lo(ts[i]) \in 0 .. PageSize - 1
    OBVIOUS
  <2>1. ts[i] \in S /\ Hi(ts[i]) = h
    BY <1>2
  <2>2. ts[i] \in Nat
    BY <2>1, AddressType
  <2> QED
    BY <2>1, <2>2, Division
<1> HIDE DEF ts
<1>5. Len(ts) \in Nat
  BY <1>2
<1>6. \A i \in DOMAIN ts : Arm(Lo(ts[i]), ts[i]) \in Arms
  BY <1>4 DEF Arm, Arms
<1>7. ArmsOf(S, w, h) \in [1 .. Len(ts) -> Arms]
  BY <1>2, <1>3, <1>6
<1>8. ArmsOf(S, w, h) \in Seq(Arms)
  BY <1>5, <1>7
<1> QED
  BY <1>2, <1>3, <1>4, <1>8 DEF Arm

LEMMA GroupsRight ==
  ASSUME NEW S \in SUBSET Addresses, IsFiniteSet(S), NEW w, NatOn(w, S)
  PROVE  /\ Groups(S, w) \in Seq(GroupsOfArms)
         /\ \A g \in DOMAIN Groups(S, w) : \A j \in DOMAIN Groups(S, w)[g].arms :
              LET arm == Groups(S, w)[g].arms[j]
              IN arm.to \in S /\ arm.lo = Lo(arm.to) /\ Groups(S, w)[g].hi = Hi(arm.to)
<1> DEFINE highs == {Hi(t) : t \in S}
           of(h) == {t \in S : Hi(t) = h}
           v == [h \in highs |-> SumFunctionOnSet(w, of(h))]
           order == Best(highs, v, Cardinality(S))
<1>1. Ordered(highs, v) /\ Cardinality(S) \in Nat
  <2>1. IsFiniteSet(highs)
    <3> DEFINE f == [t \in S |-> Hi(t)]
    <3>1. f \in Surjection(S, highs)
      BY DEF Surjection
    <3> QED
      BY <3>1, FS_Surjection, Zenon
  <2>2. highs \in SUBSET Nat
    BY Division, BytesType
  <2>3. \A h \in highs : v[h] \in Nat
    <3> TAKE h \in highs
    <3>1. NatOn(w, of(h))
      BY FS_Subset DEF NatOn
    <3> HIDE DEF of
    <3>2. SumFunctionOnSet(w, of(h)) \in Nat
      BY <3>1, SumNat
    <3> QED
      BY <3>2
  <2> HIDE DEF highs, v
  <2>4. \A h \in highs : v[h] \in Int
    BY <2>3
  <2> QED
    BY <2>1, <2>2, <2>4, FS_CardinalityType DEF Ordered
<1>2. /\ order \in Seq(highs) /\ DOMAIN order = 1 .. Len(order) /\ Len(order) \in Nat
      /\ \A i \in DOMAIN order : order[i] \in Nat
  <2>0. highs \in SUBSET Nat
    BY Division, BytesType
  <2> HIDE DEF highs, v
  <2>1. order \in Seq(highs) /\ DOMAIN order = 1 .. Len(order) /\ \A i \in DOMAIN order : order[i] \in highs
    BY <1>1, BestOf
  <2> HIDE DEF order
  <2>2. Len(order) \in Nat
    BY <2>1
  <2>3. \A i \in DOMAIN order : order[i] \in Nat
    BY <2>0, <2>1
  <2> QED
    BY <2>1, <2>2, <2>3
<1>3. Groups(S, w) = [i \in DOMAIN order |-> [hi |-> order[i], arms |-> ArmsOf(S, w, order[i])]]
  BY Zenon DEF Groups, ArmsOf
<1> HIDE DEF order
<1>4. \A i \in DOMAIN order : [hi |-> order[i], arms |-> ArmsOf(S, w, order[i])] \in GroupsOfArms
  BY <1>2, ArmsOfType DEF GroupsOfArms
<1>5. Groups(S, w) \in [1 .. Len(order) -> GroupsOfArms]
  BY <1>2, <1>3, <1>4
<1>6. Groups(S, w) \in Seq(GroupsOfArms)
  BY <1>2, <1>5
<1>7. ASSUME NEW g \in DOMAIN Groups(S, w), NEW j \in DOMAIN Groups(S, w)[g].arms
      PROVE  LET arm == Groups(S, w)[g].arms[j]
             IN arm.to \in S /\ arm.lo = Lo(arm.to) /\ Groups(S, w)[g].hi = Hi(arm.to)
  <2>1. Groups(S, w)[g].hi = order[g] /\ Groups(S, w)[g].arms = ArmsOf(S, w, order[g])
    BY <1>3
  <2> QED
    BY <2>1, ArmsOfType
<1> QED
  BY <1>6, <1>7

(* A stage of guards on the addresses of S fits where the increment is     *)
(* still to come, and where there is none.                                 *)
LEMMA AddStageRight ==
  ASSUME NEW b, NEW site, SiteRight(b, site), Op(b) = "rts" => site.lastInc,
         NEW S \in SUBSET Addresses, IsFiniteSet(S), NEW w, NatOn(w, S)
  PROVE  SiteRight(b, AddStage(site, Groups(S, w)))
<1> DEFINE groups == Groups(S, w)
           new == [inc |-> site.lastInc, groups |-> groups]
           stages == Append(site.stages, new)
           longer == AddStage(site, groups)
<1>1. /\ groups \in Seq(GroupsOfArms)
      /\ \A g \in DOMAIN groups : \A j \in DOMAIN groups[g].arms :
           /\ groups[g].arms[j].to \in S
           /\ groups[g].arms[j].lo = Lo(groups[g].arms[j].to)
           /\ groups[g].hi = Hi(groups[g].arms[j].to)
  BY GroupsRight
<1> HIDE DEF groups
<1>2. site.stages \in Seq(Stages) /\ site.lastInc \in BOOLEAN /\ (Incremented(site) <=> Op(b) = "rts")
  BY DEF SiteRight, Sites
<1>3. new \in Stages
  BY <1>1, <1>2 DEF Stages
<1>4. longer = [stages |-> stages, lastInc |-> FALSE]
  BY DEF AddStage
<1>5. /\ stages \in Seq(Stages)
      /\ DOMAIN stages = 1 .. Len(site.stages) + 1 /\ Len(site.stages) \in Nat
      /\ \A k \in 1 .. Len(site.stages) : stages[k] = site.stages[k]
      /\ stages[Len(site.stages) + 1] = new
  BY <1>2, <1>3
<1>6. StageRight(b, new)
  <2> SUFFICES ASSUME NEW g \in DOMAIN groups, NEW j \in DOMAIN groups[g].arms, NEW a \in Words,
                      Matches(new, g, j, a)
               PROVE  groups[g].arms[j].to = Want(b, a)
    BY DEF StageRight
  <2>1. groups[g].arms[j].to \in Nat
    BY <1>1, AddressType
  <2>2. a \in Nat /\ Wrap(a + 1) \in Nat
    BY WordType
  <2>3. HlAt(new, a) \in Nat
    BY <2>2 DEF HlAt
  <2>4. Hi(groups[g].arms[j].to) = Hi(HlAt(new, a)) /\ Lo(groups[g].arms[j].to) = Lo(HlAt(new, a))
    BY <1>1 DEF Matches
  <2>5. groups[g].arms[j].to = HlAt(new, a)
    BY <2>1, <2>3, <2>4, SplitUnique
  <2>6. site.lastInc <=> Op(b) = "rts"
    BY <1>2 DEF Incremented
  <2> QED
    BY <2>5, <2>6 DEF HlAt, Want
<1> HIDE DEF new, stages
<1>7. longer.stages = stages /\ longer.lastInc = FALSE /\ longer \in Sites
  BY <1>4, <1>5 DEF Sites
<1>8. \A k \in DOMAIN longer.stages : StageRight(b, longer.stages[k])
  <2> SUFFICES ASSUME NEW k \in DOMAIN stages PROVE StageRight(b, stages[k])
    BY <1>7
  <2>1. k \in 1 .. Len(site.stages) \/ k = Len(site.stages) + 1
    BY <1>5
  <2>2. DOMAIN site.stages = 1 .. Len(site.stages)
    BY <1>2
  <2> QED
    BY <1>5, <1>6, <2>1, <2>2 DEF SiteRight
<1>9. Incremented(longer) <=> Incremented(site)
  <2>1. DOMAIN site.stages = 1 .. Len(site.stages) /\ new.inc = site.lastInc
    BY <1>2 DEF new
  <2> QED
    BY <1>5, <1>7, <2>1 DEF Incremented
<1> QED
  BY <1>2, <1>7, <1>8, <1>9 DEF SiteRight, groups

(* A stage behind the increment may be moved in front of it, its low bytes *)
(* one lower, if none of them was 0.                                       *)
LEMMA LoweredRight ==
  ASSUME NEW b, Op(b) = "rts", NEW stage \in Stages, stage.inc, ~Borrows(stage), StageRight(b, stage)
  PROVE  Lowered(stage) \in Stages /\ ~Lowered(stage).inc /\ StageRight(b, Lowered(stage))
<1> DEFINE groups == stage.groups
           lowered(g, j) == [groups[g].arms[j] EXCEPT !.lo = (@ + PageSize - 1) % PageSize]
           arms(g) == [j \in DOMAIN groups[g].arms |-> lowered(g, j)]
           new == [g \in DOMAIN groups |-> [groups[g] EXCEPT !.arms = arms(g)]]
<1>0. PageSize \in Nat \ {0}
  BY ReturnsAssumption
<1>1. groups \in Seq(GroupsOfArms) /\ \A g \in DOMAIN groups : groups[g] \in GroupsOfArms
  BY DEF Stages
<1>2. ASSUME NEW g \in DOMAIN groups, NEW j \in DOMAIN groups[g].arms
      PROVE  /\ groups[g].arms[j] \in Arms /\ groups[g].arms[j].lo # 0
             /\ lowered(g, j) \in Arms /\ lowered(g, j).to = groups[g].arms[j].to
             /\ lowered(g, j).lo = groups[g].arms[j].lo - 1
  <2>1. groups[g].arms \in Seq(Arms)
    BY <1>1 DEF GroupsOfArms
  <2>2. groups[g].arms[j] \in Arms
    BY <2>1
  <2> DEFINE lo == groups[g].arms[j].lo
  <2>3. lo \in 0 .. PageSize - 1 /\ lo # 0
    BY <2>2 DEF Arms, Borrows
  <2>4. (lo + PageSize - 1) % PageSize = lo - 1 /\ lo - 1 \in 0 .. PageSize - 1
    <3>1. lo + PageSize - 1 = PageSize * 1 + (lo - 1) /\ lo - 1 \in 0 .. PageSize - 1
      BY <1>0, <2>3
    <3>2. (PageSize * 1 + (lo - 1)) % PageSize = lo - 1
      BY <1>0, <3>1, DividedBy
    <3> QED
      BY <3>1, <3>2
  <2> QED
    BY <2>2, <2>3, <2>4 DEF Arms
<1> HIDE DEF lowered
<1>3. ASSUME NEW g \in DOMAIN groups
      PROVE  /\ new[g] \in GroupsOfArms /\ new[g].hi = groups[g].hi /\ new[g].arms = arms(g)
             /\ DOMAIN new[g].arms = DOMAIN groups[g].arms
  <2>1. groups[g] \in GroupsOfArms /\ groups[g].arms \in Seq(Arms)
    BY <1>1 DEF GroupsOfArms
  <2>2. arms(g) \in [1 .. Len(groups[g].arms) -> Arms] /\ Len(groups[g].arms) \in Nat
    BY <1>2, <2>1
  <2>3. arms(g) \in Seq(Arms)
    BY <2>2
  <2>4. DOMAIN arms(g) = DOMAIN groups[g].arms
    OBVIOUS
  <2> HIDE DEF arms
  <2> QED
    BY <2>1, <2>3, <2>4 DEF GroupsOfArms
<1>4. Lowered(stage) = [inc |-> FALSE, groups |-> new]
  BY DEF Lowered, lowered
<1>5. new \in [1 .. Len(groups) -> GroupsOfArms] /\ Len(groups) \in Nat /\ DOMAIN new = DOMAIN groups
  <2>1. DOMAIN groups = 1 .. Len(groups) /\ Len(groups) \in Nat
    BY <1>1
  <2>2. DOMAIN new = DOMAIN groups /\ new = [g \in DOMAIN groups |-> new[g]]
    OBVIOUS
  <2> HIDE DEF new
  <2> QED
    BY <1>3, <2>1, <2>2
<1> HIDE DEF new
<1>6. new \in Seq(GroupsOfArms)
  BY <1>5
<1>7. Lowered(stage) \in Stages /\ ~Lowered(stage).inc
  BY <1>4, <1>6 DEF Stages
<1>8. StageRight(b, Lowered(stage))
  <2> SUFFICES ASSUME NEW g \in DOMAIN groups, NEW j \in DOMAIN groups[g].arms, NEW a \in Words,
                      Matches(Lowered(stage), g, j, a)
               PROVE  new[g].arms[j].to = Want(b, a)
    <3>1. Lowered(stage).groups = new /\ DOMAIN new = DOMAIN groups
      BY <1>4, <1>5
    <3>2. \A g \in DOMAIN groups : DOMAIN new[g].arms = DOMAIN groups[g].arms
      BY <1>3
    <3> HIDE DEF groups
    <3> QED
      BY <3>1, <3>2 DEF StageRight
  <2> DEFINE arm == groups[g].arms[j]
  <2>1. new[g].hi = groups[g].hi /\ new[g].arms[j] = lowered(g, j)
    BY <1>3
  <2>2. a \in Nat /\ groups[g].hi = Hi(a) /\ arm.lo - 1 = Lo(a) /\ new[g].arms[j].to = arm.to
    BY <1>2, <1>4, <2>1, BytesType DEF Matches, HlAt, Words
  <2>3. arm.lo \in 0 .. PageSize - 1 /\ groups[g].hi \in Nat
    BY <1>1, <1>2 DEF Arms, GroupsOfArms
  <2>4. a + 1 = PageSize * groups[g].hi + arm.lo
    <3>1. a = PageSize * Hi(a) + Lo(a)
      BY <2>2, Division
    <3>2. PageSize * groups[g].hi \in Nat
      BY <1>0, <2>3
    <3> QED
      BY <2>2, <2>3, <3>1, <3>2
  <2>5. Hi(a + 1) = groups[g].hi /\ Lo(a + 1) = arm.lo
    <3> DEFINE h == groups[g].hi
               l == arm.lo
    <3>1. h \in Nat /\ l \in 0 .. PageSize - 1
      BY <2>3
    <3> HIDE DEF h, l
    <3>2. (PageSize * h + l) \div PageSize = h /\ (PageSize * h + l) % PageSize = l
      BY <1>0, <3>1, DividedBy
    <3>3. a + 1 = PageSize * h + l
      BY <2>4 DEF h, l
    <3>4. Hi(a + 1) = h /\ Lo(a + 1) = l
      BY <3>2, <3>3 DEF Hi, Lo
    <3> QED
      BY <3>4 DEF h, l
  <2>6. Wrap(a + 1) = a + 1
    <3> DEFINE N == NumPages
    <3>1. a < PageSize * N /\ N \in Nat \ {0} /\ Bytes = PageSize * N
      BY <2>2, BytesType, ReturnsAssumption DEF Words, Bytes
    <3>2. groups[g].hi < N
      <4>1. ~(groups[g].hi >= N)
        <5> SUFFICES ASSUME groups[g].hi >= N PROVE FALSE
          OBVIOUS
        <5>1. groups[g].hi - N \in Nat /\ PageSize * (groups[g].hi - N) \in Nat
          BY <1>0, <2>3, <3>1
        <5>2. PageSize * groups[g].hi = PageSize * N + PageSize * (groups[g].hi - N)
          BY <1>0, <2>3, <3>1
        <5>3. PageSize * N \in Nat /\ a = PageSize * groups[g].hi + arm.lo - 1 /\ arm.lo >= 1
          BY <1>0, <1>2, <2>2, <2>3, <2>4, <3>1
        <5> QED
          BY <2>2, <2>3, <3>1, <5>1, <5>2, <5>3
      <4> QED
        BY <2>3, <3>1, <4>1
    <3>3. PageSize * N = PageSize * groups[g].hi + PageSize + PageSize * (N - groups[g].hi - 1)
      BY <1>0, <2>3, <3>1
    <3>4. PageSize * (N - groups[g].hi - 1) \in Nat /\ PageSize * groups[g].hi \in Nat
      BY <1>0, <2>3, <3>1, <3>2
    <3>5. a + 1 < Bytes
      BY <1>0, <2>3, <2>4, <3>1, <3>3, <3>4
    <3> QED
      BY <2>2, <3>5, Wraps
  <2>7. Matches(stage, g, j, a)
    BY <2>5, <2>6 DEF Matches, HlAt
  <2> QED
    BY <2>2, <2>7 DEF StageRight, Want
<1> QED
  BY <1>7, <1>8

-----------------------------------------------------------------------------
(* What is known of a program.                                             *)
LEMMA ProgramFacts ==
  ASSUME code \in Programs
  PROVE  /\ Labels \in SUBSET Addresses /\ IsFiniteSet(Labels) /\ 0 \notin Labels
         /\ code.polls \in SUBSET Labels /\ code.entry \in Labels \cup {0} /\ code.nmi \in Labels \cup {0}
         /\ code.table \in Seq(Nat)
         /\ \A b \in Labels : /\ NextOf(b) \in Addresses \cup {0} /\ To(b) \in SUBSET (Addresses \cup {0})
                              /\ Op(b) \in {"jmp", "jsr"} => Cardinality(To(b)) = 1
<1>1. IsProgram(code)
  BY ReturnsAssumption
<1>2. IsFiniteSet(Addresses) /\ 0 \notin Addresses
  <2>1. Addresses = 1 .. Bytes - 1 /\ 1 \in Int /\ Bytes - 1 \in Int
    BY BytesType
  <2> QED
    BY <2>1, FS_Interval
<1>3. Labels \in SUBSET Addresses
  BY <1>1 DEF IsProgram, Labels
<1>4. IsFiniteSet(Labels) /\ 0 \notin Labels
  BY <1>2, <1>3, FS_Subset
<1>5. /\ code.polls \in SUBSET Labels /\ code.entry \in Labels \cup {0} /\ code.nmi \in Labels \cup {0}
      /\ code.table \in Seq(Nat)
  BY <1>1 DEF IsProgram, Labels
<1>6. \A b \in Labels : /\ NextOf(b) \in Addresses \cup {0} /\ To(b) \in SUBSET (Addresses \cup {0})
                        /\ Op(b) \in {"jmp", "jsr"} => Cardinality(To(b)) = 1
  BY <1>1 DEF IsProgram, Labels, Op, To, NextOf
<1> QED
  BY <1>3, <1>4, <1>5, <1>6

LEMMA CountType ==
  ASSUME code \in Programs, NEW T \in SUBSET Labels
  PROVE  IsFiniteSet(T) /\ Cardinality(T) \in Nat /\ T \in SUBSET Addresses
BY ProgramFacts, FS_Subset, FS_CardinalityType

LEMMA CallsType ==
  ASSUME code \in Programs, NEW t, NEW ret
  PROVE  Calls(t, ret) \in Nat
<1> DEFINE T == {b \in Labels : /\ Op(b) \in {"jsr", "switch"}
                                /\ TailTargets(b) = {t}
                                /\ NextOf(b) = ret /\ ret \in Labels}
<1>1. T \in SUBSET Labels /\ Calls(t, ret) = Cardinality(T)
  BY DEF Calls
<1> HIDE DEF T
<1> QED
  BY <1>1, CountType

LEMMA WeightType ==
  ASSUME code \in Programs, weights = RtsReturnWeight, NEW r \in Labels, Op(r) = "rts", NEW ret \in Labels
  PROVE  /\ weights[r][ret] \in Nat
         /\ \A e \in Labels : r \in ReachableRts(e) /\ Calls(e, ret) > 0 => weights[r][ret] > 0
<1> DEFINE f == [e \in Labels |-> Calls(e, ret)]
           S == {e \in Labels : r \in ReachableRts(e)}
<1>1. weights[r][ret] = SumFunctionOnSet(f, S)
  <2> DEFINE reach == [e \in Labels |-> ReachableRts(e)]
             R == {e \in Labels : r \in reach[e]}
  <2>1. S = R
    OBVIOUS
  <2>2. weights[r][ret] = SumFunctionOnSet(f, R)
    <3>1. r \in {b \in Labels : Op(b) = "rts"}
      OBVIOUS
    <3>2. RtsReturnWeight[r] = [q \in Labels |-> SumFunctionOnSet([e \in Labels |-> Calls(e, q)], R)]
      BY <3>1 DEF RtsReturnWeight
    <3> HIDE DEF R
    <3> QED
      BY <3>2
  <2> HIDE DEF S, R
  <2> QED
    BY <2>1, <2>2
<1>2. NatOn(f, S)
  <2>1. IsFiniteSet(S)
    <3>1. S \in SUBSET Labels
      OBVIOUS
    <3> HIDE DEF S
    <3> QED
      BY <3>1, CountType
  <2>2. \A e \in S : f[e] \in Nat
    BY CallsType
  <2> QED
    BY <2>1, <2>2 DEF NatOn
<1>3. \A e \in S : SumFunctionOnSet(f, S) = f[e] + SumFunctionOnSet(f, S \ {e}) /\ SumFunctionOnSet(f, S \ {e}) \in Nat
  <2> SUFFICES ASSUME NEW e \in S
               PROVE  SumFunctionOnSet(f, S) = f[e] + SumFunctionOnSet(f, S \ {e}) /\ SumFunctionOnSet(f, S \ {e}) \in Nat
    OBVIOUS
  <2> HIDE DEF f, S
  <2>1. NatOn(f, S \ {e})
    BY <1>2, FS_Subset DEF NatOn
  <2> QED
    BY <1>2, <2>1, SumAny, SumNat
<1>4. SumFunctionOnSet(f, S) \in Nat
  <2> HIDE DEF f, S
  <2> QED
    BY <1>2, SumNat
<1>5. ASSUME NEW e \in Labels, r \in ReachableRts(e), Calls(e, ret) > 0 PROVE weights[r][ret] > 0
  <2>1. e \in S /\ f[e] = Calls(e, ret) /\ Calls(e, ret) \in Nat
    BY <1>5, CallsType
  <2> DEFINE all == SumFunctionOnSet(f, S)
             rest == SumFunctionOnSet(f, S \ {e})
  <2>2. all = f[e] + rest /\ rest \in Nat
    <3> HIDE DEF f, S
    <3> QED
      BY <1>3, <2>1
  <2>3. weights[r][ret] = all /\ f[e] \in Nat /\ f[e] > 0
    BY <1>1, <1>5, <2>1
  <2> HIDE DEF all, rest, f
  <2> QED
    BY <2>2, <2>3
<1> QED
  BY <1>1, <1>4, <1>5

-----------------------------------------------------------------------------
(* The passes.                                                             *)
LEMMA PassStage ==
  ASSUME code \in Programs, NEW b, NEW site, SiteRight(b, site), Op(b) = "rts" => site.lastInc,
         NEW T \in SUBSET Labels, NEW w, \A t \in T : w[t] \in Nat, NEW n \in Nat
  PROVE  SiteRight(b, AddStage(site, Groups(ToSet(Best(T, w, n)), w)))
<1> DEFINE S == ToSet(Best(T, w, n))
<1>1. Ordered(T, w)
  BY CountType, AddressType DEF Ordered
<1>2. S \in SUBSET T
  BY <1>1, BestOf DEF ToSet
<1> HIDE DEF S
<1>3. S \in SUBSET Addresses /\ IsFiniteSet(S) /\ NatOn(w, S)
  BY <1>2, CountType DEF NatOn
<1> QED
  BY <1>3, AddStageRight DEF S

LEMMA LeafSiteRight ==
  ASSUME code \in Programs, NEW b, Op(b) = "rts"
  PROVE  SiteRight(b, LeafSite(b))
<1> DEFINE T == ReturnsOfLeaf(b)
           w == [ret \in Labels |-> Calls(b, ret)]
           order == Best(T, w, LeafReturns)
           raw(ret) == Wrap(ret + PageSize * NumPages - 1)
           group(ret) == [hi |-> Hi(raw(ret)), arms |-> <<Arm(Lo(raw(ret)), ret)>>]
           groups == [i \in DOMAIN order |-> group(order[i])]
           stage == [inc |-> FALSE, groups |-> groups]
           site == LeafSite(b)
<1>1. T \in SUBSET Labels /\ \A t \in T : w[t] \in Nat
  BY CallsType DEF ReturnsOfLeaf
<1>2. Ordered(T, w) /\ LeafReturns \in Nat
  BY <1>1, CountType, AddressType, ReturnsAssumption DEF Ordered
<1> HIDE DEF T, w
<1>3. DOMAIN order = 1 .. Len(order) /\ Len(order) \in Nat /\ \A i \in DOMAIN order : order[i] \in Addresses
  <2>1. DOMAIN order = 1 .. Len(order) /\ order \in Seq(T) /\ \A i \in DOMAIN order : order[i] \in T
    BY <1>2, BestOf
  <2>2. T \in SUBSET Addresses
    BY <1>1, CountType
  <2> HIDE DEF order
  <2> QED
    BY <2>1, <2>2
<1> HIDE DEF order
<1>4. site = [stages |-> <<stage>>, lastInc |-> TRUE]
  BY Zenon DEF LeafSite, order, T, w
<1>5. ASSUME NEW ret \in Addresses
      PROVE  /\ raw(ret) \in Words /\ Wrap(raw(ret) + 1) = ret
             /\ group(ret) \in GroupsOfArms /\ DOMAIN group(ret).arms = {1}
             /\ group(ret).arms[1] = Arm(Lo(raw(ret)), ret)
  <2>1. raw(ret) \in Words /\ Wrap(raw(ret) + 1) = ret
    BY AddressType, PopOfPush
  <2> HIDE DEF raw
  <2>2. Hi(raw(ret)) \in Nat /\ Lo(raw(ret)) \in 0 .. PageSize - 1
    BY <2>1, WordType, Division
  <2>3. Arm(Lo(raw(ret)), ret) \in Arms
    BY <2>2 DEF Arm, Arms
  <2> QED
    BY <2>1, <2>2, <2>3 DEF GroupsOfArms
<1>6. groups \in [1 .. Len(order) -> GroupsOfArms]
  <2> HIDE DEF group
  <2> QED
    BY <1>3, <1>5
<1>7. groups \in Seq(GroupsOfArms)
  <2> HIDE DEF groups
  <2> QED
    BY <1>3, <1>6
<1>8. stage \in Stages /\ <<stage>> \in Seq(Stages)
  <2>1. stage \in Stages
    <3> HIDE DEF groups
    <3> QED
      BY <1>7 DEF Stages
  <2> HIDE DEF stage
  <2> QED
    BY <2>1
<1>9. StageRight(b, stage)
  <2> SUFFICES ASSUME NEW g \in DOMAIN groups, NEW j \in DOMAIN groups[g].arms, NEW a \in Words,
                      Matches(stage, g, j, a)
               PROVE  groups[g].arms[j].to = Want(b, a)
    BY DEF StageRight
  <2> DEFINE ret == order[g]
  <2>1. ret \in Addresses /\ groups[g] = group(ret)
    BY <1>3
  <2>2. /\ raw(ret) \in Words /\ Wrap(raw(ret) + 1) = ret
        /\ DOMAIN group(ret).arms = {1} /\ group(ret).arms[1] = Arm(Lo(raw(ret)), ret)
    BY <1>5, <2>1
  <2>3. group(ret).hi = Hi(raw(ret))
    OBVIOUS
  <2>4. stage.inc = FALSE /\ stage.groups = groups
    OBVIOUS
  <2> HIDE DEF raw, ret, groups, group, stage
  <2>5. j = 1 /\ groups[g].hi = Hi(raw(ret)) /\ groups[g].arms[1] = Arm(Lo(raw(ret)), ret)
    BY <2>1, <2>2, <2>3
  <2>6. groups[g].hi = Hi(a) /\ groups[g].arms[1].lo = Lo(a)
    BY <2>4, <2>5 DEF Matches, HlAt
  <2>7. Hi(a) = Hi(raw(ret)) /\ Lo(a) = Lo(raw(ret)) /\ groups[g].arms[1].to = ret
    BY <2>5, <2>6 DEF Arm
  <2>8. a \in Nat /\ raw(ret) \in Nat
    BY <2>2, WordType
  <2>9. a = raw(ret)
    BY <2>7, <2>8, SplitUnique
  <2> QED
    BY <2>2, <2>5, <2>7, <2>9 DEF Want
<1> HIDE DEF stage
<1>10. site.stages = <<stage>> /\ site.lastInc = TRUE /\ site \in Sites /\ DOMAIN site.stages = {1} /\ site.stages[1] = stage
  <2>1. DOMAIN <<stage>> = {1} /\ <<stage>>[1] = stage
    OBVIOUS
  <2> QED
    BY <1>4, <1>8, <2>1 DEF Sites
<1> HIDE DEF site
<1> QED
  BY <1>9, <1>10 DEF SiteRight, Incremented, site

Dynamics == {b \in Labels : Op(b) \in {"rts", "rti", "ind"}}

SitesRight ==
  /\ sites = [b \in Dynamics |-> sites[b]]
  /\ \A b \in Dynamics : SiteRight(b, sites[b])

LEMMA LeafPassRight ==
  ASSUME code \in Programs, SitesRight, NEW b \in Dynamics
  PROVE  SiteRight(b, LeafPass[b])
<1>1. b \in DOMAIN sites /\ SiteRight(b, sites[b])
  BY Zenon DEF SitesRight
<1>2. CASE Op(b) = "rts" /\ Cardinality(ReturnsOfLeaf(b)) \in 1 .. LeafReturns
  <2>1. LeafPass[b] = LeafSite(b)
    BY <1>1, <1>2 DEF LeafPass
  <2> QED
    BY <1>2, <2>1, LeafSiteRight
<1>3. CASE ~(Op(b) = "rts" /\ Cardinality(ReturnsOfLeaf(b)) \in 1 .. LeafReturns)
  <2>1. LeafPass[b] = sites[b]
    BY <1>1, <1>3 DEF LeafPass
  <2> QED
    BY <1>1, <2>1
<1> QED
  BY <1>2, <1>3

LEMMA SubPassRight ==
  ASSUME code \in Programs, SitesRight, weights = RtsReturnWeight, NEW b \in Dynamics
  PROVE  SiteRight(b, SubPass[b])
<1>1. b \in DOMAIN sites /\ SiteRight(b, sites[b]) /\ b \in Labels
  BY Zenon DEF SitesRight, Dynamics
<1>2. CASE b \in WithinBudget
  <2>1. SubPass[b] = AddStage(sites[b], Groups(ToSet(Chosen(b)), weights[b]))
    BY <1>1, <1>2 DEF SubPass
  <2>2. sites[b].lastInc
    BY <1>2 DEF WithinBudget, Candidates
  <2>3. Op(b) = "rts"
    BY <1>1, <2>2 DEF SiteRight, Incremented
  <2>4. ReturnsOf(b) \in SUBSET Labels /\ \A t \in ReturnsOf(b) : weights[b][t] \in Nat
    BY <1>1, <2>3, WeightType DEF ReturnsOf
  <2>5. MaxReturns \in Nat
    BY ReturnsAssumption
  <2> QED
    BY <1>1, <2>1, <2>2, <2>4, <2>5, PassStage DEF Chosen
<1>3. CASE b \notin WithinBudget
  <2>1. SubPass[b] = sites[b]
    BY <1>1, <1>3 DEF SubPass
  <2> QED
    BY <1>1, <2>1
<1> QED
  BY <1>2, <1>3

LEMMA DeferPassRight ==
  ASSUME code \in Programs, SitesRight, NEW b \in Dynamics
  PROVE  SiteRight(b, DeferPass[b])
<1> DEFINE st == sites[b].stages
           last == Last(st)
           stages == Append(Front(st), Lowered(last))
           new == [stages |-> stages, lastInc |-> TRUE]
<1>1. b \in DOMAIN sites /\ SiteRight(b, sites[b])
  BY Zenon DEF SitesRight
<1>2. CASE st # <<>> /\ last.inc /\ ~Borrows(last)
  <2>1. DeferPass[b] = new
    BY <1>1, <1>2 DEF DeferPass
  <2>2. st \in Seq(Stages) /\ \A k \in DOMAIN st : StageRight(b, st[k])
    BY <1>1 DEF SiteRight, Sites
  <2>3. Len(st) \in Nat /\ Len(st) # 0 /\ DOMAIN st = 1 .. Len(st) /\ last = st[Len(st)]
    <3> HIDE DEF st
    <3> QED
      BY <1>2, <2>2 DEF Last
  <2>4. Len(st) \in DOMAIN st
    BY <2>3
  <2>5. last \in Stages /\ StageRight(b, last)
    BY <2>2, <2>3, <2>4
  <2>6. Op(b) = "rts"
    BY <1>1, <1>2, <2>3, <2>4 DEF SiteRight, Incremented
  <2>7. Lowered(last) \in Stages /\ ~Lowered(last).inc /\ StageRight(b, Lowered(last))
    BY <1>2, <2>5, <2>6, LoweredRight
  <2>8. /\ Front(st) \in Seq(Stages) /\ Len(Front(st)) = Len(st) - 1
        /\ \A k \in 1 .. Len(st) - 1 : Front(st)[k] = st[k]
    <3> HIDE DEF st
    <3>1. Front(st) = [k \in 1 .. Len(st) - 1 |-> st[k]]
      BY <2>2, <2>3 DEF Front
    <3>2. \A k \in 1 .. Len(st) - 1 : k \in DOMAIN st /\ st[k] \in Stages
      BY <2>2, <2>3
    <3> QED
      BY <2>3, <3>1, <3>2
  <2> HIDE DEF st, last
  <2>9. /\ stages \in Seq(Stages) /\ Len(stages) = Len(st) /\ DOMAIN stages = 1 .. Len(st)
        /\ \A k \in 1 .. Len(st) - 1 : stages[k] = st[k]
        /\ stages[Len(st)] = Lowered(last)
    <3> DEFINE front == Front(st)
               low == Lowered(last)
    <3>1. front \in Seq(Stages) /\ Len(front) = Len(st) - 1 /\ low \in Stages /\ Len(st) \in Nat
      BY <2>3, <2>7, <2>8
    <3>2. \A k \in 1 .. Len(st) - 1 : front[k] = st[k]
      BY <2>8
    <3> HIDE DEF front, low
    <3>3. stages = Append(front, low)
      BY DEF front, low
    <3> HIDE DEF stages
    <3>4. stages \in Seq(Stages) /\ Len(stages) = Len(st) /\ stages[Len(st)] = low
      BY <3>1, <3>3
    <3>5. \A k \in 1 .. Len(st) - 1 : stages[k] = front[k]
      BY <3>1, <3>3
    <3> QED
      BY <3>2, <3>4, <3>5 DEF low
  <2>10. new \in Sites /\ new.stages = stages /\ new.lastInc
    <3> HIDE DEF stages
    <3> QED
      BY <2>9 DEF Sites
  <2>11. \A k \in DOMAIN stages : StageRight(b, stages[k])
    <3> TAKE k \in DOMAIN stages
    <3> HIDE DEF stages
    <3>1. k = Len(st) \/ (k \in 1 .. Len(st) - 1 /\ k \in DOMAIN st)
      BY <2>3, <2>9
    <3> QED
      BY <2>2, <2>7, <2>9, <3>1
  <2> HIDE DEF new, stages
  <2> QED
    BY <2>1, <2>6, <2>10, <2>11 DEF SiteRight, Incremented
<1>3. CASE ~(st # <<>> /\ last.inc /\ ~Borrows(last))
  <2>1. DeferPass[b] = sites[b]
    BY <1>1, <1>3 DEF DeferPass
  <2> QED
    BY <1>1, <2>1
<1> QED
  BY <1>2, <1>3

LEMMA ScoreType ==
  ASSUME code \in Programs, NEW t
  PROVE  PollScore(t) \in Nat /\ Cardinality(References(t)) \in Nat
<1> DEFINE back == {b \in References(t) : t <= b}
<1>1. References(t) \in SUBSET Labels /\ back \in SUBSET Labels
  BY DEF References
<1>2. PollScore(t) = 1 + Cardinality(References(t)) + 4 * Cardinality(back)
  BY DEF PollScore
<1> HIDE DEF back
<1>3. Cardinality(References(t)) \in Nat /\ Cardinality(back) \in Nat
  BY <1>1, CountType
<1> QED
  BY <1>2, <1>3

LEMMA RtiPassRight ==
  ASSUME code \in Programs, SitesRight, NEW b \in Dynamics
  PROVE  SiteRight(b, RtiPass[b])
<1> DEFINE score == [t \in code.polls |-> PollScore(t)]
           best == Best(code.polls, score, MaxTargets)
<1>1. b \in DOMAIN sites /\ SiteRight(b, sites[b])
  BY Zenon DEF SitesRight
<1>2. CASE Op(b) = "rti" /\ best # <<>>
  <2>1. RtiPass[b] = AddStage(sites[b], Groups(ToSet(best), score))
    BY <1>1, <1>2 DEF RtiPass
  <2>2. code.polls \in SUBSET Labels /\ \A t \in code.polls : score[t] \in Nat
    BY ProgramFacts, ScoreType
  <2>3. MaxTargets \in Nat
    BY ReturnsAssumption
  <2> HIDE DEF score
  <2> QED
    BY <1>1, <1>2, <2>1, <2>2, <2>3, PassStage
<1>3. CASE ~(Op(b) = "rti" /\ best # <<>>)
  <2>1. RtiPass[b] = sites[b]
    BY <1>1, <1>3 DEF RtiPass
  <2> QED
    BY <1>1, <2>1
<1> QED
  BY <1>2, <1>3

LEMMA TargetRankType ==
  ASSUME code \in Programs, NEW t \in {code.table[i] : i \in TableTargets}
  PROVE  t \in Labels /\ TargetRank(t) \in Nat
<1> DEFINE places == {i \in TableTargets : code.table[i] = t}
           n == Len(code.table)
<1>1. code.table \in Seq(Nat) /\ n \in Nat /\ DOMAIN code.table = 1 .. n
  BY ProgramFacts
<1>2. \A i \in TableTargets : i \in 1 .. n /\ code.table[i] \in Labels
  BY <1>1 DEF TableTargets
<1>3. places \in SUBSET (1 .. n) /\ places # {} /\ IsFiniteSet(1 .. n)
  <2>1. 1 \in Int /\ n \in Int
    BY <1>1
  <2> QED
    BY <1>2, <2>1, FS_Interval
<1>4. TargetRank(t) = (n + 1) * (1024 * Cardinality(places) + Cardinality(References(t))) - Min(places)
  BY DEF TargetRank, TargetWeight
<1> HIDE DEF places, n
<1>5. Cardinality(places) \in Nat \ {0}
  BY <1>3, FS_Subset, FS_CardinalityType, FS_EmptySet
<1>6. Min(places) \in 1 .. n
  <2>1. places \in SUBSET Nat
    BY <1>1, <1>3
  <2> QED
    BY <1>3, <2>1, MinIsLeast
<1> DEFINE w == 1024 * Cardinality(places) + Cardinality(References(t))
<1>7. w \in Nat /\ w # 0 /\ w - 1 \in Nat
  BY <1>5, ScoreType
<1> HIDE DEF w
<1>8. (n + 1) * w = (n + 1) + (n + 1) * (w - 1) /\ (n + 1) * (w - 1) \in Nat
  BY <1>1, <1>7
<1>9. TargetRank(t) \in Nat
  BY <1>1, <1>4, <1>6, <1>8 DEF w
<1> QED
  BY <1>2, <1>9

LEMMA IndirectPassRight ==
  ASSUME code \in Programs, SitesRight, NEW b \in Dynamics
  PROVE  SiteRight(b, IndirectPass[b])
<1> DEFINE T == {code.table[i] : i \in TableTargets}
           rank == [t \in T |-> TargetRank(t)]
           best == Best(DOMAIN rank, rank, MaxTargets)
<1>1. b \in DOMAIN sites /\ SiteRight(b, sites[b])
  BY Zenon DEF SitesRight
<1>2. CASE Op(b) = "ind" /\ best # <<>>
  <2>1. IndirectPass[b] = AddStage(sites[b], Groups(ToSet(best), rank))
    BY <1>1, <1>2 DEF IndirectPass
  <2>2. T \in SUBSET Labels /\ DOMAIN rank = T /\ \A t \in T : rank[t] \in Nat
    BY TargetRankType
  <2>3. MaxTargets \in Nat
    BY ReturnsAssumption
  <2> HIDE DEF T, rank
  <2> QED
    BY <1>1, <1>2, <2>1, <2>2, <2>3, PassStage
<1>3. CASE ~(Op(b) = "ind" /\ best # <<>>)
  <2>1. IndirectPass[b] = sites[b]
    BY <1>1, <1>3 DEF IndirectPass
  <2> QED
    BY <1>1, <2>1
<1> QED
  BY <1>2, <1>3

-----------------------------------------------------------------------------
(* What holds of every state: the guards are right after every pass, and   *)
(* the weights stand for the walk from the pass on that reads them.        *)
Late == {<<"sub", "defer", "rti", "ind">>, <<"defer", "rti", "ind">>, <<"rti", "ind">>, <<"ind">>, <<>>}

PassesInv ==
  /\ code \in Programs
  /\ \/ todo = Pipeline
     \/ todo = Tail(Pipeline)
     \/ todo \in Late /\ weights = RtsReturnWeight
  /\ SitesRight

TransfersInv ==
  /\ PassesInv
  /\ pc \in Labels \cup {0}
  /\ TransfersExact

LEMMA CodeKept ==
  ASSUME code' = code
  PROVE  /\ Labels' = Labels /\ Dynamics' = Dynamics
         /\ \A b : Op(b)' = Op(b) /\ To(b)' = To(b) /\ NextOf(b)' = NextOf(b)
         /\ \A b, s : SiteRight(b, s)' <=> SiteRight(b, s)
         /\ \A e : Walked(e)' = Walked(e)
         /\ \A e, r : Calls(e, r)' = Calls(e, r)
         /\ RtsReturnWeight' = RtsReturnWeight
<1>1. Labels' = Labels
  BY DEF Labels
<1>2. \A b : Op(b)' = Op(b) /\ To(b)' = To(b) /\ NextOf(b)' = NextOf(b) /\ (Chained(b)' <=> Chained(b))
  BY DEF Op, To, NextOf, Chained
<1>3. Dynamics' = Dynamics
  BY <1>1, <1>2 DEF Dynamics
<1>4. \A b, s : SiteRight(b, s)' <=> SiteRight(b, s)
  BY DEF SiteRight, StageRight, Want, Op
<1>5. \A b : TailTargets(b)' = TailTargets(b)
  BY <1>1, <1>2 DEF TailTargets
<1>6. \A b : Successors(b)' = Successors(b)
  BY <1>1, <1>2, <1>5 DEF Successors, BaseSuccessors, TraceFallthrough, Follower
<1>7. \A e : Walked(e)' = Walked(e)
  BY <1>1, <1>6 DEF Walked
<1>8. \A e : ReachableRts(e)' = ReachableRts(e)
  BY <1>2, <1>7 DEF ReachableRts
<1>9. \A e, r : Calls(e, r)' = Calls(e, r)
  BY <1>1, <1>2, <1>5 DEF Calls
<1>10. RtsReturnWeight' = RtsReturnWeight
  BY <1>1, <1>2, <1>8, <1>9 DEF RtsReturnWeight
<1> QED
  BY <1>1, <1>2, <1>3, <1>4, <1>7, <1>9, <1>10

LEMMA PassesStart ==
  ASSUME ReturnsInit
  PROVE  TransfersInv
<1>1. code \in Programs /\ todo = Pipeline /\ TransfersExact /\ pc \in Labels \cup {0}
  BY ProgramFacts DEF ReturnsInit, TransfersExact, Nowhere
<1>2. sites = [b \in Dynamics |-> Generic(b)]
  BY DEF ReturnsInit, Dynamics
<1>3. \A b : SiteRight(b, Generic(b))
  <2> TAKE b
  <2> DEFINE site == Generic(b)
  <2>1. DOMAIN <<>> = {} /\ <<>> \in Seq(Stages)
    OBVIOUS
  <2>2. (Op(b) = "rts") \in BOOLEAN
    OBVIOUS
  <2>3. site.stages = <<>> /\ site.lastInc = (Op(b) = "rts")
    BY DEF Generic
  <2>4. site \in Sites
    BY <2>1, <2>2 DEF Generic, Sites
  <2> HIDE DEF site
  <2>5. DOMAIN site.stages = {} /\ (Incremented(site) <=> Op(b) = "rts")
    BY <2>1, <2>3 DEF Incremented
  <2>6. SiteRight(b, site)
    BY <2>4, <2>5 DEF SiteRight
  <2> QED
    BY <2>6 DEF site
<1> QED
  BY <1>1, <1>2, <1>3 DEF TransfersInv, PassesInv, SitesRight

LEMMA PassesStep ==
  ASSUME PassesInv, RunPass
  PROVE  PassesInv'
<1>0. code' = code /\ weights' = weights /\ todo' = Tail(todo) /\ todo # <<>> /\ Head(todo) # "walk"
  BY DEF RunPass
<1>1. \/ Head(todo) = "leaf" /\ todo' = Tail(Pipeline)
      \/ Head(todo) \in {"sub", "defer", "rti", "ind"} /\ todo' \in Late /\ weights = RtsReturnWeight
  <2>1. Head(Pipeline) = "leaf" /\ Head(Tail(Pipeline)) = "walk"
    BY DEF Pipeline
  <2>2. ASSUME todo \in Late
        PROVE  Head(todo) \in {"sub", "defer", "rti", "ind"} /\ Tail(todo) \in Late
    <3>1. CASE todo = <<"sub", "defer", "rti", "ind">>
      BY <3>1 DEF Late
    <3>2. CASE todo = <<"defer", "rti", "ind">>
      BY <3>2 DEF Late
    <3>3. CASE todo = <<"rti", "ind">>
      BY <3>3 DEF Late
    <3>4. CASE todo = <<"ind">>
      BY <3>4 DEF Late
    <3> QED
      BY <1>0, <2>2, <3>1, <3>2, <3>3, <3>4 DEF Late
  <2>3. CASE todo = Pipeline
    BY <1>0, <2>1, <2>3
  <2>4. CASE todo = Tail(Pipeline)
    BY <1>0, <2>1, <2>4
  <2>5. CASE todo \in Late /\ weights = RtsReturnWeight
    BY <1>0, <2>2, <2>5
  <2> QED
    BY <2>3, <2>4, <2>5 DEF PassesInv
<1>2. /\ sites' = [b \in DOMAIN sites |-> sites'[b]]
      /\ \A b \in Dynamics : SiteRight(b, sites'[b])
  <2> USE DEF PassesInv
  <2>1. CASE Head(todo) = "leaf"
    <3>1. sites' = LeafPass
      BY <2>1 DEF RunPass
    <3> QED
      BY <3>1, LeafPassRight DEF LeafPass
  <2>2. CASE Head(todo) = "sub"
    <3>1. sites' = SubPass /\ weights = RtsReturnWeight
      BY <1>1, <2>2 DEF RunPass
    <3> QED
      BY <3>1, SubPassRight DEF SubPass
  <2>3. CASE Head(todo) = "defer"
    <3>1. sites' = DeferPass
      BY <2>3 DEF RunPass
    <3> QED
      BY <3>1, DeferPassRight DEF DeferPass
  <2>4. CASE Head(todo) = "rti"
    <3>1. sites' = RtiPass
      BY <2>4 DEF RunPass
    <3> QED
      BY <3>1, RtiPassRight DEF RtiPass
  <2>5. CASE Head(todo) = "ind"
    <3>1. sites' = IndirectPass
      BY <2>5 DEF RunPass
    <3> QED
      BY <3>1, IndirectPassRight DEF IndirectPass
  <2> QED
    BY <1>1, <2>1, <2>2, <2>3, <2>4, <2>5
<1>3. DOMAIN sites = Dynamics
  BY Zenon DEF PassesInv, SitesRight
<1>4. SitesRight'
  BY <1>0, <1>2, <1>3, CodeKept DEF SitesRight
<1> QED
  BY <1>0, <1>1, <1>4, CodeKept DEF PassesInv

LEMMA PassesKept ==
  ASSUME PassesInv, UNCHANGED <<code, todo, weights, sites>>
  PROVE  PassesInv'
<1>1. SitesRight'
  BY CodeKept DEF PassesInv, SitesRight
<1> QED
  BY <1>1, CodeKept DEF PassesInv

LEMMA DynamicRight ==
  ASSUME PassesInv, pc \in Dynamics, NEW a \in Addresses \cup {0}, code' = code,
         Dynamic(a, Want(pc, a))
  PROVE  TransfersExact' /\ pc' \in Labels \cup {0}
<1>1. SiteRight(pc, sites[pc]) /\ a \in Words
  BY AddressType, BytesType DEF PassesInv, SitesRight, Words
<1>2. Through(sites[pc], a) = Want(pc, a)
  BY <1>1, ThroughRight
<1> QED
  BY <1>2 DEF Dynamic, Continue, TransfersExact

-----------------------------------------------------------------------------
(* Runs that leave the stack alone: each return address on it belongs to a *)
(* subroutine, named by its entry, that the walk follows as the run does.  *)
Frames == [addr : Words, by : {"jsr", "nmi", "poke"}]

BackTo(frame, callee, caller) ==
  /\ frame.by = "jsr" /\ Wrap(frame.addr + 1) \in Labels =>
       Calls(callee, Wrap(frame.addr + 1)) > 0 /\ Wrap(frame.addr + 1) \in Walked(caller)
  /\ frame.by = "nmi" => frame.addr \in Walked(caller)

Guided(st, own, b) ==
  /\ own \in [0 .. Len(st) -> Labels]
  /\ b \in Walked(own[Len(st)])
  /\ \A i \in 1 .. Len(st) : BackTo(st[i], own[i], own[i - 1])

CallsInv ==
  /\ stack \in Seq(Frames)
  /\ ~strayed /\ pc # 0 => \E own : Guided(stack, own, pc)
  /\ todo # <<>> => taken = Nowhere

LEMMA WalkFacts ==
  ASSUME NEW e \in Labels
  PROVE  /\ e \in Walked(e) /\ Walked(e) \subseteq Labels
         /\ \A b \in Walked(e) : Successors(b) \subseteq Walked(e)
<1>1. \A b : Successors(b) \subseteq Labels
  BY DEF Successors, BaseSuccessors, TailTargets, TraceFallthrough
<1> QED
  BY <1>1 DEF Walked

LEMMA SuccessorFacts ==
  ASSUME code \in Programs, NEW b \in Labels
  PROVE  /\ Op(b) \in {"branch", "jmp", "switch"} => \A t \in To(b) \cap Labels : t \in Successors(b)
         /\ Op(b) \in Falls \cup {"branch", "jsr"} /\ NextOf(b) \in Labels => NextOf(b) \in Successors(b)
<1>0. Falls = {"fall", "drop", "poke"}
  BY DEF Falls
<1>1. ASSUME Op(b) = "switch" PROVE \A t \in To(b) \cap Labels : t \in Successors(b)
  BY <1>0, <1>1 DEF Successors, TailTargets
<1>2. ASSUME Op(b) = "branch" PROVE \A t \in (To(b) \cup {NextOf(b)}) \cap Labels : t \in Successors(b)
  BY <1>0, <1>2 DEF Successors, BaseSuccessors, TailTargets, TraceFallthrough, Follower
<1>3. ASSUME Op(b) = "jmp" PROVE \A t \in To(b) \cap Labels : t \in Successors(b)
  BY <1>0, <1>3 DEF Successors, BaseSuccessors, TailTargets, TraceFallthrough, Follower
<1>4. ASSUME Op(b) \in Falls, NextOf(b) \in Labels PROVE NextOf(b) \in Successors(b)
  BY <1>0, <1>4 DEF Successors, BaseSuccessors, TailTargets, TraceFallthrough, Follower
<1>5. ASSUME Op(b) = "jsr", NextOf(b) \in Labels PROVE NextOf(b) \in Successors(b)
  BY <1>5 DEF Successors, BaseSuccessors
<1> QED
  BY <1>1, <1>2, <1>3, <1>4, <1>5

LEMMA GuidedStep ==
  ASSUME NEW st \in Seq(Frames), NEW own, NEW b, Guided(st, own, b), NEW c \in Successors(b)
  PROVE  Guided(st, own, c)
<1>1. own[Len(st)] \in Labels
  BY DEF Guided
<1> QED
  BY <1>1, WalkFacts DEF Guided

LEMMA GuidedPush ==
  ASSUME NEW st \in Seq(Frames), NEW own, NEW b, Guided(st, own, b),
         NEW frame \in Frames, NEW t \in Labels, BackTo(frame, t, own[Len(st)])
  PROVE  \E longer : Guided(Append(st, frame), longer, t)
<1> DEFINE n == Len(st)
           new == Append(st, frame)
           longer == [i \in 0 .. n + 1 |-> IF i = n + 1 THEN t ELSE own[i]]
<1>1. n \in Nat /\ Len(new) = n + 1 /\ new[n + 1] = frame /\ \A i \in 1 .. n : new[i] = st[i]
  OBVIOUS
<1>2. own \in [0 .. n -> Labels] /\ \A i \in 1 .. n : BackTo(st[i], own[i], own[i - 1])
  BY DEF Guided
<1> HIDE DEF n, new
<1>3. longer \in [0 .. n + 1 -> Labels] /\ longer[n + 1] = t /\ \A i \in 0 .. n : longer[i] = own[i]
  BY <1>1, <1>2
<1> HIDE DEF longer
<1>4. t \in Walked(longer[n + 1])
  BY <1>3, WalkFacts
<1>5. ASSUME NEW i \in 1 .. n + 1 PROVE BackTo(new[i], longer[i], longer[i - 1])
  <2>1. CASE i = n + 1
    <3>1. i - 1 = n /\ n \in 0 .. n
      BY <1>1, <2>1
    <3> QED
      BY <1>1, <1>3, <2>1, <3>1 DEF n
  <2>2. CASE i # n + 1
    <3>1. i \in 1 .. n /\ i \in 0 .. n /\ i - 1 \in 0 .. n
      BY <1>1, <2>2
    <3> QED
      BY <1>1, <1>2, <1>3, <3>1
  <2> QED
    BY <2>1, <2>2
<1>6. Guided(new, longer, t)
  BY <1>1, <1>3, <1>4, <1>5 DEF Guided
<1> QED
  BY <1>6 DEF new

LEMMA GuidedPop ==
  ASSUME NEW st \in Seq(Frames), st # <<>>, NEW own, NEW b, Guided(st, own, b), NEW c \in Labels,
         \/ Last(st).by = "jsr" /\ c = Wrap(Last(st).addr + 1)
         \/ Last(st).by = "nmi" /\ c = Last(st).addr
  PROVE  /\ Front(st) \in Seq(Frames) /\ Last(st) \in Frames
         /\ \E shorter : Guided(Front(st), shorter, c)
         /\ own[Len(st)] \in Labels /\ b \in Walked(own[Len(st)])
         /\ Last(st).by = "jsr" => Calls(own[Len(st)], c) > 0
<1> DEFINE n == Len(st)
           new == Front(st)
           shorter == [i \in 0 .. n - 1 |-> own[i]]
<1>1. n \in Nat \ {0} /\ Last(st) = st[n] /\ n \in 1 .. n
  BY DEF Last
<1>2. own \in [0 .. n -> Labels] /\ \A i \in 1 .. n : BackTo(st[i], own[i], own[i - 1])
  BY DEF Guided
<1>3. Last(st) \in Frames
  BY <1>1
<1>4. new \in Seq(Frames) /\ Len(new) = n - 1 /\ \A i \in 1 .. n - 1 : new[i] = st[i]
  <2>1. Front(st) = [i \in 1 .. n - 1 |-> st[i]]
    BY <1>1 DEF Front
  <2>2. \A i \in 1 .. n - 1 : st[i] \in Frames
    BY <1>1
  <2> QED
    BY <1>1, <2>1, <2>2
<1> HIDE DEF n, new
<1>5. BackTo(Last(st), own[n], own[n - 1]) /\ own[n] \in Labels /\ own[n - 1] \in Labels
  BY <1>1, <1>2
<1>6. c \in Walked(own[n - 1]) /\ (Last(st).by = "jsr" => Calls(own[n], c) > 0)
  BY <1>5 DEF BackTo
<1>7. shorter \in [0 .. n - 1 -> Labels] /\ \A i \in 0 .. n - 1 : shorter[i] = own[i]
  BY <1>1, <1>2
<1> HIDE DEF shorter
<1>8. ASSUME NEW i \in 1 .. n - 1 PROVE BackTo(new[i], shorter[i], shorter[i - 1])
  <2>1. i \in 1 .. n /\ i \in 0 .. n - 1 /\ i - 1 \in 0 .. n - 1
    BY <1>1
  <2> QED
    BY <1>2, <1>4, <1>7, <2>1
<1>9. n - 1 \in 0 .. n - 1
  BY <1>1
<1>10. Guided(new, shorter, c)
  BY <1>4, <1>6, <1>7, <1>8, <1>9 DEF Guided
<1> QED
  BY <1>3, <1>4, <1>5, <1>6, <1>10 DEF Guided, n, new

RunInv == TransfersInv /\ CallsInv /\ ReturnsFound

LEMMA GuidesKept ==
  ASSUME code' = code
  PROVE  \A st, own, b : Guided(st, own, b)' <=> Guided(st, own, b)
<1>1. \A f, t, u : BackTo(f, t, u)' <=> BackTo(f, t, u)
  BY CodeKept DEF BackTo
<1> QED
  BY <1>1, CodeKept DEF Guided

(* What a step that leaves the guards and the last transfer alone keeps.   *)
LEMMA RunKept ==
  ASSUME RunInv, UNCHANGED <<code, todo, weights, sites, taken>>, pc' \in Labels \cup {0},
         strayed => strayed'
  PROVE  TransfersInv' /\ ReturnsFound' /\ (todo' # <<>> => taken' = Nowhere)
<1>1. TransfersInv'
  BY PassesKept, CodeKept DEF RunInv, TransfersInv, TransfersExact
<1>2. \A r : ReturnsOf(r)' = ReturnsOf(r)
  BY CodeKept DEF ReturnsOf, RtsWeight
<1>3. ReturnsFound'
  BY <1>2, CodeKept DEF RunInv, ReturnsFound
<1> QED
  BY <1>1, <1>3 DEF RunInv, CallsInv

LEMMA CallsKept ==
  ASSUME stack' \in Seq(Frames), code' = code,
         ~strayed' /\ pc' # 0 => \E own : Guided(stack', own, pc'),
         todo' # <<>> => taken' = Nowhere
  PROVE  CallsInv'
<1>1. Frames' = Frames
  BY DEF Frames, Words, Bytes
<1>2. ASSUME NEW own, Guided(stack', own, pc') PROVE Guided(stack, own, pc)'
  BY <1>2, GuidesKept
<1> QED
  BY <1>1, <1>2 DEF CallsInv

LEMMA CallCounts ==
  ASSUME code \in Programs, NEW b \in Labels, Op(b) = "jsr", NEW t \in To(b) \cap Labels, NextOf(b) \in Labels
  PROVE  Calls(t, NextOf(b)) > 0
<1> DEFINE sites1 == {c \in Labels : /\ Op(c) \in {"jsr", "switch"}
                                     /\ TailTargets(c) = {t}
                                     /\ NextOf(c) = NextOf(b) /\ NextOf(b) \in Labels}
<1>1. IsFiniteSet(To(b)) /\ Cardinality(To(b)) = 1
  <2>1. IsFiniteSet(Addresses \cup {0})
    <3>1. Addresses \cup {0} = 0 .. Bytes - 1 /\ 0 \in Int /\ Bytes - 1 \in Int
      BY BytesType
    <3> QED
      BY <3>1, FS_Interval
  <2>2. To(b) \in SUBSET (Addresses \cup {0}) /\ Cardinality(To(b)) = 1
    BY ProgramFacts
  <2> QED
    BY <2>1, <2>2, FS_Subset
<1>2. To(b) = {t}
  BY <1>1, FS_Singleton
<1>3. TailTargets(b) = {t}
  BY <1>2 DEF TailTargets, Falls
<1>4. b \in sites1 /\ sites1 \in SUBSET Labels /\ Calls(t, NextOf(b)) = Cardinality(sites1)
  BY <1>3 DEF Calls
<1> HIDE DEF sites1
<1> QED
  BY <1>4, CountType, FS_EmptySet

(* One lemma per action.                                                   *)
LEMMA WalkRun ==
  ASSUME RunInv, Walk
  PROVE  RunInv'
<1>1. /\ todo # <<>> /\ Head(todo) = "walk" /\ weights' = RtsReturnWeight /\ todo' = Tail(todo)
      /\ code' = code /\ sites' = sites /\ pc' = pc /\ stack' = stack /\ strayed' = strayed /\ taken' = taken
  BY DEF Walk
<1>2. todo' \in Late
  <2>1. Head(Pipeline) = "leaf" /\ Tail(Tail(Pipeline)) \in Late
    BY DEF Pipeline, Late
  <2>2. ASSUME todo \in Late PROVE FALSE
    <3>1. CASE todo = <<"sub", "defer", "rti", "ind">>
      BY <1>1, <3>1
    <3>2. CASE todo = <<"defer", "rti", "ind">>
      BY <1>1, <3>2
    <3>3. CASE todo = <<"rti", "ind">>
      BY <1>1, <3>3
    <3>4. CASE todo = <<"ind">>
      BY <1>1, <3>4
    <3> QED
      BY <1>1, <2>2, <3>1, <3>2, <3>3, <3>4 DEF Late
  <2> QED
    BY <1>1, <2>1, <2>2 DEF RunInv, TransfersInv, PassesInv
<1>3. SitesRight'
  BY <1>1, CodeKept DEF RunInv, TransfersInv, PassesInv, SitesRight
<1>4. PassesInv'
  BY <1>1, <1>2, <1>3, CodeKept DEF RunInv, TransfersInv, PassesInv
<1>5. TransfersInv'
  BY <1>1, <1>4, CodeKept DEF RunInv, TransfersInv, TransfersExact
<1>6. CallsInv'
  BY <1>1, CallsKept DEF RunInv, CallsInv
<1>7. ReturnsFound'
  BY <1>1 DEF RunInv, CallsInv, ReturnsFound, Nowhere
<1> QED
  BY <1>5, <1>6, <1>7 DEF RunInv

LEMMA RunPassRun ==
  ASSUME RunInv, RunPass
  PROVE  RunInv'
<1>1. /\ todo # <<>> /\ code' = code /\ pc' = pc /\ stack' = stack /\ strayed' = strayed /\ taken' = taken
  BY DEF RunPass
<1>2. PassesInv'
  BY PassesStep DEF RunInv, TransfersInv
<1>3. TransfersInv'
  BY <1>1, <1>2, CodeKept DEF RunInv, TransfersInv, TransfersExact
<1>4. CallsInv'
  BY <1>1, CallsKept DEF RunInv, CallsInv
<1>5. ReturnsFound'
  BY <1>1 DEF RunInv, CallsInv, ReturnsFound, Nowhere
<1> QED
  BY <1>3, <1>4, <1>5 DEF RunInv

LEMMA RunFacts ==
  ASSUME RunInv, Running
  PROVE  /\ code \in Programs /\ pc \in Labels /\ 0 \notin Labels /\ stack \in Seq(Frames)
         /\ todo = <<>> /\ weights = RtsReturnWeight
         /\ ~strayed => \E own : Guided(stack, own, pc)
<1>1. code \in Programs /\ todo = <<>> /\ pc # 0 /\ pc \in Labels \cup {0}
  BY DEF RunInv, TransfersInv, PassesInv, Running
<1>2. Pipeline # <<>> /\ Tail(Pipeline) # <<>>
  BY DEF Pipeline
<1> QED
  BY <1>1, <1>2, ProgramFacts DEF RunInv, TransfersInv, PassesInv, CallsInv

LEMMA GotoRun ==
  ASSUME RunInv, Goto
  PROVE  RunInv'
<1>1. PICK b \in (IF Op(pc) = "fall" THEN {} ELSE To(pc)) \cup (IF Op(pc) = "jmp" THEN {} ELSE {NextOf(pc)}) :
        Continue(b)
  BY DEF Goto
<1>2. /\ Running /\ Op(pc) \in {"branch", "jmp", "fall"}
      /\ UNCHANGED <<code, todo, weights, sites, stack, active, strayed, taken>>
  BY DEF Goto
<1>3. code \in Programs /\ pc \in Labels /\ 0 \notin Labels /\ stack \in Seq(Frames)
  BY <1>2, RunFacts
<1>4. b \in Labels => b \in Successors(pc)
  BY <1>1, <1>2, <1>3, SuccessorFacts DEF Falls
<1>5. ASSUME ~strayed', pc' # 0 PROVE \E own : Guided(stack', own, pc')
  <2>1. PICK own : Guided(stack, own, pc)
    BY <1>2, <1>5, RunFacts
  <2>2. pc' = b /\ b \in Labels
    BY <1>1, <1>5 DEF Continue
  <2>3. Guided(stack, own, b)
    BY <1>3, <1>4, <2>1, <2>2, GuidedStep
  <2> QED
    BY <1>2, <2>2, <2>3
<1>6. pc' \in Labels \cup {0}
  BY <1>1 DEF Continue
<1>7. TransfersInv' /\ ReturnsFound' /\ (todo' # <<>> => taken' = Nowhere)
  BY <1>2, <1>6, RunKept
<1>8. CallsInv'
  BY <1>2, <1>3, <1>5, <1>7, CallsKept
<1> QED
  BY <1>7, <1>8 DEF RunInv

LEMMA JsrRun ==
  ASSUME RunInv, Jsr
  PROVE  RunInv'
<1> DEFINE ret == NextOf(pc)
           raw == Wrap(NextOf(pc) + PageSize * NumPages - 1)
           frame == Pushed(raw, "jsr")
<1>1. PICK b \in To(pc) : Continue(b)
  BY DEF Jsr
<1>2. /\ Running /\ Op(pc) = "jsr" /\ stack' = Append(stack, frame)
      /\ UNCHANGED <<code, todo, weights, sites, active, strayed, taken>>
  BY DEF Jsr
<1>3. code \in Programs /\ pc \in Labels /\ 0 \notin Labels /\ stack \in Seq(Frames)
  BY <1>2, RunFacts
<1>4. ret \in Words
  <2>1. ret \in Addresses \cup {0}
    BY <1>3, ProgramFacts
  <2> QED
    BY <2>1, BytesType DEF Words
<1>5. raw \in Words /\ Wrap(raw + 1) = ret
  BY <1>4, PopOfPush
<1> HIDE DEF raw
<1>6. frame \in Frames /\ frame.by = "jsr" /\ frame.addr = raw
  BY <1>5 DEF Pushed, Frames
<1> HIDE DEF frame
<1>7. stack' \in Seq(Frames)
  BY <1>2, <1>3, <1>6
<1>8. ASSUME ~strayed', pc' # 0 PROVE \E own : Guided(stack', own, pc')
  <2>1. PICK own : Guided(stack, own, pc)
    BY <1>2, <1>8, RunFacts
  <2>2. pc' = b /\ b \in Labels
    BY <1>1, <1>8 DEF Continue
  <2>3. ASSUME ret \in Labels PROVE Calls(b, ret) > 0 /\ ret \in Walked(own[Len(stack)])
    <3>1. ret \in Successors(pc)
      BY <1>2, <1>3, <2>3, SuccessorFacts
    <3>2. Guided(stack, own, ret)
      BY <1>3, <2>1, <3>1, GuidedStep
    <3>3. Calls(b, ret) > 0
      BY <1>1, <1>2, <1>3, <2>2, <2>3, CallCounts
    <3> QED
      BY <3>2, <3>3 DEF Guided
  <2>4. BackTo(frame, b, own[Len(stack)])
    BY <1>5, <1>6, <2>3 DEF BackTo
  <2>5. \E longer : Guided(Append(stack, frame), longer, b)
    BY <1>3, <1>6, <2>1, <2>2, <2>4, GuidedPush
  <2> QED
    BY <1>2, <2>2, <2>5
<1>9. pc' \in Labels \cup {0}
  BY <1>1 DEF Continue
<1>10. TransfersInv' /\ ReturnsFound' /\ (todo' # <<>> => taken' = Nowhere)
  BY <1>2, <1>9, RunKept
<1>11. CallsInv'
  BY <1>2, <1>7, <1>8, <1>10, CallsKept
<1> QED
  BY <1>10, <1>11 DEF RunInv

LEMMA SwitchRun ==
  ASSUME RunInv, Switch
  PROVE  RunInv'
<1>1. PICK b : Continue(b) /\ (strayed' = TRUE \/ (b \in To(pc) /\ strayed' = strayed))
  BY DEF Switch
<1>2. /\ Running /\ Op(pc) = "switch" /\ (strayed => strayed')
      /\ UNCHANGED <<code, todo, weights, sites, stack, active, taken>>
  BY DEF Switch
<1>3. code \in Programs /\ pc \in Labels /\ 0 \notin Labels /\ stack \in Seq(Frames)
  BY <1>2, RunFacts
<1>4. ASSUME ~strayed', pc' # 0 PROVE \E own : Guided(stack', own, pc')
  <2>1. PICK own : Guided(stack, own, pc)
    BY <1>2, <1>4, RunFacts
  <2>2. pc' = b /\ b \in Labels /\ b \in To(pc)
    BY <1>1, <1>4 DEF Continue
  <2>3. Guided(stack, own, b)
    BY <1>2, <1>3, <2>1, <2>2, SuccessorFacts, GuidedStep
  <2> QED
    BY <1>2, <2>2, <2>3
<1>5. pc' \in Labels \cup {0}
  BY <1>1 DEF Continue
<1>6. TransfersInv' /\ ReturnsFound' /\ (todo' # <<>> => taken' = Nowhere)
  BY <1>2, <1>5, RunKept
<1>7. CallsInv'
  BY <1>2, <1>3, <1>4, <1>6, CallsKept
<1> QED
  BY <1>6, <1>7 DEF RunInv

LEMMA FrontFrames ==
  ASSUME NEW st \in Seq(Frames), st # <<>>
  PROVE  Front(st) \in Seq(Frames) /\ Last(st) \in Frames
<1>1. Len(st) \in Nat \ {0} /\ \A i \in 1 .. Len(st) : st[i] \in Frames
  OBVIOUS
<1>2. Front(st) = [i \in 1 .. Len(st) - 1 |-> st[i]] /\ Last(st) = st[Len(st)]
  BY DEF Front, Last
<1> QED
  BY <1>1, <1>2

(* A step after which the run has left the plain paths.                    *)
LEMMA StrayRun ==
  ASSUME RunInv, Running, UNCHANGED <<code, todo, weights, sites, taken>>,
         strayed' = TRUE, pc' \in Labels \cup {0}, stack' \in Seq(Frames)
  PROVE  RunInv'
<1>1. TransfersInv' /\ ReturnsFound' /\ (todo' # <<>> => taken' = Nowhere)
  BY RunKept
<1>2. CallsInv'
  BY <1>1, CallsKept
<1> QED
  BY <1>1, <1>2 DEF RunInv

LEMMA DropRun ==
  ASSUME RunInv, Drop
  PROVE  RunInv'
<1>1. /\ Running /\ strayed' = TRUE /\ UNCHANGED <<code, todo, weights, sites, taken>>
      /\ stack' = IF stack = <<>> THEN <<>> ELSE Front(stack)
      /\ pc' \in Labels \cup {0}
  BY DEF Drop, Continue
<1>2. stack' \in Seq(Frames)
  BY <1>1, RunFacts, FrontFrames
<1> QED
  BY <1>1, <1>2, StrayRun

LEMMA PokeRun ==
  ASSUME RunInv, Poke
  PROVE  RunInv'
<1>1. /\ Running /\ strayed' = TRUE /\ UNCHANGED <<code, todo, weights, sites, taken>>
      /\ pc' \in Labels \cup {0}
  BY DEF Poke, Continue
<1>2. PICK a \in Addresses :
        stack' = Append(IF stack = <<>> THEN <<>> ELSE Front(stack), Pushed(a, "poke"))
  BY DEF Poke
<1>3. (IF stack = <<>> THEN <<>> ELSE Front(stack)) \in Seq(Frames)
  BY <1>1, RunFacts, FrontFrames
<1>4. Pushed(a, "poke") \in Frames
  BY AddressType DEF Pushed, Frames
<1>5. stack' \in Seq(Frames)
  BY <1>2, <1>3, <1>4
<1> QED
  BY <1>1, <1>5, StrayRun

(* The guards send the run on; it strays, or comes back where it should.   *)
LEMMA DynamicRun ==
  ASSUME RunInv, Running, pc \in Dynamics, NEW a \in Addresses \cup {0}, Dynamic(a, Want(pc, a)),
         UNCHANGED <<code, todo, weights, sites>>, stack' \in Seq(Frames),
         ~strayed' /\ pc' # 0 => \E own : Guided(stack', own, pc'),
         ~strayed' /\ Op(pc) = "rts" /\ pc' # 0 => pc' \in ReturnsOf(pc)
  PROVE  RunInv'
<1>1. TransfersExact' /\ pc' \in Labels \cup {0}
  BY DynamicRight DEF RunInv, TransfersInv
<1>2. TransfersInv'
  BY <1>1, PassesKept, CodeKept DEF RunInv, TransfersInv
<1>3. todo' = <<>>
  BY DEF Running
<1>4. CallsInv'
  BY <1>3, CallsKept
<1>5. taken'.at = pc /\ (taken'.got \in Labels => pc' = taken'.got /\ pc' # 0)
  BY RunFacts DEF Dynamic, Continue
<1>6. \A r : ReturnsOf(r)' = ReturnsOf(r)
  BY CodeKept DEF ReturnsOf, RtsWeight
<1>7. ReturnsFound'
  BY <1>5, <1>6, CodeKept DEF ReturnsFound
<1> QED
  BY <1>2, <1>4, <1>7 DEF RunInv

LEMMA RtsRun ==
  ASSUME RunInv, Rts
  PROVE  RunInv'
<1>1. PICK a \in Addresses \cup {0} : Pop(a, "jsr") /\ Dynamic(a, Wrap(a + 1))
  BY DEF Rts
<1>2. Running /\ Op(pc) = "rts" /\ UNCHANGED <<code, todo, weights, sites>>
  BY DEF Rts
<1>3. /\ code \in Programs /\ pc \in Labels /\ 0 \notin Labels /\ stack \in Seq(Frames)
      /\ weights = RtsReturnWeight
  BY <1>2, RunFacts
<1>4. pc \in Dynamics /\ Want(pc, a) = Wrap(a + 1) /\ Dynamic(a, Want(pc, a))
  BY <1>1, <1>2, <1>3 DEF Dynamics, Want
<1>5. TransfersExact' /\ pc' \in Labels \cup {0}
  BY <1>1, <1>2, <1>4, DynamicRight DEF RunInv, TransfersInv
<1>6. pc' # 0 => pc' = Wrap(a + 1)
  BY <1>1, <1>5 DEF Dynamic, Continue, TransfersExact
<1>7. stack' \in Seq(Frames)
  BY <1>1, <1>3, FrontFrames DEF Pop
<1>8. ASSUME ~strayed', pc' # 0
      PROVE  (\E own : Guided(stack', own, pc')) /\ pc' \in ReturnsOf(pc)
  <2>1. /\ stack # <<>> /\ ~strayed /\ a = Last(stack).addr /\ Last(stack).by = "jsr"
        /\ stack' = Front(stack)
    BY <1>1, <1>8 DEF Pop
  <2>2. PICK own : Guided(stack, own, pc)
    BY <1>2, <2>1, RunFacts
  <2>3. pc' \in Labels /\ pc' = Wrap(Last(stack).addr + 1)
    BY <1>5, <1>6, <1>8, <2>1
  <2>4. /\ \E shorter : Guided(Front(stack), shorter, pc')
        /\ own[Len(stack)] \in Labels /\ pc \in Walked(own[Len(stack)])
        /\ Calls(own[Len(stack)], pc') > 0
    BY <1>3, <2>1, <2>2, <2>3, GuidedPop
  <2>5. pc \in ReachableRts(own[Len(stack)])
    BY <1>2, <2>4 DEF ReachableRts
  <2>6. weights[pc][pc'] > 0
    BY <1>2, <1>3, <2>3, <2>4, <2>5, WeightType
  <2> QED
    BY <2>1, <2>3, <2>4, <2>6 DEF ReturnsOf, RtsWeight
<1> QED
  BY <1>1, <1>2, <1>4, <1>7, <1>8, DynamicRun

LEMMA RtiRun ==
  ASSUME RunInv, Rti
  PROVE  RunInv'
<1>1. PICK a \in Addresses \cup {0} : Pop(a, "nmi") /\ Dynamic(a, a)
  BY DEF Rti
<1>2. Running /\ Op(pc) = "rti" /\ UNCHANGED <<code, todo, weights, sites>>
  BY DEF Rti
<1>3. code \in Programs /\ pc \in Labels /\ 0 \notin Labels /\ stack \in Seq(Frames)
  BY <1>2, RunFacts
<1>4. pc \in Dynamics /\ Want(pc, a) = a /\ Dynamic(a, Want(pc, a))
  BY <1>1, <1>2, <1>3 DEF Dynamics, Want
<1>5. TransfersExact' /\ pc' \in Labels \cup {0}
  BY <1>1, <1>2, <1>4, DynamicRight DEF RunInv, TransfersInv
<1>6. pc' # 0 => pc' = a
  BY <1>1, <1>5 DEF Dynamic, Continue, TransfersExact
<1>7. stack' \in Seq(Frames)
  BY <1>1, <1>3, FrontFrames DEF Pop
<1>8. ASSUME ~strayed', pc' # 0 PROVE \E own : Guided(stack', own, pc')
  <2>1. /\ stack # <<>> /\ ~strayed /\ a = Last(stack).addr /\ Last(stack).by = "nmi"
        /\ stack' = Front(stack)
    BY <1>1, <1>8 DEF Pop
  <2>2. PICK own : Guided(stack, own, pc)
    BY <1>2, <2>1, RunFacts
  <2>3. pc' \in Labels /\ pc' = Last(stack).addr
    BY <1>5, <1>6, <1>8, <2>1
  <2>4. \E shorter : Guided(Front(stack), shorter, pc')
    BY <1>3, <2>1, <2>2, <2>3, GuidedPop
  <2> QED
    BY <2>1, <2>4
<1> QED
  BY <1>1, <1>2, <1>4, <1>7, <1>8, DynamicRun

LEMMA JmpIndirectRun ==
  ASSUME RunInv, JmpIndirect
  PROVE  RunInv'
<1>1. PICK a \in Addresses : Dynamic(a, a)
  BY DEF JmpIndirect
<1>2. Running /\ Op(pc) = "ind" /\ UNCHANGED <<code, todo, weights, sites, stack>> /\ strayed' = TRUE
  BY DEF JmpIndirect
<1>3. pc \in Labels /\ stack' \in Seq(Frames)
  BY <1>2, RunFacts
<1>4. pc \in Dynamics /\ Dynamic(a, Want(pc, a))
  BY <1>1, <1>2, <1>3 DEF Dynamics, Want
<1> QED
  BY <1>1, <1>2, <1>3, <1>4, DynamicRun

LEMMA InterruptRun ==
  ASSUME RunInv, Interrupt
  PROVE  RunInv'
<1> DEFINE frame == Pushed(pc, "nmi")
<1>1. /\ Running /\ stack' = Append(stack, frame) /\ code.nmi # 0 /\ Continue(code.nmi)
      /\ UNCHANGED <<code, todo, weights, sites, strayed, taken>>
  BY DEF Interrupt
<1>2. code \in Programs /\ pc \in Labels /\ stack \in Seq(Frames)
  BY <1>1, RunFacts
<1>3. code.nmi \in Labels /\ pc' = code.nmi
  BY <1>1, <1>2, ProgramFacts DEF Continue
<1>4. frame \in Frames /\ frame.by = "nmi" /\ frame.addr = pc
  BY <1>2, ProgramFacts, AddressType DEF Pushed, Frames
<1> HIDE DEF frame
<1>5. stack' \in Seq(Frames)
  BY <1>1, <1>2, <1>4
<1>6. ASSUME ~strayed', pc' # 0 PROVE \E own : Guided(stack', own, pc')
  <2>1. PICK own : Guided(stack, own, pc)
    BY <1>1, <1>6, RunFacts
  <2>2. BackTo(frame, code.nmi, own[Len(stack)])
    BY <1>4, <2>1 DEF BackTo, Guided
  <2>3. \E longer : Guided(Append(stack, frame), longer, code.nmi)
    BY <1>2, <1>3, <1>4, <2>1, <2>2, GuidedPush
  <2> QED
    BY <1>1, <1>3, <2>3
<1>7. TransfersInv' /\ ReturnsFound' /\ (todo' # <<>> => taken' = Nowhere)
  BY <1>1, <1>3, RunKept
<1>8. CallsInv'
  BY <1>1, <1>5, <1>6, <1>7, CallsKept
<1> QED
  BY <1>7, <1>8 DEF RunInv

LEMMA StutterRun ==
  ASSUME RunInv, UNCHANGED returnVars
  PROVE  RunInv'
<1>1. /\ UNCHANGED <<code, todo, weights, sites, taken>> /\ pc' = pc /\ stack' = stack /\ strayed' = strayed
  BY DEF returnVars
<1>2. pc' \in Labels \cup {0} /\ (strayed => strayed')
  BY <1>1 DEF RunInv, TransfersInv
<1>3. TransfersInv' /\ ReturnsFound' /\ (todo' # <<>> => taken' = Nowhere)
  BY <1>1, <1>2, RunKept
<1>4. CallsInv'
  BY <1>1, <1>3, CallsKept DEF RunInv, CallsInv
<1> QED
  BY <1>3, <1>4 DEF RunInv

LEMMA RunStart ==
  ASSUME ReturnsInit
  PROVE  RunInv
<1>1. TransfersInv
  BY PassesStart
<1>2. code \in Programs /\ pc = code.entry /\ stack = <<>> /\ taken = Nowhere
  BY DEF ReturnsInit
<1>3. ASSUME pc # 0 PROVE \E own : Guided(stack, own, pc)
  <2>1. pc \in Labels
    BY <1>1, <1>3 DEF TransfersInv
  <2> DEFINE own == [i \in 0 .. 0 |-> pc]
  <2>2. Len(stack) = 0 /\ 0 \in 0 .. 0
    BY <1>2
  <2>3. Guided(stack, own, pc)
    BY <2>1, <2>2, WalkFacts DEF Guided
  <2> QED
    BY <2>3
<1>4. stack \in Seq(Frames)
  BY <1>2
<1>5. CallsInv
  BY <1>2, <1>3, <1>4 DEF CallsInv
<1>6. ReturnsFound
  BY <1>2 DEF ReturnsFound, Nowhere
<1> QED
  BY <1>1, <1>5, <1>6 DEF RunInv

LEMMA RunStep ==
  ASSUME RunInv, [ReturnsNext]_returnVars
  PROVE  RunInv'
<1>1. CASE UNCHANGED returnVars
  BY <1>1, StutterRun
<1>2. CASE Stopped
  BY <1>2, StutterRun DEF Stopped
<1> QED
  BY <1>1, <1>2, WalkRun, RunPassRun, GotoRun, JsrRun, SwitchRun, DropRun, PokeRun, RtsRun, RtiRun,
     JmpIndirectRun, InterruptRun DEF ReturnsNext

(* TransfersExact of Returns: whatever the passes have put in front of the *)
(* dispatcher, a dynamic transfer goes where the 6502 would go, for every  *)
(* program and every address on the stack or behind the pointer.           *)
THEOREM TransfersAreExact == ReturnsSpec => []TransfersExact
<1>1. ReturnsInit => RunInv
  BY RunStart
<1>2. RunInv /\ [ReturnsNext]_returnVars => RunInv'
  BY RunStep
<1>3. RunInv => TransfersExact
  BY DEF RunInv, TransfersInv
<1> QED
  BY <1>1, <1>2, <1>3, PTL DEF ReturnsSpec

(* ReturnsFound of Returns: a program that leaves its return addresses     *)
(* alone returns only to places that the walk has found for that RTS.      *)
THEOREM ReturnsAreFound == ReturnsSpec => []ReturnsFound
<1>1. ReturnsInit => RunInv
  BY RunStart
<1>2. RunInv /\ [ReturnsNext]_returnVars => RunInv'
  BY RunStep
<1>3. RunInv => ReturnsFound
  BY DEF RunInv
<1> QED
  BY <1>1, <1>2, <1>3, PTL DEF ReturnsSpec

=============================================================================
