------------------------ MODULE CommitPreparationProofs ------------------------
(***************************************************************************)
(* No commit is left behind the coverage cursor.  Schedulers act on rows   *)
(* they read earlier, write without checking their reservation, and may    *)
(* move the cursor over each other; what makes it true is that everything  *)
(* a receipt is judged by only grows, so that what a preparer remembers    *)
(* of it stays true (Grows).                                               *)
(*                                                                         *)
(* What is cut is sound, and the batches of one process stay coherent.     *)
(***************************************************************************)
EXTENDS CommitPreparation, FiniteSetTheorems, WellFoundedInduction, TLAPS

Done(r) == receipts[r].attempts >= MaxAttempts \/ world.covers[r] \subseteq of[r]
Prefix(r, n) == {c \in world.covers[r] : c <= n}

ReceiptRow == [at : Nat \cup {None}, next : Nat \cup {None}, attempts : Nat,
               dead : BOOLEAN, page : Nat]

Shape ==
    /\ world \in Worlds /\ now \in Nat
    /\ receipts \in [Receipts -> ReceiptRow]
    /\ of \in [Receipts -> SUBSET Nat]
    /\ DOMAIN stream = {"cursor", "cut", "cutAt", "resume", "active", "by", "live"}
    /\ stream.cursor \in {0} \cup Accepted /\ stream.cut \in Nat \cup {None}
    /\ DOMAIN prep = Preparers
    /\ \A p \in Preparers :
          /\ DOMAIN prep[p] = {"step", "t0", "policy", "at", "todo", "more", "rows", "r", "page",
                               "pages", "got", "failures", "back", "chosen", "doomed"}
          /\ prep[p].t0 \in Nat

\* A row that is stored or remembered tells the truth, then and later.
Truthful(r, row) ==
    /\ row \in ReceiptRow
    /\ row.dead => receipts[r].attempts >= MaxAttempts
    /\ Prefix(r, row.page) \subseteq of[r]

ReceiptsOK ==
    /\ \A r \in Receipts : Truthful(r, receipts[r])
    /\ \A r \in Accepted : \A s \in 1..r : s \in Accepted

\* The receipts a preparer still has to cross, and those before them.
TodoOK(p) ==
    /\ prep[p].todo \subseteq Accepted
    /\ \A r \in prep[p].todo : r \in DOMAIN prep[p].rows /\ Truthful(r, prep[p].rows[r])
    /\ \A r \in prep[p].todo : \A s \in Accepted \ prep[p].todo : s < r => Done(s)

Paging == {"apply", "decide", "cursor"}
Expansion == {"read", "note", "record", "fail"} \cup Paging

\* The receipt that is being expanded.
ExpansionOK(p) ==
    /\ prep[p].step \in Expansion /\ prep[p].r \in Receipts =>
          /\ prep[p].page \in Nat /\ Prefix(prep[p].r, prep[p].page) \subseteq of[prep[p].r]
          /\ prep[p].step \in Paging => prep[p].got = FirstOf(PageSize, Rest(p))
          /\ prep[p].step \in {"decide", "cursor"} => prep[p].got \subseteq of[prep[p].r]
          /\ At(p, "record") => prep[p].failures \in 1..(receipts[prep[p].r].attempts + 1)
          /\ At(p, "fail") => receipts[prep[p].r].attempts >= MaxAttempts
    /\ prep[p].step \in Expansion => prep[p].back \in {"cross", "cut"}
    /\ At(p, "cross") \/ (prep[p].step \in Expansion /\ prep[p].back = "cross") =>
          prep[p].todo # {} /\ prep[p].r = Min(prep[p].todo)
    /\ At(p, "cross") => Done(prep[p].r)

PreparersOK == \A p \in Preparers : TodoOK(p) /\ ExpansionOK(p)

Inv == Shape /\ ReceiptsOK /\ CoveredIsExpanded /\ PreparersOK

-----------------------------------------------------------------------------
LEMMA LeastExists ==
    ASSUME NEW S \in SUBSET Nat, S # {}
    PROVE  \E x \in S : \A y \in S : x <= y
<1> DEFINE Below(x) == {y \in S : y <= x}
           R == StrictSubsetOrdering(Nat)
           T == {Below(x) : x \in S}
<1>1. \A x \in S : Below(x) \in FiniteSubsetsOf(Nat)
  <2> TAKE x \in S
  <2>1. IsFiniteSet(Below(x))
    BY FS_BoundedSetOfNaturals
  <2> QED BY <2>1 DEF FiniteSubsetsOf
<1>2. PICK B \in T : \A C \in T : ~(<<C, B>> \in R)
  <2>1. IsWellFoundedOn(R, FiniteSubsetsOf(Nat))
    BY FS_StrictSubsetOrderingWellFounded
  <2>2. T \subseteq FiniteSubsetsOf(Nat) /\ T # {}
    BY <1>1
  <2> HIDE DEF R, T
  <2> QED BY <2>1, <2>2, WFMin
<1>3. PICK x \in S : B = Below(x)
  BY <1>2
<1>4. ASSUME NEW y \in S, ~(x <= y) PROVE FALSE
  <2>0. x \in Nat /\ y \in Nat /\ y < x
    BY <1>4
  <2>1. /\ \A z \in Nat : z <= y => z <= x
        /\ x \in Below(x) /\ x \notin Below(y)
    BY <2>0
  <2>2. <<Below(y), Below(x)>> \in R
    BY <2>1 DEF StrictSubsetOrdering
  <2> QED BY <1>2, <1>3, <2>2
<1> QED BY <1>4

LEMMA MinIs ==
    ASSUME NEW S \in SUBSET Nat, S # {}
    PROVE  Min(S) \in S /\ \A y \in S : Min(S) <= y
BY LeastExists DEF Min

LEMMA MaxIs ==
    ASSUME NEW k \in Nat, NEW S \in SUBSET (0..k), S # {}
    PROVE  Max(S) \in S /\ \A y \in S : y <= Max(S)
<1> DEFINE T == {k - y : y \in S}
<1>1. T \in SUBSET Nat /\ T # {}
  <2>1. \A y \in S : k - y \in Nat
    OBVIOUS
  <2>2. PICK y \in S : TRUE
    OBVIOUS
  <2>3. k - y \in T
    BY <2>2
  <2> QED BY <2>1, <2>3
<1>2. PICK t \in T : \A u \in T : t <= u
  BY <1>1, LeastExists
<1>3. PICK x \in S : t = k - x
  BY <1>2
<1>4. \A y \in S : y <= x
  <2> TAKE y \in S
  <2>1. k - y \in T /\ x \in Nat /\ y \in Nat
    OBVIOUS
  <2>2. k - x <= k - y
    BY <1>2, <1>3, <2>1
  <2> QED BY <2>1, <2>2
<1> QED BY <1>4 DEF Max

\* The first numbers of a set: no number of the set is passed over.
LEMMA FirstOfIs ==
    ASSUME NEW n \in Nat \ {0}, NEW S \in SUBSET Nat
    PROVE  /\ FirstOf(n, S) \subseteq S
           /\ \A c \in FirstOf(n, S), d \in S : d <= c => d \in FirstOf(n, S)
           /\ S # {} => FirstOf(n, S) # {}
<1> DEFINE Below(x) == {y \in S : y <= x}
<1>1. \A x \in S : IsFiniteSet(Below(x))
  BY FS_BoundedSetOfNaturals
<1>2. ASSUME NEW c \in S, NEW d \in S, d <= c, Cardinality(Below(c)) <= n
      PROVE  Cardinality(Below(d)) <= n
  <2>1. Below(d) \subseteq Below(c)
    <3>1. c \in Nat /\ d \in Nat /\ \A e \in S : e \in Nat /\ (e <= d => e <= c)
      BY <1>2
    <3> QED BY <3>1
  <2>2. /\ Cardinality(Below(d)) <= Cardinality(Below(c))
        /\ Cardinality(Below(d)) \in Nat /\ Cardinality(Below(c)) \in Nat
    BY <1>1, <2>1, FS_Subset, FS_CardinalityType
  <2> HIDE DEF Below
  <2> QED BY <1>2, <2>2
<1>3. ASSUME S # {} PROVE \E c \in S : Cardinality(Below(c)) <= n
  <2>1. PICK x \in S : \A y \in S : x <= y
    BY <1>3, LeastExists
  <2>2. Below(x) = {x}
    <3>1. \A y \in S : x \in Nat /\ y \in Nat /\ x <= y
      BY <2>1
    <3>2. \A y \in S : y <= x <=> y = x
      BY <3>1
    <3> QED BY <3>2
  <2>3. Cardinality(Below(x)) = 1
    BY <2>2, FS_Singleton
  <2> HIDE DEF Below
  <2> QED BY <2>3
<1> QED BY <1>2, <1>3 DEF FirstOf

-----------------------------------------------------------------------------
\* What is cut.  A set of candidates is a finite set of numbers; push units are
\* intervals of it.
Numbers(V) == V \subseteq Nat /\ \E k \in Nat : V \subseteq 0..k

LEMMA GreatestIs ==
    ASSUME NEW S, Numbers(S), S # {}
    PROVE  Max(S) \in S /\ Max(S) \in Nat /\ \A y \in S : y <= Max(S)
<1>1. PICK k \in Nat : S \subseteq 0..k
  BY DEF Numbers
<1> QED BY <1>1, MaxIs DEF Numbers

LEMMA FiniteNumbers ==
    ASSUME NEW S, Numbers(S)
    PROVE  IsFiniteSet(S) /\ Cardinality(S) \in Nat
<1>1. PICK k \in Nat : S \subseteq 0..k
  BY DEF Numbers
<1>2. IsFiniteSet(0..k)
  BY FS_Interval
<1>3. IsFiniteSet(S)
  BY <1>1, <1>2, FS_Subset
<1> QED BY <1>3, FS_CardinalityType

LEMMA SomeNumbers ==
    ASSUME NEW V, Numbers(V), NEW S \in SUBSET V
    PROVE  Numbers(S)
BY DEF Numbers

LEMMA UnitIs ==
    ASSUME NEW V, Numbers(V), NEW c \in V
    PROVE  /\ Unit(V, c) \subseteq V /\ c \in Unit(V, c)
           /\ \A d \in Unit(V, c) : Cover(d) = Cover(c)
<1>1. c \in Nat /\ \A d \in V : d \in Nat
  BY DEF Numbers
<1>2. c \in Unit(V, c)
  <2>1. \A e \in V : c <= e /\ e <= c => e = c
    BY <1>1
  <2> QED BY <2>1 DEF Unit, Between
<1>3. ASSUME NEW d \in Unit(V, c) PROVE Cover(d) = Cover(c)
  <2>1. d \in V /\ (d \in Between(V, c, d) \/ d \in Between(V, d, c))
    BY <1>1 DEF Unit, Between
  <2> QED BY <2>1 DEF Unit
<1> QED BY <1>2, <1>3 DEF Unit

\* No candidate between two of a unit is under another receipt.
LEMMA UnitIsConvex ==
    ASSUME NEW V, Numbers(V), NEW c \in V, NEW x \in Unit(V, c), NEW d \in V,
           \A e \in V : (x <= e /\ e <= d) \/ (d <= e /\ e <= x) => Cover(e) = Cover(c)
    PROVE  d \in Unit(V, c)
<1>1. /\ c \in Nat /\ d \in Nat /\ x \in V /\ x \in Nat /\ \A e \in V : e \in Nat
      /\ \A e \in V : (c <= e /\ e <= x) \/ (x <= e /\ e <= c) => Cover(e) = Cover(c)
  BY DEF Numbers, Unit, Between
<1>2. ASSUME NEW e \in V, (c <= e /\ e <= d) \/ (d <= e /\ e <= c) PROVE Cover(e) = Cover(c)
  <2>1. \/ (c <= e /\ e <= x) \/ (x <= e /\ e <= c)
        \/ (x <= e /\ e <= d) \/ (d <= e /\ e <= x)
    BY <1>1, <1>2
  <2> QED BY <1>1, <2>1
<1> QED BY <1>2 DEF Unit, Between

\* A push that is not blocked lies in one unit.
LEMMA UnblockedIsWhole ==
    ASSUME NEW V, Numbers(V), NEW c \in V \ Blocked(V), NEW d \in V, Cover(d) = Cover(c)
    PROVE  d \in Unit(V, c)
BY UnitIs DEF Blocked, Blocks

\* The commits of several pushes are joined from the first unit to the end of another.
Joined(V, ready, first, S) ==
    /\ first \subseteq S /\ S \subseteq ready /\ Merges(S)
    /\ \E U \in Units(V) : S = Between(V, Min(first), Max(U))

LEMMA PushesFromIs ==
    ASSUME NEW V, Numbers(V), NEW ready \in SUBSET V, ready # {}
    PROVE  LET first == Unit(V, Min(ready))
               cut == PushesFrom(V, ready)
           IN  cut = first \/ Joined(V, ready, first, cut)
<1> DEFINE first == Unit(V, Min(ready))
           joined(S) == S \subseteq ready /\ Merges(S) /\ \A c \in S : Uniform(Unit(V, c))
           all == {S \in {Between(V, Min(first), Max(U)) : U \in Units(V)} :
                     first \subseteq S /\ joined(S)}
           cut == UNION ({first} \cup all)
<1>1. PushesFrom(V, ready) = cut
  BY DEF PushesFrom
<1>2. Min(ready) \in V
  BY MinIs DEF Numbers
<1>3. first \in SUBSET V /\ Min(ready) \in first
  BY <1>2, UnitIs
<1>4. Numbers(first) /\ first # {}
  BY <1>3, SomeNumbers
<1>5. \A S \in all : S \subseteq V /\ first \subseteq S
  BY DEF Between
<1>6. Numbers(cut) /\ cut # {}
  <2>1. cut \in SUBSET V
    BY <1>3, <1>5
  <2> HIDE DEF cut
  <2>2. first \subseteq cut
    BY DEF cut
  <2> QED BY <2>1, <2>2, <1>3, SomeNumbers
<1>7. CASE all = {}
  <2>1. cut = first
    BY <1>7
  <2> QED BY <1>1, <2>1
<1>8. CASE all # {}
  <2> DEFINE m == Max(cut)
  <2>1. m \in cut /\ m \in Nat /\ \A y \in cut : y <= m
    <3> HIDE DEF cut
    <3> QED BY <1>6, GreatestIs
  <2>2. PICK S \in all : m \in S
    <3>1. PICK T \in all : TRUE
      BY <1>8
    <3> HIDE DEF m
    <3>2. \E T2 \in {first} \cup all : m \in T2
      BY <2>1
    <3> QED BY <1>5, <3>1, <3>2
  <2>3. PICK U \in Units(V) : S = Between(V, Min(first), Max(U))
    OBVIOUS
  <2>4. /\ U # {} /\ Numbers(U)
    <3>1. PICK c \in V : U = Unit(V, c)
      BY DEF Units
    <3> QED BY <3>1, UnitIs, SomeNumbers
  <2>5. Max(U) \in Nat /\ Min(first) \in Nat /\ Min(first) \in first
    BY <2>4, <1>4, GreatestIs, MinIs DEF Numbers
  <2>6. cut \subseteq S
    <3> SUFFICES ASSUME NEW x \in cut PROVE x \in S
      OBVIOUS
    <3>1. x \in V /\ x \in Nat /\ x <= m /\ m <= Max(U)
      <4>1. m <= Max(U)
        BY <2>2, <2>3 DEF Between
      <4>2. x \in V
        BY <1>3, <1>5
      <4> HIDE DEF cut, m
      <4> QED BY <4>1, <4>2, <2>1 DEF Numbers
    <3>2. Min(first) <= x
      <4>1. CASE x \in first
        BY <4>1, <1>4, MinIs DEF Numbers
      <4>2. CASE \E T \in all : x \in T
        BY <4>2 DEF Between
      <4> QED BY <4>1, <4>2
    <3> HIDE DEF m
    <3>3. x <= Max(U)
      BY <3>1, <2>1, <2>5
    <3> QED BY <3>1, <3>2, <3>3, <2>3 DEF Between
  <2>7. cut = S
    BY <2>6
  <2>8. Joined(V, ready, first, S)
    <3>1. first \subseteq S /\ S \subseteq ready /\ Merges(S)
      OBVIOUS
    <3> QED BY <3>1, <2>3 DEF Joined
  <2> QED BY <1>1, <2>7, <2>8
<1> QED BY <1>7, <1>8

LEMMA ReadyIs ==
    ASSUME NEW V, Numbers(V), NEW at, NEW c \in Ready(V, at)
    PROVE  c \in V \ Blocked(V) /\ EligibleAt(Unit(V, c), at) /\ commits[c].eligible <= at
BY UnitIs DEF Ready, EligibleAt

\* The first push alone.
LEMMA FirstUnitIsSound ==
    ASSUME NEW V, Numbers(V), NEW at, NEW c \in Ready(V, at), world.kind = "git"
    PROVE  /\ Unit(V, c) \subseteq V /\ Cardinality(Unit(V, c)) <= MaxMembers
           /\ EligibleAt(Unit(V, c), at) /\ Coherent(Unit(V, c))
           /\ \A b \in Unit(V, c) : \A d \in V : Cover(d) = Cover(b) => d \in Unit(V, c)
<1> DEFINE U == Unit(V, c)
<1>1. c \in V \ Blocked(V) /\ EligibleAt(U, at) /\ ~Blocks(V, U)
  BY ReadyIs DEF Blocked
<1>2. U \subseteq V /\ \A d \in U : Cover(d) = Cover(c)
  BY <1>1, UnitIs
<1>3. Cardinality(U) <= MaxMembers
  <2>1. Cardinality(U) \in Nat /\ MaxMembers \in Nat
    BY <1>2, SomeNumbers, FiniteNumbers, CutAssumption
  <2> QED BY <1>1, <2>1 DEF Blocks
<1>4. Coherent(U)
  <2>1. ~Rewrites(U) => Interval(U)
    BY <1>1 DEF Blocks
  <2>2. \A a, b \in U : Pin(a) = Pin(b) /\ Cover(a) = Cover(b)
    BY <1>2 DEF Pin
  <2> HIDE DEF U
  <2> QED BY <2>1, <2>2 DEF Coherent
<1>5. ASSUME NEW b \in U, NEW d \in V, Cover(d) = Cover(b) PROVE d \in U
  BY <1>1, <1>2, <1>5, UnblockedIsWhole
<1> QED BY <1>1, <1>2, <1>3, <1>4, <1>5

\* Several pushes: none of them is cut apart at the first or at the last.
LEMMA JoinedIsWhole ==
    ASSUME NEW V, Numbers(V), NEW at, NEW m \in Ready(V, at), NEW S,
           Joined(V, Ready(V, at), Unit(V, m), S),
           NEW c \in S, NEW d \in V, Cover(d) = Cover(c)
    PROVE  d \in S
<1> DEFINE first == Unit(V, m)
<1>1. PICK U \in Units(V) : S = Between(V, Min(first), Max(U))
  BY DEF Joined
<1>2. PICK u \in V : U = Unit(V, u)
  BY DEF Units
<1>3. /\ S \subseteq V \ Blocked(V) /\ m \in V \ Blocked(V) /\ first \subseteq S
  BY ReadyIs DEF Joined
<1>4. /\ Numbers(first) /\ first # {} /\ first \subseteq V
      /\ Numbers(U) /\ U # {} /\ U \subseteq V
  BY <1>2, <1>3, UnitIs, SomeNumbers
<1>5. /\ Min(first) \in first /\ \A y \in first : Min(first) <= y
      /\ Max(U) \in U /\ \A y \in U : y <= Max(U)
  BY <1>4, MinIs, GreatestIs DEF Numbers
<1>6. c \in V \ Blocked(V) /\ d \in Unit(V, c)
  BY <1>3, UnblockedIsWhole
<1>7. /\ c \in Nat /\ d \in Nat /\ Min(first) \in Nat /\ Max(U) \in Nat
      /\ Min(first) \in V /\ Max(U) \in V /\ Min(first) <= c /\ c <= Max(U)
  BY <1>1, <1>4, <1>5, <1>6 DEF Numbers, Between
<1>8. ASSUME d < Min(first) PROVE FALSE
  <2>1. Min(first) \in Between(V, d, c)
    BY <1>7, <1>8 DEF Between
  <2>2. Cover(Min(first)) = Cover(c)
    BY <1>6, <2>1 DEF Unit
  <2>3. Cover(Min(first)) = Cover(m)
    BY <1>3, <1>5, UnitIs
  <2>4. d \in first
    BY <1>3, <2>2, <2>3, UnblockedIsWhole
  <2> HIDE DEF first
  <2> QED BY <1>5, <1>7, <1>8, <2>4
<1>9. ASSUME Max(U) < d PROVE FALSE
  <2>1. Max(U) \in Between(V, c, d)
    BY <1>7, <1>9 DEF Between
  <2>2. Cover(Max(U)) = Cover(c)
    BY <1>6, <2>1 DEF Unit
  <2>3. Cover(Max(U)) = Cover(u)
    BY <1>2, <1>5, UnitIs
  <2>4. ASSUME NEW e \in V, (Max(U) <= e /\ e <= d) \/ (d <= e /\ e <= Max(U))
        PROVE  Cover(e) = Cover(u)
    <3>1. e \in Nat /\ c <= e /\ e <= d
      BY <1>7, <1>9, <2>4 DEF Numbers
    <3>2. e \in Between(V, c, d)
      BY <3>1 DEF Between
    <3>3. Cover(e) = Cover(c)
      BY <1>6, <3>2 DEF Unit
    <3> QED BY <2>2, <2>3, <3>3
  <2>5. d \in Unit(V, u)
    BY <1>2, <1>5, <2>4, UnitIsConvex
  <2> QED BY <1>2, <1>5, <1>7, <1>9, <2>5
<1> HIDE DEF first
<1> QED BY <1>1, <1>7, <1>8, <1>9 DEF Between

LEMMA JoinedIsSound ==
    ASSUME NEW V, Numbers(V), NEW at, NEW m \in Ready(V, at), NEW S,
           Joined(V, Ready(V, at), Unit(V, m), S)
    PROVE  /\ S \subseteq V /\ Cardinality(S) <= MaxMembers
           /\ EligibleAt(S, at) /\ Coherent(S)
           /\ \A b \in S : \A d \in V : Cover(d) = Cover(b) => d \in S
<1>1. S \subseteq Ready(V, at) /\ Merges(S)
  BY DEF Joined
<1>2. S \subseteq V /\ EligibleAt(S, at)
  BY <1>1, ReadyIs DEF EligibleAt
<1>3. Cardinality(S) <= MaxMembers
  <2>1. Cardinality(S) \in Nat
    BY <1>2, SomeNumbers, FiniteNumbers
  <2> QED BY <1>1, <2>1, CutAssumption DEF Merges
<1>4. Coherent(S)
  BY <1>1 DEF Merges, Coherent
<1> QED BY <1>2, <1>3, <1>4, JoinedIsWhole

\* What the cut of a set of candidates has to be; SoundCut says so of the candidates.
SoundlyCut(V, B, at) ==
    /\ B \subseteq V /\ Cardinality(B) <= MaxMembers
    /\ EligibleAt(B, at) /\ Coherent(B)
    /\ world.kind = "git" => \A c \in B : \A d \in V : Cover(d) = Cover(c) => d \in B

LEMMA PushCutIsSound ==
    ASSUME NEW V, Numbers(V), NEW at, world.kind = "git", PushCut(V, at) # {}
    PROVE  SoundlyCut(V, PushCut(V, at), at)
<1> DEFINE ready == Ready(V, at)
<1>1. ready # {} /\ PushCut(V, at) = PushesFrom(V, ready)
  BY DEF PushCut
<1>2. ready \subseteq V
  BY DEF Ready
<1>3. Min(ready) \in ready
  BY <1>1, <1>2, MinIs DEF Numbers
<1>4. \/ PushesFrom(V, ready) = Unit(V, Min(ready))
      \/ Joined(V, ready, Unit(V, Min(ready)), PushesFrom(V, ready))
  BY <1>1, <1>2, PushesFromIs
<1>5. CASE PushesFrom(V, ready) = Unit(V, Min(ready))
  BY <1>1, <1>3, <1>5, FirstUnitIsSound DEF SoundlyCut
<1>6. CASE Joined(V, ready, Unit(V, Min(ready)), PushesFrom(V, ready))
  BY <1>1, <1>3, <1>6, JoinedIsSound DEF SoundlyCut
<1> QED BY <1>4, <1>5, <1>6

\* Runs of P4 and SVN.
LEMMA IntervalIs ==
    ASSUME NEW S, Numbers(S), S # {}
    PROVE  Interval(S) <=> \A x, y \in S : \A z \in Nat : x <= z /\ z <= y => z \in S
<1>1. /\ Min(S) \in S /\ Min(S) \in Nat /\ \A y \in S : y \in Nat /\ Min(S) <= y
      /\ Max(S) \in S /\ Max(S) \in Nat /\ \A y \in S : y <= Max(S)
  BY MinIs, GreatestIs DEF Numbers
<1>2. ASSUME Interval(S), NEW x \in S, NEW y \in S, NEW z \in Nat, x <= z, z <= y PROVE z \in S
  <2>1. Min(S) <= z /\ z <= Max(S)
    BY <1>1, <1>2
  <2> QED BY <1>1, <1>2, <2>1 DEF Interval
<1>3. ASSUME \A x, y \in S : \A z \in Nat : x <= z /\ z <= y => z \in S PROVE Interval(S)
  <2>1. \A z \in Min(S)..Max(S) : z \in S
    BY <1>1, <1>3
  <2>2. \A z \in S : z \in Min(S)..Max(S)
    BY <1>1
  <2> QED BY <2>1, <2>2 DEF Interval
<1> QED BY <1>2, <1>3

\* The candidates from one to another, in either order.
Span(V, c, d) == Between(V, c, d) \cup Between(V, d, c)

LEMMA SpanIs ==
    ASSUME NEW V, Numbers(V), NEW c \in V, NEW d \in V, Interval(Span(V, c, d)),
           NEW z \in Nat, (c <= z /\ z <= d) \/ (d <= z /\ z <= c)
    PROVE  z \in V /\ Span(V, c, z) \subseteq Span(V, c, d) /\ Interval(Span(V, c, z))
<1>1. c \in Nat /\ d \in Nat /\ \A e \in V : e \in Nat
  BY DEF Numbers
<1>2. /\ Span(V, c, d) \subseteq V /\ c \in Span(V, c, d) /\ d \in Span(V, c, d)
      /\ \A e \in V : e \in Span(V, c, d) <=> (c <= e /\ e <= d) \/ (d <= e /\ e <= c)
  BY <1>1 DEF Span, Between
<1>3. \A x, y \in Span(V, c, d) : \A e \in Nat : x <= e /\ e <= y => e \in Span(V, c, d)
  BY <1>2, SomeNumbers, IntervalIs
<1>4. z \in Span(V, c, d)
  BY <1>2, <1>3
<1>5. z \in V /\ \A e \in V : e \in Span(V, c, z) <=> (c <= e /\ e <= z) \/ (z <= e /\ e <= c)
  BY <1>2, <1>4 DEF Span, Between
<1>6. Span(V, c, z) \subseteq V /\ c \in Span(V, c, z)
  BY <1>1, <1>5 DEF Span, Between
<1>7. Span(V, c, z) \subseteq Span(V, c, d)
  <2> SUFFICES ASSUME NEW e \in Span(V, c, z) PROVE e \in Span(V, c, d)
    OBVIOUS
  <2>1. e \in V /\ e \in Nat
    BY <1>1, <1>6
  <2> QED BY <1>1, <1>2, <1>5, <2>1
<1>8. ASSUME NEW x \in Span(V, c, z), NEW y \in Span(V, c, z), NEW e \in Nat, x <= e, e <= y
      PROVE  e \in Span(V, c, z)
  <2>1. e \in V
    BY <1>2, <1>3, <1>7, <1>8
  <2>2. x \in Nat /\ y \in Nat /\ x \in V /\ y \in V
    BY <1>1, <1>6
  <2>3. (c <= e /\ e <= z) \/ (z <= e /\ e <= c)
    BY <1>1, <1>5, <1>8, <2>2
  <2> QED BY <1>5, <2>1, <2>3
<1>9. Interval(Span(V, c, z))
  BY <1>6, <1>8, SomeNumbers, IntervalIs
<1> QED BY <1>5, <1>7, <1>9

\* A run has one author and one configuration, and no gap.
LEMMA RunIs ==
    ASSUME NEW V, Numbers(V), NEW c \in V
    PROVE  /\ Run(V, c) \subseteq V
           /\ \A d \in Run(V, c) : Author(d) = Author(c) /\ Pin(d) = Pin(c)
           /\ \A x, y \in Run(V, c) : \A z \in Nat : x <= z /\ z <= y => z \in Run(V, c)
<1>1. \A d \in V : d \in Run(V, c) <=>
        Interval(Span(V, c, d)) /\ \A e \in Span(V, c, d) : Author(e) = Author(c) /\ Pin(e) = Pin(c)
  BY DEF Run, Span
<1>2. c \in Nat /\ Run(V, c) \subseteq V /\ \A d \in V : d \in Nat /\ d \in Span(V, c, d)
  BY DEF Run, Numbers, Span, Between
<1>3. \A d \in Run(V, c) : Author(d) = Author(c) /\ Pin(d) = Pin(c)
  BY <1>1, <1>2
<1>4. ASSUME NEW x \in Run(V, c), NEW y \in Run(V, c), NEW z \in Nat, x <= z, z <= y
      PROVE  z \in Run(V, c)
  <2>1. x \in V /\ x \in Nat /\ y \in V /\ y \in Nat
    BY <1>2
  <2>2. PICK d \in {x, y} : (c <= z /\ z <= d) \/ (d <= z /\ z <= c)
    BY <1>2, <1>4, <2>1
  <2>3. d \in V /\ d \in Run(V, c) /\ Interval(Span(V, c, d))
    BY <1>1, <2>1
  <2>4. z \in V /\ Span(V, c, z) \subseteq Span(V, c, d) /\ Interval(Span(V, c, z))
    BY <2>2, <2>3, SpanIs
  <2> QED BY <1>1, <2>3, <2>4
<1> QED BY <1>2, <1>3, <1>4

LEMMA FirstOfIsShort ==
    ASSUME NEW n \in Nat \ {0}, NEW S, Numbers(S)
    PROVE  Cardinality(FirstOf(n, S)) <= n
<1> DEFINE F == FirstOf(n, S)
<1>1. F \subseteq S /\ Numbers(F) /\ \A c \in F, d \in S : d <= c => d \in F
  BY FirstOfIs, SomeNumbers DEF Numbers
<1>2. CASE F = {}
  BY <1>2, FS_EmptySet
<1>3. CASE F # {}
  <2>1. Max(F) \in F /\ \A y \in F : y <= Max(F)
    BY <1>1, <1>3, GreatestIs
  <2>2. F = {d \in S : d <= Max(F)}
    <3> HIDE DEF F
    <3> QED BY <1>1, <2>1
  <2>3. Cardinality({d \in S : d <= Max(F)}) <= n
    BY <2>1 DEF FirstOf
  <2>4. Cardinality(F) <= n
    BY <2>2, <2>3, Zenon
  <2> QED BY <2>4
<1> QED BY <1>2, <1>3

\* A slice of a run: its beginning.
LEMMA RunSliceIs ==
    ASSUME NEW V, NEW R, Numbers(R), NEW at
    PROVE  LET B == RunSlice(V, R, at)
           IN  /\ B \subseteq R /\ EligibleAt(B, at) /\ Cardinality(B) <= MaxMembers
               /\ \A c \in B, d \in R : d <= c => d \in B
<1> DEFINE slice == FirstOf(MaxMerge, R)
           part == {c \in slice : EligibleAt(Between(slice, Min(slice), c), at)}
<1>0. MaxMerge \in Nat \ {0} /\ MaxMembers \in Nat /\ MaxMerge <= MaxMembers
  BY CutAssumption
<1>1. /\ slice \subseteq R /\ Numbers(slice)
      /\ \A c \in slice, d \in R : d <= c => d \in slice
  BY <1>0, FirstOfIs, SomeNumbers DEF Numbers
<1>2. Cardinality(slice) \in Nat /\ Cardinality(slice) <= MaxMerge
  BY <1>0, <1>1, FirstOfIsShort, FiniteNumbers
<1> HIDE DEF slice
<1>3. ASSUME NEW B \in SUBSET slice PROVE Cardinality(B) <= MaxMembers
  <2>1. Cardinality(B) <= Cardinality(slice)
    BY <1>1, FiniteNumbers, FS_Subset
  <2>2. Cardinality(B) \in Nat
    BY <1>1, <1>3, SomeNumbers, FiniteNumbers
  <2> QED BY <1>0, <1>2, <2>1, <2>2
<1>4. EligibleAt(part, at)
  <2> SUFFICES ASSUME NEW c \in part PROVE commits[c].eligible <= at
    BY DEF EligibleAt
  <2>1. Min(slice) <= c /\ c <= c
    BY <1>1, MinIs DEF Numbers
  <2>2. c \in Between(slice, Min(slice), c)
    BY <2>1 DEF Between
  <2> QED BY <2>2 DEF EligibleAt
<1>5. ASSUME NEW c \in part, NEW d \in R, d <= c PROVE d \in part
  <2>1. d \in slice
    BY <1>1, <1>5
  <2>2. Between(slice, Min(slice), d) \subseteq Between(slice, Min(slice), c)
    <3>1. c \in Nat /\ d \in Nat /\ \A e \in slice : e \in Nat /\ (e <= d => e <= c)
      BY <1>1, <1>5, <2>1 DEF Numbers
    <3> QED BY <3>1 DEF Between
  <2> QED BY <2>1, <2>2 DEF EligibleAt
<1>6. CASE RunSlice(V, R, at) = slice /\ EligibleAt(slice, at)
  BY <1>1, <1>3, <1>6
<1>7. CASE RunSlice(V, R, at) = {}
  BY <1>3, <1>7 DEF EligibleAt
<1>8. CASE RunSlice(V, R, at) = part
  BY <1>1, <1>3, <1>4, <1>5, <1>8
<1>9. \/ RunSlice(V, R, at) = slice /\ EligibleAt(slice, at)
      \/ RunSlice(V, R, at) = {}
      \/ RunSlice(V, R, at) = part
  BY DEF RunSlice, slice
<1> QED BY <1>6, <1>7, <1>8, <1>9

LEMMA RunCutIsSound ==
    ASSUME NEW V, Numbers(V), NEW at, world.kind # "git", RunCut(V, at) # {}
    PROVE  SoundlyCut(V, RunCut(V, at), at)
<1> DEFINE ready == {c \in V : RunSlice(V, Run(V, c), at) # {}}
           first == Min(ready)
           R == Run(V, first)
           B == RunCut(V, at)
<1>1. ready # {} /\ B = RunSlice(V, R, at)
  BY DEF RunCut
<1>2. first \in V
  BY <1>1, MinIs DEF Numbers
<1>3. /\ R \subseteq V /\ Numbers(R)
      /\ \A d \in R : Author(d) = Author(first) /\ Pin(d) = Pin(first)
      /\ \A x, y \in R : \A z \in Nat : x <= z /\ z <= y => z \in R
  BY <1>2, RunIs, SomeNumbers
<1> HIDE DEF R, B
<1>4. /\ B \subseteq R /\ EligibleAt(B, at) /\ Cardinality(B) <= MaxMembers
      /\ \A c \in B, d \in R : d <= c => d \in B
  BY <1>1, <1>3, RunSliceIs
<1>5. Interval(B)
  <2>1. \A x, y \in B : \A z \in Nat : x <= z /\ z <= y => z \in B
    BY <1>3, <1>4
  <2> QED BY <1>3, <1>4, <2>1, SomeNumbers, IntervalIs DEF B
<1>6. Coherent(B)
  BY <1>3, <1>4, <1>5 DEF Coherent
<1> QED BY <1>3, <1>4, <1>6 DEF SoundlyCut, B

-----------------------------------------------------------------------------
LEMMA WorldIs ==
    ASSUME world \in Worlds
    PROVE  /\ Receipts \subseteq Nat \ {0}
           /\ \E n \in Nat : Receipts = 1..n
           /\ \E k \in Nat : \A r \in Receipts : world.covers[r] \subseteq 1..k
           /\ \A r \in Receipts : world.covers[r] \in SUBSET (Nat \ {0})
<1>1. world \in World /\ \A r \in Receipts : world.covers[r] \subseteq DOMAIN world.author
  BY ReceiptAssumption DEF Receipts
<1>2. world.covers \in Seq(SUBSET Nat) /\ world.author \in Seq(Nat)
  BY <1>1 DEF World
<1>3. Receipts = 1..Len(world.covers) /\ Len(world.covers) \in Nat
  BY <1>2 DEF Receipts
<1>4. DOMAIN world.author = 1..Len(world.author) /\ Len(world.author) \in Nat
  BY <1>2
<1>5. \A r \in Receipts : world.covers[r] \subseteq 1..Len(world.author)
  BY <1>1, <1>4
<1>6. \A r \in Receipts : world.covers[r] \in SUBSET (Nat \ {0})
  BY <1>4, <1>5
<1>7. Receipts \subseteq Nat \ {0}
  BY <1>3
<1> QED BY <1>3, <1>4, <1>5, <1>6, <1>7

\* What a step may do to what receipts are judged by: it only grows.
Grows ==
    /\ world' = world /\ Shape'
    /\ Accepted \subseteq Accepted'
    /\ \A r \in Accepted' \ Accepted : \A s \in Accepted : s < r
    /\ \A r \in Receipts : receipts[r].attempts <= receipts'[r].attempts /\ of[r] \subseteq of'[r]

LEMMA RowTypes ==
    ASSUME Shape
    PROVE  /\ Accepted \subseteq Receipts
           /\ \A r \in Receipts : receipts[r] \in ReceiptRow /\ receipts[r].attempts \in Nat
                                  /\ of[r] \subseteq Nat
BY DEF Shape, ReceiptRow, Accepted

LEMMA GrowsKeeps ==
    ASSUME Shape, Grows
    PROVE  /\ \A r \in Receipts : Done(r) => Done(r)'
           /\ \A r \in Receipts : \A row : Truthful(r, row) => Truthful(r, row)'
<1>0. MaxAttempts \in Nat
  BY PreparationAssumption
<1>1. \A r \in Receipts : receipts[r].attempts \in Nat /\ receipts'[r].attempts \in Nat
  BY DEF Shape, Grows, Receipts, ReceiptRow
<1>2. ASSUME NEW r \in Receipts, Done(r) PROVE Done(r)'
  BY <1>0, <1>1, <1>2 DEF Done, Grows
<1>3. ASSUME NEW r \in Receipts, NEW row, Truthful(r, row) PROVE Truthful(r, row)'
  BY <1>0, <1>1, <1>3 DEF Truthful, Grows, Prefix
<1> QED BY <1>2, <1>3

\* Nothing is left behind by a step that leaves the cursor alone.
LEMMA CoveredKept ==
    ASSUME Inv, Grows, stream'.cursor = stream.cursor
    PROVE  CoveredIsExpanded'
<1> SUFFICES ASSUME NEW r \in Accepted', r <= stream.cursor PROVE Done(r)'
  BY DEF CoveredIsExpanded, Done
<1>1. r \in Receipts /\ r \in Nat
  BY WorldIs DEF Inv, Shape, Grows, Accepted, Receipts
<1>2. r \in Accepted
  <2>1. CASE stream.cursor = 0
    BY <2>1, <1>1, WorldIs DEF Inv, Shape
  <2>2. CASE stream.cursor \in Accepted
    <3>1. stream.cursor \in Nat
      BY <2>2, WorldIs DEF Inv, Shape, Accepted
    <3>2. r \notin Accepted => stream.cursor < r
      BY <2>2 DEF Grows
    <3> QED BY <3>1, <3>2, <1>1
  <2> QED BY <2>1, <2>2 DEF Inv, Shape
<1>3. Done(r)
  BY <1>2 DEF Inv, CoveredIsExpanded, Done
<1> QED BY <1>1, <1>3, GrowsKeeps DEF Inv

\* What a preparer has still to cross.
LEMMA TodoKept ==
    ASSUME Inv, Grows, NEW p \in Preparers,
           prep'[p].todo = prep[p].todo, prep'[p].rows = prep[p].rows
    PROVE  TodoOK(p)'
<1>0. TodoOK(p) /\ Shape
  BY DEF Inv, PreparersOK
<1>1. prep'[p].todo \subseteq Accepted'
  BY <1>0 DEF TodoOK, Grows
<1>2. ASSUME NEW r \in prep'[p].todo
      PROVE  r \in DOMAIN prep'[p].rows /\ Truthful(r, prep[p].rows[r])'
  <2>1. r \in Receipts /\ r \in DOMAIN prep[p].rows /\ Truthful(r, prep[p].rows[r])
    BY <1>0 DEF TodoOK, Accepted
  <2> DEFINE row == prep[p].rows[r]
  <2>2. (Truthful(r, row) => (\A x : x = row => Truthful(r, x)'))
    BY <2>1, <1>0, GrowsKeeps
  <2>3. prep'[p].rows[r] = row
    OBVIOUS
  <2> QED BY <2>1, <2>2, <2>3 DEF Truthful
<1>3. ASSUME NEW r \in prep'[p].todo, NEW s \in Accepted' \ prep'[p].todo, s < r
      PROVE  Done(s)'
  <2>1. r \in Accepted /\ r \in Nat /\ s \in Nat /\ s \in Receipts
    BY <1>0, WorldIs DEF TodoOK, Accepted, Grows, Receipts, Shape
  <2>2. s \in Accepted
    BY <2>1, <1>3 DEF Grows
  <2>3. Done(s)
    BY <1>0, <1>3, <2>2 DEF TodoOK
  <2> QED BY <2>1, <2>3, <1>0, GrowsKeeps
<1> QED BY <1>1, <1>2, <1>3 DEF TodoOK

LEMMA OthersKept ==
    ASSUME Inv, Grows, NEW q \in Preparers, prep'[q] = prep[q]
    PROVE  TodoOK(q)' /\ ExpansionOK(q)'
<1>0. TodoOK(q) /\ ExpansionOK(q) /\ Shape
  BY DEF Inv, PreparersOK
<1>1. Receipts' = Receipts /\ Rest(q)' = Rest(q)
  BY DEF Grows, Receipts, Rest
<1>2. ASSUME prep[q].step \in Expansion, prep[q].r \in Receipts
      PROVE  /\ Prefix(prep[q].r, prep[q].page) \subseteq of'[prep[q].r]
             /\ prep[q].step \in {"decide", "cursor"} => prep[q].got \subseteq of'[prep[q].r]
             /\ At(q, "record") => prep[q].failures \in 1..(receipts'[prep[q].r].attempts + 1)
             /\ At(q, "fail") => receipts'[prep[q].r].attempts >= MaxAttempts
  <2>1. /\ receipts[prep[q].r].attempts \in Nat /\ receipts'[prep[q].r].attempts \in Nat
        /\ receipts[prep[q].r].attempts <= receipts'[prep[q].r].attempts
        /\ of[prep[q].r] \subseteq of'[prep[q].r] /\ MaxAttempts \in Nat
    BY <1>0, <1>2, PreparationAssumption DEF Shape, Grows, Receipts, ReceiptRow
  <2> QED BY <1>0, <1>2, <2>1 DEF ExpansionOK
<1>3. At(q, "cross") => Done(prep[q].r)'
  <2> SUFFICES ASSUME At(q, "cross") PROVE Done(prep[q].r)'
    OBVIOUS
  <2>1. prep[q].todo \in SUBSET Nat /\ prep[q].todo # {} /\ prep[q].r = Min(prep[q].todo)
    BY <1>0, WorldIs DEF ExpansionOK, TodoOK, Accepted, Shape
  <2>2. prep[q].r \in Receipts
    BY <2>1, MinIs, <1>0 DEF TodoOK, Accepted
  <2> QED BY <1>0, <2>2, GrowsKeeps DEF ExpansionOK
<1> HIDE DEF Inv
<1>4. ExpansionOK(q)'
  <2>1. prep[q].step \in Expansion /\ prep[q].r \in Receipts =>
          /\ prep[q].page \in Nat
          /\ prep[q].step \in Paging => prep[q].got = FirstOf(PageSize, Rest(q))
    BY <1>0 DEF ExpansionOK
  <2>2. FirstOf(PageSize, Rest(q))' = FirstOf(PageSize, Rest(q))
    BY <1>1 DEF FirstOf
  <2>3. Prefix(prep[q].r, prep[q].page)' = Prefix(prep[q].r, prep[q].page)
    BY DEF Prefix, Grows
  <2> QED BY <1>0, <1>1, <1>2, <1>3, <2>1, <2>2, <2>3 DEF ExpansionOK, At
<1> QED BY <1>4, TodoKept

-----------------------------------------------------------------------------
\* The steps of p that change neither receipts nor the cursor.
StoreStill ==
    /\ UNCHANGED <<world, receipts, of>> /\ now' \in Nat
    /\ DOMAIN stream' = DOMAIN stream /\ stream'.cursor = stream.cursor
    /\ stream'.cut \in Nat \cup {None}

Alone(p) ==
    /\ DOMAIN prep' = Preparers /\ \A q \in Preparers \ {p} : prep'[q] = prep[q]
    /\ DOMAIN prep'[p] = DOMAIN prep[p] /\ prep'[p].t0 \in Nat

SameTodo(p) == prep'[p].todo = prep[p].todo /\ prep'[p].rows = prep[p].rows

LEMMA ShapeStill ==
    ASSUME Inv, NEW p \in Preparers, StoreStill, Alone(p)
    PROVE  Grows /\ ReceiptsOK'
<1>1. Receipts' = Receipts /\ Accepted' = Accepted
  BY DEF StoreStill, Receipts, Accepted
<1>2. Shape'
  BY <1>1 DEF Inv, Shape, StoreStill, Alone
<1>3. \A r \in Receipts : receipts[r].attempts \in Nat
  BY RowTypes DEF Inv
<1>4. Grows
  BY <1>1, <1>2, <1>3 DEF Grows, StoreStill
<1>5. ReceiptsOK'
  BY <1>1 DEF Inv, ReceiptsOK, Truthful, Prefix, StoreStill
<1> QED BY <1>4, <1>5

LEMMA AloneKeeps ==
    ASSUME Inv, NEW p \in Preparers, Grows, Alone(p),
           ReceiptsOK', CoveredIsExpanded', TodoOK(p)', ExpansionOK(p)'
    PROVE  Inv'
<1>1. \A q \in Preparers \ {p} : TodoOK(q)' /\ ExpansionOK(q)'
  BY OthersKept DEF Alone
<1> QED BY <1>1 DEF Inv, PreparersOK, Grows

LEMMA NothingToCross ==
    ASSUME NEW p \in Preparers, prep'[p].todo = {}
    PROVE  TodoOK(p)'
BY DEF TodoOK

LEMMA NotExpanding ==
    ASSUME NEW p \in Preparers, prep'[p].step \notin Expansion \cup {"cross"}
    PROVE  ExpansionOK(p)'
BY DEF ExpansionOK, At

LEMMA StillKeeps ==
    ASSUME Inv, NEW p \in Preparers, StoreStill, Alone(p),
           prep'[p].todo = {} \/ SameTodo(p), ExpansionOK(p)'
    PROVE  Inv'
<1>1. Grows /\ ReceiptsOK'
  BY ShapeStill
<1>2. CoveredIsExpanded'
  BY <1>1, CoveredKept DEF StoreStill
<1>3. TodoOK(p)'
  BY <1>1, TodoKept, NothingToCross DEF SameTodo
<1> QED BY <1>1, <1>2, <1>3, AloneKeeps

LEMMA LeavesKeeps ==
    ASSUME Inv, NEW p \in Preparers, StoreStill, Alone(p),
           prep'[p].todo = {} \/ SameTodo(p), prep'[p].step \notin Expansion \cup {"cross"}
    PROVE  Inv'
BY StillKeeps, NotExpanding

\* What Go changes.
LEMMA GoIs ==
    ASSUME Inv, NEW p \in Preparers, NEW step, Go(p, step)
    PROVE  /\ Alone(p) /\ SameTodo(p) /\ prep'[p].step = step
           /\ prep'[p].r = prep[p].r /\ prep'[p].page = prep[p].page /\ prep'[p].got = prep[p].got
           /\ prep'[p].back = prep[p].back /\ prep'[p].failures = prep[p].failures
BY DEF Go, Inv, Shape, Alone, SameTodo

LEMMA HeadIs ==
    ASSUME Inv, NEW head, WriteHead(head), DOMAIN head = DOMAIN stream,
           head.cursor = stream.cursor, head.cut \in Nat \cup {None}
    PROVE  StoreStill
BY DEF WriteHead, Inv, Shape, StoreStill

LEMMA NoWriteIs ==
    ASSUME Inv, NoWrite
    PROVE  StoreStill
BY DEF NoWrite, receiptVars, Inv, Shape, StoreStill

LEMMA IdleIs ==
    ASSUME Inv, NEW p \in Preparers, prep' = [prep EXCEPT ![p] = Idle]
    PROVE  Alone(p) /\ prep'[p].todo = {} /\ prep'[p].step \notin Expansion \cup {"cross"}
BY DEF Idle, Inv, Shape, Alone, Expansion, Paging

-----------------------------------------------------------------------------
\* One step per action.
LEMMA WakeKeeps ==
    ASSUME Inv, NEW p \in Preparers, Wake(p)
    PROVE  Inv'
<1>1. StoreStill
  BY NoWriteIs DEF Wake
<1>2. /\ Alone(p) /\ prep'[p].todo = {}
      /\ prep'[p].step \notin Expansion \cup {"cross"}
  BY DEF Wake, Idle, Inv, Shape, Alone, Expansion, Paging
<1> QED BY <1>1, <1>2, LeavesKeeps

LEMMA AcquireKeeps ==
    ASSUME Inv, NEW p \in Preparers, Acquire(p)
    PROVE  Inv'
<1>1. StoreStill
  <2>1. ASSUME WriteHead([stream EXCEPT !.resume = NextOpen]) PROVE StoreStill
    BY <2>1, HeadIs DEF Inv, Shape
  <2>2. ASSUME stream' = Reserved(p), UNCHANGED <<world, now, policy, receipts, commits, of>>
        PROVE  StoreStill
    BY <2>2 DEF Reserved, Inv, Shape, StoreStill
  <2> QED BY <2>1, <2>2, NoWriteIs DEF Acquire
<1>2. CASE prep' = [prep EXCEPT ![p] = Idle]
  BY <1>1, <1>2, IdleIs, LeavesKeeps
<1>3. CASE prep' = [prep EXCEPT ![p].step = "frontier", ![p].policy = policy]
  <2>1. Alone(p) /\ SameTodo(p) /\ prep'[p].step \notin Expansion \cup {"cross"}
    BY <1>3 DEF Inv, Shape, Alone, SameTodo, Expansion, Paging
  <2> QED BY <1>1, <2>1, LeavesKeeps
<1> QED BY <1>2, <1>3 DEF Acquire

\* The receipts behind the cursor are done, and those of the page are the first behind it.
LEMMA ListedIs ==
    ASSUME Inv, NEW p \in Preparers, NEW head, head.cursor = stream.cursor, head.cut \in Nat,
           StoreStill, prep' = [prep EXCEPT ![p] = Listed(p, head)]
    PROVE  Inv'
<1> DEFINE open == {r \in Accepted : head.cursor < r /\ r <= head.cut}
           todo == FirstOf(ReceiptPage, open)
<1>1. /\ prep'[p].todo = todo /\ prep'[p].rows = [r \in todo |-> receipts[r]]
      /\ prep'[p].step \in {"caught", "next"} /\ Alone(p)
  BY DEF Listed, Inv, Shape, Alone
<1>2. /\ Accepted \subseteq Nat /\ Accepted \subseteq Receipts /\ open \in SUBSET Nat
      /\ stream.cursor \in Nat
  BY WorldIs DEF Inv, Shape, Accepted
<1>3. /\ todo \subseteq open
      /\ \A r \in todo, s \in open : s <= r => s \in todo
  BY <1>2, FirstOfIs, PreparationAssumption
<1>4. Grows /\ ReceiptsOK'
  BY <1>1, ShapeStill
<1>5. CoveredIsExpanded'
  BY <1>4, CoveredKept DEF StoreStill
<1>6. TodoOK(p)'
  <2>1. prep'[p].todo \subseteq Accepted'
    BY <1>1, <1>3, <1>4 DEF Grows
  <2>2. ASSUME NEW r \in prep'[p].todo
        PROVE  r \in DOMAIN prep'[p].rows /\ Truthful(r, prep[p].rows[r])'
    <3>1. r \in todo /\ r \in Receipts
      BY <1>1, <1>2, <1>3
    <3>2. prep'[p].rows[r] = receipts[r]
      BY <1>1, <3>1
    <3>3. Truthful(r, receipts[r])
      BY <3>1 DEF Inv, ReceiptsOK
    <3>4. Truthful(r, prep[p].rows[r])'
      BY <3>1, <3>2, <3>3 DEF Truthful, Prefix, StoreStill
    <3> QED BY <1>1, <3>1, <3>4
  <2>3. ASSUME NEW r \in prep'[p].todo, NEW s \in Accepted' \ prep'[p].todo, s < r
        PROVE  Done(s)'
    <3>1. s \in Accepted /\ s \in Receipts /\ s \in Nat /\ r \in open /\ r \in Nat /\ r \in todo
      BY <1>1, <1>2, <1>3 DEF StoreStill, Accepted, Receipts
    <3>2. s \notin open
      BY <1>1, <1>3, <2>3, <3>1
    <3>3. s <= stream.cursor
      BY <1>2, <2>3, <3>1, <3>2
    <3>4. Done(s)
      BY <3>1, <3>3 DEF Inv, CoveredIsExpanded, Done
    <3> QED BY <3>1, <3>4, <1>4, GrowsKeeps DEF Inv
  <2> HIDE DEF todo, open
  <2> QED BY <2>1, <2>2, <2>3 DEF TodoOK
<1>7. ExpansionOK(p)'
  BY <1>1, NotExpanding DEF Expansion, Paging
<1> QED BY <1>1, <1>4, <1>5, <1>6, <1>7, AloneKeeps

LEMMA LatestIs ==
    ASSUME Inv
    PROVE  Latest \in Nat
<1>1. PICK n \in Nat : Receipts = 1..n
  BY WorldIs DEF Inv, Shape
<1>2. {0} \cup Accepted \in SUBSET (0..n)
  BY <1>1 DEF Accepted
<1>3. Latest \in {0} \cup Accepted
  BY <1>2, MaxIs DEF Latest
<1> QED BY <1>2, <1>3

LEMMA FrontierKeeps ==
    ASSUME Inv, NEW p \in Preparers, Frontier(p)
    PROVE  Inv'
<1> DEFINE fixed == [stream EXCEPT !.cut = Latest, !.cutAt = prep[p].t0, !.resume = None]
<1>1. ASSUME Go(p, "release"), NoWrite PROVE Inv'
  BY <1>1, GoIs, NoWriteIs, LeavesKeeps DEF Expansion, Paging
<1>2. ASSUME stream.cut # None, NoWrite, prep' = [prep EXCEPT ![p] = Listed(p, stream)]
      PROVE  Inv'
  BY <1>2, NoWriteIs, ListedIs DEF Inv, Shape
<1>3. ASSUME WriteHead(fixed),
             prep' = [prep EXCEPT ![p] = IF stream' = fixed THEN Listed(p, fixed)
                                         ELSE [@ EXCEPT !.step = "release"]]
      PROVE  Inv'
  <2>1. /\ fixed.cursor = stream.cursor /\ fixed.cut = Latest /\ Latest \in Nat
        /\ DOMAIN fixed = DOMAIN stream
    BY LatestIs DEF Inv, Shape
  <2> HIDE DEF fixed
  <2>2. StoreStill
    BY <1>3, <2>1, HeadIs
  <2>3. CASE stream' = fixed
    BY <1>3, <2>1, <2>2, <2>3, ListedIs
  <2>4. CASE stream' # fixed
    <3>1. Go(p, "release")
      BY <1>3, <2>4 DEF Go
    <3> QED BY <3>1, <2>2, GoIs, LeavesKeeps DEF Expansion, Paging
  <2> QED BY <2>3, <2>4
<1> QED BY <1>1, <1>2, <1>3 DEF Frontier

\* A row begins an expansion that knows what the row says.
LEMMA ExpandingIs ==
    ASSUME Inv, NEW p \in Preparers, NEW r, NEW row, NEW back \in {"cross", "cut"},
           StoreStill, prep' = [prep EXCEPT ![p] = Expanding(p, r, row, back)],
           r \in Receipts => Truthful(r, row),
           back = "cross" => prep[p].todo # {} /\ r = Min(prep[p].todo)
    PROVE  Inv'
<1>1. /\ Alone(p) /\ SameTodo(p)
      /\ prep'[p].step = IF row.dead THEN "fail" ELSE "read"
      /\ prep'[p].r = r /\ prep'[p].page = row.page /\ prep'[p].back = back
  BY DEF Expanding, Inv, Shape, Alone, SameTodo
<1>2. ASSUME r \in Receipts
      PROVE  /\ row.page \in Nat /\ Prefix(r, row.page) \subseteq of[r]
             /\ row.dead => receipts[r].attempts >= MaxAttempts
  BY <1>2 DEF Truthful, ReceiptRow
<1>3. ExpansionOK(p)'
  BY <1>1, <1>2 DEF ExpansionOK, StoreStill, Receipts, Prefix, Paging, Expansion, At, SameTodo
<1> QED BY <1>1, <1>3, StillKeeps

LEMMA NextReceiptKeeps ==
    ASSUME Inv, NEW p \in Preparers, NextReceipt(p)
    PROVE  Inv'
<1> DEFINE r == Min(prep[p].todo)
           row == prep[p].rows[r]
<1>1. StoreStill
  BY NoWriteIs DEF NextReceipt
<1>2. CASE prep[p].todo = {}
  <2>1. /\ Alone(p) /\ prep'[p].todo = {}
        /\ prep'[p].step \notin Expansion \cup {"cross"}
    BY <1>2 DEF NextReceipt, Inv, Shape, Alone, Expansion, Paging
  <2> QED BY <1>1, <2>1, LeavesKeeps
<1>3. CASE Go(p, "release")
  BY <1>1, <1>3, GoIs, LeavesKeeps DEF Expansion, Paging
<1>4. CASE prep[p].todo # {} /\ prep' = [prep EXCEPT ![p] = Expanding(p, r, row, "cross")]
  <2>1. TodoOK(p) /\ prep[p].todo \in SUBSET Nat
    BY WorldIs DEF Inv, PreparersOK, TodoOK, Accepted, Shape
  <2>2. r \in prep[p].todo
    BY <1>4, <2>1, MinIs
  <2>3. Truthful(r, row)
    BY <2>1, <2>2 DEF TodoOK
  <2> HIDE DEF r, row
  <2>4. r \in Receipts => Truthful(r, row)
    BY <2>3
  <2>5. r = Min(prep[p].todo)
    BY DEF r
  <2> QED BY <1>1, <1>4, <2>4, <2>5, ExpandingIs
<1> QED BY <1>2, <1>3, <1>4 DEF NextReceipt

LEMMA ReadPageKeeps ==
    ASSUME Inv, NEW p \in Preparers, ReadPage(p)
    PROVE  Inv'
<1>1. StoreStill /\ ExpansionOK(p) /\ At(p, "read")
  BY NoWriteIs DEF ReadPage, Inv, PreparersOK
<1>2. CASE Go(p, NotExpanded(p))
  <2>1. NotExpanded(p) \notin Expansion \cup {"cross"}
    BY DEF NotExpanded, Expansion, Paging
  <2> QED BY <1>1, <1>2, <2>1, GoIs, LeavesKeeps
<1>3. CASE Go(p, "note")
  <2>1. /\ Alone(p) /\ SameTodo(p) /\ prep'[p].step = "note"
        /\ prep'[p].r = prep[p].r /\ prep'[p].page = prep[p].page
        /\ prep'[p].back = prep[p].back
    BY <1>3, GoIs
  <2>2. ExpansionOK(p)'
    BY <1>1, <2>1 DEF ExpansionOK, StoreStill, Receipts, Prefix, Paging, Expansion, At, SameTodo
  <2> QED BY <1>1, <2>1, <2>2, StillKeeps
<1>4. CASE prep' = [prep EXCEPT ![p].step = "apply", ![p].got = FirstOf(PageSize, Rest(p))]
  <2>1. /\ Alone(p) /\ SameTodo(p) /\ prep'[p].step = "apply"
        /\ prep'[p].r = prep[p].r /\ prep'[p].page = prep[p].page
        /\ prep'[p].back = prep[p].back /\ prep'[p].got = FirstOf(PageSize, Rest(p))
    BY <1>4 DEF Inv, Shape, Alone, SameTodo
  <2>2. FirstOf(PageSize, Rest(p))' = FirstOf(PageSize, Rest(p))
    BY <1>1, <2>1 DEF FirstOf, Rest, StoreStill
  <2>3. ExpansionOK(p)'
    BY <1>1, <2>1, <2>2 DEF ExpansionOK, StoreStill, Receipts, Prefix, Paging, Expansion, At, SameTodo
  <2> QED BY <1>1, <2>1, <2>3, StillKeeps
<1> QED BY <1>2, <1>3, <1>4 DEF ReadPage

LEMMA PageIs ==
    ASSUME Inv, NEW p \in Preparers, prep[p].step \in Paging, prep[p].r \in Receipts
    PROVE  /\ prep[p].page \in Nat /\ Prefix(prep[p].r, prep[p].page) \subseteq of[prep[p].r]
           /\ prep[p].got \subseteq Rest(p)
           /\ \A c \in prep[p].got, d \in Rest(p) : d <= c => d \in prep[p].got
           /\ Rest(p) # {} => prep[p].got # {}
           /\ Rest(p) \subseteq Nat
<1>1. /\ prep[p].page \in Nat /\ Prefix(prep[p].r, prep[p].page) \subseteq of[prep[p].r]
      /\ prep[p].got = FirstOf(PageSize, Rest(p))
  BY DEF Inv, PreparersOK, ExpansionOK, Expansion
<1>2. Rest(p) \in SUBSET Nat /\ PageSize \in Nat \ {0}
  BY WorldIs, PreparationAssumption DEF Rest, Inv, Shape
<1> QED BY <1>1, <1>2, FirstOfIs

LEMMA ApplyPageKeeps ==
    ASSUME Inv, NEW p \in Preparers, ApplyPage(p)
    PROVE  Inv'
<1> DEFINE r == prep[p].r
<1>1. /\ Alone(p) /\ SameTodo(p) /\ prep'[p].step = "decide"
      /\ prep'[p].r = r /\ prep'[p].page = prep[p].page /\ prep'[p].got = prep[p].got
      /\ prep'[p].back = prep[p].back
  BY GoIs DEF ApplyPage
<1>2. /\ UNCHANGED <<world, now, receipts, stream>>
      /\ of' = [of EXCEPT ![r] = @ \cup prep[p].got]
      /\ At(p, "apply") /\ ExpansionOK(p)
  BY DEF ApplyPage, ApplyMetadataPage, Inv, PreparersOK
<1>3. Receipts' = Receipts /\ Accepted' = Accepted /\ Rest(p)' = Rest(p)
  BY <1>1, <1>2 DEF Receipts, Accepted, Rest
<1>4. r \in Receipts => prep[p].got \subseteq Nat
  BY <1>2, PageIs DEF At, Paging
<1>5. of' \in [Receipts -> SUBSET Nat]
  BY <1>2, <1>4 DEF Inv, Shape
<1>6. Shape'
  BY <1>1, <1>2, <1>3, <1>5 DEF Inv, Shape, Alone
<1>7. \A s \in Receipts : of[s] \subseteq of'[s] /\ receipts[s].attempts \in Nat
  BY <1>2, RowTypes DEF Inv, Shape
<1>8. Grows
  BY <1>2, <1>3, <1>6, <1>7 DEF Grows
<1>9. ReceiptsOK'
  BY <1>2, <1>3, <1>7 DEF Inv, ReceiptsOK, Truthful, Prefix
<1>10. CoveredIsExpanded'
  BY <1>2, <1>8, CoveredKept
<1>11. TodoOK(p)'
  BY <1>1, <1>8, TodoKept DEF SameTodo
<1>12. ExpansionOK(p)'
  <2>1. FirstOf(PageSize, Rest(p))' = FirstOf(PageSize, Rest(p))
    BY <1>3 DEF FirstOf
  <2>2. prep[p].step = "apply" /\ prep[p].step \in Expansion /\ prep[p].step \in Paging
    BY <1>2 DEF At, Expansion, Paging
  <2>3. ASSUME r \in Receipts
        PROVE  /\ prep[p].page \in Nat /\ Prefix(r, prep[p].page) \subseteq of'[r]
               /\ prep[p].got = FirstOf(PageSize, Rest(p)) /\ prep[p].got \subseteq of'[r]
    <3>1. of'[r] = of[r] \cup prep[p].got
      BY <1>2, <2>3 DEF Inv, Shape
    <3> QED BY <1>2, <2>2, <2>3, <3>1 DEF ExpansionOK
  <2>4. /\ prep[p].back \in {"cross", "cut"}
        /\ prep[p].back = "cross" => prep[p].todo # {} /\ r = Min(prep[p].todo)
    BY <1>2, <2>2 DEF ExpansionOK
  <2> QED BY <1>1, <1>2, <1>3, <2>1, <2>3, <2>4 DEF ExpansionOK, Prefix, At, SameTodo
<1> QED BY <1>1, <1>8, <1>9, <1>10, <1>11, <1>12, AloneKeeps

LEMMA DecidePageKeeps ==
    ASSUME Inv, NEW p \in Preparers, DecidePage(p)
    PROVE  Inv'
<1>1. StoreStill
  BY DEF DecidePage, DecideMembers, StoreStill, Inv, Shape
<1>2. PICK step \in {"note", "cursor"} : Go(p, step)
  BY DEF DecidePage
<1>3. /\ Alone(p) /\ SameTodo(p) /\ prep'[p].step = step
      /\ prep'[p].r = prep[p].r /\ prep'[p].page = prep[p].page /\ prep'[p].got = prep[p].got
      /\ prep'[p].back = prep[p].back
  BY <1>2, GoIs
<1>4. ExpansionOK(p) /\ At(p, "decide")
  BY DEF DecidePage, Inv, PreparersOK
<1>5. FirstOf(PageSize, Rest(p))' = FirstOf(PageSize, Rest(p))
  BY <1>1, <1>3 DEF FirstOf, Rest, StoreStill
<1>6. ExpansionOK(p)'
  BY <1>1, <1>3, <1>4, <1>5 DEF ExpansionOK, StoreStill, Receipts, Prefix, Paging, Expansion, At, SameTodo
<1> QED BY <1>1, <1>3, <1>6, StillKeeps

\* A write to one receipt that gives it a truthful row.
LEMMA RowIs ==
    ASSUME Inv, NEW p \in Preparers, Alone(p), NEW r, NEW row,
           UNCHANGED <<world, of>>, now' \in Nat, DOMAIN stream' = DOMAIN stream,
           stream'.cursor = stream.cursor, stream'.cut \in Nat \cup {None},
           receipts' = [receipts EXCEPT ![r] = row],
           r \in Receipts => /\ row \in ReceiptRow /\ row.at = receipts[r].at
                             /\ receipts[r].attempts <= row.attempts
                             /\ row.dead => row.attempts >= MaxAttempts
                             /\ Prefix(r, row.page) \subseteq of[r]
    PROVE  Grows /\ ReceiptsOK' /\ CoveredIsExpanded'
<1>1. Receipts' = Receipts
  BY DEF Receipts
<1>2. receipts' \in [Receipts -> ReceiptRow]
  BY DEF Inv, Shape
<1>3. /\ \A s \in Receipts \ {r} : receipts'[s] = receipts[s]
      /\ r \in Receipts => receipts'[r] = row
  BY DEF Inv, Shape
<1>4. Accepted' = Accepted
  BY <1>1, <1>3 DEF Accepted
<1>5. Shape'
  BY <1>1, <1>2, <1>4 DEF Inv, Shape, Alone
<1>6. \A s \in Receipts : receipts[s].attempts \in Nat
  BY RowTypes DEF Inv
<1>7. Grows
  BY <1>3, <1>4, <1>5, <1>6 DEF Grows
<1>8. \A s \in Receipts \ {r} : Truthful(s, receipts[s])'
  <2> TAKE s \in Receipts \ {r}
  <2>1. Truthful(s, receipts[s])
    BY DEF Inv, ReceiptsOK
  <2> QED BY <1>3, <2>1 DEF Truthful, Prefix
<1>9. r \in Receipts => Truthful(r, receipts[r])'
  BY <1>3 DEF Truthful, Prefix
<1>10. ReceiptsOK'
  BY <1>1, <1>4, <1>8, <1>9 DEF Inv, ReceiptsOK
<1>11. CoveredIsExpanded'
  BY <1>7, CoveredKept
<1> QED BY <1>7, <1>10, <1>11

\* After the last page all is stored, before it all up to the page's last commit.
LEMMA SetPageKeeps ==
    ASSUME Inv, NEW p \in Preparers, SetPage(p)
    PROVE  Inv'
<1> DEFINE r == prep[p].r
           last == prep[p].got = Rest(p)
           page == IF last THEN 0 ELSE Max(prep[p].got)
           row == [receipts[r] EXCEPT !.page = page, !.next = None]
<1>1. /\ UNCHANGED <<world, now, of, stream>>
      /\ receipts' = [receipts EXCEPT ![r].page = page, ![r].next = None]
      /\ At(p, "cursor") /\ ExpansionOK(p) /\ TodoOK(p)
      /\ prep' = [prep EXCEPT ![p].step = IF last THEN prep[p].back ELSE "read",
                              ![p].page = page, ![p].got = {},
                              ![p].pages = IF last THEN 0 ELSE @ + 1]
  BY DEF SetPage, SetCursor, Inv, PreparersOK
<1>2. prep[p].step \in Paging /\ prep[p].step \in Expansion /\ prep[p].step = "cursor"
  BY <1>1 DEF At, Paging, Expansion
<1>3. /\ Alone(p) /\ SameTodo(p) /\ prep'[p].r = r /\ prep'[p].page = page
      /\ prep'[p].step = (IF last THEN prep[p].back ELSE "read") /\ prep'[p].back = prep[p].back
  BY <1>1 DEF Inv, Shape, Alone, SameTodo
<1>4. ASSUME r \in Receipts
      PROVE  /\ page \in Nat /\ Prefix(r, page) \subseteq of[r]
             /\ last => world.covers[r] \subseteq of[r]
  <2>1. /\ prep[p].page \in Nat /\ Prefix(r, prep[p].page) \subseteq of[r]
        /\ prep[p].got \subseteq Rest(p)
        /\ \A c \in prep[p].got, d \in Rest(p) : d <= c => d \in prep[p].got
        /\ Rest(p) # {} => prep[p].got # {}
    BY <1>2, <1>4, PageIs
  <2>2. prep[p].got \subseteq of[r]
    BY <1>2, <1>4, <1>1 DEF ExpansionOK
  <2>3. PICK k \in Nat : \A s \in Receipts : world.covers[s] \subseteq 1..k
    BY WorldIs DEF Inv, Shape
  <2>4. world.covers[r] \subseteq 1..k
    BY <1>4, <2>3
  <2>5. CASE last
    <3>1. ASSUME NEW c \in world.covers[r] PROVE c \in of[r]
      <4>1. CASE c <= prep[p].page
        BY <2>1, <4>1 DEF Prefix
      <4>2. CASE c > prep[p].page
        BY <2>2, <2>5, <4>2 DEF Rest
      <4> QED BY <2>1, <2>4, <4>1, <4>2
    <3>2. page = 0
      BY <2>5
    <3>3. Prefix(r, page) = {}
      BY <2>4, <3>2 DEF Prefix
    <3> QED BY <3>1, <3>2, <3>3
  <2>6. CASE ~last
    <3>1. prep[p].got # {} /\ prep[p].got \in SUBSET (0..k)
      BY <2>1, <2>4, <2>6 DEF Rest
    <3>2. Max(prep[p].got) \in prep[p].got /\ page = Max(prep[p].got)
      BY <3>1, <2>6, MaxIs
    <3>3. page \in Nat
      BY <3>1, <3>2
    <3>4. ASSUME NEW c \in Prefix(r, page) PROVE c \in of[r]
      <4>1. c \in world.covers[r] /\ c <= page /\ c \in Nat
        BY <2>4 DEF Prefix
      <4>2. CASE c <= prep[p].page
        BY <2>1, <4>1, <4>2 DEF Prefix
      <4>3. CASE c > prep[p].page
        <5>1. c \in Rest(p)
          BY <4>1, <4>3 DEF Rest
        <5> QED BY <2>1, <2>2, <3>2, <4>1, <5>1
      <4> QED BY <2>1, <4>1, <4>2, <4>3
    <3> QED BY <2>6, <3>3, <3>4
  <2> QED BY <2>5, <2>6
<1>5. ASSUME r \in Receipts
      PROVE  /\ row \in ReceiptRow /\ row.at = receipts[r].at
             /\ row.attempts = receipts[r].attempts /\ row.dead = receipts[r].dead
             /\ row.page = page /\ row.attempts \in Nat
             /\ receipts[r].dead => receipts[r].attempts >= MaxAttempts
  <2>1. receipts[r] \in ReceiptRow /\ Truthful(r, receipts[r])
    BY <1>5 DEF Inv, Shape, ReceiptsOK
  <2>2. page \in Nat
    BY <1>4, <1>5
  <2> HIDE DEF page, r
  <2> QED BY <2>1, <2>2 DEF ReceiptRow, Truthful
<1>6. receipts' = [receipts EXCEPT ![r] = row]
  BY <1>1
<1>7. Grows /\ ReceiptsOK' /\ CoveredIsExpanded'
  <2>1. /\ UNCHANGED <<world, of>> /\ now' \in Nat /\ DOMAIN stream' = DOMAIN stream
        /\ stream'.cursor = stream.cursor /\ stream'.cut \in Nat \cup {None}
    BY <1>1 DEF Inv, Shape
  <2>2. r \in Receipts => /\ row \in ReceiptRow /\ row.at = receipts[r].at
                          /\ receipts[r].attempts <= row.attempts
                          /\ row.dead => row.attempts >= MaxAttempts
                          /\ Prefix(r, row.page) \subseteq of[r]
    BY <1>4, <1>5
  <2> HIDE DEF row, r
  <2> QED BY <1>3, <1>6, <2>1, <2>2, RowIs
<1>8. TodoOK(p)'
  BY <1>3, <1>7, TodoKept DEF SameTodo
<1>9. /\ prep[p].back \in {"cross", "cut"}
      /\ prep[p].back = "cross" => prep[p].todo # {} /\ r = Min(prep[p].todo)
  BY <1>1, <1>2 DEF ExpansionOK
<1>10. prep[p].back = "cross" => r \in Receipts
  <2> SUFFICES ASSUME prep[p].back = "cross" PROVE r \in Receipts
    OBVIOUS
  <2>1. prep[p].todo \in SUBSET Nat /\ prep[p].todo \subseteq Receipts
    BY <1>1, WorldIs DEF TodoOK, Accepted, Inv, Shape
  <2> QED BY <1>9, <2>1, MinIs
<1>11. ExpansionOK(p)'
  <2>1. CASE last
    <3>1. prep'[p].step \in {"cross", "cut"} /\ prep'[p].step = prep[p].back
      BY <1>3, <1>9, <2>1
    <3>2. CASE prep[p].back = "cut"
      BY <3>1, <3>2, NotExpanding DEF Expansion, Paging
    <3>3. CASE prep[p].back = "cross"
      <4>1. world.covers[r] \subseteq of[r]
        BY <1>4, <1>10, <2>1, <3>3
      <4>2. Done(prep[p].r)'
        BY <1>1, <1>3, <4>1 DEF Done
      <4>3. prep'[p].step = "cross" /\ prep'[p].step \notin Expansion
        BY <3>1, <3>3 DEF Expansion, Paging
      <4> QED BY <1>3, <1>9, <3>3, <4>2, <4>3 DEF ExpansionOK, At, SameTodo
    <3> QED BY <1>9, <3>2, <3>3
  <2>2. CASE ~last
    <3>1. prep'[p].step = "read"
      BY <1>3, <2>2
    <3>2. r \in Receipts => page \in Nat /\ Prefix(r, page) \subseteq of[r]
      BY <1>4
    <3> HIDE DEF page, last, r
    <3>3. r = prep[p].r
      BY DEF r
    <3> QED BY <1>1, <1>3, <1>9, <3>1, <3>2, <3>3
        DEF ExpansionOK, Receipts, Prefix, Paging, Expansion, At, SameTodo
  <2> QED BY <2>1, <2>2
<1> QED BY <1>3, <1>7, <1>8, <1>11, AloneKeeps

LEMMA CountFailureKeeps ==
    ASSUME Inv, NEW p \in Preparers, CountFailure(p)
    PROVE  Inv'
<1>1. /\ StoreStill /\ ExpansionOK(p) /\ prep[p].step = "note"
      /\ prep[p].step \in Expansion
  BY NoWriteIs DEF CountFailure, Inv, PreparersOK, At, Expansion
<1>2. /\ Alone(p) /\ SameTodo(p) /\ prep'[p].step = "record"
      /\ prep'[p].r = prep[p].r /\ prep'[p].page = prep[p].page /\ prep'[p].back = prep[p].back
      /\ prep'[p].failures = receipts[prep[p].r].attempts + 1
  BY DEF CountFailure, Inv, Shape, Alone, SameTodo
<1>3. prep[p].r \in Receipts => prep'[p].failures \in 1..(receipts[prep[p].r].attempts + 1)
  BY <1>2, RowTypes DEF Inv
<1>4. ExpansionOK(p)'
  BY <1>1, <1>2, <1>3
  DEF ExpansionOK, StoreStill, Receipts, Prefix, Paging, Expansion, At, SameTodo
<1> QED BY <1>1, <1>2, <1>4, StillKeeps

\* The number that was counted may be behind, so that the last failure is one too many,
\* never one too few.
LEMMA NoteFailureKeeps ==
    ASSUME Inv, NEW p \in Preparers, NoteFailure(p)
    PROVE  Inv'
<1> DEFINE r == prep[p].r
<1>1. /\ ExpansionOK(p) /\ prep[p].step = "record" /\ prep[p].step \in Expansion
      /\ UNCHANGED <<world, now, of>>
  BY DEF NoteFailure, Inv, PreparersOK, At, Expansion
<1>2. /\ prep[p].back \in {"cross", "cut"}
      /\ prep[p].back = "cross" => prep[p].todo # {} /\ r = Min(prep[p].todo)
  BY <1>1 DEF ExpansionOK
<1>3. ASSUME NEW next \in Nat \cup {None}, NEW step, RecordFailure(r, next), Go(p, step),
             DOMAIN stream' = DOMAIN stream,
             stream'.cursor = stream.cursor, stream'.cut \in Nat \cup {None},
             r \in Receipts /\ next = None => receipts[r].attempts + 1 >= MaxAttempts,
             \/ step \notin Expansion \cup {"cross"}
             \/ step = "fail" /\ next = None
      PROVE  Inv'
  <2> DEFINE row == [receipts[r] EXCEPT !.attempts = @ + 1, !.next = next, !.dead = (next = None)]
  <2>1. receipts' = [receipts EXCEPT ![r] = row]
    BY <1>3 DEF RecordFailure
  <2>2. /\ Alone(p) /\ SameTodo(p) /\ prep'[p].step = step
        /\ prep'[p].r = r /\ prep'[p].page = prep[p].page /\ prep'[p].back = prep[p].back
    BY <1>3, GoIs
  <2>3. ASSUME r \in Receipts
        PROVE  /\ row \in ReceiptRow /\ row.at = receipts[r].at
               /\ receipts[r].attempts <= row.attempts
               /\ row.dead => row.attempts >= MaxAttempts
               /\ Prefix(r, row.page) \subseteq of[r]
               /\ next = None => row.attempts >= MaxAttempts
    <3>1. receipts[r] \in ReceiptRow /\ Prefix(r, receipts[r].page) \subseteq of[r]
      BY <2>3 DEF Inv, Shape, ReceiptsOK, Truthful
    <3> HIDE DEF r
    <3>2. PICK old \in ReceiptRow : old = receipts[r]
      BY <3>1
    <3>3. old.attempts \in Nat
      BY DEF ReceiptRow
    <3>4. PICK n \in Nat : n = old.attempts + 1
      BY <3>3
    <3>5. row = [old EXCEPT !.attempts = n, !.next = next, !.dead = (next = None)]
      BY <3>2, <3>4
    <3> HIDE DEF row
    <3>6. /\ row.at = old.at /\ row.page = old.page /\ row.attempts = n
          /\ row.dead => next = None
      BY <3>5 DEF ReceiptRow
    <3>7. row \in ReceiptRow
      BY <1>3, <3>5 DEF ReceiptRow
    <3> QED BY <1>3, <2>3, <3>1, <3>2, <3>3, <3>4, <3>6, <3>7
  <2>4. Grows /\ ReceiptsOK' /\ CoveredIsExpanded'
    <3>1. now' \in Nat
      BY <1>1 DEF Inv, Shape
    <3> HIDE DEF row, r
    <3> QED BY <1>1, <1>3, <2>1, <2>2, <2>3, <3>1, RowIs
  <2>5. TodoOK(p)'
    BY <2>2, <2>4, TodoKept DEF SameTodo
  <2>6. ExpansionOK(p)'
    <3>1. CASE step \notin Expansion \cup {"cross"}
      BY <2>2, <3>1, NotExpanding
    <3>2. CASE step = "fail" /\ next = None
      <4>1. r \in Receipts => /\ receipts'[r].attempts >= MaxAttempts
                              /\ prep[p].page \in Nat /\ Prefix(r, prep[p].page) \subseteq of[r]
        <5>1. r \in Receipts => receipts'[r] = row
          BY <2>1 DEF Inv, Shape
        <5> HIDE DEF row
        <5> QED BY <1>1, <2>3, <3>2, <5>1 DEF ExpansionOK
      <4>2. Receipts' = Receipts
        BY <1>1 DEF Receipts
      <4> HIDE DEF row
      <4> QED BY <1>1, <1>2, <2>2, <3>2, <4>1, <4>2
          DEF ExpansionOK, Prefix, Paging, Expansion, At, SameTodo
    <3> QED BY <1>3, <3>1, <3>2
  <2> QED BY <2>2, <2>4, <2>5, <2>6, AloneKeeps
<1>4. CASE /\ prep[p].failures >= MaxAttempts
           /\ RecordFailure(r, None) /\ UNCHANGED stream /\ Go(p, "fail")
  <2>1. r \in Receipts => receipts[r].attempts + 1 >= MaxAttempts
    <3> SUFFICES ASSUME r \in Receipts PROVE receipts[r].attempts + 1 >= MaxAttempts
      OBVIOUS
    <3>1. prep[p].failures \in 1..(receipts[r].attempts + 1)
      BY <1>1 DEF ExpansionOK, At
    <3>2. receipts[r].attempts \in Nat /\ MaxAttempts \in Nat
      BY RowTypes, PreparationAssumption DEF Inv
    <3> QED BY <1>4, <3>1, <3>2
  <2>2. /\ DOMAIN stream' = DOMAIN stream
        /\ stream'.cursor = stream.cursor /\ stream'.cut \in Nat \cup {None}
    BY <1>4 DEF Inv, Shape
  <2> HIDE DEF r
  <2> QED BY <1>3, <1>4, <2>1, <2>2
<1>5. CASE /\ prep[p].failures < MaxAttempts
           /\ \E base \in {prep[p].t0, now} :
                 /\ RecordFailure(r, Soon(base))
                 /\ stream' = [stream EXCEPT !.resume = Soon(base)] \/ UNCHANGED stream
           /\ Go(p, NotExpanded(p))
  <2>1. PICK base \in {prep[p].t0, now} :
                 /\ RecordFailure(r, Soon(base))
                 /\ stream' = [stream EXCEPT !.resume = Soon(base)] \/ UNCHANGED stream
    BY <1>5
  <2>2. Soon(base) \in Nat /\ Soon(base) # None
    BY ReceiptAssumption DEF Soon, Inv, Shape
  <2>3. /\ DOMAIN stream' = DOMAIN stream
        /\ stream'.cursor = stream.cursor /\ stream'.cut \in Nat \cup {None}
    BY <2>1 DEF Inv, Shape
  <2>4. NotExpanded(p) \notin Expansion \cup {"cross"}
    BY DEF NotExpanded, Expansion, Paging
  <2> HIDE DEF r
  <2> QED BY <1>3, <1>5, <2>1, <2>2, <2>3, <2>4
<1> QED BY <1>4, <1>5 DEF NoteFailure

LEMMA FailReceiptKeeps ==
    ASSUME Inv, NEW p \in Preparers, FailReceipt(p)
    PROVE  Inv'
<1>1. /\ ExpansionOK(p) /\ TodoOK(p) /\ prep[p].step = "fail" /\ prep[p].step \in Expansion
      /\ StoreStill /\ Go(p, prep[p].back)
  BY DEF FailReceipt, FailMembers, StoreStill, Inv, Shape, PreparersOK, At, Expansion
<1>2. /\ Alone(p) /\ SameTodo(p) /\ prep'[p].step = prep[p].back /\ prep'[p].r = prep[p].r
  BY <1>1, GoIs
<1>3. /\ prep[p].back \in {"cross", "cut"}
      /\ prep[p].back = "cross" => prep[p].todo # {} /\ prep[p].r = Min(prep[p].todo)
  BY <1>1 DEF ExpansionOK
<1>4. CASE prep[p].back = "cut"
  <2>1. prep'[p].step \notin Expansion \cup {"cross"}
    BY <1>2, <1>4 DEF Expansion, Paging
  <2> QED BY <1>1, <1>2, <2>1, LeavesKeeps
<1>5. CASE prep[p].back = "cross"
  <2>1. prep[p].todo \in SUBSET Nat /\ prep[p].todo \subseteq Receipts
    BY <1>1, WorldIs DEF TodoOK, Accepted, Inv, Shape
  <2>2. prep[p].r \in Receipts
    BY <1>3, <1>5, <2>1, MinIs
  <2>3. Done(prep[p].r)'
    BY <1>1, <1>2, <2>2 DEF ExpansionOK, At, Done, StoreStill
  <2>4. prep'[p].step \notin Expansion
    BY <1>2, <1>5 DEF Expansion, Paging
  <2>5. ExpansionOK(p)'
    BY <1>2, <1>3, <1>5, <2>3, <2>4 DEF ExpansionOK, At, SameTodo
  <2> QED BY <1>1, <1>2, <2>5, StillKeeps
<1> QED BY <1>3, <1>4, <1>5

\* The cursor moves to the first receipt of the page: those before it are done.
LEMMA CrossKeeps ==
    ASSUME Inv, NEW p \in Preparers, Cross(p)
    PROVE  Inv'
<1> DEFINE r == prep[p].r
           head == [stream EXCEPT !.cursor = r]
<1>1. /\ WriteHead(head) /\ At(p, "cross") /\ ExpansionOK(p) /\ TodoOK(p)
      /\ prep' = [prep EXCEPT ![p].step = "next", ![p].todo = @ \ {r}, ![p].r = 0]
  BY DEF Cross, Inv, PreparersOK
<1>2. /\ prep[p].todo \in SUBSET Nat /\ prep[p].todo \subseteq Accepted
      /\ Accepted \subseteq Receipts /\ Receipts \subseteq Nat
  BY <1>1, WorldIs DEF TodoOK, Accepted, Inv, Shape
<1>3. r \in prep[p].todo /\ (\A s \in prep[p].todo : r <= s) /\ Done(r)
  BY <1>1, <1>2, MinIs DEF ExpansionOK
<1>4. /\ Alone(p) /\ prep'[p].step = "next" /\ prep'[p].todo = prep[p].todo \ {r}
      /\ prep'[p].rows = prep[p].rows
  BY <1>1 DEF Inv, Shape, Alone
<1>5. /\ UNCHANGED <<world, now, receipts, of>> /\ Accepted' = Accepted /\ Receipts' = Receipts
      /\ stream' = head \/ stream' = stream
  BY <1>1 DEF WriteHead, Accepted, Receipts
<1>6. Shape'
  BY <1>2, <1>3, <1>4, <1>5 DEF Inv, Shape, Alone
<1>7. Grows
  BY <1>5, <1>6, RowTypes DEF Grows, Inv
<1>8. ReceiptsOK'
  BY <1>5 DEF Inv, ReceiptsOK, Truthful, Prefix
<1>9. \A s \in Accepted : s < r => Done(s)
  <2> TAKE s \in Accepted
  <2>1. s < r => s \notin prep[p].todo
    BY <1>2, <1>3
  <2> QED BY <1>1, <1>3, <2>1 DEF TodoOK
<1>10. CoveredIsExpanded'
  <2>1. CASE stream' = stream
    BY <1>7, <2>1, CoveredKept
  <2>2. CASE stream' = head
    <3>1. stream'.cursor = r
      BY <2>2 DEF Inv, Shape
    <3>2. \A s \in Accepted : s <= r => s < r \/ s = r
      BY <1>2, <1>3
    <3>3. \A s \in Accepted : s <= r => Done(s)
      BY <1>3, <1>9, <3>2
    <3> QED BY <1>5, <3>1, <3>3 DEF CoveredIsExpanded, Done
  <2> QED BY <1>5, <2>1, <2>2
<1>11. TodoOK(p)'
  <2>1. prep'[p].todo \subseteq Accepted'
    BY <1>2, <1>4, <1>5
  <2>2. ASSUME NEW s \in prep'[p].todo
        PROVE  s \in DOMAIN prep'[p].rows /\ Truthful(s, prep[p].rows[s])'
    BY <1>1, <1>4, <1>5, <2>2 DEF TodoOK, Truthful, Prefix
  <2>3. ASSUME NEW s \in prep'[p].todo, NEW u \in Accepted' \ prep'[p].todo, u < s
        PROVE  Done(u)'
    <3>1. u = r \/ u \in Accepted \ prep[p].todo
      BY <1>4, <1>5
    <3>2. Done(u)
      BY <1>1, <1>3, <1>4, <2>3, <3>1 DEF TodoOK
    <3> QED BY <1>5, <3>2 DEF Done
  <2> QED BY <2>1, <2>2, <2>3 DEF TodoOK
<1>12. ExpansionOK(p)'
  BY <1>4, NotExpanding DEF Expansion, Paging
<1> QED BY <1>4, <1>7, <1>8, <1>10, <1>11, <1>12, AloneKeeps

-----------------------------------------------------------------------------
\* The assembly reads and writes commits, and the stream but for its cursor.
LEMMA AssembleIs ==
    ASSUME Inv, NEW p \in Preparers, Assemble(p)
    PROVE  Alone(p) /\ SameTodo(p) /\ prep'[p].step \notin Expansion \cup {"cross"}
BY DEF Assemble, Inv, Shape, Alone, SameTodo, Expansion, Paging

LEMMA CaughtKeeps ==
    ASSUME Inv, NEW p \in Preparers, Caught(p)
    PROVE  Inv'
<1>1. StoreStill
  <2>1. ASSUME WriteHead([stream EXCEPT !.resume = NextOpen]) PROVE StoreStill
    BY <2>1, HeadIs DEF Inv, Shape
  <2>2. ASSUME NEW set, DecideMembers(set, prep[p].policy) PROVE StoreStill
    BY <2>2 DEF DecideMembers, StoreStill, Inv, Shape
  <2> QED BY <2>1, <2>2, NoWriteIs DEF Caught
<1>2. PICK step \in {"release", "clear", "resolve"} : Go(p, step)
  BY DEF Caught
<1> QED BY <1>1, <1>2, GoIs, LeavesKeeps DEF Expansion, Paging

LEMMA ResolveKeeps ==
    ASSUME Inv, NEW p \in Preparers, Resolve(p)
    PROVE  Inv'
<1> DEFINE r == Cover(Min({c \in Seen : commits[c].verdict = "undecided"}))
<1>1. CASE Assemble(p) /\ NoWrite
  BY <1>1, AssembleIs, NoWriteIs, LeavesKeeps
<1>2. CASE Go(p, "clear") /\ WriteHead([stream EXCEPT !.resume = receipts[r].next])
  <2>1. StoreStill
    BY <1>2, HeadIs DEF Inv, Shape
  <2> QED BY <1>2, <2>1, GoIs, LeavesKeeps DEF Expansion, Paging
<1>3. CASE NoWrite /\ prep' = [prep EXCEPT ![p] = Expanding(p, r, receipts[r], "cut")]
  <2>1. r \in Receipts => Truthful(r, receipts[r])
    BY DEF Inv, ReceiptsOK
  <2> HIDE DEF r
  <2> QED BY <1>3, <2>1, NoWriteIs, ExpandingIs
<1> QED BY <1>1, <1>2, <1>3 DEF Resolve

LEMMA CutPendingKeeps ==
    ASSUME Inv, NEW p \in Preparers, CutPending(p)
    PROVE  Inv'
BY AssembleIs, NoWriteIs, LeavesKeeps DEF CutPending

LEMMA DoomReceiptKeeps ==
    ASSUME Inv, NEW p \in Preparers, DoomReceipt(p)
    PROVE  Inv'
<1>1. StoreStill
  BY DEF DoomReceipt, FailMembers, StoreStill, Inv, Shape
<1>2. Alone(p) /\ SameTodo(p) /\ prep'[p].step \notin Expansion \cup {"cross"}
  BY DEF DoomReceipt, Inv, Shape, Alone, SameTodo, Expansion, Paging
<1> QED BY <1>1, <1>2, LeavesKeeps

LEMMA ReleasedIs ==
    ASSUME Inv, NEW p \in Preparers
    PROVE  /\ DOMAIN Released(p) = DOMAIN stream /\ Released(p).cursor = stream.cursor
           /\ Released(p).cut = stream.cut
BY DEF Released, Inv, Shape

LEMMA SealCutKeeps ==
    ASSUME Inv, NEW p \in Preparers, SealCut(p)
    PROVE  Inv'
<1>1. ASSUME Seal(p, prep[p].chosen) PROVE StoreStill
  BY <1>1, ReleasedIs DEF Seal, StoreStill, Inv, Shape
<1>2. StoreStill
  BY <1>1, NoWriteIs DEF SealCut
<1> QED BY <1>2, GoIs, LeavesKeeps DEF SealCut, Expansion, Paging

LEMMA ClearFrontierKeeps ==
    ASSUME Inv, NEW p \in Preparers, ClearFrontier(p)
    PROVE  Inv'
<1>1. ASSUME WriteHead([stream EXCEPT !.cut = None, !.cutAt = None]) PROVE StoreStill
  BY <1>1, HeadIs DEF Inv, Shape
<1>2. StoreStill
  BY <1>1, NoWriteIs DEF ClearFrontier
<1> QED BY <1>2, GoIs, LeavesKeeps DEF ClearFrontier, Expansion, Paging

LEMMA ReleaseKeeps ==
    ASSUME Inv, NEW p \in Preparers, Release(p)
    PROVE  Inv'
<1>1. StoreStill
  BY ReleasedIs DEF Release, StoreStill, Inv, Shape
<1> QED BY <1>1, IdleIs, LeavesKeeps DEF Release

LEMMA InterruptKeeps ==
    ASSUME Inv, NEW p \in Preparers, Interrupt(p)
    PROVE  Inv'
<1>1. PICK step : Go(p, step) /\ step \in {"release", NotExpanded(p)}
  BY DEF Interrupt
<1>2. step \notin Expansion \cup {"cross"}
  BY <1>1 DEF NotExpanded, Expansion, Paging
<1>3. StoreStill
  BY NoWriteIs DEF Interrupt
<1> QED BY <1>1, <1>2, <1>3, GoIs, LeavesKeeps

LEMMA ThrowsKeeps ==
    ASSUME Inv, NEW p \in Preparers, Throws(p)
    PROVE  Inv'
<1>1. StoreStill
  BY ReleasedIs DEF Throws, StoreStill, Inv, Shape
<1> QED BY <1>1, IdleIs, LeavesKeeps DEF Throws

LEMMA CrashKeeps ==
    ASSUME Inv, NEW p \in Preparers, Crash(p)
    PROVE  Inv'
BY NoWriteIs, IdleIs, LeavesKeeps DEF Crash

-----------------------------------------------------------------------------
\* What happens around the preparers.
LEMMA AroundKeeps ==
    ASSUME Inv, Grows, prep' = prep, ReceiptsOK', CoveredIsExpanded'
    PROVE  Inv'
BY OthersKept DEF Inv, PreparersOK, Grows

LEMMA QuietKeeps ==
    ASSUME Inv, StoreStill, prep' = prep
    PROVE  Inv'
<1>1. Receipts' = Receipts /\ Accepted' = Accepted
  BY DEF StoreStill, Receipts, Accepted
<1>2. Shape'
  BY <1>1 DEF Inv, Shape, StoreStill
<1>3. Grows
  BY <1>1, <1>2, RowTypes DEF Grows, StoreStill, Inv
<1>4. ReceiptsOK'
  BY <1>1 DEF Inv, ReceiptsOK, Truthful, Prefix, StoreStill
<1>5. CoveredIsExpanded'
  BY <1>3, CoveredKept DEF StoreStill
<1> QED BY <1>3, <1>4, <1>5, AroundKeeps

\* A new receipt comes after all others, behind the cursor and every page.
LEMMA ArriveKeeps ==
    ASSUME Inv, Arrive
    PROVE  Inv'
<1>1. PICK r \in Receipts : AcceptReceipt(r) /\ prep' = prep
  BY DEF Arrive
<1>2. /\ receipts[r].at = None /\ \A s \in 1..(r - 1) : s \in Accepted
      /\ receipts' = [receipts EXCEPT ![r].at = now]
      /\ UNCHANGED <<world, now, of, stream>> /\ Receipts' = Receipts
  BY <1>1 DEF AcceptReceipt, Receipts
<1>3. /\ now \in Nat /\ now # None /\ r \notin Accepted
      /\ Receipts \subseteq Nat \ {0} /\ Accepted \subseteq Receipts
  BY <1>2, ReceiptAssumption, WorldIs DEF Inv, Shape, Accepted
<1>4. /\ \A s \in Receipts : receipts'[s] = IF s = r THEN [receipts[r] EXCEPT !.at = now]
                                            ELSE receipts[s]
      /\ \A s \in Receipts : receipts[s] \in ReceiptRow
  BY <1>2 DEF Inv, Shape
<1>5. \A s \in Receipts : /\ receipts'[s] \in ReceiptRow
                          /\ receipts'[s].attempts = receipts[s].attempts
                          /\ receipts'[s].dead = receipts[s].dead
                          /\ receipts'[s].page = receipts[s].page
                          /\ receipts'[s].at # None <=> s \in Accepted \/ s = r
  BY <1>3, <1>4 DEF ReceiptRow, Accepted
<1>6. Accepted' = Accepted \cup {r}
  BY <1>2, <1>5, <1>3 DEF Accepted
<1>7. Shape'
  <2>1. receipts' \in [Receipts -> ReceiptRow]
    BY <1>2, <1>5 DEF Inv, Shape
  <2> QED BY <1>1, <1>2, <1>6, <2>1 DEF Inv, Shape
<1>8. \A s \in Accepted : s < r
  <2> TAKE s \in Accepted
  <2>1. r \notin 1..s
    BY <1>3 DEF Inv, ReceiptsOK
  <2> QED BY <1>3, <2>1
<1>9. Grows
  <2>1. \A s \in Receipts : receipts[s].attempts \in Nat
    BY RowTypes DEF Inv
  <2> QED BY <1>2, <1>5, <1>6, <1>7, <1>8, <2>1 DEF Grows
<1>10. ReceiptsOK'
  <2>1. \A s \in Receipts' : Truthful(s, receipts[s])'
    <3> TAKE s \in Receipts'
    <3>1. Truthful(s, receipts[s]) /\ s \in Receipts
      BY <1>2 DEF Inv, ReceiptsOK
    <3> QED BY <1>2, <1>5, <3>1 DEF Truthful, Prefix
  <2>2. \A s \in 1..r : s \in Accepted'
    <3>1. \A s \in 1..r : s = r \/ s \in 1..(r - 1)
      BY <1>3
    <3> QED BY <1>2, <1>6, <3>1
  <2>3. \A s \in Accepted : \A u \in 1..s : u \in Accepted'
    BY <1>6 DEF Inv, ReceiptsOK
  <2> QED BY <1>6, <2>1, <2>2, <2>3 DEF ReceiptsOK
<1>11. CoveredIsExpanded'
  BY <1>2, <1>9, CoveredKept
<1> QED BY <1>1, <1>9, <1>10, <1>11, AroundKeeps

LEMMA LapseKeeps ==
    ASSUME Inv, Lapse
    PROVE  Inv'
<1>1. StoreStill
  BY DEF Lapse, StoreStill, Inv, Shape
<1> QED BY <1>1, QuietKeeps DEF Lapse

LEMMA TickKeeps ==
    ASSUME Inv, Tick
    PROVE  Inv'
<1>1. StoreStill
  BY DEF Tick, StoreStill, Inv, Shape
<1> QED BY <1>1, QuietKeeps DEF Tick

LEMMA ChangePolicyKeeps ==
    ASSUME Inv, ChangePolicy
    PROVE  Inv'
<1>1. StoreStill
  BY DEF ChangePolicy, StoreStill, Inv, Shape
<1> QED BY <1>1, QuietKeeps DEF ChangePolicy

LEMMA SettleActiveKeeps ==
    ASSUME Inv, SettleActive
    PROVE  Inv'
<1>1. StoreStill
  BY DEF SettleActive, Settle, StoreStill, Inv, Shape
<1> QED BY <1>1, QuietKeeps DEF SettleActive

LEMMA StutterKeeps ==
    ASSUME Inv, UNCHANGED prepVars
    PROVE  Inv'
<1>1. StoreStill
  BY DEF prepVars, receiptVars, StoreStill, Inv, Shape
<1> QED BY <1>1, QuietKeeps DEF prepVars

LEMMA PreparationStarts ==
    ASSUME PreparationInit
    PROVE  Inv
<1>1. /\ world \in Worlds /\ now = world.start
      /\ receipts = [r \in Receipts |-> NoReceipt] /\ of = [r \in Receipts |-> {}]
      /\ stream = [cursor |-> 0, cut |-> None, cutAt |-> None, resume |-> None,
                   active |-> {}, by |-> None, live |-> FALSE]
      /\ prep = [p \in Preparers |-> Idle]
  BY DEF PreparationInit, ReceiptInit
<1>2. now \in Nat
  BY <1>1, ReceiptAssumption DEF World
<1>3. Accepted = {}
  BY <1>1 DEF Accepted, NoReceipt
<1>4. NoReceipt \in ReceiptRow /\ ~NoReceipt.dead /\ NoReceipt.page = 0
  BY DEF NoReceipt, ReceiptRow
<1>5. Shape
  <2>1. receipts \in [Receipts -> ReceiptRow]
    BY <1>1, <1>4
  <2>2. of \in [Receipts -> SUBSET Nat]
    BY <1>1
  <2>3. /\ DOMAIN Idle = {"step", "t0", "policy", "at", "todo", "more", "rows", "r", "page",
                          "pages", "got", "failures", "back", "chosen", "doomed"}
        /\ Idle.t0 \in Nat
    BY DEF Idle
  <2> QED BY <1>1, <1>2, <2>1, <2>2, <2>3 DEF Shape
<1>6. \A r \in Receipts : Truthful(r, receipts[r])
  <2> TAKE r \in Receipts
  <2>1. world.covers[r] \subseteq Nat \ {0}
    BY <1>1, WorldIs
  <2>2. Prefix(r, 0) = {}
    BY <2>1 DEF Prefix
  <2> QED BY <1>1, <1>4, <2>2 DEF Truthful
<1>7. PreparersOK
  BY <1>1 DEF PreparersOK, TodoOK, ExpansionOK, Idle, Expansion, Paging, At
<1> QED BY <1>3, <1>5, <1>6, <1>7 DEF Inv, ReceiptsOK, CoveredIsExpanded

LEMMA PreparerKeeps ==
    ASSUME Inv, NEW p \in Preparers,
           Wake(p) \/ Prepare(p) \/ Interrupt(p) \/ Throws(p) \/ Crash(p)
    PROVE  Inv'
BY WakeKeeps, AcquireKeeps, FrontierKeeps, NextReceiptKeeps, ReadPageKeeps, ApplyPageKeeps,
   DecidePageKeeps, SetPageKeeps, CountFailureKeeps, NoteFailureKeeps, FailReceiptKeeps,
   CrossKeeps, CaughtKeeps, ResolveKeeps, CutPendingKeeps, DoomReceiptKeeps, SealCutKeeps,
   ClearFrontierKeeps, ReleaseKeeps, InterruptKeeps, ThrowsKeeps, CrashKeeps DEF Prepare

LEMMA PreparationKeeps ==
    ASSUME Inv, [PreparationNext]_prepVars
    PROVE  Inv'
BY PreparerKeeps, LapseKeeps, TickKeeps, ChangePolicyKeeps, ArriveKeeps, SettleActiveKeeps,
   StutterKeeps DEF PreparationNext

\* The coverage cursor of a stream crosses a receipt only when all commits it covers are
\* stored or its attempts are spent, whatever other schedulers on the same stream do,
\* remember, lose or write late: expandStream, expandReceipt, noteExpansionFailure.
THEOREM NothingLeftBehind == PreparationSpec => []CoveredIsExpanded
<1>1. PreparationInit => Inv
  BY PreparationStarts
<1>2. Inv /\ [PreparationNext]_prepVars => Inv'
  BY PreparationKeeps
<1>3. Inv => CoveredIsExpanded
  BY DEF Inv
<1> QED BY <1>1, <1>2, <1>3, PTL DEF PreparationSpec

-----------------------------------------------------------------------------
\* The cuts in the system.
LEMMA CommitsAreNumbers ==
    ASSUME world \in Worlds
    PROVE  Numbers(Commits)
<1>1. world.author \in Seq(Nat)
  BY ReceiptAssumption DEF World
<1>2. Commits = 1..Len(world.author) /\ Len(world.author) \in Nat
  BY <1>1 DEF Commits
<1> QED BY <1>2 DEF Numbers

LEMMA CandidatesAre ==
    ASSUME Inv
    PROVE  Numbers(Candidates) /\ Candidates \subseteq Pending
<1>1. Numbers(Pending) /\ Pending \subseteq Nat
  BY CommitsAreNumbers, SomeNumbers DEF Pending, Inv, Shape, Numbers
<1>2. MaxMembers + 1 \in Nat \ {0}
  BY CutAssumption
<1>3. Seen \subseteq Pending
  BY <1>1, <1>2, FirstOfIs DEF Seen
<1>4. Candidates \subseteq Seen
  BY DEF Candidates, TailDropped, Allowed
<1> QED BY <1>1, <1>3, <1>4, SomeNumbers

LEMMA CutIsSound ==
    ASSUME Inv, NEW at, Cut(Candidates, at) # {}
    PROVE  SoundCut(Cut(Candidates, at), at)
<1> DEFINE V == Candidates
<1>1. Numbers(V) /\ V # {}
  BY CandidatesAre DEF Cut
<1> HIDE DEF V
<1>2. SoundlyCut(V, Cut(V, at), at)
  BY <1>1, PushCutIsSound, RunCutIsSound DEF Cut, V
<1> QED BY <1>2 DEF SoundlyCut, SoundCut, V

LEMMA AssembleCuts ==
    ASSUME Inv, NEW p \in Preparers, Assemble(p), At(p, "seal")'
    PROVE  SoundCut(prep'[p].chosen, prep[p].at)
<1>1. PICK doomed \in {Doomed(Candidates)} :
        \E chosen \in {IF doomed = {} THEN Cut(Candidates, prep[p].at) ELSE {}} :
          prep' = [prep EXCEPT ![p].doomed = doomed, ![p].chosen = chosen,
                               ![p].step = IF doomed # {} THEN "doom"
                                           ELSE IF chosen # {} THEN "seal" ELSE "clear"]
  BY DEF Assemble
<1>2. PICK chosen \in {IF doomed = {} THEN Cut(Candidates, prep[p].at) ELSE {}} :
          prep' = [prep EXCEPT ![p].doomed = doomed, ![p].chosen = chosen,
                               ![p].step = IF doomed # {} THEN "doom"
                                           ELSE IF chosen # {} THEN "seal" ELSE "clear"]
  BY <1>1
<1>3. /\ prep'[p].chosen = chosen
      /\ prep'[p].step = IF doomed # {} THEN "doom"
                         ELSE IF chosen # {} THEN "seal" ELSE "clear"
  BY <1>2 DEF Inv, Shape
<1>4. doomed = {} /\ chosen # {}
  BY <1>3 DEF At
<1>5. chosen = Cut(Candidates, prep[p].at)
  BY <1>2, <1>4
<1> QED BY <1>3, <1>4, <1>5, CutIsSound

\* Only an assembly leads to a seal.
LEMMA OnlyAssemblySeals ==
    ASSUME Inv, NEW p \in Preparers, NEW q \in Preparers, ~At(q, "seal"), At(q, "seal")',
           Wake(p) \/ Prepare(p) \/ Interrupt(p) \/ Throws(p) \/ Crash(p)
    PROVE  q = p /\ Assemble(p) /\ NoWrite
<1>0. prep[p].step \in Expansion => prep[p].back \in {"cross", "cut"}
  BY DEF Inv, PreparersOK, ExpansionOK
<1>1. ASSUME NEW step, Go(p, step), step # "seal" PROVE FALSE
  BY <1>1 DEF Go, At, Inv, Shape
<1>2. ASSUME prep' = [prep EXCEPT ![p] = Idle] PROVE FALSE
  BY <1>2 DEF Idle, At, Inv, Shape
<1>3. ASSUME NEW r, NEW row, NEW back, prep' = [prep EXCEPT ![p] = Expanding(p, r, row, back)]
      PROVE  FALSE
  BY <1>3 DEF Expanding, At, Inv, Shape
<1>4. ~Wake(p) /\ ~Acquire(p)
  <2>1. ASSUME prep' = [prep EXCEPT ![p] = [Idle EXCEPT !.step = "awake", !.t0 = now]]
        PROVE  FALSE
    BY <2>1 DEF Idle, At, Inv, Shape
  <2>2. ASSUME prep' = [prep EXCEPT ![p].step = "frontier", ![p].policy = policy] PROVE FALSE
    BY <2>2 DEF At, Inv, Shape
  <2> QED BY <1>2, <2>1, <2>2 DEF Wake, Acquire
<1>5. ~Frontier(p)
  <2>1. ASSUME NEW head, prep' = [prep EXCEPT ![p] = Listed(p, head)] PROVE FALSE
    <3>1. Listed(p, head).step # "seal"
      BY DEF Listed, Inv, Shape
    <3> QED BY <2>1, <3>1 DEF At, Inv, Shape
  <2>2. ASSUME prep' = [prep EXCEPT ![p] = [@ EXCEPT !.step = "release"]] PROVE FALSE
    BY <2>2 DEF At, Inv, Shape
  <2> QED BY <1>1, <2>1, <2>2 DEF Frontier
<1>6. ~NextReceipt(p)
  <2>1. ASSUME prep' = [prep EXCEPT ![p].step = IF prep[p].more THEN "release" ELSE "caught",
                                   ![p].rows = <<>>]
        PROVE  FALSE
    BY <2>1 DEF At, Inv, Shape
  <2> QED BY <1>1, <1>3, <2>1 DEF NextReceipt
<1>7. ~ReadPage(p)
  <2>1. NotExpanded(p) # "seal"
    BY DEF NotExpanded
  <2>2. ASSUME NEW got, prep' = [prep EXCEPT ![p].step = "apply", ![p].got = got] PROVE FALSE
    BY <2>2 DEF At, Inv, Shape
  <2> QED BY <1>1, <2>1, <2>2 DEF ReadPage
<1>8. ~ApplyPage(p) /\ ~DecidePage(p)
  BY <1>1 DEF ApplyPage, DecidePage
<1>9. ~SetPage(p)
  BY <1>0 DEF SetPage, Expansion, Paging, At, Inv, Shape
<1>10. ~CountFailure(p) /\ ~NoteFailure(p)
  BY <1>1 DEF CountFailure, NoteFailure, NotExpanded, At, Inv, Shape
<1>11. ~FailReceipt(p)
  BY <1>0, <1>1 DEF FailReceipt, Expansion, At
<1>12. ~Cross(p) /\ ~DoomReceipt(p)
  BY DEF Cross, DoomReceipt, At, Inv, Shape
<1>13. ~Caught(p) /\ ~SealCut(p) /\ ~ClearFrontier(p)
  BY <1>1 DEF Caught, SealCut, ClearFrontier
<1>14. ~Release(p) /\ ~Throws(p) /\ ~Crash(p)
  BY <1>2 DEF Release, Throws, Crash
<1>15. ~Interrupt(p)
  BY <1>1 DEF Interrupt, NotExpanded
<1>16. CASE Resolve(p)
  BY <1>1, <1>3, <1>16, AssembleIs DEF Resolve, Alone, At
<1>17. CASE CutPending(p)
  BY <1>17, AssembleIs DEF CutPending, Alone, At
<1> QED BY <1>4, <1>5, <1>6, <1>7, <1>8, <1>9, <1>10, <1>11, <1>12, <1>13, <1>14, <1>15,
           <1>16, <1>17 DEF Prepare

LEMMA CutsStaySound ==
    ASSUME Inv, [PreparationNext]_prepVars, NEW q \in Preparers, ~At(q, "seal"), At(q, "seal")'
    PROVE  SoundCut(prep'[q].chosen, prep[q].at)
<1>1. CASE \E p \in Preparers : Wake(p) \/ Prepare(p) \/ Interrupt(p) \/ Throws(p) \/ Crash(p)
  BY <1>1, OnlyAssemblySeals, AssembleCuts
<1>2. CASE prep' = prep
  BY <1>2 DEF At
<1> QED BY <1>1, <1>2 DEF PreparationNext, Lapse, Tick, ChangePolicy, Arrive, SettleActive, prepVars

\* What a preparer is about to seal is, when it is cut, coherent, due and within the
\* limits, and takes every push whole, for any history, any deliveries and any number of
\* processes: assembleStream, cutAutoCommitBatches, cutPushUnits.
THEOREM EveryCutIsSound == PreparationSpec => CutsAreSound
<1>1. PreparationInit => Inv
  BY PreparationStarts
<1>2. Inv /\ [PreparationNext]_prepVars => Inv'
  BY PreparationKeeps
<1>3. Inv /\ [PreparationNext]_prepVars =>
        [\A p \in Preparers :
            ~At(p, "seal") /\ At(p, "seal")' => SoundCut(prep'[p].chosen, prep[p].at)]_prepVars
  BY CutsStaySound
<1> QED BY <1>1, <1>2, <1>3, PTL DEF PreparationSpec, CutsAreSound
-----------------------------------------------------------------------------
\* The batches of one process.  Commits change their receipt only while they are
\* pending, so that only a late page of another preparer can come between a cut and its
\* seal.
CommitShape ==
    /\ DOMAIN commits = Commits
    /\ \A c \in Commits : DOMAIN commits[c] = {"status", "cover", "eligible", "verdict", "policy"}

Sealed == {c \in Commits : commits[c].status = "batched"}

CutOK(p) == At(p, "seal") => prep[p].chosen \subseteq Commits /\ Coherent(prep[p].chosen)

BatchInv ==
    /\ CommitShape /\ stream.active \subseteq Sealed
    /\ \A p \in Preparers : ~At(p, "idle") => p \in world.preparers
    /\ OneProcess => Coherent(stream.active) /\ \A p \in Preparers : CutOK(p)

LEMMA CoherentKept ==
    ASSUME NEW B, Coherent(B), world' = world, \A c \in B : commits'[c].cover = commits[c].cover
    PROVE  Coherent(B)'
<1>1. /\ \A c \in B : Cover(c)' = Cover(c) /\ Author(c)' = Author(c) /\ Pin(c)' = Pin(c)
      /\ Rewrites(B)' <=> Rewrites(B)
  BY DEF Cover, Author, Pin, Rewrites
<1> QED BY <1>1 DEF Coherent

\* What a step may do to the commits: leave them, judge them, add a page, seal, settle.
CommitsStill == world' = world /\ commits' = commits /\ stream'.active = stream.active

Judging ==
    /\ world' = world /\ stream'.active = stream.active /\ CommitShape'
    /\ \A c \in Commits : commits'[c].cover = commits[c].cover
    /\ Sealed \subseteq Sealed'

LEMMA JudgingIs ==
    ASSUME CommitShape,
           \/ \E set, version : DecideMembers(set, version)
           \/ \E r : FailMembers(r)
    PROVE  Judging
<1>1. CASE \E set, version : DecideMembers(set, version)
  <2>1. PICK set, version : DecideMembers(set, version)
    BY <1>1
  <2>2. /\ DOMAIN commits' = Commits /\ world' = world /\ stream' = stream
        /\ \A c \in Commits :
             commits'[c] = IF c \notin set \cap Pending THEN commits[c]
               ELSE [commits[c] EXCEPT !.verdict = Verdict(c, version), !.policy = version,
                                       !.status = IF Verdict(c, version) = "excluded"
                                                  THEN "skipped" ELSE @]
    BY <2>1 DEF DecideMembers
  <2>3. \A c \in Commits : /\ DOMAIN commits'[c] = DOMAIN commits[c]
                           /\ commits'[c].cover = commits[c].cover
                           /\ c \notin Pending => commits'[c] = commits[c]
    BY <2>2 DEF CommitShape
  <2>4. Commits' = Commits
    BY <2>2 DEF Commits
  <2> QED BY <2>2, <2>3, <2>4 DEF Judging, CommitShape, Sealed, Pending
<1>2. CASE \E r : FailMembers(r)
  <2>1. PICK r : FailMembers(r)
    BY <1>2
  <2>2. /\ DOMAIN commits' = Commits /\ world' = world /\ stream' = stream
        /\ \A c \in Commits :
             commits'[c] = IF c \in of[r] \cap Pending
                           THEN [commits[c] EXCEPT !.status = "failed"] ELSE commits[c]
    BY <2>1 DEF FailMembers
  <2>3. \A c \in Commits : /\ DOMAIN commits'[c] = DOMAIN commits[c]
                           /\ commits'[c].cover = commits[c].cover
                           /\ c \notin Pending => commits'[c] = commits[c]
    BY <2>2 DEF CommitShape
  <2>4. Commits' = Commits
    BY <2>2 DEF Commits
  <2> QED BY <2>2, <2>3, <2>4 DEF Judging, CommitShape, Sealed, Pending
<1> QED BY <1>1, <1>2

LEMMA PageAppliedIs ==
    ASSUME CommitShape, NEW r, NEW page, ApplyMetadataPage(r, page)
    PROVE  /\ world' = world /\ stream' = stream /\ CommitShape'
           /\ \A c \in Sealed : commits'[c] = commits[c]
<1>1. /\ DOMAIN commits' = Commits /\ world' = world /\ stream' = stream
      /\ \A c \in Commits : commits'[c] = PageApplied(r, page)[c]
  BY DEF ApplyMetadataPage, PageApplied
<1>2. DOMAIN NoCommit = {"status", "cover", "eligible", "verdict", "policy"}
  BY DEF NoCommit
<1>3. ASSUME NEW c \in Commits
      PROVE  /\ DOMAIN commits'[c] = {"status", "cover", "eligible", "verdict", "policy"}
             /\ commits[c].status = "batched" => commits'[c] = commits[c]
  <2>1. \/ commits'[c] = commits[c]
        \/ /\ commits[c].status = "absent"
           /\ commits'[c] = [NoCommit EXCEPT !.status = "pending", !.cover = r,
                                             !.eligible = Eligibility(r)]
        \/ /\ commits[c].status = "pending"
           /\ commits'[c] = [commits[c] EXCEPT !.cover = r, !.eligible = Eligibility(r)]
    BY <1>1 DEF PageApplied
  <2> QED BY <1>2, <2>1 DEF CommitShape
<1>4. Commits' = Commits
  BY <1>1 DEF Commits
<1> QED BY <1>1, <1>3, <1>4 DEF CommitShape, Sealed

LEMMA SealIs ==
    ASSUME Inv, CommitShape, NEW p \in Preparers, NEW B, Seal(p, B)
    PROVE  /\ world' = world /\ CommitShape' /\ stream'.active = B
           /\ \A c \in Commits : /\ commits'[c].cover = commits[c].cover
                                 /\ c \in B => commits'[c].status = "batched"
<1>1. /\ DOMAIN commits' = Commits /\ world' = world
      /\ \A c \in Commits : commits'[c] = IF c \in B THEN [commits[c] EXCEPT !.status = "batched"]
                                          ELSE commits[c]
      /\ stream' = [Released(p) EXCEPT !.active = B]
  BY DEF Seal
<1>2. stream'.active = B
  BY <1>1, ReleasedIs DEF Inv, Shape
<1>3. \A c \in Commits : /\ DOMAIN commits'[c] = DOMAIN commits[c]
                         /\ commits'[c].cover = commits[c].cover
                         /\ c \in B => commits'[c].status = "batched"
  BY <1>1 DEF CommitShape
<1>4. Commits' = Commits
  BY <1>1 DEF Commits
<1> QED BY <1>1, <1>2, <1>3, <1>4 DEF CommitShape

LEMMA SettleIs ==
    ASSUME Inv, CommitShape, Settle
    PROVE  /\ world' = world /\ CommitShape' /\ stream'.active = {}
           /\ \A c \in Commits : commits'[c].cover = commits[c].cover
<1>1. PICK outcome : commits' = [c \in Commits |-> IF c \in stream.active
                          THEN [commits[c] EXCEPT !.status = outcome] ELSE commits[c]]
  BY DEF Settle
<1>2. world' = world /\ stream'.active = {} /\ Commits' = Commits
  BY DEF Settle, Inv, Shape, Commits
<1>3. /\ DOMAIN commits' = Commits
      /\ \A c \in Commits : /\ DOMAIN commits'[c] = DOMAIN commits[c]
                            /\ commits'[c].cover = commits[c].cover
  BY <1>1 DEF CommitShape
<1> QED BY <1>2, <1>3 DEF CommitShape

\* The steps of a preparer.
SealsIt(p) == At(p, "seal") /\ Sealable(p, prep[p].chosen) /\ Seal(p, prep[p].chosen)
Applies(p) == At(p, "apply") /\ ApplyMetadataPage(prep[p].r, prep[p].got)
StepOf(p) == Wake(p) \/ Prepare(p) \/ Interrupt(p) \/ Throws(p) \/ Crash(p)

LEMMA HeadStill ==
    ASSUME NEW head, WriteHead(head), head.active = stream.active
    PROVE  CommitsStill
BY DEF WriteHead, CommitsStill

LEMMA NoWriteStill ==
    ASSUME NoWrite
    PROVE  CommitsStill
BY DEF NoWrite, receiptVars, CommitsStill

LEMMA ReleasedStill ==
    ASSUME Inv, NEW p \in Preparers
    PROVE  Released(p).active = stream.active
BY DEF Released, Inv, Shape

LEMMA StepWrites ==
    ASSUME Inv, CommitShape, NEW p \in Preparers, StepOf(p)
    PROVE  CommitsStill \/ Judging \/ Applies(p) \/ SealsIt(p)
<1>1. ASSUME NEW x, WriteHead([stream EXCEPT !.resume = x]) PROVE CommitsStill
  BY <1>1, HeadStill DEF Inv, Shape
<1>2. ASSUME NEW x, NEW y, NEW z, WriteHead([stream EXCEPT !.cut = x, !.cutAt = y, !.resume = z])
      PROVE  CommitsStill
  <2>1. [stream EXCEPT !.cut = x, !.cutAt = y, !.resume = z].active = stream.active
    BY DEF Inv, Shape
  <2> QED BY <1>2, <2>1, HeadStill
<1>3. CASE Wake(p) \/ Acquire(p)
  <2>1. Reserved(p).active = stream.active
    BY DEF Reserved, Inv, Shape
  <2> QED BY <1>1, <1>3, <2>1, NoWriteStill DEF Wake, Acquire, CommitsStill
<1>4. CASE Frontier(p)
  BY <1>2, <1>4, NoWriteStill DEF Frontier
<1>5. CASE NextReceipt(p) \/ ReadPage(p) \/ CountFailure(p) \/ CutPending(p)
           \/ Interrupt(p) \/ Crash(p)
  BY <1>5, NoWriteStill DEF NextReceipt, ReadPage, CountFailure, CutPending, Interrupt, Crash
<1>6. CASE ApplyPage(p)
  BY <1>6 DEF ApplyPage, Applies
<1>7. CASE DecidePage(p) \/ FailReceipt(p) \/ DoomReceipt(p)
  BY <1>7, JudgingIs DEF DecidePage, FailReceipt, DoomReceipt
<1>8. CASE SetPage(p)
  BY <1>8 DEF SetPage, SetCursor, CommitsStill
<1>9. CASE NoteFailure(p)
  <2>1. /\ world' = world /\ commits' = commits
        /\ stream' = stream \/ \E x : stream' = [stream EXCEPT !.resume = x]
    BY <1>9 DEF NoteFailure
  <2> QED BY <2>1 DEF CommitsStill, Inv, Shape
<1>10. CASE Cross(p)
  <2>1. [stream EXCEPT !.cursor = prep[p].r].active = stream.active
    BY DEF Inv, Shape
  <2> QED BY <1>10, <2>1, HeadStill DEF Cross
<1>11. CASE Caught(p)
  BY <1>1, <1>11, NoWriteStill, JudgingIs DEF Caught
<1>12. CASE Resolve(p)
  BY <1>1, <1>12, NoWriteStill DEF Resolve
<1>13. CASE SealCut(p)
  BY <1>13, NoWriteStill DEF SealCut, SealsIt
<1>14. CASE ClearFrontier(p)
  <2>1. [stream EXCEPT !.cut = None, !.cutAt = None].active = stream.active
    BY DEF Inv, Shape
  <2> QED BY <1>14, <2>1, HeadStill, NoWriteStill DEF ClearFrontier
<1>15. CASE Release(p)
  BY <1>15, ReleasedStill DEF Release, CommitsStill
<1>16. CASE Throws(p)
  <2>1. [Released(p) EXCEPT !.resume = Soon(now)].active = stream.active
    BY ReleasedStill, ReleasedIs DEF Inv, Shape
  <2> QED BY <1>16, <2>1, ReleasedStill DEF Throws, CommitsStill
<1> QED BY <1>3, <1>4, <1>5, <1>6, <1>7, <1>8, <1>9, <1>10, <1>11, <1>12, <1>13, <1>14,
           <1>15, <1>16 DEF StepOf, Prepare
LEMMA StepMoves ==
    ASSUME Inv, NEW p \in Preparers, StepOf(p)
    PROVE  /\ \A q \in Preparers \ {p} : prep'[q] = prep[q]
           /\ At(p, "idle") => p \in world.preparers
           /\ At(p, "seal") => ~At(p, "seal")'
<1> DEFINE Others == \A q \in Preparers \ {p} : prep'[q] = prep[q]
<1>1. ASSUME NEW x, prep' = [prep EXCEPT ![p] = x] PROVE Others
  BY <1>1 DEF Inv, Shape
<1>2. ASSUME NEW step, Go(p, step) PROVE Others /\ (step # "seal" => ~At(p, "seal")')
  BY <1>2 DEF Go, At, Inv, Shape
<1>3. ASSUME prep' = [prep EXCEPT ![p] = Idle] PROVE ~At(p, "seal")'
  BY <1>3 DEF Idle, At, Inv, Shape
<1>4. CASE Wake(p)
  BY <1>1, <1>4 DEF Wake, At
<1>5. CASE Acquire(p)
  <2>1. ASSUME prep' = [prep EXCEPT ![p].step = "frontier", ![p].policy = policy] PROVE Others
    BY <2>1 DEF Inv, Shape
  <2> QED BY <1>1, <1>5, <2>1 DEF Acquire, At
<1>6. CASE Frontier(p)
  <2>1. ASSUME prep' = [prep EXCEPT ![p] = [@ EXCEPT !.step = "release"]] PROVE Others
    BY <2>1 DEF Inv, Shape
  <2> QED BY <1>1, <1>2, <1>6, <2>1 DEF Frontier, At
<1>7. CASE NextReceipt(p)
  <2>1. ASSUME prep' = [prep EXCEPT ![p].step = IF prep[p].more THEN "release" ELSE "caught",
                                   ![p].rows = <<>>]
        PROVE  Others
    BY <2>1 DEF Inv, Shape
  <2> QED BY <1>1, <1>2, <1>7, <2>1 DEF NextReceipt, At
<1>8. CASE ReadPage(p)
  <2>1. ASSUME NEW got, prep' = [prep EXCEPT ![p].step = "apply", ![p].got = got] PROVE Others
    BY <2>1 DEF Inv, Shape
  <2> QED BY <1>2, <1>8, <2>1 DEF ReadPage, At
<1>9. CASE ApplyPage(p) \/ DecidePage(p) \/ FailReceipt(p)
  BY <1>2, <1>9 DEF ApplyPage, DecidePage, FailReceipt, At
<1>10. CASE SetPage(p) \/ CountFailure(p) \/ Cross(p) \/ DoomReceipt(p)
  BY <1>10 DEF SetPage, CountFailure, Cross, DoomReceipt, At, Inv, Shape
<1>11. CASE NoteFailure(p)
  BY <1>2, <1>11 DEF NoteFailure, At
<1>12. CASE Caught(p) \/ SealCut(p) \/ ClearFrontier(p)
  BY <1>2, <1>12 DEF Caught, SealCut, ClearFrontier, At
<1>13. CASE Resolve(p)
  BY <1>1, <1>2, <1>13, AssembleIs DEF Resolve, At, Alone
<1>14. CASE CutPending(p)
  BY <1>14, AssembleIs DEF CutPending, At, Alone
<1>15. CASE Release(p) \/ Throws(p) \/ Crash(p)
  BY <1>1, <1>3, <1>15 DEF Release, Throws, Crash, At
<1>16. CASE Interrupt(p)
  BY <1>2, <1>16 DEF Interrupt, At
<1> QED BY <1>4, <1>5, <1>6, <1>7, <1>8, <1>9, <1>10, <1>11, <1>12, <1>13, <1>14, <1>15,
           <1>16 DEF StepOf, Prepare

\* Every step but a seal keeps the open batch as it is, or ends it.
LEMMA BatchKept ==
    ASSUME BatchInv, CommitShape', world' = world,
           stream'.active = stream.active \/ stream'.active = {},
           stream'.active \subseteq Sealed', \A c \in Sealed : commits'[c].cover = commits[c].cover,
           OneProcess
    PROVE  Coherent(stream.active)'
<1>1. CASE stream'.active = {}
  BY <1>1 DEF Coherent
<1>2. CASE stream'.active = stream.active
  <2> DEFINE B == stream.active
  <2>1. Coherent(B) /\ B \subseteq Sealed
    BY DEF BatchInv
  <2>2. \A X : X = B => Coherent(X)'
    BY <2>1, CoherentKept DEF BatchInv
  <2> QED BY <1>2, <2>2 DEF Coherent
<1> QED BY <1>1, <1>2

LEMMA StepKeepsBatches ==
    ASSUME Inv, BatchInv, NEW p \in Preparers, StepOf(p)
    PROVE  BatchInv'
<1>1. /\ \A q \in Preparers \ {p} : prep'[q] = prep[q]
      /\ p \in world.preparers /\ (At(p, "seal") => ~At(p, "seal")')
  BY StepMoves DEF BatchInv
<1>2. CommitsStill \/ Judging \/ Applies(p) \/ SealsIt(p)
  BY StepWrites DEF BatchInv
<1>3. world' = world /\ CommitShape'
  <2>1. CommitsStill => CommitShape' /\ world' = world
    BY DEF CommitsStill, CommitShape, Commits, BatchInv
  <2> QED BY <1>2, <2>1, PageAppliedIs, SealIs DEF Judging, Applies, SealsIt, BatchInv
<1>4. stream'.active \subseteq Sealed'
  <2>1. Commits' = Commits
    BY <1>3 DEF Commits
  <2>2. CASE CommitsStill
    BY <2>1, <2>2 DEF CommitsStill, Sealed, BatchInv
  <2>3. CASE Judging
    BY <2>3 DEF Judging, BatchInv
  <2>4. CASE Applies(p)
    BY <2>1, <2>4, PageAppliedIs DEF Applies, BatchInv, Sealed
  <2>5. CASE SealsIt(p)
    <3>1. prep[p].chosen \subseteq Commits
      BY <2>5 DEF SealsIt, Sealable, Pending
    <3> QED BY <2>1, <2>5, <3>1, SealIs DEF SealsIt, BatchInv, Sealed
  <2> QED BY <1>2, <2>2, <2>3, <2>4, <2>5
<1>5. \A q \in Preparers : ~At(q, "idle")' => q \in world'.preparers
  BY <1>1, <1>3 DEF BatchInv, At
<1>6. ASSUME OneProcess PROVE Coherent(stream.active)'
  <2>1. CASE CommitsStill \/ Judging \/ Applies(p)
    <3>1. stream'.active = stream.active /\ \A c \in Sealed : commits'[c].cover = commits[c].cover
      BY <2>1, PageAppliedIs DEF CommitsStill, Judging, Applies, BatchInv, Sealed
    <3> QED BY <1>3, <1>4, <1>6, <3>1, BatchKept
  <2>2. CASE SealsIt(p)
    <3> DEFINE B == prep[p].chosen
    <3>1. /\ B \subseteq Commits /\ Coherent(B) /\ stream'.active = B
          /\ \A c \in Commits : commits'[c].cover = commits[c].cover
      BY <1>6, <2>2, SealIs DEF SealsIt, BatchInv, CutOK
    <3>2. \A X : X = B => Coherent(X)'
      BY <1>3, <3>1, CoherentKept
    <3> QED BY <3>1, <3>2 DEF Coherent
  <2> QED BY <1>2, <2>1, <2>2
<1>7. ASSUME OneProcess, NEW q \in Preparers, At(q, "seal")'
      PROVE  prep'[q].chosen \subseteq Commits' /\ Coherent(prep[q].chosen)'
  <2>1. ~At(q, "seal")
    <3>1. CASE q = p
      BY <1>1, <1>7, <3>1
    <3>2. CASE q # p
      <4>1. q \in world.preparers => q = p
        BY <1>1, <1>7 DEF OneProcess
      <4> QED BY <1>1, <1>7, <3>2, <4>1 DEF BatchInv, At
    <3> QED BY <3>1, <3>2
  <2>2. q = p /\ Assemble(p) /\ NoWrite
    BY <1>7, <2>1, OnlyAssemblySeals DEF StepOf
  <2>3. SoundCut(prep'[p].chosen, prep[p].at)
    BY <1>7, <2>2, AssembleCuts
  <2> DEFINE B == prep'[p].chosen
  <2>4. Coherent(B) /\ B \subseteq Commits
    BY <2>3, CandidatesAre DEF SoundCut, Pending
  <2>5. commits' = commits /\ Commits' = Commits
    BY <2>2 DEF NoWrite, receiptVars, Commits
  <2>6. \A X : X = B => Coherent(X)'
    BY <1>3, <2>4, <2>5, CoherentKept
  <2> QED BY <2>2, <2>4, <2>5, <2>6 DEF Coherent
<1>8. OneProcess' <=> OneProcess
  BY <1>3 DEF OneProcess
<1> QED BY <1>3, <1>4, <1>5, <1>6, <1>7, <1>8 DEF BatchInv, CutOK

\* What happens around the preparers.
LEMMA AroundKeepsBatches ==
    ASSUME Inv, BatchInv, prep' = prep, world' = world, CommitShape',
           stream'.active = stream.active \/ stream'.active = {},
           stream'.active \subseteq Sealed', \A c \in Commits : commits'[c].cover = commits[c].cover
    PROVE  BatchInv'
<1>1. Commits' = Commits /\ (OneProcess' <=> OneProcess)
  BY DEF Commits, OneProcess
<1>2. ASSUME OneProcess PROVE Coherent(stream.active)'
  BY <1>2, BatchKept DEF Sealed
<1>3. ASSUME OneProcess, NEW q \in Preparers, At(q, "seal")'
      PROVE  prep'[q].chosen \subseteq Commits' /\ Coherent(prep[q].chosen)'
  <2> DEFINE B == prep[q].chosen
  <2>1. B \subseteq Commits /\ Coherent(B)
    BY <1>3 DEF BatchInv, CutOK, At
  <2>2. \A X : X = B => Coherent(X)'
    BY <2>1, CoherentKept
  <2> QED BY <1>1, <2>1, <2>2 DEF Coherent
<1> QED BY <1>1, <1>2, <1>3 DEF BatchInv, CutOK, At

LEMMA BatchesKeep ==
    ASSUME Inv, BatchInv, [PreparationNext]_prepVars
    PROVE  BatchInv'
<1>1. CASE \E p \in Preparers : StepOf(p)
  BY <1>1, StepKeepsBatches
<1>2. CASE SettleActive
  <2>1. prep' = prep /\ Settle
    BY <1>2 DEF SettleActive
  <2> QED BY <2>1, SettleIs, AroundKeepsBatches DEF BatchInv
<1>3. CASE Lapse \/ Tick \/ ChangePolicy \/ Arrive \/ UNCHANGED prepVars
  <2>1. prep' = prep /\ CommitsStill
    <3>1. Lapse => CommitsStill /\ prep' = prep
      BY DEF Lapse, CommitsStill, Inv, Shape
    <3> QED BY <1>3, <3>1 DEF Tick, ChangePolicy, Arrive, AcceptReceipt, prepVars, receiptVars,
                              CommitsStill
  <2>2. Commits' = Commits
    BY <2>1 DEF CommitsStill, Commits
  <2> QED BY <2>1, <2>2, AroundKeepsBatches DEF CommitsStill, BatchInv, CommitShape, Sealed
<1> QED BY <1>1, <1>2, <1>3 DEF PreparationNext, StepOf

LEMMA BatchesStart ==
    ASSUME PreparationInit
    PROVE  BatchInv
<1>1. /\ commits = [c \in Commits |-> NoCommit] /\ stream.active = {}
      /\ prep = [p \in Preparers |-> Idle]
  BY DEF PreparationInit, ReceiptInit
<1>2. DOMAIN NoCommit = {"status", "cover", "eligible", "verdict", "policy"}
  BY DEF NoCommit
<1>3. \A p \in Preparers : At(p, "idle") /\ ~At(p, "seal")
  BY <1>1 DEF At, Idle
<1> QED BY <1>1, <1>2, <1>3 DEF BatchInv, CommitShape, CutOK, Coherent

\* With one process, the commits of an open batch belong together as long as the batch is
\* open: one configuration and no gap (but for a rewrite), and one author if they come from
\* several pushes or from P4 or SVN: sealBatch, cutAutoCommitBatches.
THEOREM OneProcessKeepsBatches == PreparationSpec => []BatchesAreCoherent
<1>1. PreparationInit => Inv /\ BatchInv
  BY PreparationStarts, BatchesStart
<1>2. Inv /\ BatchInv /\ [PreparationNext]_prepVars => Inv' /\ BatchInv'
  BY PreparationKeeps, BatchesKeep
<1>3. Inv /\ BatchInv => BatchesAreCoherent
  BY DEF BatchInv, BatchesAreCoherent
<1> QED BY <1>1, <1>2, <1>3, PTL DEF PreparationSpec
================================================================================
