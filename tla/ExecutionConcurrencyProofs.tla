---------------------- MODULE ExecutionConcurrencyProofs ----------------------
(***************************************************************************)
(* The pool neither leaks a permit nor forgets a caller, and inside a      *)
(* workspace the list is first come first served, for any number of        *)
(* callers and workspaces.  The argument is about one pass of refresh()    *)
(* over the list (ScanOK): what it has counted, started and kept so far.   *)
(***************************************************************************)
EXTENDS ExecutionConcurrency, FiniteSetTheorems, SequenceTheorems, WellFoundedInduction, TLAPS

Phases == {"idle", "waiting", "admitted", "running"}
PermitCounters == [active : Nat, workspaces : [Workspaces -> Nat]]
Scans == [permits : PermitCounters, kept : Seq(Callers), started : SUBSET Callers]

In(S, w) == {c \in S : CallerWorkspace[c] = w}

\* The counters are those of the callers in S.
Counts(p, S) ==
    /\ p \in PermitCounters /\ IsFiniteSet(S) /\ S \subseteq Callers
    /\ p.active = Cardinality(S)
    /\ \A w \in Workspaces : p.workspaces[w] = Cardinality(In(S, w))

First(q, i) == {q[k] : k \in 1..i}

\* Inside a workspace, callers earlier in the queue start first.
InOrder(q, i, started) ==
    \A k, l \in 1..i :
        k < l /\ CallerWorkspace[q[k]] = CallerWorkspace[q[l]] /\ q[l] \in started
        => q[k] \in started

\* What is kept stands in the order of the queue.
Ordered(kept, q, i) ==
    \A a, b \in 1..Len(kept) :
        a < b => \E k, l \in 1..i : k < l /\ q[k] = kept[a] /\ q[l] = kept[b]

\* A pass over the queue q that has seen i entries, with the holders H before it.
ScanOK(s, q, i, H) ==
    /\ s \in Scans
    /\ Counts(s.permits, H \cup s.started)
    /\ s.started \subseteq First(q, i)
    /\ \A a \in 1..Len(s.kept) : s.kept[a] \in First(q, i) \ s.started
    /\ First(q, i) \ s.started \subseteq {s.kept[a] : a \in 1..Len(s.kept)}
    /\ \A a \in 1..Len(s.kept) : ~Fits(s.permits, s.kept[a])
    /\ Ordered(s.kept, q, i)
    /\ InOrder(q, i, s.started)

PoolInvariant ==
    PoolTypeOK /\ IsFiniteSet(Holders) /\ CountersMatchHolders /\ NobodyWaitsForNothing

-----------------------------------------------------------------------------
LEMMA TakeIs ==
    ASSUME ConcurrencyAssumption, NEW p \in PermitCounters, NEW c \in Callers
    PROVE  /\ Take(p, c) \in PermitCounters
           /\ Take(p, c).active = p.active + 1
           /\ \A w \in Workspaces :
                 Take(p, c).workspaces[w] = IF w = CallerWorkspace[c] THEN p.workspaces[w] + 1
                                            ELSE p.workspaces[w]
<1> DEFINE v == CallerWorkspace[c]
           f == [p.workspaces EXCEPT ![v] = p.workspaces[v] + 1]
<1>1. v \in Workspaces /\ p.active \in Nat /\ p.workspaces \in [Workspaces -> Nat]
  BY DEF ConcurrencyAssumption, PermitCounters
<1>2. p.active + 1 \in Nat /\ p.workspaces[v] + 1 \in Nat
  BY <1>1
<1>3. f \in [Workspaces -> Nat]
  BY <1>1, <1>2
<1>4. Take(p, c) = [active |-> p.active + 1, workspaces |-> f]
  BY DEF Take, PermitCounters
<1>5. \A w \in Workspaces : f[w] = IF w = v THEN p.workspaces[w] + 1 ELSE p.workspaces[w]
  BY <1>1
<1> HIDE DEF f
<1> QED BY <1>2, <1>3, <1>4, <1>5 DEF PermitCounters

LEMMA GiveIs ==
    ASSUME ConcurrencyAssumption, NEW p \in PermitCounters, NEW c \in Callers,
           p.active > 0, p.workspaces[CallerWorkspace[c]] > 0
    PROVE  /\ Give(p, c) \in PermitCounters
           /\ Give(p, c).active = p.active - 1
           /\ \A w \in Workspaces :
                 Give(p, c).workspaces[w] = IF w = CallerWorkspace[c] THEN p.workspaces[w] - 1
                                            ELSE p.workspaces[w]
<1> DEFINE v == CallerWorkspace[c]
           f == [p.workspaces EXCEPT ![v] = p.workspaces[v] - 1]
<1>1. v \in Workspaces /\ p.active \in Nat /\ p.workspaces \in [Workspaces -> Nat]
  BY DEF ConcurrencyAssumption, PermitCounters
<1>2. p.active - 1 \in Nat /\ p.workspaces[v] - 1 \in Nat
  BY <1>1
<1>3. f \in [Workspaces -> Nat]
  BY <1>1, <1>2
<1>4. Give(p, c) = [active |-> p.active - 1, workspaces |-> f]
  BY DEF Give, PermitCounters
<1>5. \A w \in Workspaces : f[w] = IF w = v THEN p.workspaces[w] - 1 ELSE p.workspaces[w]
  BY <1>1
<1> HIDE DEF f
<1> QED BY <1>2, <1>3, <1>4, <1>5 DEF PermitCounters

LEMMA TakeCounts ==
    ASSUME ConcurrencyAssumption, NEW p, NEW S, Counts(p, S), NEW c \in Callers \ S
    PROVE  Counts(Take(p, c), S \cup {c})
<1>1. p \in PermitCounters /\ IsFiniteSet(S) /\ S \subseteq Callers
  BY DEF Counts
<1>2. IsFiniteSet(S \cup {c}) /\ Cardinality(S \cup {c}) = Cardinality(S) + 1
  BY <1>1, FS_AddElement
<1>3. ASSUME NEW w \in Workspaces
      PROVE  Take(p, c).workspaces[w] = Cardinality(In(S \cup {c}, w))
  <2>0. p.workspaces[w] = Cardinality(In(S, w))
    BY DEF Counts
  <2>t. Take(p, c).workspaces[w] = IF w = CallerWorkspace[c] THEN p.workspaces[w] + 1
                                   ELSE p.workspaces[w]
    BY <1>1, TakeIs
  <2>1. IsFiniteSet(In(S, w)) /\ c \notin In(S, w)
    BY <1>1, FS_Subset DEF In
  <2>2. CASE CallerWorkspace[c] = w
    <3>1. In(S \cup {c}, w) = In(S, w) \cup {c}
      BY <2>2 DEF In
    <3>2. Cardinality(In(S, w) \cup {c}) = Cardinality(In(S, w)) + 1
      BY <2>1, FS_AddElement
    <3> QED BY <2>0, <2>t, <2>2, <3>1, <3>2
  <2>3. CASE CallerWorkspace[c] # w
    <3>1. In(S \cup {c}, w) = In(S, w)
      BY <2>3 DEF In
    <3> QED BY <2>0, <2>t, <2>3, <3>1
  <2> QED BY <2>2, <2>3
<1>4. Take(p, c) \in PermitCounters /\ Take(p, c).active = Cardinality(S \cup {c})
  BY <1>1, <1>2, TakeIs DEF Counts
<1> QED BY <1>1, <1>2, <1>3, <1>4 DEF Counts

LEMMA GiveCounts ==
    ASSUME ConcurrencyAssumption, NEW p, NEW S, Counts(p, S), NEW c \in S
    PROVE  Counts(Give(p, c), S \ {c})
<1> DEFINE v == CallerWorkspace[c]
<1>1. p \in PermitCounters /\ IsFiniteSet(S) /\ S \subseteq Callers /\ c \in Callers
      /\ v \in Workspaces
  BY DEF Counts, ConcurrencyAssumption
<1>2. IsFiniteSet(S \ {c}) /\ Cardinality(S \ {c}) = Cardinality(S) - 1
  BY <1>1, FS_RemoveElement
<1>3. p.active = Cardinality(S) /\ \A w \in Workspaces : p.workspaces[w] = Cardinality(In(S, w))
  BY DEF Counts
<1>4. p.active > 0 /\ p.workspaces[v] > 0
  <2>1. S # {} /\ In(S, v) # {} /\ IsFiniteSet(In(S, v))
    BY <1>1, FS_Subset DEF In
  <2>2. Cardinality(S) # 0 /\ Cardinality(In(S, v)) # 0
    BY <1>1, <2>1, FS_EmptySet
  <2>3. Cardinality(S) \in Nat /\ Cardinality(In(S, v)) \in Nat
    BY <1>1, <2>1, FS_CardinalityType
  <2> QED BY <1>1, <1>3, <2>2, <2>3
<1>5. /\ Give(p, c) \in PermitCounters
      /\ Give(p, c).active = p.active - 1
      /\ \A w \in Workspaces :
            Give(p, c).workspaces[w] = IF w = v THEN p.workspaces[w] - 1 ELSE p.workspaces[w]
  BY <1>1, <1>4, GiveIs
<1>6. ASSUME NEW w \in Workspaces
      PROVE  Give(p, c).workspaces[w] = Cardinality(In(S \ {c}, w))
  <2>1. IsFiniteSet(In(S, w))
    BY <1>1, FS_Subset DEF In
  <2>2. In(S \ {c}, w) = In(S, w) \ {c}
    BY DEF In
  <2>3. c \in In(S, w) <=> w = v
    BY DEF In
  <2>4. Cardinality(In(S, w) \ {c}) =
          IF c \in In(S, w) THEN Cardinality(In(S, w)) - 1 ELSE Cardinality(In(S, w))
    BY <2>1, FS_RemoveElement
  <2> QED BY <1>3, <1>5, <2>2, <2>3, <2>4
<1> QED BY <1>1, <1>2, <1>3, <1>5, <1>6 DEF Counts

\* Who does not fit still does not fit when another permit is taken.
LEMMA FitsLess ==
    ASSUME ConcurrencyAssumption, limits \in Limits,
           NEW p \in PermitCounters, NEW c \in Callers, NEW d \in Callers, ~Fits(p, d)
    PROVE  ~Fits(Take(p, c), d)
<1>1. limits.global \in Nat /\ limits.workspace \in Nat
  BY DEF ConcurrencyAssumption
<1>2. CallerWorkspace[d] \in Workspaces
  BY DEF ConcurrencyAssumption
<1>3. p.active \in Nat /\ p.workspaces[CallerWorkspace[d]] \in Nat
  BY <1>2 DEF PermitCounters
<1>4. /\ Take(p, c).active = p.active + 1
      /\ \/ Take(p, c).workspaces[CallerWorkspace[d]] = p.workspaces[CallerWorkspace[d]]
         \/ Take(p, c).workspaces[CallerWorkspace[d]] = p.workspaces[CallerWorkspace[d]] + 1
  BY <1>2, TakeIs
<1> QED BY <1>1, <1>3, <1>4 DEF Fits

LEMMA FitsByWorkspace ==
    ASSUME NEW p, NEW c, NEW d, CallerWorkspace[c] = CallerWorkspace[d]
    PROVE  Fits(p, c) <=> Fits(p, d)
BY DEF Fits

-----------------------------------------------------------------------------
LEMMA LeastExists ==
    ASSUME NEW S \in SUBSET Nat, S # {}
    PROVE  \E x \in S : \A y \in S : x <= y
<1> DEFINE Below(x) == {y \in S : y <= x}
           R == StrictSubsetOrdering(Nat)
           T == {Below(x) : x \in S}
<1>1. \A x \in S : Below(x) \in FiniteSubsetsOf(Nat)
  <2> TAKE x \in S
  <2>1. IsFiniteSet(Below(x))
    BY FS_BoundedSetOfNaturals
  <2> QED BY <2>1 DEF FiniteSubsetsOf
<1>2. PICK B \in T : \A C \in T : ~(<<C, B>> \in R)
  <2>1. IsWellFoundedOn(R, FiniteSubsetsOf(Nat))
    BY FS_StrictSubsetOrderingWellFounded
  <2>2. T \subseteq FiniteSubsetsOf(Nat) /\ T # {}
    BY <1>1
  <2> HIDE DEF R, T
  <2> QED BY <2>1, <2>2, WFMin
<1>3. PICK x \in S : B = Below(x)
  BY <1>2
<1>4. ASSUME NEW y \in S, ~(x <= y) PROVE FALSE
  <2>0. x \in Nat /\ y \in Nat /\ y < x
    BY <1>4
  <2>1. /\ \A z \in Nat : z <= y => z <= x
        /\ x \in Below(x) /\ x \notin Below(y)
    BY <2>0
  <2>2. <<Below(y), Below(x)>> \in R
    BY <2>1 DEF StrictSubsetOrdering
  <2> QED BY <1>2, <1>3, <2>2
<1> QED BY <1>4

\* The induction that a pass over the list needs: a set of numbers with 0 and
\* every successor of a member below n has them all up to n.
LEMMA UpTo ==
    ASSUME NEW n \in Nat, NEW S, 0 \in S, \A i \in Nat : i < n /\ i \in S => i + 1 \in S
    PROVE  \A i \in 0..n : i \in S
<1> DEFINE Missing == {i \in Nat : i <= n /\ i \notin S}
<1>1. ASSUME Missing # {} PROVE FALSE
  <2>1. PICK x \in Missing : \A y \in Missing : x <= y
    BY <1>1, LeastExists
  <2>2. x \in Nat \ {0} /\ x - 1 \in Nat /\ x - 1 < n
    BY <2>1
  <2>3. x - 1 \in S
    BY <2>1, <2>2
  <2>4. (x - 1) + 1 \in S
    BY <2>2, <2>3
  <2> QED BY <2>1, <2>2, <2>4
<1> QED BY <1>1

-----------------------------------------------------------------------------
LEMMA FirstGrows ==
    ASSUME NEW q, NEW i \in Nat
    PROVE  First(q, i + 1) = First(q, i) \cup {q[i + 1]}
<1>1. 1..(i + 1) = (1..i) \cup {i + 1}
  OBVIOUS
<1> QED BY <1>1 DEF First

LEMMA OrderGrows ==
    ASSUME NEW kept, NEW q, NEW i \in Nat, Ordered(kept, q, i)
    PROVE  Ordered(kept, q, i + 1)
<1>1. \A k \in 1..i : k \in 1..(i + 1)
  OBVIOUS
<1> QED BY <1>1 DEF Ordered

\* One more entry: the caller starts, or it is kept.
LEMMA ScanStep ==
    ASSUME ConcurrencyAssumption, limits \in Limits,
           NEW q \in Seq(Callers), \A k, l \in 1..Len(q) : q[k] = q[l] => k = l,
           NEW H, \A k \in 1..Len(q) : q[k] \notin H,
           NEW i \in Nat, i < Len(q), NEW s, ScanOK(s, q, i, H)
    PROVE  ScanOK(IF Fits(s.permits, q[i + 1]) THEN Started(s, q[i + 1]) ELSE Kept(s, q[i + 1]),
                  q, i + 1, H)
<1> DEFINE c == q[i + 1]
           seen == First(q, i + 1)
<1>0. /\ s \in Scans /\ s.permits \in PermitCounters /\ s.kept \in Seq(Callers)
      /\ s.started \subseteq Callers /\ s.started \subseteq First(q, i)
      /\ Counts(s.permits, H \cup s.started)
      /\ Len(s.kept) \in Nat
  BY DEF ScanOK, Scans
<1>1. /\ i + 1 \in 1..Len(q) /\ c \in Callers /\ c \notin H
      /\ \A k \in 1..i : k \in 1..Len(q) /\ k # i + 1 /\ q[k] # c /\ q[k] \in Callers
  <2>1. Len(q) \in Nat
    OBVIOUS
  <2>2. i + 1 \in 1..Len(q) /\ \A k \in 1..i : k \in 1..Len(q) /\ k # i + 1
    BY <2>1
  <2> QED BY <2>2
<1>2. c \notin First(q, i) /\ c \notin s.started /\ seen = First(q, i) \cup {c}
  BY SMTT(20), <1>0, <1>1, FirstGrows DEF First
<1>3. \A a \in 1..Len(s.kept) : s.kept[a] \in First(q, i) \ s.started /\ s.kept[a] \in Callers
  BY <1>0 DEF ScanOK
<1>4. CASE Fits(s.permits, c)
  <2> DEFINE t == Started(s, c)
  <2>1. /\ t \in Scans /\ t.permits = Take(s.permits, c) /\ t.kept = s.kept
        /\ t.started = s.started \cup {c}
    <3>1. Take(s.permits, c) \in PermitCounters
      BY <1>0, <1>1, TakeIs
    <3> QED BY <1>0, <1>1, <3>1 DEF Started, Scans
  <2>2. Counts(t.permits, H \cup t.started)
    <3>1. c \in Callers \ (H \cup s.started)
      BY <1>1, <1>2
    <3>2. Counts(Take(s.permits, c), (H \cup s.started) \cup {c})
      BY <1>0, <3>1, TakeCounts
    <3>3. (H \cup s.started) \cup {c} = H \cup t.started
      BY <2>1
    <3> QED BY <2>1, <3>2, <3>3
  <2>3. t.started \subseteq seen
    BY <1>0, <1>2, <2>1
  <2>4. \A a \in 1..Len(t.kept) : t.kept[a] \in seen \ t.started
    BY <1>2, <1>3, <2>1
  <2>5. seen \ t.started \subseteq {t.kept[a] : a \in 1..Len(t.kept)}
    BY <1>2, <2>1 DEF ScanOK
  <2>6. \A a \in 1..Len(t.kept) : ~Fits(t.permits, t.kept[a])
    <3>1. \A a \in 1..Len(s.kept) : ~Fits(s.permits, s.kept[a])
      BY DEF ScanOK
    <3> QED BY <1>0, <1>1, <1>3, <2>1, <3>1, FitsLess
  <2>7. Ordered(t.kept, q, i + 1)
    BY <2>1, OrderGrows DEF ScanOK
  <2>8. InOrder(q, i + 1, t.started)
    <3> SUFFICES ASSUME NEW k \in 1..(i + 1), NEW l \in 1..(i + 1), k < l,
                        CallerWorkspace[q[k]] = CallerWorkspace[q[l]], q[l] \in t.started
                 PROVE  q[k] \in t.started
      BY DEF InOrder
    <3>1. k \in 1..i
      OBVIOUS
    <3>2. CASE l \in 1..i
      <4>1. q[l] \in s.started
        BY <1>1, <2>1, <3>2
      <4>2. q[k] \in s.started
        BY <3>1, <3>2, <4>1 DEF ScanOK, InOrder
      <4> QED BY <2>1, <4>2
    <3>3. CASE l = i + 1
      <4>1. q[k] \in First(q, i)
        BY <3>1 DEF First
      <4>2. ASSUME q[k] \notin s.started PROVE FALSE
        <5>1. PICK a \in 1..Len(s.kept) : s.kept[a] = q[k]
          BY <4>1, <4>2 DEF ScanOK
        <5>2. ~Fits(s.permits, q[k])
          BY <5>1 DEF ScanOK
        <5> QED BY <1>4, <3>3, <5>2, FitsByWorkspace
      <4> QED BY <2>1, <4>2
    <3> QED BY <3>2, <3>3
  <2> HIDE DEF t, seen
  <2>9. ScanOK(t, q, i + 1, H)
    BY <2>1, <2>2, <2>3, <2>4, <2>5, <2>6, <2>7, <2>8 DEF ScanOK, seen
  <2> QED BY <1>4, <2>9 DEF t
<1>5. CASE ~Fits(s.permits, c)
  <2> DEFINE t == Kept(s, c)
             n == Len(s.kept)
  <2>1. /\ t \in Scans /\ t.permits = s.permits /\ t.started = s.started
        /\ Len(t.kept) = n + 1 /\ t.kept[n + 1] = c
        /\ \A a \in 1..n : t.kept[a] = s.kept[a]
    <3>0. \A e : [s EXCEPT !.kept = e] = [permits |-> s.permits, kept |-> e, started |-> s.started]
      BY <1>0 DEF Scans
    <3>1. t = [permits |-> s.permits, kept |-> Append(s.kept, c), started |-> s.started]
      BY <3>0, Zenon DEF Kept
    <3>2. /\ Append(s.kept, c) \in Seq(Callers) /\ Len(Append(s.kept, c)) = n + 1
          /\ Append(s.kept, c)[n + 1] = c
          /\ \A a \in 1..n : Append(s.kept, c)[a] = s.kept[a]
      BY <1>0, <1>1, AppendProperties
    <3> QED BY <1>0, <3>1, <3>2 DEF Scans
  <2>2. \A a \in 1..Len(t.kept) : a \in 1..n \/ a = n + 1
    BY <1>0, <2>1
  <2> HIDE DEF t, n
  <2>3. \A a \in 1..Len(t.kept) : t.kept[a] \in seen \ t.started
    <3>1. \A a \in 1..n : s.kept[a] \in First(q, i) \ s.started
      BY <1>3 DEF n
    <3> QED BY <1>2, <2>1, <2>2, <3>1
  <2>4. seen \ t.started \subseteq {t.kept[a] : a \in 1..Len(t.kept)}
    <3>1. \A d \in First(q, i) \ s.started : \E a \in 1..n : s.kept[a] = d
      BY DEF ScanOK, n
    <3>2. n + 1 \in 1..Len(t.kept) /\ \A a \in 1..n : a \in 1..Len(t.kept)
      BY <1>0, <2>1 DEF n
    <3>3. \A d \in seen \ t.started : \E a \in 1..Len(t.kept) : t.kept[a] = d
      BY <1>2, <2>1, <3>1, <3>2
    <3> QED BY <3>3
  <2>5. \A a \in 1..Len(t.kept) : ~Fits(t.permits, t.kept[a])
    <3>1. \A a \in 1..n : ~Fits(s.permits, s.kept[a])
      BY DEF ScanOK, n
    <3> QED BY <1>5, <2>1, <2>2, <3>1
  <2>6. Ordered(t.kept, q, i + 1)
    <3> SUFFICES ASSUME NEW a \in 1..Len(t.kept), NEW b \in 1..Len(t.kept), a < b
                 PROVE  \E k, l \in 1..(i + 1) : k < l /\ q[k] = t.kept[a] /\ q[l] = t.kept[b]
      BY DEF Ordered
    <3>1. a \in 1..n
      BY <1>0, <2>1 DEF n
    <3>2. CASE b \in 1..n
      <4>1. PICK k, l \in 1..i : k < l /\ q[k] = s.kept[a] /\ q[l] = s.kept[b]
        BY <3>1, <3>2 DEF ScanOK, Ordered, n
      <4>2. k \in 1..(i + 1) /\ l \in 1..(i + 1)
        OBVIOUS
      <4> QED BY <2>1, <3>1, <3>2, <4>1, <4>2
    <3>3. CASE b = n + 1
      <4>1. s.kept[a] \in First(q, i)
        BY <1>3, <3>1 DEF n
      <4>2. PICK k \in 1..i : q[k] = s.kept[a]
        BY <4>1 DEF First
      <4>3. k \in 1..(i + 1) /\ i + 1 \in 1..(i + 1) /\ k < i + 1
        OBVIOUS
      <4> QED BY <2>1, <3>1, <3>3, <4>2, <4>3
    <3> QED BY <2>2, <3>2, <3>3
  <2>7. InOrder(q, i + 1, t.started)
    <3> SUFFICES ASSUME NEW k \in 1..(i + 1), NEW l \in 1..(i + 1), k < l,
                        CallerWorkspace[q[k]] = CallerWorkspace[q[l]], q[l] \in t.started
                 PROVE  q[k] \in t.started
      BY DEF InOrder
    <3>1. l # i + 1
      BY <1>2, <2>1
    <3>2. k \in 1..i /\ l \in 1..i
      BY <3>1
    <3> QED BY <2>1, <3>2 DEF ScanOK, InOrder
  <2>8. Counts(t.permits, H \cup t.started) /\ t.started \subseteq seen
    BY <1>0, <1>2, <2>1
  <2>9. ScanOK(t, q, i + 1, H)
    BY <2>1, <2>3, <2>4, <2>5, <2>6, <2>7, <2>8 DEF ScanOK
  <2> QED BY <1>5, <2>9 DEF t
<1> QED BY <1>4, <1>5

\* The whole pass.  The recursive definition of Refresh has a solution, the
\* function that the induction builds.
LEMMA RefreshOK ==
    ASSUME ConcurrencyAssumption, limits \in Limits,
           NEW q \in Seq(Callers), \A k, l \in 1..Len(q) : q[k] = q[l] => k = l,
           NEW H, \A k \in 1..Len(q) : q[k] \notin H,
           NEW p, Counts(p, H)
    PROVE  ScanOK(Refresh(p, q), q, Len(q), H)
<1> DEFINE N == Len(q)
           Next(s, c) == IF Fits(s.permits, c) THEN Started(s, c) ELSE Kept(s, c)
           Pass(f, i) == IF i = 0 THEN Unscanned(p)
                         ELSE IF Fits(f[i - 1].permits, q[i])
                              THEN Started(f[i - 1], q[i]) ELSE Kept(f[i - 1], q[i])
           Built == {n \in Nat : \E f : f = [i \in 0..n |-> Pass(f, i)]}
           scan == CHOOSE f : f = [i \in 0..N |-> Pass(f, i)]
<1>0. N \in Nat
  OBVIOUS
<1>1. 0 \in Built
  <2> DEFINE f == [i \in 0..0 |-> Unscanned(p)]
  <2>1. f = [i \in 0..0 |-> Pass(f, i)]
    OBVIOUS
  <2> QED BY <2>1
<1>2. \A n \in Nat : n < N /\ n \in Built => n + 1 \in Built
  <2> SUFFICES ASSUME NEW n \in Nat, n \in Built PROVE n + 1 \in Built
    OBVIOUS
  <2>1. PICK f : f = [i \in 0..n |-> Pass(f, i)]
    OBVIOUS
  <2> DEFINE g == [i \in 0..(n + 1) |-> IF i = n + 1 THEN Pass(f, n + 1) ELSE f[i]]
  <2>2. \A i \in 0..(n + 1) : g[i] = Pass(g, i)
    <3> TAKE i \in 0..(n + 1)
    <3>1. i # 0 => i - 1 \in 0..n /\ i - 1 \in 0..(n + 1) /\ i - 1 # n + 1
      OBVIOUS
    <3>2. i # 0 => g[i - 1] = f[i - 1]
      BY <3>1
    <3>3. Pass(g, i) = Pass(f, i)
      BY <3>2
    <3>4. CASE i = n + 1
      BY <3>3, <3>4
    <3>5. CASE i # n + 1
      <4>1. i \in 0..n
        BY <3>5
      <4>2. f[i] = Pass(f, i)
        BY <2>1, <4>1
      <4> QED BY <3>3, <3>5, <4>2
    <3> QED BY <3>4, <3>5
  <2>3. g = [i \in 0..(n + 1) |-> g[i]]
    OBVIOUS
  <2> HIDE DEF g, Pass
  <2>4. g = [i \in 0..(n + 1) |-> Pass(g, i)]
    BY <2>2, <2>3
  <2>5. \E h : h = [i \in 0..(n + 1) |-> Pass(h, i)]
    BY <2>4
  <2> QED BY <2>5
<1>3. N \in Built
  <2> HIDE DEF Built
  <2>1. \A n \in 0..N : n \in Built
    BY <1>0, <1>1, <1>2, UpTo
  <2> QED BY <1>0, <2>1
<1>4. scan = [i \in 0..N |-> Pass(scan, i)]
  <2>1. \E f : f = [i \in 0..N |-> Pass(f, i)]
    BY <1>3
  <2> HIDE DEF Pass
  <2> QED BY <2>1
<1>5. Refresh(p, q) = scan[N]
  BY DEF Refresh
<1> HIDE DEF scan
<1>6. scan[0] = Unscanned(p)
  BY <1>0, <1>4
<1>7. \A i \in Nat : i < N => scan[i + 1] = Next(scan[i], q[i + 1])
  <2> TAKE i \in Nat
  <2> HAVE i < N
  <2>1. i + 1 \in 0..N /\ i + 1 # 0 /\ (i + 1) - 1 = i
    BY <1>0
  <2> QED BY <1>4, <2>1
<1> DEFINE Good == {i \in Nat : ScanOK(scan[i], q, i, H)}
<1>8. 0 \in Good
  <2>1. /\ Unscanned(p) \in Scans /\ Unscanned(p).permits = p
        /\ Unscanned(p).started = {} /\ Len(Unscanned(p).kept) = 0
    BY DEF Unscanned, Scans, Counts
  <2>2. First(q, 0) = {}
    BY DEF First
  <2>3. H \cup {} = H
    OBVIOUS
  <2>4. \A a \in 1..0 : FALSE
    OBVIOUS
  <2>5. ScanOK(Unscanned(p), q, 0, H)
    BY <2>1, <2>2, <2>3, <2>4 DEF ScanOK, Ordered, InOrder
  <2> QED BY <1>6, <2>5
<1>9. \A i \in Nat : i < N /\ i \in Good => i + 1 \in Good
  <2> SUFFICES ASSUME NEW i \in Nat, i < N, ScanOK(scan[i], q, i, H)
               PROVE  ScanOK(scan[i + 1], q, i + 1, H)
    OBVIOUS
  <2>1. ScanOK(Next(scan[i], q[i + 1]), q, i + 1, H)
    BY ScanStep
  <2> QED BY <1>7, <2>1
<1>10. N \in Good
  <2> HIDE DEF Good
  <2>1. \A n \in 0..N : n \in Good
    BY <1>0, <1>8, <1>9, UpTo
  <2> QED BY <1>0, <2>1
<1> QED BY <1>5, <1>10

-----------------------------------------------------------------------------
\* What the invariant says, one fact a line.
LEMMA PoolIs ==
    ASSUME PoolInvariant
    PROVE  /\ limits \in Limits /\ waiting \in Seq(Callers) /\ DOMAIN waiting = 1..Len(waiting)
           /\ Len(waiting) \in Nat
           /\ caller \in [Callers -> Phases] /\ aborted \subseteq Callers
           /\ unread \in BOOLEAN /\ changes \in 0..MaxChanges
           /\ Counts(permits, Holders)
           /\ Holders = {c \in Callers : caller[c] \in {"admitted", "running"}}
           /\ \A k \in 1..Len(waiting) : waiting[k] \in Callers /\ caller[waiting[k]] = "waiting"
           /\ \A c \in Callers : caller[c] = "waiting" => \E k \in 1..Len(waiting) : waiting[k] = c
           /\ \A k, l \in 1..Len(waiting) : waiting[k] = waiting[l] => k = l
           /\ ~unread => \A k \in 1..Len(waiting) : ~Fits(permits, waiting[k])
<1>1. /\ waiting \in Seq(Callers) /\ DOMAIN waiting = 1..Len(waiting) /\ Len(waiting) \in Nat
      /\ caller \in [Callers -> Phases]
  BY DEF PoolInvariant, PoolTypeOK, Phases
<1>2. Range(waiting) = {waiting[k] : k \in 1..Len(waiting)}
  BY <1>1 DEF Range
<1>3. Range(waiting) = {c \in Callers : caller[c] = "waiting"}
  BY DEF PoolInvariant, CountersMatchHolders
<1>4. /\ \A k \in 1..Len(waiting) : waiting[k] \in Callers /\ caller[waiting[k]] = "waiting"
      /\ \A c \in Callers : caller[c] = "waiting" => \E k \in 1..Len(waiting) : waiting[k] = c
  BY <1>2, <1>3
<1>5. \A k, l \in 1..Len(waiting) : waiting[k] = waiting[l] => k = l
  BY <1>1 DEF PoolInvariant, CountersMatchHolders, IsInjective
<1>6. Counts(permits, Holders)
  <2>1. \A w \in Workspaces : HoldersIn(w) = In(Holders, w)
    BY DEF HoldersIn, In
  <2> QED BY <2>1 DEF PoolInvariant, PoolTypeOK, CountersMatchHolders, Counts, PermitCounters, Holders
<1>7. ~unread => \A k \in 1..Len(waiting) : ~Fits(permits, waiting[k])
  BY <1>2 DEF PoolInvariant, NobodyWaitsForNothing
<1> QED BY <1>1, <1>4, <1>5, <1>6, <1>7 DEF PoolInvariant, PoolTypeOK, Holders

\* The same for the next state, the other way round.
LEMMA PoolIsNext ==
    ASSUME limits' \in Limits, waiting' \in Seq(Callers),
           caller' \in [Callers -> Phases], aborted' \subseteq Callers,
           unread' \in BOOLEAN, changes' \in 0..MaxChanges,
           NEW S, S = {c \in Callers : caller'[c] \in {"admitted", "running"}},
           Counts(permits', S),
           \A k \in 1..Len(waiting') : caller'[waiting'[k]] = "waiting",
           \A c \in Callers : caller'[c] = "waiting" => \E k \in 1..Len(waiting') : waiting'[k] = c,
           \A k, l \in 1..Len(waiting') : waiting'[k] = waiting'[l] => k = l,
           ~unread' => \A k \in 1..Len(waiting') : ~Fits(permits, waiting[k])'
    PROVE  PoolInvariant' /\ Holders' = S
<1>1. Holders' = S
  BY DEF Holders
<1>2. DOMAIN waiting' = 1..Len(waiting') /\ \A k \in 1..Len(waiting') : waiting'[k] \in Callers
  OBVIOUS
<1>3. Range(waiting)' = {waiting'[k] : k \in 1..Len(waiting')}
  BY <1>2 DEF Range
<1>4. Range(waiting)' = {c \in Callers : caller'[c] = "waiting"}
  BY <1>2, <1>3
<1>5. IsInjective(waiting)'
  BY <1>2 DEF IsInjective
<1>6. \A w \in Workspaces : HoldersIn(w)' = In(S, w)
  BY <1>1 DEF HoldersIn, In
<1>7. CountersMatchHolders'
  BY <1>1, <1>4, <1>5, <1>6 DEF CountersMatchHolders, Counts
<1>8. NobodyWaitsForNothing'
  BY <1>3 DEF NobodyWaitsForNothing
<1>9. PoolTypeOK' /\ IsFiniteSet(Holders)'
  BY <1>1 DEF PoolTypeOK, Counts, Phases, PermitCounters
<1> QED BY <1>1, <1>7, <1>8, <1>9 DEF PoolInvariant

\* What a step that refreshes does, from the queue q it passes over, the
\* phases before the pass and the holders H among them.
RefreshFrom(q, phases, H, started) ==
    /\ started = Holders' \ H
    /\ caller' = [c \in Callers |-> IF c \in started THEN "admitted" ELSE phases[c]]
    /\ started \subseteq First(q, Len(q))
    /\ Ordered(waiting', q, Len(q))
    /\ InOrder(q, Len(q), started)
    /\ H \subseteq Holders'

LEMMA RefreshedKeeps ==
    ASSUME ConcurrencyAssumption, limits \in Limits, limits' = limits,
           aborted' \subseteq Callers, changes' \in 0..MaxChanges,
           NEW q \in Seq(Callers), NEW phases \in [Callers -> Phases],
           NEW H, H = {c \in Callers : phases[c] \in {"admitted", "running"}},
           \A k, l \in 1..Len(q) : q[k] = q[l] => k = l,
           \A k \in 1..Len(q) : phases[q[k]] = "waiting",
           \A c \in Callers : phases[c] = "waiting" => \E k \in 1..Len(q) : q[k] = c,
           NEW p, Counts(p, H), Refreshed(p, q, phases)
    PROVE  PoolInvariant' /\ \E started : RefreshFrom(q, phases, H, started)
<1> DEFINE N == Len(q)
           s == Refresh(p, q)
           S == H \cup s.started
<1>0. N \in Nat /\ \A k \in 1..N : q[k] \in Callers /\ q[k] \notin H
  OBVIOUS
<1>1. ScanOK(s, q, N, H)
  BY <1>0, RefreshOK
<1>2. /\ permits' = s.permits /\ waiting' = s.kept /\ unread' = FALSE
      /\ caller' = [c \in Callers |-> IF c \in s.started THEN "admitted" ELSE phases[c]]
  BY DEF Refreshed
<1> HIDE DEF s, N
<1>3. /\ s \in Scans /\ s.kept \in Seq(Callers) /\ s.started \subseteq Callers
      /\ Counts(s.permits, S)
      /\ s.started \subseteq First(q, N)
      /\ \A a \in 1..Len(s.kept) : s.kept[a] \in First(q, N) \ s.started
      /\ First(q, N) \ s.started \subseteq {s.kept[a] : a \in 1..Len(s.kept)}
      /\ \A a \in 1..Len(s.kept) : ~Fits(s.permits, s.kept[a])
      /\ Ordered(s.kept, q, N) /\ InOrder(q, N, s.started)
  BY <1>1 DEF ScanOK, Scans
<1>4. \A c \in First(q, N) : c \in Callers /\ phases[c] = "waiting" /\ c \notin H
  BY <1>0 DEF First, N
<1>5. caller' \in [Callers -> Phases]
  BY <1>2 DEF Phases
<1>6. S = {c \in Callers : caller'[c] \in {"admitted", "running"}}
  BY <1>2, <1>3
<1>7. \A a \in 1..Len(waiting') : caller'[waiting'[a]] = "waiting"
  BY <1>2, <1>3, <1>4
<1>8. \A c \in Callers : caller'[c] = "waiting" => \E a \in 1..Len(waiting') : waiting'[a] = c
  <2> TAKE c \in Callers
  <2> HAVE caller'[c] = "waiting"
  <2>1. c \notin s.started /\ phases[c] = "waiting"
    BY <1>2
  <2>2. c \in First(q, N)
    BY <2>1 DEF First, N
  <2> QED BY <1>2, <1>3, <2>1, <2>2
<1>9. \A a, b \in 1..Len(waiting') : waiting'[a] = waiting'[b] => a = b
  <2>1. ASSUME NEW a \in 1..Len(s.kept), NEW b \in 1..Len(s.kept), a < b,
               s.kept[a] = s.kept[b]
        PROVE  FALSE
    <3>1. PICK k, l \in 1..N : k < l /\ q[k] = s.kept[a] /\ q[l] = s.kept[b]
      BY <1>3, <2>1 DEF Ordered
    <3>2. k = l
      BY <2>1, <3>1 DEF N
    <3> QED BY <1>0, <3>1, <3>2
  <2>2. \A a, b \in 1..Len(s.kept) : a < b \/ b < a \/ a = b
    OBVIOUS
  <2> QED BY <1>2, <2>1, <2>2
<1>10. \A a \in 1..Len(waiting') : ~Fits(permits, waiting[a])'
  BY <1>2, <1>3 DEF Fits
<1>11. PoolInvariant' /\ Holders' = S
  <2>1. limits' \in Limits /\ waiting' \in Seq(Callers) /\ unread' \in BOOLEAN
        /\ Counts(permits', S)
    BY <1>2, <1>3
  <2> HIDE DEF S
  <2> QED BY <1>5, <1>6, <1>7, <1>8, <1>9, <1>10, <2>1, PoolIsNext
<1>12. s.started = Holders' \ H /\ H \subseteq Holders'
  BY <1>3, <1>4, <1>11
<1>13. RefreshFrom(q, phases, H, s.started)
  BY <1>2, <1>3, <1>12 DEF RefreshFrom, N
<1> QED BY <1>11, <1>13

-----------------------------------------------------------------------------
\* What NobodyPasses says of one step.
InTurn ==
    \A c, d \in Callers :
       (/\ caller[c] = "waiting" /\ caller'[c] = "waiting"
        /\ CallerWorkspace[c] = CallerWorkspace[d] /\ ~Ahead(d, c))
       => /\ ~Ahead(d, c)'
          /\ d \in Holders' \ Holders => unread

\* A pass over the waiting list, to which callers were added at the end only.
LEMMA RefreshInTurn ==
    ASSUME PoolInvariant, PoolInvariant',
           NEW q \in Seq(Callers), NEW phases, NEW H, H \subseteq Holders,
           Len(waiting) <= Len(q), \A k \in 1..Len(waiting) : q[k] = waiting[k],
           \A k \in 1..Len(q) : caller[q[k]] = "waiting" => k <= Len(waiting),
           NEW started, RefreshFrom(q, phases, H, started)
    PROVE  InTurn
<1> SUFFICES ASSUME NEW c \in Callers, NEW d \in Callers,
                    caller[c] = "waiting", caller'[c] = "waiting",
                    CallerWorkspace[c] = CallerWorkspace[d], ~Ahead(d, c)
             PROVE  ~Ahead(d, c)' /\ d \notin Holders' \ Holders
  BY DEF InTurn
<1>0. /\ DOMAIN waiting = 1..Len(waiting) /\ Len(waiting) \in Nat /\ Len(q) \in Nat
      /\ DOMAIN waiting' = 1..Len(waiting')
  BY PoolIs DEF PoolInvariant, PoolTypeOK
<1>1. /\ started = Holders' \ H
      /\ caller' = [e \in Callers |-> IF e \in started THEN "admitted" ELSE phases[e]]
      /\ started \subseteq First(q, Len(q))
      /\ Ordered(waiting', q, Len(q)) /\ InOrder(q, Len(q), started)
  BY DEF RefreshFrom
<1>2. \A k, l \in 1..Len(q) : k < l /\ q[l] = c => q[k] # d
  <2> SUFFICES ASSUME NEW k \in 1..Len(q), NEW l \in 1..Len(q), k < l, q[l] = c, q[k] = d
               PROVE  FALSE
    OBVIOUS
  <2>1. l <= Len(waiting)
    OBVIOUS
  <2>2. k \in 1..Len(waiting) /\ l \in 1..Len(waiting)
    BY <1>0, <2>1
  <2>3. waiting[k] = d /\ waiting[l] = c
    BY <2>2
  <2> QED BY <1>0, <2>2, <2>3 DEF Ahead
<1>3. ASSUME Ahead(d, c)' PROVE FALSE
  <2>1. PICK a, b \in 1..Len(waiting') : a < b /\ waiting'[a] = d /\ waiting'[b] = c
    BY <1>0, <1>3 DEF Ahead
  <2>2. \A i, j \in 1..Len(waiting') :
           i < j => \E k, l \in 1..Len(q) : k < l /\ q[k] = waiting'[i] /\ q[l] = waiting'[j]
    BY <1>1 DEF Ordered
  <2>3. PICK k, l \in 1..Len(q) : k < l /\ q[k] = waiting'[a] /\ q[l] = waiting'[b]
    BY <2>1, <2>2
  <2> QED BY <1>2, <2>1, <2>3
<1>4. ASSUME d \in Holders' \ Holders PROVE FALSE
  <2>1. d \in started
    BY <1>1, <1>4
  <2>2. PICK l \in 1..Len(q) : q[l] = d
    BY <1>1, <2>1 DEF First
  <2>3. PICK k \in 1..Len(waiting) : waiting[k] = c
    BY PoolIs
  <2>4. k \in 1..Len(q) /\ q[k] = c
    BY <1>0, <2>3
  <2>5. c \notin started
    BY <1>1
  <2>6. k # l /\ ~(l < k)
    BY <1>2, <2>1, <2>2, <2>4, <2>5
  <2>7. k < l
    BY <2>6
  <2> QED BY <1>1, <2>1, <2>2, <2>4, <2>5, <2>7 DEF InOrder
<1> QED BY <1>3, <1>4

LEMMA RunKeeps ==
    ASSUME ConcurrencyAssumption, PoolInvariant, NEW c \in Callers, Run(c)
    PROVE  PoolInvariant' /\ InTurn
<1> DEFINE q == Append(waiting, c)
           phases == [caller EXCEPT ![c] = "waiting"]
           n == Len(waiting)
<1>0. /\ caller[c] = "idle" /\ Refreshed(permits, q, phases)
      /\ limits' = limits /\ aborted' = aborted /\ changes' = changes
  BY DEF Run
<1>1. /\ q \in Seq(Callers) /\ Len(q) = n + 1 /\ q[n + 1] = c /\ n \in Nat
      /\ \A k \in 1..n : q[k] = waiting[k]
  BY PoolIs, AppendProperties
<1>2. /\ phases \in [Callers -> Phases] /\ phases[c] = "waiting"
      /\ \A d \in Callers : d # c => phases[d] = caller[d]
  BY PoolIs DEF Phases
<1> HIDE DEF q, phases
<1>3. \A k \in 1..Len(q) : k \in 1..n \/ k = n + 1
  BY <1>1
<1>4. \A k \in 1..n : q[k] # c /\ caller[q[k]] = "waiting" /\ q[k] \in Callers
  BY <1>0, <1>1, PoolIs
<1>5. Holders = {d \in Callers : phases[d] \in {"admitted", "running"}}
  BY <1>0, <1>2, PoolIs
<1>6. \A k, l \in 1..Len(q) : q[k] = q[l] => k = l
  <2>1. \A k, l \in 1..n : q[k] = q[l] => k = l
    BY <1>1, PoolIs
  <2> QED BY <1>1, <1>3, <1>4, <2>1
<1>7. \A k \in 1..Len(q) : phases[q[k]] = "waiting"
  BY <1>1, <1>2, <1>3, <1>4
<1>8. \A d \in Callers : phases[d] = "waiting" => \E k \in 1..Len(q) : q[k] = d
  <2>1. n + 1 \in 1..Len(q) /\ \A k \in 1..n : k \in 1..Len(q)
    BY <1>1
  <2>2. \A d \in Callers : caller[d] = "waiting" => \E k \in 1..n : waiting[k] = d
    BY PoolIs
  <2> QED BY <1>1, <1>2, <2>1, <2>2
<1>9. PoolInvariant' /\ \E started : RefreshFrom(q, phases, Holders, started)
  BY <1>0, <1>1, <1>2, <1>5, <1>6, <1>7, <1>8, PoolIs, RefreshedKeeps
<1>10. PICK started : RefreshFrom(q, phases, Holders, started)
  BY <1>9
<1>11. \A k \in 1..Len(q) : caller[q[k]] = "waiting" => k <= n
  BY <1>0, <1>1, <1>3
<1>12. Len(waiting) <= Len(q)
  BY <1>1
<1> QED BY <1>1, <1>9, <1>10, <1>11, <1>12, RefreshInTurn

LEMMA ReleaseKeeps ==
    ASSUME ConcurrencyAssumption, PoolInvariant, NEW c \in Holders, Release(c)
    PROVE  PoolInvariant' /\ InTurn
<1> DEFINE phases == [caller EXCEPT ![c] = "idle"]
           H == Holders \ {c}
           p == Give(permits, c)
<1>0. /\ Refreshed(p, waiting, phases)
      /\ limits' = limits /\ aborted' = aborted \ {c} /\ changes' = changes
  BY DEF Release
<1>1. c \in Callers /\ caller[c] # "waiting"
  BY PoolIs
<1>2. /\ phases \in [Callers -> Phases] /\ phases[c] = "idle"
      /\ \A d \in Callers : d # c => phases[d] = caller[d]
  BY <1>1, PoolIs DEF Phases
<1>3. Counts(p, H)
  BY PoolIs, GiveCounts
<1> HIDE DEF phases, p
<1>4. H = {d \in Callers : phases[d] \in {"admitted", "running"}}
  BY <1>1, <1>2, PoolIs
<1>5. /\ \A k \in 1..Len(waiting) : phases[waiting[k]] = "waiting"
      /\ \A d \in Callers : phases[d] = "waiting" => \E k \in 1..Len(waiting) : waiting[k] = d
  BY <1>1, <1>2, PoolIs
<1>6. aborted' \subseteq Callers /\ H \subseteq Holders
  BY <1>0, PoolIs
<1> HIDE DEF H
<1>7. PoolInvariant' /\ \E started : RefreshFrom(waiting, phases, H, started)
  BY <1>0, <1>2, <1>3, <1>4, <1>5, <1>6, PoolIs, RefreshedKeeps
<1>8. PICK started : RefreshFrom(waiting, phases, H, started)
  BY <1>7
<1>9. Len(waiting) <= Len(waiting) /\ \A k \in 1..Len(waiting) : k <= Len(waiting)
  BY PoolIs
<1> QED BY <1>6, <1>7, <1>8, <1>9, PoolIs, RefreshInTurn

LEMMA RefreshTimerKeeps ==
    ASSUME ConcurrencyAssumption, PoolInvariant, RefreshTimer
    PROVE  PoolInvariant' /\ InTurn
<1>0. /\ Refreshed(permits, waiting, caller)
      /\ limits' = limits /\ aborted' = aborted /\ changes' = changes
  BY DEF RefreshTimer
<1>1. PoolInvariant' /\ \E started : RefreshFrom(waiting, caller, Holders, started)
  BY <1>0, PoolIs, RefreshedKeeps
<1>2. PICK started : RefreshFrom(waiting, caller, Holders, started)
  BY <1>1
<1>3. Len(waiting) <= Len(waiting) /\ \A k \in 1..Len(waiting) : k <= Len(waiting)
  BY PoolIs
<1> QED BY <1>1, <1>2, <1>3, PoolIs, RefreshInTurn

\* Steps that leave the list alone: the holders may change, by a tryAcquire.
LEMMA ListQuiet ==
    ASSUME UNCHANGED waiting,
           \A c, d \in Callers :
              caller[c] = "waiting" /\ CallerWorkspace[c] = CallerWorkspace[d]
              /\ d \in Holders' \ Holders => unread
    PROVE  InTurn
BY DEF InTurn, Ahead

LEMMA TryAcquireKeeps ==
    ASSUME ConcurrencyAssumption, PoolInvariant, NEW c \in Callers, TryAcquire(c)
    PROVE  PoolInvariant' /\ InTurn
<1> DEFINE S == Holders \cup {c}
<1>0. /\ caller[c] = "idle" /\ Fits(permits, c) /\ permits' = Take(permits, c)
      /\ caller' = [caller EXCEPT ![c] = "running"]
      /\ limits' = limits /\ waiting' = waiting /\ aborted' = aborted
      /\ unread' = unread /\ changes' = changes
  BY DEF TryAcquire
<1>1. /\ caller' \in [Callers -> Phases] /\ caller'[c] = "running"
      /\ \A d \in Callers : d # c => caller'[d] = caller[d]
  BY <1>0, PoolIs DEF Phases
<1>2. c \notin Holders /\ S = {d \in Callers : caller'[d] \in {"admitted", "running"}}
  BY <1>0, <1>1, PoolIs
<1>3. Counts(permits', S)
  BY <1>0, <1>2, PoolIs, TakeCounts
<1>4. /\ \A k \in 1..Len(waiting') : caller'[waiting'[k]] = "waiting"
      /\ \A d \in Callers : caller'[d] = "waiting" => \E k \in 1..Len(waiting') : waiting'[k] = d
      /\ \A k, l \in 1..Len(waiting') : waiting'[k] = waiting'[l] => k = l
  <2>1. /\ \A k \in 1..Len(waiting) : waiting[k] \in Callers /\ caller[waiting[k]] = "waiting"
        /\ \A d \in Callers : caller[d] = "waiting" => \E k \in 1..Len(waiting) : waiting[k] = d
        /\ \A k, l \in 1..Len(waiting) : waiting[k] = waiting[l] => k = l
    BY PoolIs
  <2> QED BY <1>0, <1>1, <2>1
<1>5. ~unread' => \A k \in 1..Len(waiting') : ~Fits(permits, waiting[k])'
  <2> SUFFICES ASSUME ~unread, NEW k \in 1..Len(waiting) PROVE ~Fits(permits, waiting[k])'
    BY <1>0
  <2>1. waiting[k] \in Callers /\ ~Fits(permits, waiting[k]) /\ permits \in PermitCounters
    BY PoolIs DEF Counts
  <2>2. ~Fits(Take(permits, c), waiting[k])
    BY <2>1, PoolIs, FitsLess
  <2> QED BY <1>0, <2>2 DEF Fits
<1>6. PoolInvariant' /\ Holders' = S
  <2>1. limits' \in Limits /\ waiting' \in Seq(Callers) /\ aborted' \subseteq Callers
        /\ unread' \in BOOLEAN /\ changes' \in 0..MaxChanges
    BY <1>0, PoolIs
  <2> HIDE DEF S
  <2> QED BY <1>1, <1>2, <1>3, <1>4, <1>5, <2>1, PoolIsNext
<1>7. ASSUME NEW d \in Callers, caller[d] = "waiting", CallerWorkspace[d] = CallerWorkspace[c]
      PROVE  unread
  <2>1. PICK k \in 1..Len(waiting) : waiting[k] = d
    BY <1>7, PoolIs
  <2>2. Fits(permits, d)
    BY <1>0, <1>7, FitsByWorkspace
  <2>3. unread \in BOOLEAN /\ (~unread => ~Fits(permits, d))
    BY <2>1, PoolIs
  <2> QED BY <2>2, <2>3
<1>8. \A e \in Holders' \ Holders : e = c
  BY <1>6
<1> QED BY <1>0, <1>6, <1>7, <1>8, ListQuiet

\* Neither the list nor the counters change, nor who holds a permit.
LEMMA QuietKeeps ==
    ASSUME ConcurrencyAssumption, PoolInvariant, UNCHANGED <<permits, waiting>>,
           caller' \in [Callers -> Phases], aborted' \subseteq Callers,
           \A c \in Callers : caller'[c] = caller[c]
                             \/ {caller[c], caller'[c]} \subseteq {"admitted", "running"},
           \/ unread' = TRUE /\ limits' \in Limits /\ changes' \in 0..MaxChanges
           \/ UNCHANGED <<limits, unread, changes>>
    PROVE  PoolInvariant' /\ InTurn
<1>1. /\ \A k \in 1..Len(waiting') : caller'[waiting'[k]] = "waiting"
      /\ \A d \in Callers : caller'[d] = "waiting" => \E k \in 1..Len(waiting') : waiting'[k] = d
      /\ \A k, l \in 1..Len(waiting') : waiting'[k] = waiting'[l] => k = l
  <2>1. /\ \A k \in 1..Len(waiting) : waiting[k] \in Callers /\ caller[waiting[k]] = "waiting"
        /\ \A d \in Callers : caller[d] = "waiting" => \E k \in 1..Len(waiting) : waiting[k] = d
        /\ \A k, l \in 1..Len(waiting) : waiting[k] = waiting[l] => k = l
    BY PoolIs
  <2> QED BY <2>1
<1>2. Holders = {c \in Callers : caller'[c] \in {"admitted", "running"}}
  <2>1. \A c \in Callers : caller[c] \in {"admitted", "running"}
                          <=> caller'[c] \in {"admitted", "running"}
    OBVIOUS
  <2> QED BY <2>1, PoolIs
<1>3. ~unread' => \A k \in 1..Len(waiting') : ~Fits(permits, waiting[k])'
  <2>1. ~unread => \A k \in 1..Len(waiting) : ~Fits(permits, waiting[k])
    BY PoolIs
  <2> QED BY <2>1 DEF Fits
<1>4. /\ limits' \in Limits /\ waiting' \in Seq(Callers)
      /\ unread' \in BOOLEAN /\ changes' \in 0..MaxChanges /\ Counts(permits', Holders)
  BY PoolIs
<1>5. PoolInvariant' /\ Holders' = Holders
  BY <1>1, <1>2, <1>3, <1>4, PoolIsNext
<1> QED BY <1>5, ListQuiet

LEMMA ProceedKeeps ==
    ASSUME ConcurrencyAssumption, PoolInvariant, NEW c \in Callers, Proceed(c)
    PROVE  PoolInvariant' /\ InTurn
<1>1. CASE c \in aborted
  BY <1>1, PoolIs, ReleaseKeeps DEF Proceed
<1>2. CASE c \notin aborted
  <2>1. /\ caller[c] = "admitted" /\ caller' = [caller EXCEPT ![c] = "running"]
        /\ UNCHANGED <<limits, permits, waiting, aborted, unread, changes>>
    BY <1>2 DEF Proceed
  <2>2. /\ caller' \in [Callers -> Phases] /\ caller'[c] = "running"
        /\ \A d \in Callers : d # c => caller'[d] = caller[d]
    BY <2>1, PoolIs DEF Phases
  <2> QED BY <2>1, <2>2, PoolIs, QuietKeeps
<1> QED BY <1>1, <1>2

LEMMA FinishKeeps ==
    ASSUME ConcurrencyAssumption, PoolInvariant, NEW c \in Callers, Finish(c)
    PROVE  PoolInvariant' /\ InTurn
BY PoolIs, ReleaseKeeps DEF Finish

LEMMA ChangeLimitsKeeps ==
    ASSUME ConcurrencyAssumption, PoolInvariant, ChangeLimits
    PROVE  PoolInvariant' /\ InTurn
<1>1. /\ unread' = TRUE /\ limits' \in Limits /\ changes < MaxChanges /\ changes' = changes + 1
      /\ UNCHANGED <<permits, waiting, caller, aborted>>
  BY DEF ChangeLimits
<1>2. changes' \in 0..MaxChanges
  BY <1>1, PoolIs DEF ConcurrencyAssumption
<1> QED BY <1>1, <1>2, PoolIs, QuietKeeps

-----------------------------------------------------------------------------
\* indexOf and splice: the entries behind the removed one move up.
LEMMA RemoveFirstIs ==
    ASSUME NEW q \in Seq(Callers), NEW m \in 1..Len(q),
           \A k, l \in 1..Len(q) : q[k] = q[l] => k = l,
           NEW r, r = RemoveFirst(q, q[m])
    PROVE  /\ r \in Seq(Callers) /\ Len(r) = Len(q) - 1
           /\ \A a \in 1..Len(r) : r[a] = IF a < m THEN q[a] ELSE q[a + 1]
<1> DEFINE n == Len(q)
           front == SubSeq(q, 1, m - 1)
           back == SubSeq(q, m + 1, n)
           I == {i \in 1..n : q[i] = q[m]}
<1>0. n \in Nat /\ m \in Nat /\ 1 <= m /\ m <= n
  OBVIOUS
<1>1. I = {m}
  OBVIOUS
<1>2. Min(I) = m
  BY <1>0, <1>1 DEF Min
<1>3. r = front \o back
  <2>1. SelectInSeq(q, LAMBDA v : v = q[m]) = m
    BY <1>1, <1>2 DEF SelectInSeq
  <2>2. RemoveFirst(q, q[m]) = RemoveAt(q, m)
    BY <2>1 DEF RemoveFirst
  <2> QED BY <2>2 DEF RemoveAt
<1>4. /\ front \in Seq(Callers) /\ Len(front) = m - 1
      /\ \A a \in 1..(m - 1) : front[a] = q[a]
  <2>1. \A i \in 1..(m - 1) : q[i] \in Callers
    BY <1>0
  <2>2. /\ front \in Seq(Callers) /\ Len(front) = IF 1 <= m - 1 THEN (m - 1) - 1 + 1 ELSE 0
        /\ \A a \in 1..((m - 1) - 1 + 1) : front[a] = q[1 + a - 1]
    BY <1>0, <2>1, SubSeqProperties
  <2>3. (m - 1) - 1 + 1 = m - 1 /\ \A a \in 1..(m - 1) : 1 + a - 1 = a
    BY <1>0
  <2> HIDE DEF front
  <2> QED BY <1>0, <2>2, <2>3
<1>5. /\ back \in Seq(Callers) /\ Len(back) = n - m
      /\ \A a \in 1..(n - m) : back[a] = q[m + a]
  <2>1. \A i \in (m + 1)..n : q[i] \in Callers
    BY <1>0
  <2>2. /\ back \in Seq(Callers)
        /\ Len(back) = IF m + 1 <= n THEN n - (m + 1) + 1 ELSE 0
        /\ \A a \in 1..(n - (m + 1) + 1) : back[a] = q[(m + 1) + a - 1]
    BY <1>0, <2>1, SubSeqProperties
  <2>3. n - (m + 1) + 1 = n - m /\ \A a \in 1..(n - m) : (m + 1) + a - 1 = m + a
    BY <1>0
  <2>4. (IF m + 1 <= n THEN n - (m + 1) + 1 ELSE 0) = n - m
    BY <1>0
  <2> HIDE DEF back
  <2> QED BY <2>2, <2>3, <2>4, Zenon
<1> HIDE DEF front, back
<1>6. /\ front \o back \in Seq(Callers) /\ Len(front \o back) = Len(front) + Len(back)
      /\ \A a \in 1..(Len(front) + Len(back)) :
            (front \o back)[a] = IF a <= Len(front) THEN front[a] ELSE back[a - Len(front)]
  <2>1. ASSUME NEW f \in Seq(Callers), NEW b \in Seq(Callers)
        PROVE  /\ f \o b \in Seq(Callers) /\ Len(f \o b) = Len(f) + Len(b)
               /\ \A a \in 1..(Len(f) + Len(b)) :
                     (f \o b)[a] = IF a <= Len(f) THEN f[a] ELSE b[a - Len(f)]
    BY <2>1, ConcatProperties
  <2> QED BY <1>4, <1>5, <2>1
<1>7. r \in Seq(Callers) /\ Len(r) = n - 1
  BY <1>0, <1>3, <1>4, <1>5, <1>6
<1>8. ASSUME NEW a \in 1..(n - 1) PROVE r[a] = IF a < m THEN q[a] ELSE q[a + 1]
  <2>1. Len(front) + Len(back) = n - 1
    BY <1>0, <1>4, <1>5
  <2>2. r[a] = IF a <= m - 1 THEN front[a] ELSE back[a - (m - 1)]
    BY <1>3, <1>4, <1>6, <2>1
  <2>3. CASE a < m
    <3>1. a \in 1..(m - 1) /\ a <= m - 1
      BY <1>0, <2>3
    <3> QED BY <1>4, <2>2, <2>3, <3>1
  <2>4. CASE ~(a < m)
    <3>1. a - (m - 1) \in 1..(n - m) /\ ~(a <= m - 1) /\ m + (a - (m - 1)) = a + 1
      BY <1>0, <2>4
    <3> QED BY <1>5, <2>2, <2>4, <3>1
  <2> QED BY <2>3, <2>4
<1> QED BY <1>7, <1>8

LEMMA AbortKeeps ==
    ASSUME ConcurrencyAssumption, PoolInvariant, NEW c \in Callers, Abort(c)
    PROVE  PoolInvariant' /\ InTurn
<1>0. UNCHANGED <<limits, permits, unread, changes>>
  BY DEF Abort
<1>1. CASE /\ caller[c] = "admitted" /\ aborted' = aborted \cup {c}
           /\ UNCHANGED <<waiting, caller>>
  BY <1>0, <1>1, PoolIs, QuietKeeps
<1>2. CASE /\ caller[c] = "waiting" /\ waiting' = RemoveFirst(waiting, c)
           /\ caller' = [caller EXCEPT ![c] = "idle"] /\ UNCHANGED aborted
  <2> DEFINE n == Len(waiting)
  <2>1. PICK m \in 1..n : waiting[m] = c
    BY <1>2, PoolIs
  <2>2. n \in Nat /\ m \in Nat /\ m <= n /\ n - 1 \in Nat
    BY <2>1, PoolIs
  <2>3. /\ waiting' \in Seq(Callers) /\ Len(waiting') = n - 1
        /\ \A a \in 1..Len(waiting') :
              waiting'[a] = IF a < m THEN waiting[a] ELSE waiting[a + 1]
    <3>1. /\ waiting \in Seq(Callers) /\ m \in 1..Len(waiting)
          /\ \A k, l \in 1..Len(waiting) : waiting[k] = waiting[l] => k = l
      BY <2>1, PoolIs
    <3>2. \A r : r = RemoveFirst(waiting, waiting[m]) =>
             /\ r \in Seq(Callers) /\ Len(r) = Len(waiting) - 1
             /\ \A a \in 1..Len(r) : r[a] = IF a < m THEN waiting[a] ELSE waiting[a + 1]
      BY <3>1, RemoveFirstIs, Zenon
    <3>3. waiting' = RemoveFirst(waiting, waiting[m])
      BY <1>2, <2>1
    <3> QED BY <3>2, <3>3, Zenon
  <2> DEFINE old == [a \in 1..(n - 1) |-> IF a < m THEN a ELSE a + 1]
  <2>4. /\ \A a \in 1..(n - 1) : old[a] \in 1..n /\ old[a] # m
        /\ \A a, b \in 1..(n - 1) : a < b => old[a] < old[b]
        /\ \A k \in 1..n : k # m => \E a \in 1..(n - 1) : old[a] = k
    <3>1. \A a \in 1..(n - 1) : old[a] \in 1..n /\ old[a] # m
      BY <2>2
    <3>2. \A a, b \in 1..(n - 1) : a < b => old[a] < old[b]
      BY <2>2
    <3>3. ASSUME NEW k \in 1..n, k # m PROVE \E a \in 1..(n - 1) : old[a] = k
      <4>1. CASE k < m
        <5>1. k \in 1..(n - 1) /\ old[k] = k
          BY <2>2, <4>1
        <5> QED BY <5>1
      <4>2. CASE k > m
        <5>1. k - 1 \in 1..(n - 1) /\ old[k - 1] = k
          BY <2>2, <4>2
        <5> QED BY <5>1
      <4> QED BY <2>2, <3>3, <4>1, <4>2
    <3> QED BY <3>1, <3>2, <3>3
  <2>5. \A a \in 1..(n - 1) : waiting'[a] = waiting[old[a]]
    BY <2>3
  <2> HIDE DEF old, n
  <2>6. /\ caller' \in [Callers -> Phases] /\ caller'[c] = "idle"
        /\ \A d \in Callers : d # c => caller'[d] = caller[d]
    BY <1>2, PoolIs DEF Phases
  <2>7. Holders = {d \in Callers : caller'[d] \in {"admitted", "running"}}
    BY <1>2, <2>6, PoolIs
  <2>8. /\ \A k \in 1..n : waiting[k] \in Callers /\ caller[waiting[k]] = "waiting"
        /\ \A d \in Callers : caller[d] = "waiting" => \E k \in 1..n : waiting[k] = d
        /\ \A k, l \in 1..n : waiting[k] = waiting[l] => k = l
        /\ ~unread => \A k \in 1..n : ~Fits(permits, waiting[k])
    BY PoolIs DEF n
  <2>9. \A a \in 1..Len(waiting') : caller'[waiting'[a]] = "waiting"
    <3>1. \A k \in 1..n : k # m => waiting[k] # c
      BY <2>1, <2>8
    <3>2. \A k \in 1..n : k # m => caller'[waiting[k]] = "waiting"
      BY <2>6, <2>8, <3>1
    <3>3. \A a \in 1..(n - 1) : caller'[waiting[old[a]]] = "waiting"
      BY <2>4, <3>2
    <3> QED BY <2>3, <2>5, <3>3
  <2>10. \A d \in Callers : caller'[d] = "waiting" => \E a \in 1..Len(waiting') : waiting'[a] = d
    <3> TAKE d \in Callers
    <3> HAVE caller'[d] = "waiting"
    <3>1. d # c /\ caller[d] = "waiting"
      BY <2>6
    <3>2. PICK k \in 1..n : waiting[k] = d
      BY <2>8, <3>1
    <3>3. k # m
      BY <2>1, <3>1, <3>2
    <3> QED BY <2>3, <2>4, <2>5, <3>2, <3>3
  <2>11. \A a, b \in 1..Len(waiting') : waiting'[a] = waiting'[b] => a = b
    <3>1. \A a, b \in 1..(n - 1) : waiting[old[a]] = waiting[old[b]] => old[a] = old[b]
      BY <2>4, <2>8
    <3>2. \A a, b \in 1..(n - 1) : a < b \/ b < a \/ a = b
      BY <2>2
    <3>3. \A a, b \in 1..(n - 1) : old[a] = old[b] => a = b
      <4>1. \A k \in 1..n : ~(k < k)
        BY <2>2
      <4> QED BY <2>4, <3>2, <4>1
    <3> QED BY <2>3, <2>5, <3>1, <3>3
  <2>12. ~unread' => \A a \in 1..Len(waiting') : ~Fits(permits, waiting[a])'
    <3>1. ~unread => \A a \in 1..(n - 1) : ~Fits(permits, waiting'[a])
      BY <2>4, <2>5, <2>8
    <3> QED BY <1>0, <2>3, <3>1 DEF Fits
  <2>13. PoolInvariant' /\ Holders' = Holders
    <3>1. /\ limits' \in Limits /\ aborted' \subseteq Callers /\ unread' \in BOOLEAN
          /\ changes' \in 0..MaxChanges /\ Counts(permits', Holders)
      BY <1>0, <1>2, PoolIs
    <3> QED BY <2>3, <2>6, <2>7, <2>9, <2>10, <2>11, <2>12, <3>1, PoolIsNext
  <2>14. \A d, e \in Callers : Ahead(d, e)' => Ahead(d, e)
    <3> SUFFICES ASSUME NEW d \in Callers, NEW e \in Callers, Ahead(d, e)' PROVE Ahead(d, e)
      OBVIOUS
    <3>1. DOMAIN waiting = 1..n /\ DOMAIN waiting' = 1..(n - 1)
      BY <2>3, PoolIs DEF n
    <3>2. \E a, b \in 1..(n - 1) : a < b /\ waiting'[a] = d /\ waiting'[b] = e
      BY <3>1 DEF Ahead
    <3>3. \E k, l \in 1..n : k < l /\ waiting[k] = d /\ waiting[l] = e
      BY <2>4, <2>5, <3>2
    <3> QED BY <3>1, <3>3 DEF Ahead
  <2> QED BY <2>13, <2>14 DEF InTurn
<1> QED BY <1>1, <1>2 DEF Abort

-----------------------------------------------------------------------------
LEMMA PoolStarts == ASSUME ConcurrencyAssumption, PoolInit PROVE PoolInvariant
<1>1. /\ limits \in Limits /\ waiting = <<>> /\ caller = [c \in Callers |-> "idle"]
      /\ permits = [active |-> 0, workspaces |-> [w \in Workspaces |-> 0]]
      /\ aborted = {} /\ unread = FALSE /\ changes = 0
  BY DEF PoolInit
<1>2. waiting \in Seq(Callers) /\ Len(waiting) = 0 /\ DOMAIN waiting = {}
  BY <1>1
<1>3. PoolTypeOK
  <2>1. permits \in [active : Nat, workspaces : [Workspaces -> Nat]]
    BY <1>1
  <2>2. caller \in [Callers -> {"idle", "waiting", "admitted", "running"}]
    BY <1>1
  <2>3. 0 \in 0..MaxChanges
    BY DEF ConcurrencyAssumption
  <2> QED BY <1>1, <1>2, <2>1, <2>2, <2>3 DEF PoolTypeOK
<1>4. Holders = {}
  BY <1>1 DEF Holders
<1>5. \A w \in Workspaces : HoldersIn(w) = {}
  BY <1>4 DEF HoldersIn
<1>6. Range(waiting) = {}
  BY <1>2 DEF Range
<1>7. Range(waiting) = {c \in Callers : caller[c] = "waiting"}
  BY <1>1, <1>6
<1>8. IsFiniteSet({}) /\ Cardinality({}) = 0
  BY FS_EmptySet
<1>9. IsInjective(waiting)
  BY <1>2 DEF IsInjective
<1> QED BY <1>1, <1>3, <1>4, <1>5, <1>6, <1>7, <1>8, <1>9
        DEF PoolInvariant, CountersMatchHolders, NobodyWaitsForNothing

LEMMA PoolSteps ==
    ASSUME ConcurrencyAssumption, PoolInvariant, [PoolNext]_poolVars
    PROVE  PoolInvariant' /\ InTurn
<1>1. ASSUME NEW c \in Callers, Run(c) PROVE PoolInvariant' /\ InTurn
  BY <1>1, RunKeeps
<1>2. ASSUME NEW c \in Callers, TryAcquire(c) PROVE PoolInvariant' /\ InTurn
  BY <1>2, TryAcquireKeeps
<1>3. ASSUME NEW c \in Callers, Proceed(c) PROVE PoolInvariant' /\ InTurn
  BY <1>3, ProceedKeeps
<1>4. ASSUME NEW c \in Callers, Finish(c) PROVE PoolInvariant' /\ InTurn
  BY <1>4, FinishKeeps
<1>5. ASSUME NEW c \in Callers, Abort(c) PROVE PoolInvariant' /\ InTurn
  BY <1>5, AbortKeeps
<1>6. CASE ChangeLimits
  BY <1>6, ChangeLimitsKeeps
<1>7. CASE RefreshTimer
  BY <1>7, RefreshTimerKeeps
<1>8. CASE UNCHANGED poolVars
  <2>1. UNCHANGED <<limits, permits, waiting, caller, aborted, unread, changes>>
    BY <1>8 DEF poolVars
  <2> QED BY <2>1, PoolIs, QuietKeeps
<1> QED BY <1>1, <1>2, <1>3, <1>4, <1>5, <1>6, <1>7, <1>8 DEF PoolNext

\* The counters of the pool, its list and the phases of its callers agree in
\* every state that any number of callers can bring it to.
THEOREM PoolAlwaysInvariant == PoolSpec => []PoolInvariant
<1>1. PoolInit => PoolInvariant
  BY ConcurrencyAssumption, PoolStarts
<1>2. PoolInvariant /\ [PoolNext]_poolVars => PoolInvariant'
  BY ConcurrencyAssumption, PoolSteps
<1> QED BY <1>1, <1>2, PTL DEF PoolSpec

\* No order of aborts, releases and refreshes leaks a permit or creates one:
\* the counters are those of the callers between tryAcquire() and release().
THEOREM PermitsAreCounted == PoolSpec => []CountersMatchHolders
<1>1. PoolInvariant => CountersMatchHolders
  BY DEF PoolInvariant
<1> QED BY <1>1, PoolAlwaysInvariant, PTL

\* No wake-up is lost: refresh() leaves nobody in the list that could start.
THEOREM NoLostWakeUp == PoolSpec => []NobodyWaitsForNothing
<1>1. PoolInvariant => NobodyWaitsForNothing
  BY DEF PoolInvariant
<1> QED BY <1>1, PoolAlwaysInvariant, PTL

\* Inside a workspace nobody passes a caller that keeps waiting, in the list or
\* with a tryAcquire().
THEOREM FirstComeFirstServed == PoolSpec => NobodyPasses
<1>1. PoolInvariant /\ [PoolNext]_poolVars => InTurn
  BY ConcurrencyAssumption, PoolSteps
<1>2. PoolSpec => [][InTurn]_poolVars
  BY <1>1, PoolAlwaysInvariant, PTL DEF PoolSpec
<1> QED BY <1>2, PTL DEF NobodyPasses, InTurn
=============================================================================
