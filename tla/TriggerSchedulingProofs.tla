----------------------- MODULE TriggerSchedulingProofs -----------------------
(***************************************************************************)
(* Proofs about TriggerScheduling, for every number of events, window,     *)
(* number of attempts and of troubles.  The invocation of an event, the    *)
(* deduplicator and the queue of store work are changed by different       *)
(* actions; the inductive invariant says how they agree (InvocationsOK)    *)
(* and, as long as no call has failed, why a row that can be claimed       *)
(* belongs to an event that is not in flight (Unfailed).  A second one     *)
(* (Kept) says where the newest event is while no call has failed: which   *)
(* write of the queue, handoff or row still answers for it.                *)
(***************************************************************************)
EXTENDS TriggerScheduling, FiniteSetTheorems, SequenceTheorems, WellFoundedInduction, TLAPS

Phases == {"none", "admitting", "deferring", "waiting", "reviewing", "redeferring"}
Known == 1..arrived
Active(e) == Phase(e) \in {"waiting", "reviewing", "redeferring"}
Free(e) == Phase(e) = "none" /\ pending # e

-----------------------------------------------------------------------------
(* Shapes. *)

InvocationShape(i) == i = Invocation(i.phase, i.attempt, i.at) /\ i.phase \in Phases

StepsOf == [defer    |-> {"write", "stored", "unstored"},
            cancel   |-> {"write"},
            resume   |-> {"start", "memory", "row", "taken"},
            withdraw |-> {"list", "erase", "erased"}]

OpShape(o, known) ==
    /\ o = Op(o.kind, o.step, o.gen, o.event, o.at)
    /\ o.kind \in DOMAIN StepsOf /\ o.step \in StepsOf[o.kind] /\ o.at \in Nat
    /\ o.event \in known \cup {None}
    /\ o.kind = "defer" => o.event \in known
    /\ o.kind = "resume" /\ o.step \in {"start", "row"} => o.event = None

\* The queue of store work: only its head has begun to resume, and an event has
\* one write in it.
QueueShape(q, known) ==
    /\ Len(q) \in Nat /\ q = [i \in 1..Len(q) |-> q[i]]
    /\ \A i \in 1..Len(q) : OpShape(q[i], known)
    /\ \A i \in 2..Len(q) : q[i].kind = "resume" => q[i].step = "start"
    /\ \A i, j \in 1..Len(q) : q[i].kind = "defer" /\ q[j].kind = "defer" /\ q[i].event = q[j].event => i = j

Elements(q) == {q[i] : i \in 1..Len(q)}
Defers(q) == {q[i].event : i \in {j \in 1..Len(q) : q[j].kind = "defer"}}

RowShape(r, known) ==
    r # None => /\ r = [event |-> r.event, notBefore |-> r.notBefore, status |-> r.status]
                /\ r.event \in known /\ r.notBefore \in Nat /\ r.status \in {"pending", "claimed"}

HandoffShape(h) ==
    /\ h = [e \in Events |-> h[e]]
    /\ \A e \in Events : h[e] = [gen |-> h[e].gen, step |-> h[e].step]

Shapes ==
    /\ now \in 0..MaxTime /\ arrived \in Nat /\ Known \subseteq Events
    /\ inv = [e \in Events |-> inv[e]] /\ \A e \in Events : InvocationShape(inv[e])
    /\ HandoffShape(handoffs)
    /\ QueueShape(ops, Known) /\ RowShape(row, Known)
    /\ memory \in Known \cup {None} /\ pending \in Known \cup {None}
    /\ deadline \in Nat /\ timer \in Nat \cup {None}
    /\ pinned \subseteq Events /\ running \in BOOLEAN /\ faults \in Nat /\ again \in BOOLEAN
    /\ backend \in {"sqlite", "postgres"} /\ durable \in BOOLEAN /\ stopped \in BOOLEAN
    /\ recovery \in {"reset", "arm", "done"}

-----------------------------------------------------------------------------
(* The invocations, the deduplicator and the queue agree. *)
Agree(e) ==
    /\ e \notin Known => Phase(e) = "none"
    /\ pending = e => Phase(e) = "none" /\ running
    /\ e \in Defers(ops) <=> Phase(e) \in {"deferring", "redeferring"}
    /\ Active(e) => running
    /\ Phase(e) \notin {"none", "admitting"} \/ pending = e => e \in pinned
    /\ e \in pinned => Phase(e) # "none" \/ pending = e \/ faults > 0

OneActive ==
    /\ running => \E e \in Events : Active(e)
    /\ \A e, f \in Events : Active(e) /\ Active(f) => e = f

InvocationsOK == OneActive /\ \A e \in Events : Agree(e)

-----------------------------------------------------------------------------
(* Without a failed call, an event waits in the row or is in flight. *)
HeadDefers(e) == AtHead("defer", "stored") /\ Head(ops).event = e
RowWaits(e) == StatusIs("pending") /\ row.event = e

\* Until the rows of the last process are reset no timer fires.
Resetting ==
    /\ \A o \in Elements(ops) : o.kind # "resume" /\ (o.kind = "defer" => o.at > now)
    /\ timer # None => timer > now
    /\ StatusIs("claimed") => Free(row.event)

NoFailedWrite == \A o \in Elements(ops) : o.step \notin {"unstored", "memory"}
NoFailedHandoff == \A e \in Events : handoffs[e].step # "failing"
RowFree == ~stopped /\ StatusIs("pending") => Free(row.event) \/ HeadDefers(row.event)
TakenFree == ~stopped /\ AtHead("resume", "taken") /\ Head(ops).event # None =>
                Free(Head(ops).event) /\ ~RowWaits(Head(ops).event)

Unfailed ==
    /\ ~again /\ memory = None /\ NoFailedWrite /\ NoFailedHandoff /\ RowFree /\ TakenFree
    /\ recovery = "reset" => Resetting

TriggerInv == Shapes /\ InvocationsOK /\ (faults = 0 => Unfailed)

-----------------------------------------------------------------------------
(* Numbers. *)

LEMMA LeastExists ==
    ASSUME NEW S \in SUBSET Nat, S # {}
    PROVE  \E x \in S : \A y \in S : x <= y
<1> DEFINE Below(x) == {y \in S : y <= x}
           R == StrictSubsetOrdering(Nat)
           T == {Below(x) : x \in S}
<1>1. \A x \in S : Below(x) \in FiniteSubsetsOf(Nat)
  <2> TAKE x \in S
  <2>1. IsFiniteSet(Below(x))
    BY FS_BoundedSetOfNaturals
  <2> QED BY <2>1 DEF FiniteSubsetsOf
<1>2. PICK B \in T : \A C \in T : ~(<<C, B>> \in R)
  <2>1. IsWellFoundedOn(R, FiniteSubsetsOf(Nat))
    BY FS_StrictSubsetOrderingWellFounded
  <2>2. T \subseteq FiniteSubsetsOf(Nat) /\ T # {}
    BY <1>1
  <2> HIDE DEF R, T
  <2> QED BY <2>1, <2>2, WFMin
<1>3. PICK x \in S : B = Below(x)
  BY <1>2
<1>4. ASSUME NEW y \in S, ~(x <= y) PROVE FALSE
  <2>0. x \in Nat /\ y \in Nat /\ y < x
    BY <1>4
  <2>1. /\ \A z \in Nat : z <= y => z <= x
        /\ x \in Below(x) /\ x \notin Below(y)
    BY <2>0
  <2>2. <<Below(y), Below(x)>> \in R
    BY <2>1 DEF StrictSubsetOrdering
  <2> QED BY <1>2, <1>3, <2>2
<1> QED BY <1>4

LEMMA LaterOfTwo ==
    ASSUME NEW a \in Nat, NEW b \in Nat
    PROVE  Max({a, b}) \in {a, b} /\ Max({a, b}) >= a /\ Max({a, b}) >= b
<1>1. \E x \in {a, b} : \A y \in {a, b} : x >= y
  OBVIOUS
<1> QED BY <1>1 DEF Max

\* The next instant at which reviews may start exists, and is not in the past.
LEMMA NextAllowedIs ==
    ASSUME DeferralAssumption, NEW t \in 0..MaxTime
    PROVE  NextAllowed(t) \in 0..MaxTime /\ NextAllowed(t) >= t
<1> DEFINE S == {w \in Window : w >= t}
<1>1. S \in SUBSET Nat /\ MaxTime \in S
  <2>1. MaxTime \in Nat /\ Window \subseteq 0..MaxTime /\ MaxTime \in Window
    BY DEF DeferralAssumption
  <2>2. MaxTime >= t
    BY <2>1
  <2>3. \A w \in 0..MaxTime : w \in Nat
    BY <2>1
  <2> QED BY <2>1, <2>2, <2>3
<1>2. \E x \in S : \A y \in S : x <= y
  <2> HIDE DEF S
  <2> QED BY <1>1, LeastExists
<1>3. Min(S) \in S
  <2> HIDE DEF S
  <2> QED BY <1>2 DEF Min
<1> QED BY <1>3 DEF NextAllowed, DeferralAssumption

LEMMA LaterIs ==
    ASSUME DeferralAssumption, NEW t \in 0..MaxTime
    PROVE  Later(t) \in 0..MaxTime
BY DEF Later, DeferralAssumption

-----------------------------------------------------------------------------
(* The queue of store work. *)

LEMMA QueueIsSeq ==
    ASSUME NEW q, NEW known, QueueShape(q, known), NEW S, Elements(q) \subseteq S
    PROVE  q \in Seq(S)
<1>1. q \in [1..Len(q) -> S] /\ Len(q) \in Nat
  BY DEF QueueShape, Elements
<1> QED BY <1>1, SeqDef

LEMMA ElementsAre ==
    ASSUME NEW q, NEW known, QueueShape(q, known)
    PROVE  \A o \in Elements(q) : OpShape(o, known)
BY DEF QueueShape, Elements

LEMMA QueueGrows ==
    ASSUME NEW q, NEW known, QueueShape(q, known), NEW more, known \subseteq more
    PROVE  QueueShape(q, more)
BY DEF QueueShape, OpShape

LEMMA AppendOp ==
    ASSUME NEW q, NEW known, QueueShape(q, known), NEW x, OpShape(x, known),
           x.kind = "resume" => x.step = "start",
           x.kind = "defer" => x.event \notin Defers(q)
    PROVE  /\ QueueShape(Append(q, x), known)
           /\ Elements(Append(q, x)) = Elements(q) \cup {x}
           /\ Defers(Append(q, x)) = Defers(q) \cup (IF x.kind = "defer" THEN {x.event} ELSE {})
           /\ Append(q, x) # <<>> /\ Head(Append(q, x)) = IF q = <<>> THEN x ELSE Head(q)
<1> DEFINE p == Append(q, x)  n == Len(q)  S == Elements(q) \cup {x}
<1>1. /\ q \in Seq(S) /\ x \in S /\ n \in Nat
  <2>1. Elements(q) \subseteq S
    OBVIOUS
  <2> HIDE DEF S
  <2>2. q \in Seq(S)
    BY <2>1, QueueIsSeq
  <2> QED BY <2>2 DEF QueueShape, S
<1>2. /\ p \in Seq(S) /\ Len(p) = n + 1 /\ p # <<>>
      /\ \A i \in 1..n : p[i] = q[i]
      /\ p[n + 1] = x
  <2> HIDE DEF S
  <2> QED BY <1>1, AppendProperties
<1>3. 1..(n + 1) = (1..n) \cup {n + 1} /\ 2..(n + 1) \subseteq (2..n) \cup {n + 1} /\ \A i \in 1..n : i # n + 1
  BY <1>1
<1>4. p = [i \in 1..(n + 1) |-> p[i]]
  <2> HIDE DEF S, p
  <2> QED BY <1>2
<1>5. Head(p) = IF q = <<>> THEN x ELSE Head(q)
  BY <1>1, <1>2
<1> HIDE DEF p, S, n
<1>6. QueueShape(p, known)
  <2>0. QueueShape(q, known) /\ Len(q) = n
    BY DEF n
  <2>1. \A i \in 1..(n + 1) : OpShape(p[i], known)
    BY <1>2, <1>3, <2>0 DEF QueueShape
  <2>2. \A i \in 2..(n + 1) : p[i].kind = "resume" => p[i].step = "start"
    <3>1. \A i \in 2..n : i \in 1..n
      BY <1>1
    <3> QED BY <1>2, <1>3, <2>0, <3>1 DEF QueueShape
  <2>3. \A i \in 1..n : q[i].kind = "defer" /\ x.kind = "defer" => q[i].event # x.event
    BY <2>0 DEF Defers
  <2>4. \A i, j \in 1..(n + 1) : p[i].kind = "defer" /\ p[j].kind = "defer" /\ p[i].event = p[j].event => i = j
    BY <1>2, <1>3, <2>0, <2>3 DEF QueueShape
  <2>5. 1..Len(p) = 1..(n + 1) /\ 2..Len(p) = 2..(n + 1) /\ Len(p) \in Nat
    BY <1>1, <1>2
  <2> QED BY <1>4, <2>1, <2>2, <2>4, <2>5 DEF QueueShape
<1>7. Elements(p) = Elements(q) \cup {x}
  BY <1>2, <1>3 DEF Elements, n
<1>8. Defers(p) = Defers(q) \cup (IF x.kind = "defer" THEN {x.event} ELSE {})
  BY <1>2, <1>3 DEF Defers, n
<1> QED BY <1>2, <1>5, <1>6, <1>7, <1>8 DEF p

LEMMA HeadOp ==
    ASSUME NEW q, NEW known, QueueShape(q, known), q # <<>>
    PROVE  /\ Len(q) \in Nat \ {0} /\ Head(q) = q[1] /\ OpShape(Head(q), known)
           /\ Head(q) \in Elements(q)
           /\ Head(q).kind = "defer" => Head(q).event \in Defers(q)
<1>1. q \in Seq(Elements(q))
  BY QueueIsSeq
<1>2. Len(q) \in Nat \ {0} /\ Head(q) = q[1]
  BY <1>1
<1>3. 1 \in 1..Len(q)
  BY <1>2
<1> QED BY <1>2, <1>3 DEF QueueShape, Elements, Defers

\* The head is done.
LEMMA TailOp ==
    ASSUME NEW q, NEW known, QueueShape(q, known), q # <<>>
    PROVE  /\ QueueShape(Tail(q), known)
           /\ Elements(Tail(q)) \subseteq Elements(q)
           /\ Defers(Tail(q)) = Defers(q) \ (IF Head(q).kind = "defer" THEN {Head(q).event} ELSE {})
           /\ Tail(q) # <<>> /\ Head(Tail(q)).kind = "resume" => Head(Tail(q)).step = "start"
<1> DEFINE p == Tail(q)  n == Len(q) - 1
<1>1. q \in Seq(Elements(q)) /\ n \in Nat /\ Len(q) = n + 1 /\ Head(q) = q[1]
  BY HeadOp, QueueIsSeq
<1>2. /\ p \in Seq(Elements(q)) /\ Len(p) = n
      /\ \A i \in 1..n : p[i] = q[i + 1]
  <2>1. p \in Seq(Elements(q)) /\ Len(p) = Len(q) - 1 /\ \A i \in 1..Len(p) : p[i] = q[i + 1]
    BY <1>1, HeadTailProperties
  <2> QED BY <2>1
<1>3. /\ \A i \in 1..n : i + 1 \in 1..(n + 1) /\ i + 1 \in 2..(n + 1) /\ i + 1 # 1
      /\ \A i \in 2..n : i \in 1..n
      /\ \A i \in 1..(n + 1) : i # 1 => i - 1 \in 1..n /\ (i - 1) + 1 = i
      /\ 1 \in 1..(n + 1)
      /\ \A i, j \in 1..n : i + 1 = j + 1 => i = j
  BY <1>1
<1>4. p = [i \in 1..n |-> p[i]]
  <2> HIDE DEF p
  <2> QED BY <1>2
<1>5. p # <<>> => n # 0 /\ Head(p) = p[1] /\ 1 \in 1..n
  BY <1>1, <1>2
<1> HIDE DEF p, n
<1>6. QueueShape(p, known)
  <2>1. \A i \in 1..n : OpShape(p[i], known) /\ (p[i].kind = "resume" => p[i].step = "start")
    BY <1>1, <1>2, <1>3 DEF QueueShape
  <2>2. \A i, j \in 1..n : p[i].kind = "defer" /\ p[j].kind = "defer" /\ p[i].event = p[j].event => i = j
    BY <1>1, <1>2, <1>3 DEF QueueShape
  <2> QED BY <1>1, <1>2, <1>3, <1>4, <2>1, <2>2 DEF QueueShape
<1>7. Elements(p) \subseteq Elements(q)
  BY <1>1, <1>2, <1>3 DEF Elements
<1>8. Defers(p) = Defers(q) \ (IF Head(q).kind = "defer" THEN {Head(q).event} ELSE {})
  <2>1. Defers(p) = {q[i].event : i \in {j \in 1..(n + 1) : j # 1 /\ q[j].kind = "defer"}}
    <3>1. ASSUME NEW e \in Defers(p) PROVE \E i \in 1..(n + 1) : i # 1 /\ q[i].kind = "defer" /\ q[i].event = e
      <4>1. PICK i \in 1..n : p[i].kind = "defer" /\ p[i].event = e
        BY <1>2, <3>1 DEF Defers
      <4> QED BY <1>2, <1>3, <4>1
    <3>2. ASSUME NEW i \in 1..(n + 1), i # 1, q[i].kind = "defer" PROVE q[i].event \in Defers(p)
      <4>1. i - 1 \in 1..n /\ p[i - 1] = q[i]
        BY <1>2, <1>3, <3>2
      <4> QED BY <1>2, <3>2, <4>1 DEF Defers
    <3> QED BY <3>1, <3>2
  <2>2. \A i, j \in 1..(n + 1) : q[i].kind = "defer" /\ q[j].kind = "defer" /\ q[i].event = q[j].event => i = j
    BY <1>1 DEF QueueShape
  <2>3. Defers(q) = {q[i].event : i \in {j \in 1..(n + 1) : q[j].kind = "defer"}}
    BY <1>1 DEF Defers
  <2>4. CASE q[1].kind = "defer"
    BY <1>1, <1>3, <2>1, <2>2, <2>3, <2>4
  <2>5. CASE q[1].kind # "defer"
    BY <1>1, <1>3, <2>1, <2>3, <2>5
  <2> QED BY <2>4, <2>5
<1>9. p # <<>> /\ Head(p).kind = "resume" => Head(p).step = "start"
  <2> HAVE p # <<>> /\ Head(p).kind = "resume"
  <2>1. 1 \in 1..n /\ 1 + 1 \in 2..Len(q) /\ Head(p) = q[1 + 1]
    BY <1>1, <1>2, <1>3, <1>5
  <2>2. \A i \in 2..Len(q) : q[i].kind = "resume" => q[i].step = "start"
    BY DEF QueueShape
  <2> QED BY <2>1, <2>2
<1> QED BY <1>6, <1>7, <1>8, <1>9 DEF p

\* The head takes its next step.
LEMMA StepOp ==
    ASSUME NEW q, NEW known, QueueShape(q, known), q # <<>>, NEW x, OpShape(x, known),
           x.kind = Head(q).kind, x.kind = "defer" => x.event = Head(q).event
    PROVE  /\ QueueShape(<<x>> \o Tail(q), known)
           /\ Elements(<<x>> \o Tail(q)) \subseteq Elements(q) \cup {x}
           /\ Defers(<<x>> \o Tail(q)) = Defers(q)
           /\ <<x>> \o Tail(q) # <<>> /\ Head(<<x>> \o Tail(q)) = x
<1> DEFINE p == <<x>> \o Tail(q)  n == Len(q)  S == Elements(q) \cup {x}
<1>1. q \in Seq(Elements(q)) /\ n \in Nat \ {0} /\ Head(q) = q[1]
  BY HeadOp, QueueIsSeq
<1>2. /\ p \in Seq(S) /\ Len(p) = n /\ p[1] = x
      /\ \A i \in 2..n : p[i] = q[i]
  <2>1. Tail(q) \in Seq(Elements(q)) /\ Len(Tail(q)) = n - 1 /\ \A i \in 1..(n - 1) : Tail(q)[i] = q[i + 1]
    BY <1>1, HeadTailProperties
  <2>2. Tail(q) \in Seq(S) /\ <<x>> \in Seq(S) /\ Len(<<x>>) = 1 /\ <<x>>[1] = x
    <3>1. Elements(q) \subseteq S /\ x \in S
      OBVIOUS
    <3> HIDE DEF S
    <3>2. Tail(q) \in Seq(S)
      BY <2>1, <3>1, SeqMonotonic
    <3> QED BY <3>1, <3>2
  <2> HIDE DEF S, n
  <2>3. /\ p \in Seq(S) /\ Len(p) = 1 + (n - 1)
        /\ \A i \in 1..(1 + (n - 1)) : p[i] = IF i <= 1 THEN <<x>>[i] ELSE Tail(q)[i - 1]
    BY <2>1, <2>2, ConcatProperties
  <2>4. 1 + (n - 1) = n /\ 1 \in 1..n /\ \A i \in 2..n : i \in 1..n /\ i - 1 \in 1..(n - 1) /\ (i - 1) + 1 = i /\ ~(i <= 1)
    BY <1>1
  <2> HIDE DEF p
  <2>5. p[1] = x
    BY <2>2, <2>3, <2>4
  <2>6. \A i \in 2..n : p[i] = q[i]
    BY <2>1, <2>3, <2>4
  <2> QED BY <2>3, <2>4, <2>5, <2>6
<1>3. /\ 1 \in 1..n /\ 1..n = {1} \cup 2..n /\ 1 \notin 2..n
  BY <1>1
<1> HIDE DEF p
<1>4. p = [i \in 1..n |-> p[i]] /\ p # <<>> /\ Head(p) = x
  BY <1>1, <1>2
<1> HIDE DEF n, S
<1>5. \A i \in 1..n : p[i].kind = q[i].kind /\ (p[i].kind = "defer" => p[i].event = q[i].event)
  BY <1>1, <1>2, <1>3
<1>6. QueueShape(p, known)
  <2>1. \A i \in 1..n : OpShape(p[i], known)
    BY <1>2, <1>3 DEF QueueShape, n
  <2>2. \A i \in 2..n : p[i].kind = "resume" => p[i].step = "start"
    BY <1>2 DEF QueueShape, n
  <2>3. \A i, j \in 1..n : p[i].kind = "defer" /\ p[j].kind = "defer" /\ p[i].event = p[j].event => i = j
    BY <1>5 DEF QueueShape, n
  <2> QED BY <1>1, <1>2, <1>4, <2>1, <2>2, <2>3 DEF QueueShape
<1>7. Elements(p) \subseteq Elements(q) \cup {x}
  BY <1>2, <1>3 DEF Elements, n
<1>8. Defers(p) = Defers(q)
  BY <1>2, <1>5 DEF Defers, n
<1> QED BY <1>4, <1>6, <1>7, <1>8 DEF p

-----------------------------------------------------------------------------
(* What the operators of the deferral do to the row and the queue. *)

LEMMA UpsertIs ==
    ASSUME DeferralAssumption, NEW known, RowShape(row, known), NEW e \in known, NEW at \in Nat
    PROVE  \E n \in Nat : n >= at /\ Upsert(e, at) = Pending(e, n)
<1>1. CASE row = None
  BY <1>1 DEF Upsert
<1>2. CASE row # None
  <2>1. row.notBefore \in Nat
    BY <1>2 DEF RowShape
  <2>2. Max({at, row.notBefore}) \in Nat /\ Max({at, row.notBefore}) >= at
    BY <2>1, LaterOfTwo
  <2> QED BY <1>2, <2>2 DEF Upsert
<1> QED BY <1>1, <1>2

LEMMA PendingRow ==
    ASSUME NEW known, NEW e \in known, NEW n \in Nat
    PROVE  /\ RowShape(Pending(e, n), known)
           /\ Pending(e, n).event = e /\ Pending(e, n).notBefore = n /\ Pending(e, n).status = "pending"
BY DEF RowShape, Pending

LEMMA RowGrows ==
    ASSUME NEW r, NEW known, RowShape(r, known), NEW more, known \subseteq more
    PROVE  RowShape(r, more)
BY DEF RowShape

\* A deferral: a write in the queue, and with SQLite the row.
DefersTo(e, at, ok, known) ==
    \E x : /\ x.kind = "defer" /\ x.event = e /\ x.at \in Nat /\ x.at >= at
           /\ ok => x.step # "unstored"
           /\ QueueShape(ops', known)
           /\ Elements(ops') = Elements(ops) \cup {x}
           /\ Defers(ops') = Defers(ops) \cup {e}
           /\ ops' # <<>> /\ Head(ops') = IF ops = <<>> THEN x ELSE Head(ops)
           /\ RowShape(row', known)
           /\ row' = row \/ (backend = "sqlite" /\ x.step = "stored" /\ row'.event = e)

LEMMA DeferIs ==
    ASSUME DeferralAssumption, Shapes, NEW known, Known \subseteq known, NEW e \in known, e \notin Defers(ops),
           NEW at \in Nat, NEW ok \in BOOLEAN, Defer(e, at, ok)
    PROVE  /\ DefersTo(e, at, ok, known)
           /\ deadline' \in Nat /\ memory' = memory /\ timer' = timer
<1> DEFINE instant == Instant(at)  stored == Upsert(e, instant)
           x == IF backend = "postgres" THEN Op("defer", "write", Fresh, e, instant)
                ELSE IF ok THEN Op("defer", "stored", Fresh, e, stored.notBefore)
                ELSE Op("defer", "unstored", Fresh, e, instant)
<1>1. instant \in Nat /\ instant >= at
  BY LaterOfTwo DEF Instant, Shapes
<1>2. QueueShape(ops, known) /\ RowShape(row, known)
  BY QueueGrows, RowGrows DEF Shapes
<1>3. PICK n \in Nat : n >= instant /\ stored = Pending(e, n)
  <2> HIDE DEF instant
  <2> QED BY <1>1, <1>2, UpsertIs
<1>4. stored.notBefore = n /\ stored.event = e /\ RowShape(stored, known)
  BY <1>3, PendingRow
<1>5. /\ ops' = Append(ops, x) /\ deadline' = instant /\ memory' = memory /\ timer' = timer
      /\ row' = IF backend = "postgres" THEN row ELSE IF ok THEN stored ELSE row
  BY DEF Defer
<1>6. backend = "postgres" \/ backend = "sqlite"
  BY DEF Shapes
<1> HIDE DEF instant, stored
<1>7. /\ x = Op(x.kind, x.step, x.gen, x.event, x.at) /\ x.kind = "defer" /\ x.event = e
      /\ x.step \in {"write", "stored", "unstored"}
      /\ ok => x.step # "unstored"
      /\ x.at \in Nat /\ x.at >= at
      /\ row' = row \/ (backend = "sqlite" /\ x.step = "stored" /\ row' = stored)
  <2>1. CASE backend = "postgres"
    BY <2>1, <1>1, <1>5 DEF Op
  <2>2. CASE backend # "postgres" /\ ok
    BY <2>2, <1>1, <1>3, <1>4, <1>5, <1>6 DEF Op
  <2>3. CASE backend # "postgres" /\ ~ok
    BY <2>3, <1>1, <1>5, <1>6 DEF Op
  <2> QED BY <2>1, <2>2, <2>3
<1> HIDE DEF x
<1>8. OpShape(x, known) /\ x.kind # "resume"
  BY <1>7 DEF OpShape, StepsOf
<1>9. RowShape(row', known) /\ (row' = row \/ (backend = "sqlite" /\ x.step = "stored" /\ row'.event = e))
  BY <1>2, <1>4, <1>7
<1>10. /\ QueueShape(ops', known) /\ Elements(ops') = Elements(ops) \cup {x}
       /\ Defers(ops') = Defers(ops) \cup {e}
       /\ ops' # <<>> /\ Head(ops') = IF ops = <<>> THEN x ELSE Head(ops)
  BY <1>2, <1>5, <1>7, <1>8, AppendOp
<1> QED BY <1>1, <1>5, <1>7, <1>9, <1>10 DEF DefersTo

\* A cancellation: a delete in the queue, or at once.
Cancels ==
    \/ ops' = ops
    \/ /\ ops' # <<>> /\ (ops = <<>> => Head(ops').kind = "cancel") /\ (ops # <<>> => Head(ops') = Head(ops))
       /\ \E x : x.kind = "cancel" /\ x.step = "write" /\ Elements(ops') = Elements(ops) \cup {x}

LEMMA CancelIs ==
    ASSUME DeferralAssumption, Shapes, NEW known, Known \subseteq known, NEW e \in known,
           NEW ok \in BOOLEAN, Cancel(e, ok)
    PROVE  /\ QueueShape(ops', known) /\ Defers(ops') = Defers(ops) /\ Cancels
           /\ RowShape(row', known) /\ row' \in {row, None}
           /\ deadline' = 0 /\ memory' = None /\ timer' = None
<1> DEFINE x == Op("cancel", "write", None, e, 0)
<1>1. QueueShape(ops, known) /\ RowShape(row, known) /\ RowShape(None, known)
  BY QueueGrows, RowGrows DEF Shapes, RowShape
<1>2. /\ x.kind = "cancel" /\ x.step = "write" /\ OpShape(x, known)
      /\ x.kind # "resume" /\ x.kind # "defer"
  BY DEF Op, OpShape, StepsOf
<1> HIDE DEF x
<1>3. /\ QueueShape(Append(ops, x), known) /\ Elements(Append(ops, x)) = Elements(ops) \cup {x}
      /\ Defers(Append(ops, x)) = Defers(ops)
      /\ Append(ops, x) # <<>> /\ Head(Append(ops, x)) = IF ops = <<>> THEN x ELSE Head(ops)
  <2>1. /\ QueueShape(Append(ops, x), known)
        /\ Elements(Append(ops, x)) = Elements(ops) \cup {x}
        /\ Defers(Append(ops, x)) = Defers(ops) \cup (IF x.kind = "defer" THEN {x.event} ELSE {})
        /\ Append(ops, x) # <<>> /\ Head(Append(ops, x)) = IF ops = <<>> THEN x ELSE Head(ops)
    BY <1>1, <1>2, AppendOp
  <2> QED BY <1>2, <2>1
<1>4. (ops' = ops \/ ops' = Append(ops, x)) /\ (row' = row \/ row' = None)
      /\ deadline' = 0 /\ memory' = None /\ timer' = None
  BY DEF Cancel, x
<1> QED BY <1>1, <1>2, <1>3, <1>4 DEF Cancels

-----------------------------------------------------------------------------
(* Phases. *)

\* The invocation of e goes to phase p.
Sets(e, p) ==
    /\ inv' = [f \in Events |-> inv'[f]] /\ \A f \in Events : InvocationShape(inv'[f])
    /\ Phase(e)' = p /\ \A f \in Events \ {e} : Phase(f)' = Phase(f)

LEMMA SetsIs ==
    ASSUME Shapes, NEW e \in Events, NEW p \in Phases, NEW a, NEW t,
           \/ inv' = [inv EXCEPT ![e] = Invocation(p, a, t)]
           \/ inv' = [inv EXCEPT ![e].phase = p]
           \/ p = inv[e].phase /\ inv' = [inv EXCEPT ![e].at = t]
           \/ p = "none" /\ inv' = [inv EXCEPT ![e] = Idle]
    PROVE  Sets(e, p)
<1>0. /\ inv = [f \in Events |-> inv[f]] /\ \A f \in Events : InvocationShape(inv[f])
  BY DEF Shapes
<1>1. /\ Invocation(p, a, t).phase = p /\ InvocationShape(Invocation(p, a, t))
      /\ Idle.phase = "none" /\ InvocationShape(Idle)
  BY DEF Invocation, InvocationShape, Idle, Phases
<1>2. CASE inv' = [inv EXCEPT ![e] = Invocation(p, a, t)]
  BY <1>0, <1>1, <1>2 DEF Sets, Phase
<1>3. CASE inv' = [inv EXCEPT ![e].phase = p]
  <2>1. [inv[e] EXCEPT !.phase = p] = Invocation(p, inv[e].attempt, inv[e].at)
    BY <1>0 DEF InvocationShape, Invocation
  <2>2. InvocationShape(Invocation(p, inv[e].attempt, inv[e].at)) /\ Invocation(p, inv[e].attempt, inv[e].at).phase = p
    BY DEF Invocation, InvocationShape
  <2> QED BY <1>0, <1>3, <2>1, <2>2 DEF Sets, Phase
<1>4. CASE p = inv[e].phase /\ inv' = [inv EXCEPT ![e].at = t]
  <2>1. [inv[e] EXCEPT !.at = t] = Invocation(p, inv[e].attempt, t)
    BY <1>0, <1>4 DEF InvocationShape, Invocation
  <2>2. InvocationShape(Invocation(p, inv[e].attempt, t)) /\ Invocation(p, inv[e].attempt, t).phase = p
    BY DEF Invocation, InvocationShape
  <2> QED BY <1>0, <1>4, <2>1, <2>2 DEF Sets, Phase
<1>5. CASE p = "none" /\ inv' = [inv EXCEPT ![e] = Idle]
  BY <1>0, <1>1, <1>5 DEF Sets, Phase
<1> QED BY <1>2, <1>3, <1>4, <1>5

LEMMA SamePhases ==
    ASSUME Shapes, inv' = inv
    PROVE  /\ inv' = [f \in Events |-> inv'[f]] /\ \A f \in Events : InvocationShape(inv'[f])
           /\ \A f \in Events : Phase(f)' = Phase(f)
BY DEF Shapes, Phase

LEMMA KnownAre ==
    ASSUME DeferralAssumption, Shapes
    PROVE  /\ None \notin Known /\ Known \subseteq Events /\ Events \subseteq Nat /\ None \notin Events
           /\ \A t \in Nat : t # None
<1>1. Events = 1..Cardinality(Events) /\ Cardinality(Events) \in Nat /\ None \notin Nat
  BY FS_CardinalityType DEF DeferralAssumption
<1>2. Events \subseteq Nat /\ Known \subseteq Events
  BY <1>1 DEF Shapes
<1> QED BY <1>1, <1>2

\* The pending event is scheduled.
LEMMA CompletedIs ==
    ASSUME DeferralAssumption, Shapes, InvocationsOK, NEW e \in Events, Active(e), Completed(e)
    PROVE  /\ running' = FALSE /\ pinned' = pinned \ {e} /\ pending' = None
           /\ inv' = [f \in Events |-> inv'[f]] /\ \A f \in Events : InvocationShape(inv'[f])
           /\ \A f \in Events : Phase(f)' = IF f = e THEN "none" ELSE IF f = pending THEN "admitting" ELSE Phase(f)
<1>1. pending # e
  <2>1. e # None
    BY KnownAre
  <2> QED BY <2>1 DEF InvocationsOK, Agree, Active
<1>2. inv' = [f \in Events |-> IF f = pending THEN Invocation("admitting", 1, 0)
                               ELSE IF f = e THEN Idle ELSE inv[f]]
  BY DEF Completed
<1>3. /\ Invocation("admitting", 1, 0).phase = "admitting" /\ InvocationShape(Invocation("admitting", 1, 0))
      /\ Idle.phase = "none" /\ InvocationShape(Idle)
      /\ \A f \in Events : InvocationShape(inv[f])
  BY DEF Invocation, InvocationShape, Idle, Phases, Shapes
<1> QED BY <1>1, <1>2, <1>3 DEF Completed, Phase

-----------------------------------------------------------------------------
(* The agreement of invocations, deduplicator and queue. *)

LEMMA InvocationsSame ==
    ASSUME Shapes, InvocationsOK, UNCHANGED <<inv, running, pending, pinned, arrived>>,
           Defers(ops') = Defers(ops), faults' \in Nat, faults <= faults'
    PROVE  InvocationsOK'
<1>1. \A f \in Events : Phase(f)' = Phase(f) /\ Active(f)' = Active(f)
  BY DEF Phase, Active
<1>2. faults > 0 => faults' > 0
  BY DEF Shapes
<1>3. ASSUME NEW f \in Events PROVE Agree(f)'
  BY <1>1, <1>2 DEF InvocationsOK, Agree, Known
<1>4. OneActive'
  BY <1>1 DEF InvocationsOK, OneActive
<1> QED BY <1>3, <1>4 DEF InvocationsOK

\* e enters a phase in which it is neither active nor deferring, and it is not
\* pending.
LEMMA InvocationsMove ==
    ASSUME DeferralAssumption, Shapes, InvocationsOK, NEW e \in Known, NEW p \in {"none", "admitting"}, Sets(e, p),
           ~Active(e), pending # e, UNCHANGED <<running, pending, arrived>>,
           Defers(ops') = Defers(ops) \ {e},
           faults' \in Nat, faults <= faults',
           pinned' \in {pinned, pinned \ {e}},
           p = "none" /\ e \in pinned' => faults' > 0
    PROVE  InvocationsOK'
<1>1. \A f \in Events : f # e => Phase(f)' = Phase(f) /\ Active(f)' = Active(f)
  BY DEF Sets, Active
<1>2. Phase(e)' = p /\ ~Active(e)' /\ e \in Events
  BY DEF Sets, Active, Shapes
<1>3. faults > 0 => faults' > 0
  BY DEF Shapes
<1>5. ASSUME NEW f \in Events PROVE Agree(f)'
  BY <1>1, <1>2, <1>3 DEF InvocationsOK, Agree, Known
<1>6. OneActive'
  BY <1>1, <1>2 DEF InvocationsOK, OneActive
<1> QED BY <1>5, <1>6 DEF InvocationsOK

-----------------------------------------------------------------------------
(* The entry of an event. *)

\* What e may do to the deferral of the key when it is deferred, becomes the
\* pending event or begins to run: add its write at the end of the queue.
StoreMove(e) ==
    /\ ops # <<>> => ops' # <<>> /\ Head(ops') = Head(ops)
    /\ ops = <<>> /\ ops' # <<>> => Head(ops').kind # "resume"
    /\ \A o \in Elements(ops') \ Elements(ops) : o.kind # "resume" /\ (o.kind = "defer" => o.at > now)
    /\ \/ row' \in {row, None}
       \/ backend = "sqlite" /\ row'.event = e /\ (ops = <<>> => HeadDefers(e)')
    /\ timer' \in {timer, None} /\ memory' \in {memory, None}

LEMMA DefersMove ==
    ASSUME NEW e, NEW at \in Nat, at > now, now \in Nat, NEW ok \in BOOLEAN, NEW known,
           DefersTo(e, at, ok, known), memory' = memory, timer' = timer
    PROVE  StoreMove(e) /\ (ok => \A o \in Elements(ops') \ Elements(ops) : o.step # "unstored")
<1>1. PICK x : /\ x.kind = "defer" /\ x.event = e /\ x.at \in Nat /\ x.at >= at
               /\ ok => x.step # "unstored"
               /\ Elements(ops') = Elements(ops) \cup {x}
               /\ ops' # <<>> /\ Head(ops') = IF ops = <<>> THEN x ELSE Head(ops)
               /\ row' = row \/ (backend = "sqlite" /\ x.step = "stored" /\ row'.event = e)
  BY DEF DefersTo
<1>2. x.at > now /\ x.kind # "resume"
  BY <1>1
<1>3. x.step = "stored" /\ ops = <<>> => HeadDefers(e)'
  BY <1>1 DEF HeadDefers, AtHead
<1> QED BY <1>1, <1>2, <1>3 DEF StoreMove

\* Nothing but e changes hands.
LEMMA UnfailedMoves ==
    ASSUME DeferralAssumption, Shapes, InvocationsOK, Unfailed, Quiet,
           NEW e \in Events, e \in Known => ~Free(e), e \notin Defers(ops), StoreMove(e),
           \A f \in Known : Free(f) /\ f # e => Free(f)',
           NoFailedWrite', NoFailedHandoff', UNCHANGED <<again, stopped, recovery, now>>
    PROVE  Unfailed'
<1>1. /\ memory' = None /\ ~again'
  BY DEF Unfailed, StoreMove
<1>2. ~HeadDefers(e)
  <2>1. ops # <<>> /\ Head(ops).kind = "defer" => Head(ops).event \in Defers(ops)
    BY HeadOp DEF Shapes
  <2> QED BY <2>1 DEF HeadDefers, AtHead
<1>3. row # None => row.event \in Known
  BY DEF Shapes, RowShape
<1>4. backend = "sqlite" => ops = <<>>
  BY DEF Quiet
<1>5. RowFree'
  <2> SUFFICES ASSUME ~stopped', StatusIs("pending")' PROVE Free(row.event)' \/ HeadDefers(row.event)'
    BY DEF RowFree
  <2>1. CASE row' = row
    <3>1. ~stopped /\ StatusIs("pending") /\ row # None
      BY <2>1 DEF StatusIs
    <3>2. Free(row.event) \/ HeadDefers(row.event)
      BY <3>1 DEF Unfailed, RowFree
    <3>3. row.event # e
      BY <1>2, <1>3, <3>1, <3>2
    <3>4. HeadDefers(row.event) => HeadDefers(row.event)'
      BY <2>1 DEF HeadDefers, AtHead, StoreMove
    <3> QED BY <1>3, <2>1, <3>1, <3>2, <3>3, <3>4
  <2>2. CASE row' = None
    BY <2>2 DEF StatusIs
  <2>3. CASE backend = "sqlite" /\ row'.event = e /\ (ops = <<>> => HeadDefers(e)')
    BY <1>4, <2>3
  <2> QED BY <2>1, <2>2, <2>3 DEF StoreMove
<1>6. TakenFree'
  <2> SUFFICES ASSUME ~stopped', AtHead("resume", "taken")', Head(ops)'.event # None
               PROVE  Free(Head(ops).event)' /\ ~RowWaits(Head(ops).event)'
    BY DEF TakenFree
  <2>1. ops # <<>> /\ Head(ops') = Head(ops)
    BY DEF AtHead, StoreMove
  <2>0. PICK g : g = Head(ops).event
    OBVIOUS
  <2>2. Free(g) /\ ~RowWaits(g) /\ g # None
    BY <2>0, <2>1 DEF Unfailed, TakenFree, AtHead
  <2>3. g \in Known
    BY <2>0, <2>1, <2>2, HeadOp DEF Shapes, OpShape
  <2>4. g # e
    BY <2>2, <2>3
  <2>5. Free(g)'
    BY <2>2, <2>3, <2>4
  <2>6. ~(StatusIs("pending")' /\ row'.event = g)
    BY <2>2, <2>4 DEF StoreMove, RowWaits, StatusIs
  <2>7. Head(ops').event = g
    BY <2>0, <2>1
  <2> QED BY <2>1, <2>5, <2>6, <2>7 DEF RowWaits, Free, Phase
<1>7. recovery' = "reset" => Resetting'
  <2> HAVE recovery' = "reset"
  <2>1. Resetting
    BY DEF Unfailed
  <2>2. \A o \in Elements(ops') : o.kind # "resume" /\ (o.kind = "defer" => o.at > now)
    BY <2>1 DEF StoreMove, Resetting
  <2>3. timer' # None => timer' > now
    BY <2>1 DEF StoreMove, Resetting
  <2>4. StatusIs("claimed")' => Free(row.event)'
    <3> HAVE StatusIs("claimed")'
    <3>1. backend # "sqlite"
      BY DEF Quiet
    <3>2. row' = row /\ row # None /\ StatusIs("claimed")
      BY <3>1 DEF StoreMove, StatusIs
    <3>3. Free(row.event) /\ row.event \in Known
      BY <1>3, <2>1, <3>2 DEF Resetting
    <3> QED BY <3>2, <3>3
  <2> QED BY <2>2, <2>3, <2>4 DEF Resetting
<1> QED BY <1>1, <1>5, <1>6, <1>7 DEF Unfailed

LEMMA ResolveIs ==
    ASSUME Shapes, NEW e \in Events, NEW ok \in BOOLEAN, NEW gen
    PROVE  /\ HandoffShape(Resolve(e, ok, gen))
           /\ ok => \A f \in Events : handoffs[f].step # "failing" => Resolve(e, ok, gen)[f].step # "failing"
<1> DEFINE r == Resolve(e, ok, gen)
<1>1. HandoffShape(handoffs) /\ NoHandoff = [gen |-> NoHandoff.gen, step |-> NoHandoff.step] /\ NoHandoff.step = "none"
  BY DEF Shapes, NoHandoff
<1>2. CASE r = handoffs
  BY <1>1, <1>2
<1>3. CASE r = [handoffs EXCEPT ![e] = NoHandoff]
  <2>1. \A f \in Events : r[f] = IF f = e THEN NoHandoff ELSE handoffs[f]
    BY <1>1, <1>3 DEF HandoffShape
  <2>2. r = [f \in Events |-> r[f]]
    BY <1>1, <1>3 DEF HandoffShape
  <2> HIDE DEF r
  <2>3. HandoffShape(r) /\ \A f \in Events : handoffs[f].step # "failing" => r[f].step # "failing"
    BY <1>1, <2>1, <2>2 DEF HandoffShape
  <2> QED BY <2>3 DEF r
<1>4. CASE r = [handoffs EXCEPT ![e].step = IF ok THEN "settling" ELSE "failing"]
  <2> DEFINE to == IF ok THEN "settling" ELSE "failing"
  <2>1. [handoffs[e] EXCEPT !.step = to] = [gen |-> handoffs[e].gen, step |-> to]
    BY <1>1 DEF HandoffShape
  <2>2. \A f \in Events : r[f] = IF f = e THEN [gen |-> handoffs[e].gen, step |-> to] ELSE handoffs[f]
    BY <1>1, <1>4, <2>1 DEF HandoffShape
  <2>3. r = [f \in Events |-> r[f]]
    BY <1>1, <1>4 DEF HandoffShape
  <2> HIDE DEF r
  <2>4. HandoffShape(r) /\ (ok => \A f \in Events : handoffs[f].step # "failing" => r[f].step # "failing")
    BY <1>1, <2>2, <2>3 DEF HandoffShape
  <2> QED BY <2>4 DEF r
<1>5. r = handoffs \/ r = [handoffs EXCEPT ![e] = NoHandoff]
      \/ r = [handoffs EXCEPT ![e].step = IF ok THEN "settling" ELSE "failing"]
  BY DEF Resolve
<1> QED BY <1>2, <1>3, <1>4, <1>5

\* What an entry leaves: the shape of what it changes, the agreement, and the
\* conditions under which UnfailedMoves applies.
LEMMA EnterIs ==
    ASSUME DeferralAssumption, Shapes, InvocationsOK, NEW ok \in BOOLEAN,
           arrived' \in Nat, Known' \subseteq Events, NEW e \in Known', Known' = Known \cup {e},
           Phase(e) \in {"none", "admitting"}, pending # e,
           Enter(e, ok), faults' \in Nat, faults <= faults'
    PROVE  /\ inv' = [f \in Events |-> inv'[f]] /\ \A f \in Events : InvocationShape(inv'[f])
           /\ HandoffShape(handoffs') /\ (NoFailedHandoff => NoFailedHandoff')
           /\ QueueShape(ops', Known') /\ RowShape(row', Known')
           /\ memory' \in Known' \cup {None} /\ pending' \in Known' \cup {None}
           /\ deadline' \in Nat /\ timer' \in Nat \cup {None}
           /\ pinned' \subseteq Events /\ running' \in BOOLEAN
           /\ InvocationsOK'
           /\ StoreMove(e)
           /\ ok => \A o \in Elements(ops') \ Elements(ops) : o.step \notin {"unstored", "memory"}
           /\ \A f \in Known : Free(f) /\ f # e => Free(f)'
<1>1. /\ e \in Events /\ None \notin Known /\ Known \subseteq Known' /\ e # None /\ Events \subseteq Nat
      /\ \A f \in Events : f # None
  BY KnownAre
<1>2. ~Active(e) /\ e \notin Defers(ops)
  BY <1>1 DEF Active, InvocationsOK, Agree
<1>3. \A f \in Events : Agree(f)
  BY DEF InvocationsOK
<1>4. faults > 0 => faults' > 0
  BY DEF Shapes
<1>5. NextAllowed(now) \in Nat /\ now \in Nat /\ NextAllowed(now) >= now
  BY NextAllowedIs DEF Shapes, DeferralAssumption
<1>6. \A f \in Events : f \in Known' <=> f \in Known \/ f = e
  BY <1>1
<1>7. CASE Outside
  <2>1. /\ Defer(e, NextAllowed(now), ok) /\ inv' = [inv EXCEPT ![e] = Invocation("deferring", 1, 0)]
        /\ pinned' = pinned \cup {e}
        /\ UNCHANGED <<running, pending, handoffs>>
    BY <1>7 DEF Enter
  <2>2. /\ DefersTo(e, NextAllowed(now), ok, Known')
        /\ deadline' \in Nat /\ memory' = memory /\ timer' = timer
    BY <1>1, <1>2, <1>5, <2>1, DeferIs
  <2>3. Sets(e, "deferring")
    BY <1>1, <2>1, SetsIs DEF Phases
  <2>4. NextAllowed(now) > now
    BY <1>7 DEF Outside
  <2>5. StoreMove(e) /\ (ok => \A o \in Elements(ops') \ Elements(ops) : o.step # "unstored")
    BY <1>5, <2>2, <2>4, DefersMove
  <2>6. /\ QueueShape(ops', Known') /\ RowShape(row', Known') /\ Defers(ops') = Defers(ops) \cup {e}
        /\ \A o \in Elements(ops') \ Elements(ops) : o.kind = "defer"
    BY <2>2 DEF DefersTo
  <2>7. \A o \in Elements(ops') \ Elements(ops) : o.step # "memory"
    <3>1. \A o \in Elements(ops') : OpShape(o, Known')
      BY <2>6, ElementsAre
    <3> QED BY <2>6, <3>1 DEF OpShape, StepsOf
  <2>8. \A f \in Events : f # e => Phase(f)' = Phase(f) /\ Active(f)' = Active(f)
    BY <2>3 DEF Sets, Active
  <2>9. Phase(e)' = "deferring" /\ ~Active(e)'
    BY <2>3 DEF Sets, Active
  <2>10. ASSUME NEW f \in Events PROVE Agree(f)'
    BY <1>1, <1>3, <1>4, <1>6, <2>1, <2>6, <2>8, <2>9 DEF Agree
  <2>11. OneActive'
    BY <1>2, <2>1, <2>8, <2>9 DEF InvocationsOK, OneActive
  <2>12. \A f \in Known : Free(f) /\ f # e => Free(f)'
    BY <1>6, <2>1, <2>8 DEF Free, Shapes
  <2>13. NoFailedHandoff => NoFailedHandoff'
    BY <2>1 DEF NoFailedHandoff
  <2> QED BY <1>1, <2>1, <2>2, <2>3, <2>5, <2>6, <2>7, <2>10, <2>11, <2>12, <2>13 DEF Sets, Shapes, InvocationsOK
<1>8. CASE ~Outside /\ running
  <2>1. /\ pending' = e /\ pinned' = (pinned \ {pending}) \cup {e}
        /\ inv' = [inv EXCEPT ![e] = Idle]
        /\ handoffs' = Resolve(e, TRUE, generation)
        /\ UNCHANGED <<running, row, memory, deadline, generation, timer, ops>>
    BY <1>8 DEF Enter, SetPending
  <2>2. Sets(e, "none")
    BY <1>1, <2>1, SetsIs DEF Phases
  <2>3. HandoffShape(handoffs') /\ (NoFailedHandoff => NoFailedHandoff')
    BY <1>1, <2>1, ResolveIs DEF NoFailedHandoff
  <2>4. StoreMove(e)
    BY <2>1 DEF StoreMove
  <2>5. QueueShape(ops', Known') /\ RowShape(row', Known')
    BY <1>1, <2>1, QueueGrows, RowGrows DEF Shapes
  <2>6. \A f \in Events : f # e => Phase(f)' = Phase(f) /\ Active(f)' = Active(f)
    BY <2>2 DEF Sets, Active
  <2>7. Phase(e)' = "none" /\ ~Active(e)'
    BY <2>2 DEF Sets, Active
  <2>8. ASSUME NEW f \in Events PROVE Agree(f)'
    <3>1. CASE f = e
      BY <1>1, <1>2, <1>8, <2>1, <2>7, <3>1 DEF Agree
    <3>2. CASE f # e
      <4>1. Agree(f) /\ Phase(f)' = Phase(f) /\ Active(f)' = Active(f) /\ f # pending'
        BY <1>3, <2>1, <2>6, <3>2
      <4>2. f \in Defers(ops') <=> f \in Defers(ops)
        BY <2>1
      <4>3. f \in pinned' <=> f \in pinned /\ f # pending
        BY <2>1, <3>2
      <4> QED BY <1>4, <1>6, <2>1, <3>2, <4>1, <4>2, <4>3 DEF Agree
    <3> QED BY <3>1, <3>2
  <2>9. OneActive'
    BY <1>2, <2>1, <2>6, <2>7 DEF InvocationsOK, OneActive
  <2>10. \A f \in Known : Free(f) /\ f # e => Free(f)'
    BY <1>6, <2>1, <2>6 DEF Free, Shapes
  <2> QED BY <1>1, <2>1, <2>2, <2>3, <2>4, <2>5, <2>8, <2>9, <2>10 DEF Sets, Shapes, InvocationsOK
<1>9. CASE ~Outside /\ ~running
  <2>1. /\ Cancel(e, ok) /\ running' = TRUE /\ inv' = [inv EXCEPT ![e] = Invocation("waiting", 1, now)]
        /\ pinned' = pinned \cup {e} /\ handoffs' = Resolve(e, TRUE, None) /\ pending' = pending
    BY <1>9 DEF Enter
  <2>2. Sets(e, "waiting")
    BY <1>1, <2>1, SetsIs DEF Phases
  <2>3. HandoffShape(handoffs') /\ (NoFailedHandoff => NoFailedHandoff')
    BY <1>1, <2>1, ResolveIs DEF NoFailedHandoff
  <2>4. /\ QueueShape(ops', Known') /\ Defers(ops') = Defers(ops) /\ Cancels
        /\ RowShape(row', Known') /\ row' \in {row, None}
        /\ deadline' = 0 /\ memory' = None /\ timer' = None
    BY <1>1, <2>1, CancelIs
  <2>5. \A o \in Elements(ops') \ Elements(ops) : o.kind = "cancel" /\ o.step = "write"
    BY <2>4 DEF Cancels
  <2>6. StoreMove(e)
    BY <2>4, <2>5 DEF StoreMove, Cancels
  <2>7. \A f \in Events : f # e => Phase(f)' = Phase(f) /\ Active(f)' = Active(f)
    BY <2>2 DEF Sets, Active
  <2>8. Phase(e)' = "waiting" /\ Active(e)'
    BY <2>2 DEF Sets, Active
  <2>9. \A f \in Events : ~Active(f) /\ pending # f
    BY <1>3, <1>9 DEF Agree
  <2>10. ASSUME NEW f \in Events PROVE Agree(f)'
    <3>1. CASE f = e
      BY <1>2, <2>1, <2>4, <2>8, <2>9, <3>1 DEF Agree
    <3>2. CASE f # e
      <4>1. Agree(f) /\ Phase(f)' = Phase(f) /\ Active(f)' = Active(f) /\ (f \in pinned' <=> f \in pinned)
        BY <1>3, <2>1, <2>7, <3>2
      <4> QED BY <1>4, <1>6, <2>1, <2>4, <2>9, <3>2, <4>1 DEF Agree
    <3> QED BY <3>1, <3>2
  <2>11. OneActive'
    BY <1>1, <2>1, <2>7, <2>8, <2>9 DEF OneActive
  <2>12. \A f \in Known : Free(f) /\ f # e => Free(f)'
    BY <1>6, <2>1, <2>7 DEF Free, Shapes
  <2> QED BY <1>1, <2>1, <2>2, <2>3, <2>4, <2>5, <2>6, <2>10, <2>11, <2>12 DEF Sets, Shapes, InvocationsOK
<1> QED BY <1>7, <1>8, <1>9

-----------------------------------------------------------------------------
(* The actions of invocations. *)

LEMMA OutcomeIs ==
    ASSUME Shapes, NEW ok \in BOOLEAN, Outcome(ok)
    PROVE  faults' \in Nat /\ faults <= faults' /\ (faults' = 0 => ok /\ faults = 0) /\ (~ok => faults' > 0)
BY DEF Outcome, Shapes

LEMMA ArriveKeeps ==
    ASSUME DeferralAssumption, TriggerInv, NEW e \in Events, NEW ok \in BOOLEAN, Arrive(e, ok)
    PROVE  TriggerInv'
<1>1. Shapes /\ InvocationsOK /\ (faults = 0 => Unfailed)
  BY DEF TriggerInv
<1>2. /\ Quiet /\ ~stopped /\ e = arrived + 1 /\ arrived' = e /\ Enter(e, ok) /\ Outcome(ok)
      /\ UNCHANGED <<now, backend, durable, stopped, recovery, again>>
  BY DEF Arrive
<1>3. faults' \in Nat /\ faults <= faults' /\ (faults' = 0 => ok /\ faults = 0)
  BY <1>1, <1>2, OutcomeIs
<1>4. /\ Known' = Known \cup {e} /\ e \notin Known /\ arrived' \in Nat /\ e \in Known' /\ Known' \subseteq Events
  <2>1. arrived \in Nat /\ Known \subseteq Events
    BY <1>1 DEF Shapes
  <2>2. 1..(arrived + 1) = (1..arrived) \cup {arrived + 1} /\ arrived + 1 \notin 1..arrived
    BY <2>1
  <2> QED BY <1>2, <2>1, <2>2 DEF Known
<1>5. Phase(e) = "none" /\ pending # e /\ e \notin Defers(ops)
  <2>1. e # None
    BY <1>1, KnownAre
  <2> QED BY <1>1, <1>4, <2>1 DEF InvocationsOK, Agree, Shapes
<1>6. /\ inv' = [f \in Events |-> inv'[f]] /\ \A f \in Events : InvocationShape(inv'[f])
      /\ HandoffShape(handoffs') /\ (NoFailedHandoff => NoFailedHandoff')
      /\ QueueShape(ops', Known') /\ RowShape(row', Known')
      /\ memory' \in Known' \cup {None} /\ pending' \in Known' \cup {None}
      /\ deadline' \in Nat /\ timer' \in Nat \cup {None}
      /\ pinned' \subseteq Events /\ running' \in BOOLEAN
      /\ InvocationsOK'
      /\ StoreMove(e)
      /\ ok => \A o \in Elements(ops') \ Elements(ops) : o.step \notin {"unstored", "memory"}
      /\ \A f \in Known : Free(f) /\ f # e => Free(f)'
  BY <1>1, <1>2, <1>3, <1>4, <1>5, EnterIs
<1>7. Shapes'
  BY <1>1, <1>2, <1>3, <1>4, <1>6 DEF Shapes
<1>8. ASSUME faults' = 0 PROVE Unfailed'
  <2>1. ok /\ Unfailed
    BY <1>1, <1>3, <1>8
  <2>2. NoFailedWrite' /\ NoFailedHandoff'
    BY <1>6, <2>1 DEF Unfailed, NoFailedWrite
  <2> QED BY <1>1, <1>2, <1>4, <1>5, <1>6, <2>1, <2>2, UnfailedMoves
<1> QED BY <1>6, <1>7, <1>8 DEF TriggerInv

LEMMA AdmitKeeps ==
    ASSUME DeferralAssumption, TriggerInv, NEW e \in Events, NEW ok \in BOOLEAN, Admit(e, ok)
    PROVE  TriggerInv'
<1>1. Shapes /\ InvocationsOK /\ (faults = 0 => Unfailed)
  BY DEF TriggerInv
<1>2. /\ Quiet /\ Phase(e) = "admitting" /\ Enter(e, ok) /\ Outcome(ok)
      /\ UNCHANGED <<now, backend, durable, stopped, recovery, arrived, again>>
  BY DEF Admit
<1>3. faults' \in Nat /\ faults <= faults' /\ (faults' = 0 => ok /\ faults = 0)
  BY <1>1, <1>2, OutcomeIs
<1>4. /\ e \in Known /\ pending # e /\ e \notin Defers(ops)
  BY <1>1, <1>2 DEF InvocationsOK, Agree
<1>5. Known' = Known /\ arrived' \in Nat /\ Known' \subseteq Events /\ e \in Known' /\ Known' = Known \cup {e}
  BY <1>1, <1>2, <1>4 DEF Shapes, Known
<1>6. /\ inv' = [f \in Events |-> inv'[f]] /\ \A f \in Events : InvocationShape(inv'[f])
      /\ HandoffShape(handoffs') /\ (NoFailedHandoff => NoFailedHandoff')
      /\ QueueShape(ops', Known') /\ RowShape(row', Known')
      /\ memory' \in Known' \cup {None} /\ pending' \in Known' \cup {None}
      /\ deadline' \in Nat /\ timer' \in Nat \cup {None}
      /\ pinned' \subseteq Events /\ running' \in BOOLEAN
      /\ InvocationsOK'
      /\ StoreMove(e)
      /\ ok => \A o \in Elements(ops') \ Elements(ops) : o.step \notin {"unstored", "memory"}
      /\ \A f \in Known : Free(f) /\ f # e => Free(f)'
  BY <1>1, <1>2, <1>3, <1>4, <1>5, EnterIs
<1>7. Shapes'
  BY <1>1, <1>2, <1>3, <1>5, <1>6 DEF Shapes
<1>8. ASSUME faults' = 0 PROVE Unfailed'
  <2>1. ok /\ Unfailed
    BY <1>1, <1>3, <1>8
  <2>2. NoFailedWrite' /\ NoFailedHandoff'
    BY <1>6, <2>1 DEF Unfailed, NoFailedWrite
  <2>3. ~Free(e)
    BY <1>2 DEF Free
  <2> QED BY <1>1, <1>2, <1>4, <1>6, <2>1, <2>2, <2>3, UnfailedMoves
<1> QED BY <1>6, <1>7, <1>8 DEF TriggerInv

LEMMA AdmissionFailsKeeps ==
    ASSUME DeferralAssumption, TriggerInv, NEW e \in Events, AdmissionFails(e)
    PROVE  TriggerInv'
<1>1. Shapes /\ InvocationsOK
  BY DEF TriggerInv
<1>2. /\ Phase(e) = "admitting" /\ Outcome(FALSE) /\ inv' = [inv EXCEPT ![e] = Idle]
      /\ handoffs' = Resolve(e, FALSE, generation)
      /\ UNCHANGED <<now, backend, durable, stopped, row, memory, deadline, timer, ops,
                     running, pending, pinned, recovery, arrived, again>>
  BY DEF AdmissionFails
<1>3. faults' \in Nat /\ faults <= faults' /\ faults' > 0
  BY <1>1, <1>2, OutcomeIs
<1>4. Sets(e, "none") /\ HandoffShape(handoffs')
  BY <1>1, <1>2, SetsIs, ResolveIs DEF Phases
<1>5. e \in Known /\ pending # e /\ ~Active(e) /\ e \notin Defers(ops)
  BY <1>1, <1>2 DEF InvocationsOK, Agree, Active
<1>6. Defers(ops') = Defers(ops) \ {e}
  BY <1>2, <1>5
<1>7. InvocationsOK'
  BY <1>1, <1>2, <1>3, <1>4, <1>5, <1>6, InvocationsMove
<1>8. Shapes'
  BY <1>1, <1>2, <1>3, <1>4 DEF Shapes, Sets, Known
<1> QED BY <1>3, <1>7, <1>8 DEF TriggerInv

\* An active event stays the active one.
LEMMA InvocationsStay ==
    ASSUME DeferralAssumption, Shapes, InvocationsOK, NEW e \in Events, NEW p \in {"waiting", "reviewing", "redeferring"},
           Sets(e, p), Active(e), UNCHANGED <<running, pending, pinned, arrived>>,
           Defers(ops') = IF p = "redeferring" THEN Defers(ops) \cup {e} ELSE Defers(ops) \ {e},
           faults' \in Nat, faults <= faults'
    PROVE  InvocationsOK'
<1>1. \A f \in Events : f # e => Phase(f)' = Phase(f) /\ Active(f)' = Active(f)
  BY DEF Sets, Active
<1>2. Phase(e)' = p /\ Active(e)' /\ Active(e) /\ e \in Known /\ pending # e /\ e \in pinned
  BY DEF Sets, Active, InvocationsOK, Agree
<1>3. faults > 0 => faults' > 0
  BY DEF Shapes
<1>4. ASSUME NEW f \in Events PROVE Agree(f)'
  <2>1. CASE f = e
    BY <1>2, <2>1 DEF InvocationsOK, Agree, Known
  <2>2. CASE f # e
    BY <1>1, <1>3, <2>2 DEF InvocationsOK, Agree, Known
  <2> QED BY <2>1, <2>2
<1>5. OneActive'
  BY <1>1, <1>2 DEF InvocationsOK, OneActive
<1> QED BY <1>4, <1>5 DEF InvocationsOK

\* The active event ends, and the pending one is scheduled.
LEMMA InvocationsEnd ==
    ASSUME DeferralAssumption, Shapes, InvocationsOK, NEW e \in Events, Active(e), Completed(e),
           Defers(ops') = Defers(ops) \ {e}, UNCHANGED arrived, faults' \in Nat, faults <= faults'
    PROVE  InvocationsOK' /\ \A f \in Known : Free(f) /\ f # e => Free(f)'
<1>1. /\ running' = FALSE /\ pinned' = pinned \ {e} /\ pending' = None
      /\ \A f \in Events : Phase(f)' = IF f = e THEN "none" ELSE IF f = pending THEN "admitting" ELSE Phase(f)
  BY CompletedIs
<1>2. \A f \in Events : Active(f) => f = e
  BY DEF InvocationsOK, OneActive
<1>3. faults > 0 => faults' > 0
  BY DEF Shapes
<1>4. \A f \in Events : f # None
  BY KnownAre
<1>5. ASSUME NEW f \in Events PROVE Agree(f)' /\ ~Active(f)'
  <2>0. Agree(f) /\ Agree(e)
    BY DEF InvocationsOK
  <2>1. CASE f = e
    <3>1. Phase(f)' = "none" /\ ~Active(f)'
      BY <1>1, <2>1 DEF Active
    <3>2. pending' # f /\ f \notin pinned' /\ f \notin Defers(ops')
      BY <1>1, <1>4, <2>1
    <3> QED BY <3>1, <3>2 DEF Agree
  <2>2. CASE f # e /\ f = pending
    <3>1. Phase(f)' = "admitting" /\ ~Active(f)'
      BY <1>1, <2>2 DEF Active
    <3>2. Phase(f) = "none" /\ f \in Known' /\ f \notin Defers(ops') /\ pending' # f
      <4>1. f \in Known
        BY <1>4, <2>2 DEF Shapes
      <4> QED BY <1>1, <1>4, <2>0, <2>2, <4>1 DEF Agree, Known
    <3> QED BY <3>1, <3>2 DEF Agree
  <2>3. CASE f # e /\ f # pending
    <3>1. Phase(f)' = Phase(f) /\ ~Active(f)' /\ ~Active(f)
      BY <1>1, <1>2, <2>3 DEF Active
    <3>2. (f \in Defers(ops') <=> f \in Defers(ops)) /\ (f \in pinned' <=> f \in pinned) /\ pending' # f
      BY <1>1, <1>4, <2>3
    <3>3. f \in Known' <=> f \in Known
      BY DEF Known
    <3> QED BY <1>3, <2>0, <2>3, <3>1, <3>2, <3>3 DEF Agree
  <2> QED BY <2>1, <2>2, <2>3
<1>6. OneActive'
  BY <1>1, <1>5 DEF OneActive
<1>7. \A f \in Known : Free(f) /\ f # e => Free(f)'
  BY <1>1, <1>4, KnownAre DEF Free
<1> QED BY <1>5, <1>6, <1>7 DEF InvocationsOK

\* Nothing of the deferral changes.
LEMMA NoStoreMove ==
    ASSUME UNCHANGED deferralVars, NEW e
    PROVE  /\ StoreMove(e) /\ Defers(ops') = Defers(ops)
           /\ NoFailedWrite' = NoFailedWrite /\ NoFailedHandoff' = NoFailedHandoff
<1>1. UNCHANGED <<ops, row, timer, memory, handoffs>>
  BY DEF deferralVars
<1> QED BY <1>1 DEF StoreMove, NoFailedWrite, NoFailedHandoff

\* The active event goes from one step of its attempt to another.
LEMMA AttemptMoves ==
    ASSUME DeferralAssumption, TriggerInv, NEW e \in Events, NEW p \in {"waiting", "reviewing"}, Quiet,
           Sets(e, p), Phase(e) \in {"waiting", "reviewing"},
           UNCHANGED <<deferralVars, running, pending, pinned, recovery, arrived, again, faults>>
    PROVE  TriggerInv'
<1>1. Shapes /\ InvocationsOK /\ (faults = 0 => Unfailed)
  BY DEF TriggerInv
<1>2. Active(e) /\ e \notin Defers(ops) /\ ~Free(e)
  BY <1>1 DEF InvocationsOK, Agree, Active, Free
<1>3. /\ StoreMove(e) /\ Defers(ops') = Defers(ops) \ {e}
      /\ NoFailedWrite' = NoFailedWrite /\ NoFailedHandoff' = NoFailedHandoff
  BY <1>2, NoStoreMove
<1>4. faults' \in Nat /\ faults <= faults'
  BY <1>1 DEF Shapes
<1>5. InvocationsOK'
  BY <1>1, <1>2, <1>3, <1>4, InvocationsStay
<1>6. \A f \in Known : Free(f) /\ f # e => Free(f)'
  <2>1. \A f \in Known : f \in Events
    BY <1>1 DEF Shapes
  <2> QED BY <2>1 DEF Free, Sets
<1>7. Shapes'
  BY <1>1 DEF Shapes, Sets, Known, deferralVars
<1>8. faults' = 0 => Unfailed'
  <2> HAVE faults' = 0
  <2>1. Unfailed /\ NoFailedWrite' /\ NoFailedHandoff'
    BY <1>1, <1>3 DEF Unfailed
  <2>2. UNCHANGED <<again, stopped, recovery, now>>
    BY DEF deferralVars
  <2> QED BY <1>1, <1>2, <1>3, <1>6, <2>1, <2>2, UnfailedMoves
<1> QED BY <1>5, <1>7, <1>8 DEF TriggerInv

LEMMA AttemptInsideKeeps ==
    ASSUME DeferralAssumption, TriggerInv, NEW e \in Events, AttemptInside(e)
    PROVE  TriggerInv'
<1>1. Sets(e, "reviewing")
  BY SetsIs DEF AttemptInside, TriggerInv, Phases
<1> QED BY <1>1, AttemptMoves DEF AttemptInside, bounds

LEMMA ReviewFailsKeeps ==
    ASSUME DeferralAssumption, TriggerInv, NEW e \in Events, ReviewFails(e)
    PROVE  TriggerInv'
<1>1. Sets(e, "waiting")
  BY SetsIs DEF ReviewFails, TriggerInv, Phases
<1> QED BY <1>1, AttemptMoves DEF ReviewFails, bounds, historyVars

LEMMA ReviewEndsKeeps ==
    ASSUME DeferralAssumption, TriggerInv, NEW e \in Events, ReviewEnds(e)
    PROVE  TriggerInv'
<1>1. Shapes /\ InvocationsOK /\ (faults = 0 => Unfailed)
  BY DEF TriggerInv
<1>2. /\ Quiet /\ Phase(e) = "reviewing" /\ Completed(e)
      /\ UNCHANGED <<deferralVars, recovery, arrived, again, faults>>
  BY DEF ReviewEnds, historyVars, bounds
<1>3. Active(e) /\ e \notin Defers(ops) /\ ~Free(e)
  BY <1>1, <1>2 DEF InvocationsOK, Agree, Active, Free
<1>4. /\ StoreMove(e) /\ Defers(ops') = Defers(ops) \ {e}
      /\ NoFailedWrite' = NoFailedWrite /\ NoFailedHandoff' = NoFailedHandoff
  BY <1>2, <1>3, NoStoreMove
<1>5. faults' \in Nat /\ faults <= faults'
  BY <1>1, <1>2 DEF Shapes
<1>6. InvocationsOK' /\ \A f \in Known : Free(f) /\ f # e => Free(f)'
  BY <1>1, <1>2, <1>3, <1>4, <1>5, InvocationsEnd
<1>7. Shapes'
  BY <1>1, <1>2, <1>3, CompletedIs DEF Shapes, Known, deferralVars
<1>8. faults' = 0 => Unfailed'
  <2> HAVE faults' = 0
  <2>1. Unfailed /\ NoFailedWrite' /\ NoFailedHandoff'
    BY <1>1, <1>2, <1>4 DEF Unfailed
  <2>2. UNCHANGED <<again, stopped, recovery, now>>
    BY <1>2 DEF deferralVars
  <2> QED BY <1>1, <1>2, <1>3, <1>4, <1>6, <2>1, <2>2, UnfailedMoves
<1> QED BY <1>6, <1>7, <1>8 DEF TriggerInv

LEMMA AttemptOutsideKeeps ==
    ASSUME DeferralAssumption, TriggerInv, NEW e \in Events, NEW ok \in BOOLEAN, AttemptOutside(e, ok)
    PROVE  TriggerInv'
<1>1. Shapes /\ InvocationsOK /\ (faults = 0 => Unfailed)
  BY DEF TriggerInv
<1>2. /\ Quiet /\ Phase(e) = "waiting" /\ Outside
      /\ UNCHANGED <<now, backend, durable, stopped, handoffs, running, pending, pinned, recovery,
                     arrived, again>>
  BY DEF AttemptOutside
<1>3. Active(e) /\ e \notin Defers(ops) /\ ~Free(e) /\ e \in Known
  BY <1>1, <1>2 DEF InvocationsOK, Agree, Active, Free
<1>4. CASE inv[e].attempt = 1
  <2>1. Defer(e, NextAllowed(now), ok) /\ Outcome(ok) /\ inv' = [inv EXCEPT ![e].phase = "redeferring"]
    BY <1>4 DEF AttemptOutside
  <2>2. faults' \in Nat /\ faults <= faults' /\ (faults' = 0 => ok /\ faults = 0)
    BY <1>1, <2>1, OutcomeIs
  <2>3. NextAllowed(now) \in Nat /\ now \in Nat /\ NextAllowed(now) > now
    BY <1>1, <1>2, NextAllowedIs DEF Shapes, DeferralAssumption, Outside
  <2>4. /\ DefersTo(e, NextAllowed(now), ok, Known)
        /\ deadline' \in Nat /\ memory' = memory /\ timer' = timer
    BY <1>1, <1>3, <2>1, <2>3, DeferIs
  <2>5. Sets(e, "redeferring")
    BY <1>1, <2>1, SetsIs DEF Phases
  <2>6. StoreMove(e) /\ (ok => \A o \in Elements(ops') \ Elements(ops) : o.step # "unstored")
    BY <2>3, <2>4, DefersMove
  <2>7. /\ QueueShape(ops', Known) /\ RowShape(row', Known) /\ Defers(ops') = Defers(ops) \cup {e}
        /\ \A o \in Elements(ops') \ Elements(ops) : o.kind = "defer"
    BY <2>4 DEF DefersTo
  <2>8. \A o \in Elements(ops') \ Elements(ops) : o.step # "memory"
    <3>1. \A o \in Elements(ops') : OpShape(o, Known)
      BY <2>7, ElementsAre
    <3> QED BY <2>7, <3>1 DEF OpShape, StepsOf
  <2>9. InvocationsOK'
    BY <1>1, <1>2, <1>3, <2>2, <2>5, <2>7, InvocationsStay
  <2>10. \A f \in Known : Free(f) /\ f # e => Free(f)'
    <3>1. \A f \in Known : f \in Events
      BY <1>1 DEF Shapes
    <3> QED BY <1>2, <2>5, <3>1 DEF Free, Sets
  <2>11. Shapes'
    BY <1>1, <1>2, <2>2, <2>4, <2>5, <2>7 DEF Shapes, Sets, Known
  <2>12. faults' = 0 => Unfailed'
    <3> HAVE faults' = 0
    <3>1. Unfailed /\ ok
      BY <1>1, <2>2
    <3>2. NoFailedWrite' /\ NoFailedHandoff'
      BY <1>2, <2>6, <2>8, <3>1 DEF Unfailed, NoFailedWrite, NoFailedHandoff
    <3> QED BY <1>1, <1>2, <1>3, <2>6, <2>10, <3>1, <3>2, UnfailedMoves
  <2> QED BY <2>9, <2>11, <2>12 DEF TriggerInv
<1>5. CASE inv[e].attempt # 1
  <2>1. inv' = [inv EXCEPT ![e].at = NextAllowed(now)] /\ inv[e].phase = "waiting"
        /\ UNCHANGED <<row, memory, deadline, generation, timer, ops, faults>>
    BY <1>2, <1>5 DEF AttemptOutside, Phase
  <2>2. Sets(e, "waiting")
    BY <1>1, <2>1, SetsIs DEF Phases
  <2> QED BY <1>2, <2>1, <2>2, AttemptMoves DEF deferralVars
<1> QED BY <1>4, <1>5

-----------------------------------------------------------------------------
(* The actions of the deferral: they leave the invocations alone, except at *)
(* the settlement of a deferral and when a target is handed over.           *)

LEMMA ArmIs ==
    ASSUME Shapes, NEW at \in Nat, Arm(at)
    PROVE  timer' \in Nat \cup {None} /\ deadline' \in Nat /\ timer' \in {timer, at}
BY DEF Arm, Shapes

LEMMA ReleasedIs ==
    ASSUME Shapes
    PROVE  /\ RowShape(Released, Known) /\ RowShape(Acknowledged, Known)
           /\ row # None => Released.event = row.event
           /\ ~StatusIs("claimed") => Released = row
           /\ Acknowledged \in {row, None}
<1>1. RowShape(row, Known) /\ RowShape(None, Known)
  BY DEF Shapes, RowShape
<1>2. CASE StatusIs("claimed")
  <2>1. row # None /\ row = [event |-> row.event, notBefore |-> row.notBefore, status |-> row.status]
    BY <1>1, <1>2 DEF StatusIs, RowShape
  <2>2. [row EXCEPT !.status = "pending"] = Pending(row.event, row.notBefore)
    BY <2>1 DEF Pending
  <2>3. Released = Pending(row.event, row.notBefore)
    BY <1>2, <2>2 DEF Released
  <2>4. row.event \in Known /\ row.notBefore \in Nat
    BY <1>1, <2>1 DEF RowShape
  <2>5. RowShape(Released, Known) /\ Released.event = row.event /\ Released.status = "pending"
    BY <2>3, <2>4, PendingRow
  <2>6. RowShape(Acknowledged, Known) /\ Acknowledged = None
    BY <1>1, <1>2 DEF Acknowledged
  <2> QED BY <1>2, <2>5, <2>6
<1>3. CASE ~StatusIs("claimed")
  BY <1>1, <1>3 DEF Released, Acknowledged
<1> QED BY <1>2, <1>3

\* A step that leaves the invocations alone.
LEMMA StoreSteps ==
    ASSUME Shapes, InvocationsOK,
           UNCHANGED <<backend, durable, inv, running, pending, pinned, arrived, again>>,
           Defers(ops') = Defers(ops), faults' \in Nat, faults <= faults',
           now' \in 0..MaxTime, stopped' \in BOOLEAN, recovery' \in {"reset", "arm", "done"},
           HandoffShape(handoffs'), QueueShape(ops', Known), RowShape(row', Known),
           memory' \in Known \cup {None}, deadline' \in Nat, timer' \in Nat \cup {None}
    PROVE  Shapes' /\ InvocationsOK' /\ Known' = Known /\ \A f \in Events : Free(f)' = Free(f)
<1>1. Known' = Known
  BY DEF Known
<1>2. InvocationsOK'
  BY InvocationsSame
<1>3. Shapes'
  BY <1>1, SamePhases DEF Shapes
<1> QED BY <1>1, <1>2, <1>3 DEF Free, Phase

\* The row keeps its event, or is gone, and the head of the queue is not what
\* the row waits for.
LEMMA RowStays ==
    ASSUME Shapes, RowFree, stopped' = stopped,
           \A f \in Events : Free(f)' = Free(f),
           ops # <<>> /\ Head(ops).kind = "defer" => ops' # <<>> /\ Head(ops') = Head(ops),
           StatusIs("pending")' => StatusIs("pending") /\ row'.event = row.event
    PROVE  RowFree'
<1> SUFFICES ASSUME ~stopped', StatusIs("pending")' PROVE Free(row.event)' \/ HeadDefers(row.event)'
  BY DEF RowFree
<1>1. PICK g : g = row.event
  OBVIOUS
<1>2. StatusIs("pending") /\ row'.event = g /\ g \in Events
  BY <1>1 DEF Shapes, RowShape, StatusIs
<1>3. Free(g) \/ HeadDefers(g)
  BY <1>1, <1>2 DEF RowFree
<1>4. HeadDefers(g) => AtHead("defer", "stored")' /\ Head(ops').event = g
  BY DEF HeadDefers, AtHead
<1>5. Free(g)' \/ HeadDefers(g)'
  BY <1>2, <1>3, <1>4 DEF HeadDefers
<1> QED BY <1>2, <1>5 DEF Free, Phase, HeadDefers

\* The head that is taken, if any, is the same as before.
LEMMA TakenStays ==
    ASSUME DeferralAssumption, Shapes, TakenFree, stopped' = stopped,
           \A f \in Events : Free(f)' = Free(f),
           AtHead("resume", "taken")' => AtHead("resume", "taken") /\ Head(ops') = Head(ops),
           StatusIs("pending")' => StatusIs("pending") /\ row'.event = row.event
    PROVE  TakenFree'
<1> SUFFICES ASSUME ~stopped', AtHead("resume", "taken")', Head(ops)'.event # None
             PROVE  Free(Head(ops).event)' /\ ~RowWaits(Head(ops).event)'
  BY DEF TakenFree
<1>1. PICK g : g = Head(ops).event
  OBVIOUS
<1>2. AtHead("resume", "taken") /\ Head(ops').event = g /\ g # None
  BY <1>1
<1>3. Free(g) /\ ~RowWaits(g)
  BY <1>1, <1>2 DEF TakenFree
<1>4. g \in Events
  BY <1>1, <1>2, HeadOp, KnownAre DEF Shapes, OpShape, AtHead
<1>5. Free(g)' /\ ~RowWaits(g)'
  BY <1>3, <1>4 DEF RowWaits
<1> QED BY <1>2, <1>5 DEF Free, Phase, RowWaits

\* What the settlement of the deferral of e does to its invocation.
LEMMA SettlementIs ==
    ASSUME DeferralAssumption, Shapes, InvocationsOK, DeferSettles, NEW e, e = Head(ops).event
    PROVE  /\ InvocationsOK' /\ HandoffShape(handoffs')
           /\ e \in Known /\ ~Free(e)
           /\ inv' = [f \in Events |-> inv'[f]] /\ \A f \in Events : InvocationShape(inv'[f])
           /\ pinned' \subseteq Events /\ running' \in BOOLEAN /\ pending' \in {pending, None}
           /\ \A f \in Known : Free(f) /\ f # e => Free(f)'
           /\ Head(ops).step = "stored" => Free(e)' /\ (NoFailedHandoff => NoFailedHandoff')
<1> DEFINE kept == Head(ops).step = "stored" \/ ~durable
<1>1. /\ Head(ops).kind = "defer" /\ ops # <<>> /\ ops' = Tail(ops) /\ UNCHANGED <<arrived, faults>>
  BY DEF DeferSettles, SettleDefer, AtHead, Done, bounds
<1>2. QueueShape(ops, Known) /\ e \in Defers(ops) /\ e \in Known
  BY <1>1, HeadOp DEF Shapes, OpShape
<1>3. Defers(ops') = Defers(ops) \ {e}
  <2>1. Defers(Tail(ops)) = Defers(ops) \ (IF Head(ops).kind = "defer" THEN {Head(ops).event} ELSE {})
    BY <1>1, <1>2, TailOp
  <2> QED BY <1>1, <2>1
<1>4. e \in Events /\ Phase(e) \in {"deferring", "redeferring"} /\ pending # e /\ ~Free(e)
  BY <1>2 DEF Shapes, InvocationsOK, Agree, Free
<1>5. faults' \in Nat /\ faults <= faults'
  BY <1>1 DEF Shapes
<1>6. \A f \in Known : f \in Events
  BY DEF Shapes
<1>7. e # None
  BY <1>2, KnownAre
<1>8. kept \in BOOLEAN
  OBVIOUS
<1>9. CASE Phase(e) = "deferring"
  <2>1. /\ inv' = [inv EXCEPT ![e] = Idle] /\ pinned' = pinned \ {e}
        /\ handoffs' = Resolve(e, kept, generation)
        /\ UNCHANGED <<running, pending>>
    BY <1>9 DEF DeferSettles
  <2>2. Sets(e, "none")
    BY <1>4, <2>1, SetsIs DEF Phases
  <2>3. ~Active(e)
    BY <1>9 DEF Active
  <2>4. InvocationsOK'
    BY <1>1, <1>2, <1>3, <1>4, <1>5, <2>1, <2>2, <2>3, InvocationsMove
  <2>5. HandoffShape(handoffs') /\ (kept => (NoFailedHandoff => NoFailedHandoff'))
    <3>1. /\ HandoffShape(Resolve(e, kept, generation))
          /\ kept => \A f \in Events : handoffs[f].step # "failing" => Resolve(e, kept, generation)[f].step # "failing"
      BY <1>4, <1>8, ResolveIs
    <3> QED BY <2>1, <3>1 DEF NoFailedHandoff
  <2>6. Free(e)' /\ \A f \in Known : Free(f) /\ f # e => Free(f)'
    BY <1>4, <1>6, <2>1, <2>2 DEF Free, Sets
  <2> QED BY <1>2, <1>4, <2>1, <2>2, <2>4, <2>5, <2>6 DEF Sets, Shapes
<1>10. CASE Phase(e) = "redeferring" /\ kept
  <2>1. Completed(e) /\ Active(e) /\ handoffs' = handoffs
    BY <1>10 DEF DeferSettles, Active
  <2>2. InvocationsOK' /\ \A f \in Known : Free(f) /\ f # e => Free(f)'
    BY <1>1, <1>3, <1>4, <1>5, <2>1, InvocationsEnd
  <2>3. /\ running' = FALSE /\ pinned' = pinned \ {e} /\ pending' = None
        /\ inv' = [f \in Events |-> inv'[f]] /\ \A f \in Events : InvocationShape(inv'[f])
        /\ \A f \in Events : Phase(f)' = IF f = e THEN "none" ELSE IF f = pending THEN "admitting" ELSE Phase(f)
    BY <1>4, <2>1, CompletedIs
  <2>4. Free(e)'
    BY <1>4, <1>7, <2>3 DEF Free
  <2> QED BY <1>2, <1>4, <2>1, <2>2, <2>3, <2>4 DEF Shapes, NoFailedHandoff
<1>11. CASE Phase(e) = "redeferring" /\ ~kept
  <2>1. /\ inv' = [inv EXCEPT ![e] = Invocation("waiting", 1, Later(now))]
        /\ UNCHANGED <<running, pending, pinned, handoffs>>
    BY <1>11 DEF DeferSettles
  <2>2. Sets(e, "waiting") /\ Active(e)
    BY <1>4, <1>11, <2>1, SetsIs DEF Phases, Active
  <2>3. InvocationsOK'
    BY <1>1, <1>3, <1>4, <1>5, <2>1, <2>2, InvocationsStay
  <2>4. \A f \in Known : Free(f) /\ f # e => Free(f)'
    BY <1>6, <2>1, <2>2 DEF Free, Sets
  <2> QED BY <1>2, <1>4, <1>11, <2>1, <2>2, <2>3, <2>4 DEF Sets, Shapes
<1> QED BY <1>4, <1>9, <1>10, <1>11

LEMMA DeferSettlesKeeps ==
    ASSUME DeferralAssumption, TriggerInv, DeferSettles
    PROVE  TriggerInv'
<1>1. Shapes /\ InvocationsOK /\ (faults = 0 => Unfailed)
  BY DEF TriggerInv
<1>2. PICK e : e = Head(ops).event
  OBVIOUS
<1>3. /\ InvocationsOK' /\ HandoffShape(handoffs')
      /\ e \in Known /\ ~Free(e)
      /\ inv' = [f \in Events |-> inv'[f]] /\ \A f \in Events : InvocationShape(inv'[f])
      /\ pinned' \subseteq Events /\ running' \in BOOLEAN /\ pending' \in {pending, None}
      /\ \A f \in Known : Free(f) /\ f # e => Free(f)'
      /\ Head(ops).step = "stored" => Free(e)' /\ (NoFailedHandoff => NoFailedHandoff')
  BY <1>1, <1>2, SettlementIs
<1>4. /\ Head(ops).kind = "defer" /\ Head(ops).step \in {"stored", "unstored"}
      /\ ops # <<>> /\ ops' = Tail(ops) /\ row' = row
      /\ UNCHANGED <<now, backend, durable, stopped, recovery, arrived, again, faults>>
      /\ \/ memory' = (IF Head(ops).step = "stored" THEN None ELSE Head(ops).event) /\ Arm(Head(ops).at)
         \/ UNCHANGED <<memory, timer, deadline>>
  BY DEF DeferSettles, SettleDefer, AtHead, Done, bounds
<1>5. QueueShape(ops, Known) /\ Head(ops) \in Elements(ops) /\ Head(ops).at \in Nat
  BY <1>1, <1>4, HeadOp DEF Shapes, OpShape
<1>6. /\ QueueShape(ops', Known) /\ Elements(ops') \subseteq Elements(ops)
      /\ ops' # <<>> /\ Head(ops').kind = "resume" => Head(ops').step = "start"
  BY <1>4, <1>5, TailOp
<1>7. /\ memory' \in {memory, None, e} /\ (Head(ops).step = "stored" => memory' \in {memory, None})
      /\ timer' \in Nat \cup {None} /\ deadline' \in Nat /\ timer' \in {timer, Head(ops).at}
  BY <1>1, <1>2, <1>4, <1>5, ArmIs DEF Shapes
<1>8. Known' = Known
  BY <1>4 DEF Known
<1>9. Shapes'
  BY <1>1, <1>3, <1>4, <1>6, <1>7, <1>8 DEF Shapes
<1>10. ASSUME faults' = 0 PROVE Unfailed'
  <2>1. Unfailed /\ Head(ops).step = "stored"
    BY <1>1, <1>4, <1>5, <1>10 DEF Unfailed, NoFailedWrite
  <2>2. memory' = None /\ ~again' /\ NoFailedWrite' /\ NoFailedHandoff'
    BY <1>3, <1>4, <1>6, <1>7, <2>1 DEF Unfailed, NoFailedWrite
  <2>3. Free(e)' /\ \A f \in Known : Free(f) => Free(f)'
    BY <1>3, <2>1
  <2>4. StatusIs("pending")' => StatusIs("pending")
    BY <1>4 DEF StatusIs
  <2>5. row # None => row.event \in Known
    BY <1>1 DEF Shapes, RowShape
  <2>6. RowFree'
    <3> SUFFICES ASSUME ~stopped', StatusIs("pending")' PROVE Free(row.event)' \/ HeadDefers(row.event)'
      BY DEF RowFree
    <3>1. PICK g : g = row.event
      OBVIOUS
    <3>2. g \in Known /\ (Free(g) \/ HeadDefers(g))
      BY <1>4, <2>1, <2>4, <2>5, <3>1 DEF Unfailed, RowFree, StatusIs
    <3>3. HeadDefers(g) => g = e
      BY <1>2 DEF HeadDefers
    <3>4. Free(g)'
      BY <2>3, <3>2, <3>3
    <3> QED BY <1>4, <3>1, <3>4 DEF Free, Phase
  <2>7. TakenFree'
    BY <1>6 DEF TakenFree, AtHead
  <2>8. recovery' = "reset" => Resetting'
    <3> HAVE recovery' = "reset"
    <3>1. Resetting
      BY <1>4, <2>1 DEF Unfailed
    <3>2. \A o \in Elements(ops') : o.kind # "resume" /\ (o.kind = "defer" => o.at > now)
      BY <1>6, <3>1 DEF Resetting
    <3>3. timer' # None => timer' > now
      BY <1>4, <1>5, <1>7, <3>1 DEF Resetting
    <3>4. StatusIs("claimed")' => Free(row.event)'
      <4> HAVE StatusIs("claimed")'
      <4>1. PICK g : g = row.event
        OBVIOUS
      <4>2. Free(g) /\ g \in Known
        BY <1>4, <2>5, <3>1, <4>1 DEF Resetting, StatusIs
      <4>3. Free(g)'
        BY <2>3, <4>2
      <4> QED BY <1>4, <4>1, <4>3 DEF Free, Phase
    <3> QED BY <1>4, <3>2, <3>3, <3>4 DEF Resetting
  <2> QED BY <2>2, <2>6, <2>7, <2>8 DEF Unfailed
<1> QED BY <1>3, <1>9, <1>10 DEF TriggerInv

LEMMA TargetHandedOverKeeps ==
    ASSUME DeferralAssumption, TriggerInv, TargetHandedOver
    PROVE  TriggerInv'
<1>1. Shapes /\ InvocationsOK /\ (faults = 0 => Unfailed)
  BY DEF TriggerInv
<1>2. PICK e : e = Head(ops).event
  OBVIOUS
<1>3. /\ AtHead("resume", "taken") /\ ops # <<>> /\ Head(ops).kind = "resume" /\ ops' = Tail(ops)
      /\ ~again /\ again' = (HandsOver /\ (Phase(e) # "none" \/ pending = e))
      /\ inv' = IF HandsOver /\ ~again' THEN [inv EXCEPT ![e] = Invocation("admitting", 1, 0)] ELSE inv
      /\ row' = IF Current(Head(ops).gen) /\ stopped THEN Released ELSE row
      /\ deadline' \in {0, deadline}
      /\ handoffs' = IF HandsOver THEN [handoffs EXCEPT ![e] = [gen |-> Head(ops).gen, step |-> "open"]] ELSE handoffs
      /\ UNCHANGED <<memory, timer>>
      /\ UNCHANGED <<now, backend, durable, stopped, running, pending, pinned, recovery, arrived, faults>>
  BY <1>2 DEF TargetHandedOver, ResumeTaken, AtHead, Done, bounds
<1>4. HandsOver => ~stopped /\ e # None
  BY <1>2 DEF HandsOver
<1>5. QueueShape(ops, Known) /\ Head(ops) \in Elements(ops) /\ e \in Known \cup {None}
  BY <1>1, <1>2, <1>3, HeadOp DEF Shapes, OpShape
<1>6. /\ QueueShape(ops', Known) /\ Elements(ops') \subseteq Elements(ops)
      /\ Defers(ops') = Defers(ops)
      /\ ops' # <<>> /\ Head(ops').kind = "resume" => Head(ops').step = "start"
  <2>1. /\ QueueShape(Tail(ops), Known) /\ Elements(Tail(ops)) \subseteq Elements(ops)
        /\ Defers(Tail(ops)) = Defers(ops) \ (IF Head(ops).kind = "defer" THEN {Head(ops).event} ELSE {})
        /\ Tail(ops) # <<>> /\ Head(Tail(ops)).kind = "resume" => Head(Tail(ops)).step = "start"
    BY <1>3, <1>5, TailOp
  <2> QED BY <1>3, <2>1
<1>7. Known' = Known /\ faults' \in Nat /\ faults <= faults'
  BY <1>1, <1>3 DEF Known, Shapes
<1>8. RowShape(row', Known) /\ (~stopped => row' = row)
  BY <1>1, <1>3, ReleasedIs DEF Shapes
<1>9. HandoffShape(handoffs') /\ (NoFailedHandoff => NoFailedHandoff')
  <2>1. CASE HandsOver
    <3> DEFINE h == [gen |-> Head(ops).gen, step |-> "open"]
    <3>1. HandoffShape(handoffs) /\ e \in Events /\ handoffs' = [handoffs EXCEPT ![e] = h]
      BY <1>1, <1>3, <1>4, <1>5, <2>1 DEF Shapes
    <3>2. h = [gen |-> h.gen, step |-> h.step] /\ h.step = "open"
      OBVIOUS
    <3> HIDE DEF h
    <3>3. /\ handoffs' = [f \in Events |-> handoffs'[f]]
          /\ \A f \in Events : handoffs'[f] = IF f = e THEN h ELSE handoffs[f]
      BY <3>1 DEF HandoffShape
    <3> QED BY <3>1, <3>2, <3>3 DEF HandoffShape, NoFailedHandoff
  <2>2. CASE ~HandsOver
    BY <1>1, <1>3, <2>2 DEF Shapes, NoFailedHandoff
  <2> QED BY <2>1, <2>2
<1>10. \/ Sets(e, "admitting") /\ e \in Known /\ Free(e) /\ ~stopped
       \/ inv' = inv
  <2>1. CASE HandsOver /\ ~again'
    <3>1. e \in Known /\ e \in Events /\ Phase(e) = "none" /\ pending # e /\ ~stopped
      BY <1>1, <1>3, <1>4, <1>5, <2>1 DEF Shapes
    <3>2. inv' = [inv EXCEPT ![e] = Invocation("admitting", 1, 0)]
      BY <1>3, <2>1
    <3> QED BY <1>1, <3>1, <3>2, SetsIs DEF Phases, Free
  <2>2. CASE ~(HandsOver /\ ~again')
    BY <1>3, <2>2
  <2> QED BY <2>1, <2>2
<1>11. InvocationsOK' /\ \A f \in Known : Free(f) /\ f # e => Free(f)'
  <2>1. CASE inv' = inv
    <3>1. InvocationsOK'
      BY <1>1, <1>3, <1>6, <1>7, <2>1, InvocationsSame
    <3> QED BY <1>3, <2>1, <3>1 DEF Free, Phase
  <2>2. CASE Sets(e, "admitting") /\ e \in Known /\ Free(e) /\ ~stopped
    <3>1. ~Active(e) /\ pending # e /\ e \notin Defers(ops)
      <4>1. Agree(e) /\ Phase(e) = "none"
        BY <1>1, <2>2 DEF Shapes, InvocationsOK, Free
      <4> QED BY <2>2, <4>1 DEF Agree, Active, Free
    <3>2. Defers(ops') = Defers(ops) \ {e}
      BY <1>6, <3>1
    <3>3. InvocationsOK'
      BY <1>1, <1>3, <1>7, <2>2, <3>1, <3>2, InvocationsMove
    <3>4. \A f \in Known : f \in Events
      BY <1>1 DEF Shapes
    <3> QED BY <1>3, <2>2, <3>3, <3>4 DEF Free, Sets
  <2> QED BY <1>10, <2>1, <2>2
<1>12. inv' = [f \in Events |-> inv'[f]] /\ \A f \in Events : InvocationShape(inv'[f])
  BY <1>1, <1>10, SamePhases DEF Sets
<1>13. again' \in BOOLEAN
  BY <1>3
<1>14. Shapes'
  BY <1>1, <1>3, <1>6, <1>7, <1>8, <1>9, <1>12, <1>13 DEF Shapes
<1>15. ASSUME faults' = 0 PROVE Unfailed'
  <2>1. Unfailed
    BY <1>1, <1>3, <1>15
  <2>2. ~again'
    BY <1>2, <1>3, <1>4, <2>1 DEF Unfailed, TakenFree, Free
  <2>3. memory' = None /\ NoFailedWrite' /\ NoFailedHandoff'
    BY <1>3, <1>6, <1>9, <2>1 DEF Unfailed, NoFailedWrite
  <2>4. RowFree'
    <3> SUFFICES ASSUME ~stopped', StatusIs("pending")' PROVE Free(row.event)' \/ HeadDefers(row.event)'
      BY DEF RowFree
    <3>1. PICK g : g = row.event
      OBVIOUS
    <3>2. row' = row /\ ~stopped /\ StatusIs("pending")
      BY <1>3, <1>8 DEF StatusIs
    <3>3. g \in Known /\ Free(g)
      <4>1. ~HeadDefers(g)
        BY <1>3 DEF HeadDefers, AtHead
      <4> QED BY <1>1, <2>1, <3>1, <3>2, <4>1 DEF Unfailed, RowFree, Shapes, RowShape, StatusIs
    <3>4. e # None => g # e
      BY <1>2, <1>3, <2>1, <3>1, <3>2 DEF Unfailed, TakenFree, RowWaits
    <3>5. g # None
      BY <1>1, <3>3, KnownAre
    <3>6. Free(g)'
      BY <1>11, <3>3, <3>4, <3>5
    <3> QED BY <3>1, <3>2, <3>6 DEF Free, Phase
  <2>5. TakenFree'
    BY <1>6 DEF TakenFree, AtHead
  <2>6. recovery' # "reset"
    BY <1>3, <1>5, <2>1 DEF Unfailed, Resetting
  <2> QED BY <2>2, <2>3, <2>4, <2>5, <2>6 DEF Unfailed
<1> QED BY <1>11, <1>14, <1>15 DEF TriggerInv

\* A step of the deferral keeps what a run without failures relies on, if the
\* row keeps its event, nothing new is taken, and no resume begins before the
\* rows of the last process are reset.
LEMMA UnfailedStays ==
    ASSUME DeferralAssumption, Shapes, Unfailed,
           UNCHANGED <<inv, pending, stopped, again, now>>, recovery' = recovery \/ recovery' = "done",
           ops # <<>> /\ Head(ops).kind = "defer" => ops' # <<>> /\ Head(ops') = Head(ops),
           AtHead("resume", "taken")' => AtHead("resume", "taken") /\ Head(ops') = Head(ops),
           StatusIs("pending")' => StatusIs("pending") /\ row'.event = row.event,
           recovery' = "reset" => Resetting',
           memory' = None, NoFailedWrite', NoFailedHandoff'
    PROVE  Unfailed'
<1>1. \A f \in Events : Free(f)' = Free(f)
  BY DEF Free, Phase
<1>2. RowFree'
  BY <1>1, RowStays DEF Unfailed
<1>3. TakenFree'
  BY <1>1, TakenStays DEF Unfailed
<1> QED BY <1>2, <1>3 DEF Unfailed

LEMMA TimerFiresKeeps ==
    ASSUME DeferralAssumption, TriggerInv, TimerFires
    PROVE  TriggerInv'
<1> DEFINE x == Op("resume", "start", generation, None, 0)
<1>1. Shapes /\ InvocationsOK /\ (faults = 0 => Unfailed)
  BY DEF TriggerInv
<1>2. /\ timer # None /\ timer <= now
      /\ \/ timer' = deadline /\ ops' = ops
         \/ timer' = None /\ ops' = Append(ops, x)
      /\ UNCHANGED <<row, memory, deadline, handoffs, faults>>
      /\ UNCHANGED <<now, backend, durable, stopped, inv, running, pending, pinned, recovery, arrived, again>>
  BY DEF TimerFires, FireTimer, Frame, schedulingVars
<1>3. x.kind = "resume" /\ x.step = "start" /\ OpShape(x, Known)
  BY DEF Op, OpShape, StepsOf
<1> HIDE DEF x
<1>4. /\ QueueShape(ops', Known) /\ Defers(ops') = Defers(ops)
      /\ Elements(ops') \subseteq Elements(ops) \cup {x}
      /\ ops' = ops \/ (ops' # <<>> /\ Head(ops') = IF ops = <<>> THEN x ELSE Head(ops))
  <2>1. CASE ops' = ops
    BY <1>1, <2>1 DEF Shapes
  <2>2. CASE ops' = Append(ops, x)
    <3>1. /\ QueueShape(Append(ops, x), Known)
          /\ Elements(Append(ops, x)) = Elements(ops) \cup {x}
          /\ Defers(Append(ops, x)) = Defers(ops) \cup (IF x.kind = "defer" THEN {x.event} ELSE {})
          /\ Append(ops, x) # <<>> /\ Head(Append(ops, x)) = IF ops = <<>> THEN x ELSE Head(ops)
      BY <1>1, <1>3, AppendOp DEF Shapes
    <3> QED BY <1>3, <2>2, <3>1
  <2> QED BY <1>2, <2>1, <2>2
<1>5. /\ RowShape(row', Known) /\ timer' \in Nat \cup {None} /\ HandoffShape(handoffs')
      /\ memory' \in Known \cup {None} /\ deadline' \in Nat /\ faults' \in Nat /\ faults <= faults'
      /\ now' \in 0..MaxTime /\ stopped' \in BOOLEAN /\ recovery' \in {"reset", "arm", "done"}
  BY <1>1, <1>2 DEF Shapes
<1>6. Shapes' /\ InvocationsOK'
  BY <1>1, <1>2, <1>4, <1>5, StoreSteps
<1>7. ASSUME faults' = 0 PROVE Unfailed'
  <2>1. Unfailed
    BY <1>1, <1>2, <1>7
  <2>2. recovery' # "reset"
    <3>1. now \in Nat /\ timer \in Nat
      BY <1>1, <1>2 DEF Shapes, DeferralAssumption
    <3> QED BY <1>2, <2>1, <3>1 DEF Unfailed, Resetting
  <2>3. memory' = None /\ NoFailedWrite' /\ NoFailedHandoff'
    BY <1>2, <1>3, <1>4, <2>1 DEF Unfailed, NoFailedWrite, NoFailedHandoff
  <2>4. ops # <<>> /\ Head(ops).kind = "defer" => ops' # <<>> /\ Head(ops') = Head(ops)
    BY <1>4
  <2>5. AtHead("resume", "taken")' => AtHead("resume", "taken") /\ Head(ops') = Head(ops)
    BY <1>3, <1>4 DEF AtHead
  <2>6. StatusIs("pending")' => StatusIs("pending") /\ row'.event = row.event
    BY <1>2 DEF StatusIs
  <2> QED BY <1>1, <1>2, <2>1, <2>2, <2>3, <2>4, <2>5, <2>6, UnfailedStays
<1> QED BY <1>6, <1>7 DEF TriggerInv

\* An operation takes its next step.
LEMMA OneFieldIs ==
    ASSUME NEW known, NEW o, OpShape(o, known), NEW v
    PROVE  /\ [o EXCEPT !.step = v] = Op(o.kind, v, o.gen, o.event, o.at)
           /\ [o EXCEPT !.gen = v] = Op(o.kind, o.step, v, o.event, o.at)
           /\ [o EXCEPT !.event = v] = Op(o.kind, o.step, o.gen, v, o.at)
           /\ [o EXCEPT !.at = v] = Op(o.kind, o.step, o.gen, o.event, v)
<1>0. o = [kind |-> o.kind, step |-> o.step, gen |-> o.gen, event |-> o.event, at |-> o.at]
  BY DEF OpShape, Op
<1> QED BY <1>0 DEF Op

LEMMA StepAtIs ==
    ASSUME NEW known, NEW o, OpShape(o, known), NEW t, NEW b
    PROVE  [o EXCEPT !.step = t, !.at = b] = Op(o.kind, t, o.gen, o.event, b)
<1>1. PICK r : r = [o EXCEPT !.step = t]
  OBVIOUS
<1>2. r = Op(o.kind, t, o.gen, o.event, o.at)
  BY <1>1, OneFieldIs
<1>3. [r EXCEPT !.at = b] = Op(o.kind, t, o.gen, o.event, b)
  BY <1>2 DEF Op
<1>4. [o EXCEPT !.step = t, !.at = b] = [r EXCEPT !.at = b]
  BY <1>1, Zenon
<1> QED BY <1>3, <1>4, Zenon

LEMMA StepEventIs ==
    ASSUME NEW known, NEW o, OpShape(o, known), NEW t, NEW f
    PROVE  [o EXCEPT !.step = t, !.event = f] = Op(o.kind, t, o.gen, f, o.at)
<1>1. PICK r : r = [o EXCEPT !.step = t]
  OBVIOUS
<1>2. r = Op(o.kind, t, o.gen, o.event, o.at)
  BY <1>1, OneFieldIs
<1>3. [r EXCEPT !.event = f] = Op(o.kind, t, o.gen, f, o.at)
  BY <1>2 DEF Op
<1>4. [o EXCEPT !.step = t, !.event = f] = [r EXCEPT !.event = f]
  BY <1>1, Zenon
<1> QED BY <1>3, <1>4, Zenon

LEMMA StepAllIs ==
    ASSUME NEW known, NEW o, OpShape(o, known), NEW t, NEW g, NEW f, NEW b
    PROVE  [o EXCEPT !.step = t, !.gen = g, !.event = f, !.at = b] = Op(o.kind, t, g, f, b)
<1>1. PICK r : r = [o EXCEPT !.step = t]
  OBVIOUS
<1>2. PICK r1 : r1 = [r EXCEPT !.gen = g]
  OBVIOUS
<1>3. PICK r2 : r2 = [r1 EXCEPT !.event = f]
  OBVIOUS
<1>4. r = Op(o.kind, t, o.gen, o.event, o.at)
  BY <1>1, OneFieldIs
<1>5. r1 = Op(o.kind, t, g, o.event, o.at)
  BY <1>2, <1>4 DEF Op
<1>6. r2 = Op(o.kind, t, g, f, o.at)
  BY <1>3, <1>5 DEF Op
<1>7. [r2 EXCEPT !.at = b] = Op(o.kind, t, g, f, b)
  BY <1>6 DEF Op
<1>8. [o EXCEPT !.step = t, !.gen = g, !.event = f, !.at = b] = [r2 EXCEPT !.at = b]
  BY <1>1, <1>2, <1>3, Zenon
<1> QED BY <1>7, <1>8, Zenon

LEMMA WriteDeferralKeeps ==
    ASSUME DeferralAssumption, TriggerInv, NEW ok \in BOOLEAN, WriteDeferral(ok), Outcome(ok), Frame, UNCHANGED handoffs
    PROVE  TriggerInv'
<1>1. Shapes /\ InvocationsOK /\ (faults = 0 => Unfailed)
  BY DEF TriggerInv
<1> DEFINE op == Head(ops)  stored == Upsert(op.event, op.at)
           x == IF ok THEN [op EXCEPT !.step = "stored", !.at = stored.notBefore] ELSE [op EXCEPT !.step = "unstored"]
<1>2. /\ ops # <<>> /\ op.kind = "defer" /\ op.step = "write"
      /\ row' = (IF ok THEN stored ELSE row) /\ ops' = <<x>> \o Tail(ops)
      /\ UNCHANGED <<memory, deadline, timer, handoffs>>
      /\ UNCHANGED <<now, backend, durable, stopped, inv, running, pending, pinned, recovery, arrived, again>>
  BY DEF WriteDeferral, AtHead, Step, Frame, schedulingVars
<1>3. faults' \in Nat /\ faults <= faults' /\ (faults' = 0 => ok /\ faults = 0)
  BY <1>1, OutcomeIs
<1>4. QueueShape(ops, Known) /\ OpShape(op, Known) /\ op \in Elements(ops) /\ op.event \in Known /\ op.at \in Nat
  BY <1>1, <1>2, HeadOp DEF Shapes, OpShape
<1>5. PICK n \in Nat : n >= op.at /\ stored = Pending(op.event, n)
  BY <1>1, <1>4, UpsertIs DEF Shapes
<1>6. RowShape(stored, Known) /\ stored.event = op.event /\ stored.notBefore = n /\ stored.status = "pending"
  BY <1>4, <1>5, PendingRow
<1>7. /\ [op EXCEPT !.step = "stored", !.at = stored.notBefore] = Op(op.kind, "stored", op.gen, op.event, stored.notBefore)
      /\ [op EXCEPT !.step = "unstored"] = Op(op.kind, "unstored", op.gen, op.event, op.at)
  <2> HIDE DEF op, stored
  <2>0. OpShape(op, Known)
    BY <1>4
  <2>1. \A b : [op EXCEPT !.step = "stored", !.at = b] = Op(op.kind, "stored", op.gen, op.event, b)
    BY <2>0, StepAtIs, Zenon
  <2>2. [op EXCEPT !.step = "unstored"] = Op(op.kind, "unstored", op.gen, op.event, op.at)
    BY <2>0, OneFieldIs
  <2> QED BY <2>1, <2>2, Zenon
<1> HIDE DEF op, stored
<1>8. x = IF ok THEN Op("defer", "stored", op.gen, op.event, n) ELSE Op("defer", "unstored", op.gen, op.event, op.at)
  BY <1>2, <1>6, <1>7, Zenon
<1> HIDE DEF x
<1>9. /\ x.kind = "defer" /\ x.event = op.event /\ OpShape(x, Known) /\ x.at \in Nat /\ x.at >= op.at
      /\ x.step = IF ok THEN "stored" ELSE "unstored"
  BY <1>4, <1>5, <1>8 DEF Op, OpShape, StepsOf
<1>10. /\ QueueShape(ops', Known) /\ Defers(ops') = Defers(ops)
       /\ Elements(ops') \subseteq Elements(ops) \cup {x} /\ ops' # <<>> /\ Head(ops') = x
  <2>1. Head(ops) = op
    BY DEF op
  <2> QED BY <1>2, <1>4, <1>9, <2>1, StepOp
<1>11. /\ RowShape(row', Known) /\ timer' \in Nat \cup {None} /\ HandoffShape(handoffs')
       /\ memory' \in Known \cup {None} /\ deadline' \in Nat
       /\ now' \in 0..MaxTime /\ stopped' \in BOOLEAN /\ recovery' \in {"reset", "arm", "done"}
  BY <1>1, <1>2, <1>6 DEF Shapes
<1>12. Shapes' /\ InvocationsOK' /\ \A f \in Events : Free(f)' = Free(f)
  BY <1>1, <1>2, <1>3, <1>10, <1>11, StoreSteps
<1>13. ASSUME faults' = 0 PROVE Unfailed'
  <2>1. Unfailed /\ ok
    BY <1>1, <1>3, <1>13
  <2>2. ~again' /\ memory' = None /\ NoFailedWrite' /\ NoFailedHandoff'
    BY <1>2, <1>9, <1>10, <2>1 DEF Unfailed, NoFailedWrite, NoFailedHandoff
  <2>3. row'.event = op.event /\ row'.status = "pending" /\ AtHead("defer", "stored")' /\ Head(ops').event = op.event
    BY <1>2, <1>6, <1>9, <1>10, <2>1 DEF AtHead
  <2>4. RowFree'
    BY <2>3 DEF RowFree, HeadDefers
  <2>5. TakenFree'
    BY <1>9, <1>10 DEF TakenFree, AtHead
  <2>6. recovery' = "reset" => Resetting'
    <3> HAVE recovery' = "reset"
    <3>1. Resetting
      BY <1>2, <2>1 DEF Unfailed
    <3>2. now \in Nat
      BY <1>1 DEF Shapes, DeferralAssumption
    <3>3. x.at > now
      BY <1>2, <1>4, <1>9, <3>1, <3>2 DEF Resetting
    <3>4. \A o \in Elements(ops') : o.kind # "resume" /\ (o.kind = "defer" => o.at > now)
      BY <1>9, <1>10, <3>1, <3>3 DEF Resetting
    <3>5. ~StatusIs("claimed")'
      BY <2>3 DEF StatusIs
    <3> QED BY <1>2, <3>1, <3>4, <3>5 DEF Resetting
  <2> QED BY <2>2, <2>4, <2>5, <2>6 DEF Unfailed
<1> QED BY <1>12, <1>13 DEF TriggerInv

\* The head of the queue is done: what the rest of it is.
LEMMA DoneIs ==
    ASSUME Shapes, ops # <<>>, ops' = Tail(ops)
    PROVE  /\ QueueShape(ops', Known) /\ Elements(ops') \subseteq Elements(ops)
           /\ Head(ops).kind # "defer" => Defers(ops') = Defers(ops)
           /\ ~AtHead("resume", "taken")' /\ (NoFailedWrite => NoFailedWrite')
<1>1. /\ QueueShape(Tail(ops), Known) /\ Elements(Tail(ops)) \subseteq Elements(ops)
      /\ Defers(Tail(ops)) = Defers(ops) \ (IF Head(ops).kind = "defer" THEN {Head(ops).event} ELSE {})
      /\ Tail(ops) # <<>> /\ Head(Tail(ops)).kind = "resume" => Head(Tail(ops)).step = "start"
  BY TailOp DEF Shapes
<1>2. ~AtHead("resume", "taken")'
  BY <1>1 DEF AtHead
<1> QED BY <1>1, <1>2 DEF NoFailedWrite

LEMMA WriteCancelKeeps ==
    ASSUME DeferralAssumption, TriggerInv, NEW ok \in BOOLEAN, WriteCancel(ok), Outcome(ok), Frame, UNCHANGED handoffs
    PROVE  TriggerInv'
<1>1. Shapes /\ InvocationsOK /\ (faults = 0 => Unfailed)
  BY DEF TriggerInv
<1>2. /\ ops # <<>> /\ Head(ops).kind = "cancel" /\ ops' = Tail(ops)
      /\ row' = (IF ok THEN None ELSE row)
      /\ UNCHANGED <<memory, deadline, timer, handoffs>>
      /\ UNCHANGED <<now, backend, durable, stopped, inv, running, pending, pinned, recovery, arrived, again>>
  BY DEF WriteCancel, AtHead, Done, Frame, schedulingVars
<1>3. faults' \in Nat /\ faults <= faults' /\ (faults' = 0 => ok /\ faults = 0)
  BY <1>1, OutcomeIs
<1>4. /\ QueueShape(ops', Known) /\ Elements(ops') \subseteq Elements(ops) /\ Defers(ops') = Defers(ops)
      /\ ~AtHead("resume", "taken")' /\ (NoFailedWrite => NoFailedWrite')
  BY <1>1, <1>2, DoneIs
<1>5. /\ RowShape(row', Known) /\ timer' \in Nat \cup {None} /\ HandoffShape(handoffs')
      /\ memory' \in Known \cup {None} /\ deadline' \in Nat
      /\ now' \in 0..MaxTime /\ stopped' \in BOOLEAN /\ recovery' \in {"reset", "arm", "done"}
  BY <1>1, <1>2 DEF Shapes, RowShape
<1>6. Shapes' /\ InvocationsOK'
  BY <1>1, <1>2, <1>3, <1>4, <1>5, StoreSteps
<1>7. ASSUME faults' = 0 PROVE Unfailed'
  <2>1. Unfailed /\ row' = None
    BY <1>1, <1>2, <1>3, <1>7
  <2>2. memory' = None /\ NoFailedWrite' /\ NoFailedHandoff'
    BY <1>2, <1>4, <2>1 DEF Unfailed, NoFailedHandoff
  <2>3. recovery' = "reset" => Resetting'
    BY <1>2, <1>4, <2>1 DEF Unfailed, Resetting, StatusIs
  <2>4. ~StatusIs("pending")'
    BY <2>1 DEF StatusIs
  <2>5. Head(ops).kind # "defer"
    BY <1>2
  <2> QED BY <1>1, <1>2, <1>4, <2>1, <2>2, <2>3, <2>4, <2>5, UnfailedStays
<1> QED BY <1>6, <1>7 DEF TriggerInv

LEMMA TakeMemoryKeeps ==
    ASSUME DeferralAssumption, TriggerInv, NEW ok \in BOOLEAN, TakeMemory(ok), Outcome(ok), Frame, UNCHANGED handoffs
    PROVE  TriggerInv'
<1>1. Shapes /\ InvocationsOK /\ (faults = 0 => Unfailed)
  BY DEF TriggerInv
<1>2. PICK o : o = Head(ops)
  OBVIOUS
<1>3. /\ ops # <<>> /\ o.kind = "resume" /\ o.step = "memory" /\ ops' = <<[o EXCEPT !.step = "taken"]>> \o Tail(ops)
      /\ row' = (IF ok THEN None ELSE row)
      /\ UNCHANGED <<memory, deadline, timer, handoffs>>
      /\ UNCHANGED <<now, backend, durable, stopped, inv, running, pending, pinned, recovery, arrived, again>>
  BY <1>2 DEF TakeMemory, AtHead, Step, Frame, schedulingVars
<1>4. faults' \in Nat /\ faults <= faults'
  BY <1>1, OutcomeIs
<1>5. QueueShape(ops, Known) /\ OpShape(o, Known) /\ o \in Elements(ops)
  BY <1>1, <1>2, <1>3, HeadOp DEF Shapes
<1>6. PICK x : x = [o EXCEPT !.step = "taken"]
  OBVIOUS
<1>7. x = Op(o.kind, "taken", o.gen, o.event, o.at)
  BY <1>5, <1>6, OneFieldIs
<1>8. OpShape(x, Known) /\ x.kind = "resume"
  BY <1>3, <1>5, <1>7 DEF Op, OpShape, StepsOf
<1>9. QueueShape(ops', Known) /\ Defers(ops') = Defers(ops)
  <2>1. ops' = <<x>> \o Tail(ops)
    BY <1>3, <1>6
  <2>2. x.kind = Head(ops).kind /\ x.kind # "defer" /\ ops # <<>>
    BY <1>2, <1>3, <1>8
  <2>3. QueueShape(<<x>> \o Tail(ops), Known) /\ Defers(<<x>> \o Tail(ops)) = Defers(ops)
    BY <1>5, <1>8, <2>2, StepOp
  <2>4. PICK q : q = <<x>> \o Tail(ops)
    OBVIOUS
  <2>5. ops' = q /\ QueueShape(q, Known) /\ Defers(q) = Defers(ops)
    BY <2>1, <2>3, <2>4
  <2> QED BY <2>5
<1>10. /\ RowShape(row', Known) /\ timer' \in Nat \cup {None} /\ HandoffShape(handoffs')
       /\ memory' \in Known \cup {None} /\ deadline' \in Nat
       /\ now' \in 0..MaxTime /\ stopped' \in BOOLEAN /\ recovery' \in {"reset", "arm", "done"}
  BY <1>1, <1>3 DEF Shapes, RowShape
<1>11. Shapes' /\ InvocationsOK'
  BY <1>1, <1>3, <1>4, <1>9, <1>10, StoreSteps
<1>12. faults' # 0
  <2>1. ~Unfailed
    BY <1>3, <1>5 DEF Unfailed, NoFailedWrite
  <2> QED BY <1>1, <1>4, <2>1 DEF Shapes
<1> QED BY <1>11, <1>12 DEF TriggerInv

LEMMA StoreStepKeeps ==
    ASSUME DeferralAssumption, TriggerInv, NEW ok \in BOOLEAN, StoreStep(ok)
    PROVE  TriggerInv'
<1>1. /\ WriteDeferral(ok) \/ WriteCancel(ok) \/ TakeMemory(ok)
      /\ Outcome(ok) /\ Frame /\ UNCHANGED handoffs
  BY DEF StoreStep
<1> QED BY <1>1, WriteDeferralKeeps, WriteCancelKeeps, TakeMemoryKeeps

LEMMA StoreFailsKeeps ==
    ASSUME DeferralAssumption, TriggerInv, StoreFails
    PROVE  TriggerInv'
<1>1. Shapes /\ InvocationsOK
  BY DEF TriggerInv
<1>2. /\ ops # <<>> /\ Head(ops).kind = "resume" /\ ops' = Tail(ops) /\ Outcome(FALSE)
      /\ row' \in {row, Released} /\ (Arm(Later(now)) \/ UNCHANGED <<timer, deadline>>)
      /\ UNCHANGED <<memory, handoffs>>
      /\ UNCHANGED <<now, backend, durable, stopped, inv, running, pending, pinned, recovery, arrived, again>>
  BY DEF StoreFails, ResumeThrows, AtHead, Done, Frame, schedulingVars
<1>3. faults' \in Nat /\ faults <= faults' /\ faults' # 0
  BY <1>1, <1>2, OutcomeIs
<1>4. QueueShape(ops', Known) /\ Defers(ops') = Defers(ops)
  BY <1>1, <1>2, DoneIs
<1>5. Later(now) \in Nat
  BY <1>1, LaterIs DEF Shapes, DeferralAssumption
<1>6. timer' \in Nat \cup {None} /\ deadline' \in Nat
  BY <1>1, <1>2, <1>5, ArmIs DEF Shapes
<1>7. /\ RowShape(row', Known) /\ HandoffShape(handoffs') /\ memory' \in Known \cup {None}
      /\ now' \in 0..MaxTime /\ stopped' \in BOOLEAN /\ recovery' \in {"reset", "arm", "done"}
  BY <1>1, <1>2, ReleasedIs DEF Shapes
<1>8. Shapes' /\ InvocationsOK'
  BY <1>1, <1>2, <1>3, <1>4, <1>6, <1>7, StoreSteps
<1> QED BY <1>3, <1>8 DEF TriggerInv

\* A resume begins: it is dropped, or looks for its event.
LEMMA ResumeStartKeeps ==
    ASSUME DeferralAssumption, TriggerInv, ResumeStart, Frame, UNCHANGED <<handoffs, faults>>
    PROVE  TriggerInv'
<1>1. Shapes /\ InvocationsOK /\ (faults = 0 => Unfailed)
  BY DEF TriggerInv
<1>2. PICK o : o = Head(ops)
  OBVIOUS
<1>3. /\ ops # <<>> /\ o.kind = "resume" /\ o.step = "start"
      /\ \/ ops' = Tail(ops)
         \/ memory # None /\ ops' = <<[o EXCEPT !.step = "memory", !.event = memory]>> \o Tail(ops)
         \/ ops' = <<[o EXCEPT !.step = "taken"]>> \o Tail(ops)
         \/ row # None /\ ops' = <<[o EXCEPT !.step = "row", !.at = row.notBefore]>> \o Tail(ops)
      /\ UNCHANGED <<row, memory, deadline, timer, handoffs, faults>>
      /\ UNCHANGED <<now, backend, durable, stopped, inv, running, pending, pinned, recovery, arrived, again>>
  BY <1>2, Zenon DEF ResumeStart, AtHead, Step, Done, Frame, schedulingVars
<1>4. QueueShape(ops, Known) /\ OpShape(o, Known) /\ o \in Elements(ops) /\ o.event = None
  BY <1>1, <1>2, <1>3, HeadOp DEF Shapes, OpShape
<1>5. /\ memory # None => memory \in Known
      /\ row # None => row.notBefore \in Nat
  BY <1>1 DEF Shapes, RowShape
<1>6. \/ ops' = Tail(ops)
      \/ \E x : /\ ops' = <<x>> \o Tail(ops) /\ OpShape(x, Known) /\ x.kind = "resume"
                /\ x.step # "unstored"
                /\ \/ x.step = "memory" /\ memory # None
                   \/ x.step # "memory" /\ x.event = None
  <2>1. CASE memory # None /\ ops' = <<[o EXCEPT !.step = "memory", !.event = memory]>> \o Tail(ops)
    <3>1. PICK x : x = [o EXCEPT !.step = "memory", !.event = memory]
      OBVIOUS
    <3>2. \A f : [o EXCEPT !.step = "memory", !.event = f] = Op(o.kind, "memory", o.gen, f, o.at)
      <4>1. OpShape(o, Known)
        BY <1>4
      <4> QED BY <4>1, StepEventIs, Zenon
    <3>3. x = Op(o.kind, "memory", o.gen, memory, o.at)
      BY <3>1, <3>2, Zenon
    <3>4. OpShape(x, Known) /\ x.kind = "resume" /\ x.step = "memory"
      BY <1>3, <1>4, <1>5, <2>1, <3>3 DEF Op, OpShape, StepsOf
    <3>5. ops' = <<x>> \o Tail(ops)
      BY <2>1, <3>1, Zenon
    <3> QED BY <2>1, <3>4, <3>5
  <2>2. CASE ops' = <<[o EXCEPT !.step = "taken"]>> \o Tail(ops)
    <3>1. PICK x : x = [o EXCEPT !.step = "taken"]
      OBVIOUS
    <3>2. x = Op(o.kind, "taken", o.gen, o.event, o.at)
      BY <1>4, <3>1, OneFieldIs
    <3>3. OpShape(x, Known) /\ x.kind = "resume" /\ x.step = "taken" /\ x.event = None
      BY <1>3, <1>4, <3>2 DEF Op, OpShape, StepsOf
    <3>4. ops' = <<x>> \o Tail(ops)
      BY <2>2, <3>1, Zenon
    <3> QED BY <3>3, <3>4
  <2>3. CASE row # None /\ ops' = <<[o EXCEPT !.step = "row", !.at = row.notBefore]>> \o Tail(ops)
    <3>1. PICK x : x = [o EXCEPT !.step = "row", !.at = row.notBefore]
      OBVIOUS
    <3>2. \A b : [o EXCEPT !.step = "row", !.at = b] = Op(o.kind, "row", o.gen, o.event, b)
      <4>1. OpShape(o, Known)
        BY <1>4
      <4> QED BY <4>1, StepAtIs, Zenon
    <3>3. x = Op(o.kind, "row", o.gen, o.event, row.notBefore)
      BY <3>1, <3>2, Zenon
    <3>4. OpShape(x, Known) /\ x.kind = "resume" /\ x.step = "row" /\ x.event = None
      BY <1>3, <1>4, <1>5, <2>3, <3>3 DEF Op, OpShape, StepsOf
    <3>5. ops' = <<x>> \o Tail(ops)
      BY <2>3, <3>1, Zenon
    <3> QED BY <3>4, <3>5
  <2> QED BY <1>3, <2>1, <2>2, <2>3
<1>7. /\ QueueShape(ops', Known) /\ Defers(ops') = Defers(ops)
      /\ memory = None => TakenFree' /\ (NoFailedWrite => NoFailedWrite')
  <2>1. CASE ops' = Tail(ops)
    BY <1>1, <1>2, <1>3, <2>1, DoneIs DEF TakenFree
  <2>2. CASE ops' # Tail(ops)
    <3>0. PICK x : /\ ops' = <<x>> \o Tail(ops) /\ OpShape(x, Known) /\ x.kind = "resume"
                   /\ x.step # "unstored"
                   /\ \/ x.step = "memory" /\ memory # None
                      \/ x.step # "memory" /\ x.event = None
      BY <1>6, <2>2
    <3>1. x.kind = Head(ops).kind /\ x.kind # "defer"
      BY <1>2, <1>3, <3>0
    <3>2. /\ QueueShape(ops', Known) /\ Elements(ops') \subseteq Elements(ops) \cup {x}
          /\ Defers(ops') = Defers(ops) /\ ops' # <<>> /\ Head(ops') = x
      BY <1>3, <1>4, <3>0, <3>1, StepOp
    <3>3. memory = None => x.step # "memory" /\ x.event = None
      BY <3>0
    <3> QED BY <3>0, <3>2, <3>3 DEF TakenFree, AtHead, NoFailedWrite
  <2> QED BY <2>1, <2>2
<1>8. /\ RowShape(row', Known) /\ timer' \in Nat \cup {None} /\ HandoffShape(handoffs')
      /\ memory' \in Known \cup {None} /\ deadline' \in Nat /\ faults' \in Nat /\ faults <= faults'
      /\ now' \in 0..MaxTime /\ stopped' \in BOOLEAN /\ recovery' \in {"reset", "arm", "done"}
  BY <1>1, <1>3 DEF Shapes
<1>9. Shapes' /\ InvocationsOK' /\ \A f \in Events : Free(f)' = Free(f)
  BY <1>1, <1>3, <1>7, <1>8, StoreSteps
<1>10. ASSUME faults' = 0 PROVE Unfailed'
  <2>1. Unfailed
    BY <1>1, <1>3, <1>10
  <2>2. ~again' /\ memory' = None /\ TakenFree' /\ NoFailedWrite' /\ NoFailedHandoff'
    BY <1>3, <1>7, <2>1 DEF Unfailed, NoFailedHandoff
  <2>3. RowFree'
    <3>1. StatusIs("pending")' => StatusIs("pending") /\ row'.event = row.event
      BY <1>3 DEF StatusIs
    <3>2. Head(ops).kind # "defer"
      BY <1>2, <1>3
    <3> QED BY <1>1, <1>3, <1>9, <2>1, <3>1, <3>2, RowStays DEF Unfailed
  <2>4. recovery' # "reset"
    BY <1>3, <1>4, <2>1 DEF Unfailed, Resetting
  <2> QED BY <2>2, <2>3, <2>4 DEF Unfailed
<1> QED BY <1>9, <1>10 DEF TriggerInv

\* The claim of the row: its event is the one that is taken.
LEMMA TakeRowKeeps ==
    ASSUME DeferralAssumption, TriggerInv, TakeRow, Frame, UNCHANGED <<handoffs, faults>>
    PROVE  TriggerInv'
<1>1. Shapes /\ InvocationsOK /\ (faults = 0 => Unfailed)
  BY DEF TriggerInv
<1>2. PICK o : o = Head(ops)
  OBVIOUS
<1>3. /\ ops # <<>> /\ o.kind = "resume" /\ o.step = "row"
      /\ \/ Arm(o.at) /\ ops' = <<[o EXCEPT !.step = "taken"]>> \o Tail(ops) /\ row' = row
         \/ /\ StatusIs("pending") /\ row' = [row EXCEPT !.status = "claimed"]
            /\ ops' = <<[o EXCEPT !.step = "taken", !.event = row.event]>> \o Tail(ops)
            /\ UNCHANGED <<timer, deadline>>
         \/ ops' = <<[o EXCEPT !.step = "taken"]>> \o Tail(ops) /\ UNCHANGED <<row, timer, deadline>>
      /\ UNCHANGED <<memory, handoffs, faults>>
      /\ UNCHANGED <<now, backend, durable, stopped, inv, running, pending, pinned, recovery, arrived, again>>
  BY <1>2, Zenon DEF TakeRow, AtHead, Step, Frame, schedulingVars
<1>4. QueueShape(ops, Known) /\ OpShape(o, Known) /\ o \in Elements(ops) /\ o.event = None /\ o.at \in Nat
  BY <1>1, <1>2, <1>3, HeadOp DEF Shapes, OpShape
<1>5. timer' \in Nat \cup {None} /\ deadline' \in Nat
  BY <1>1, <1>3, <1>4, ArmIs DEF Shapes
<1>6. \E x : /\ ops' = <<x>> \o Tail(ops) /\ OpShape(x, Known) /\ x.kind = "resume" /\ x.step = "taken"
             /\ RowShape(row', Known)
             /\ \/ x.event = None /\ row' = row
                \/ StatusIs("pending") /\ x.event = row.event /\ row'.status = "claimed"
  <2>1. CASE ops' = <<[o EXCEPT !.step = "taken"]>> \o Tail(ops) /\ row' = row
    <3>1. PICK x : x = [o EXCEPT !.step = "taken"]
      OBVIOUS
    <3>2. x = Op(o.kind, "taken", o.gen, o.event, o.at)
      BY <1>4, <3>1, OneFieldIs
    <3>3. OpShape(x, Known) /\ x.kind = "resume" /\ x.step = "taken" /\ x.event = None
      BY <1>3, <1>4, <3>2 DEF Op, OpShape, StepsOf
    <3>4. ops' = <<x>> \o Tail(ops)
      BY <2>1, <3>1, Zenon
    <3>5. RowShape(row', Known)
      BY <1>1, <2>1 DEF Shapes
    <3> QED BY <2>1, <3>3, <3>4, <3>5
  <2>2. CASE /\ StatusIs("pending") /\ row' = [row EXCEPT !.status = "claimed"]
             /\ ops' = <<[o EXCEPT !.step = "taken", !.event = row.event]>> \o Tail(ops)
    <3>1. PICK x : x = [o EXCEPT !.step = "taken", !.event = row.event]
      OBVIOUS
    <3>2. \A f : [o EXCEPT !.step = "taken", !.event = f] = Op(o.kind, "taken", o.gen, f, o.at)
      <4>1. OpShape(o, Known)
        BY <1>4
      <4> QED BY <4>1, StepEventIs, Zenon
    <3>3. x = Op(o.kind, "taken", o.gen, row.event, o.at)
      BY <3>1, <3>2, Zenon
    <3>4. /\ row = [event |-> row.event, notBefore |-> row.notBefore, status |-> row.status]
          /\ row.event \in Known /\ row.notBefore \in Nat
      BY <1>1, <2>2 DEF Shapes, RowShape, StatusIs
    <3>5. OpShape(x, Known) /\ x.kind = "resume" /\ x.step = "taken" /\ x.event = row.event
      BY <1>3, <1>4, <3>3, <3>4 DEF Op, OpShape, StepsOf
    <3>6. row' = [event |-> row.event, notBefore |-> row.notBefore, status |-> "claimed"]
      BY <2>2, <3>4
    <3>7. RowShape(row', Known) /\ row'.status = "claimed"
      BY <3>4, <3>6 DEF RowShape
    <3>8. ops' = <<x>> \o Tail(ops)
      BY <2>2, <3>1, Zenon
    <3> QED BY <2>2, <3>5, <3>7, <3>8
  <2> QED BY <1>3, <2>1, <2>2
<1>7. PICK x : /\ ops' = <<x>> \o Tail(ops) /\ OpShape(x, Known) /\ x.kind = "resume" /\ x.step = "taken"
               /\ RowShape(row', Known)
               /\ \/ x.event = None /\ row' = row
                  \/ StatusIs("pending") /\ x.event = row.event /\ row'.status = "claimed"
  BY <1>6
<1>8. /\ QueueShape(ops', Known) /\ Elements(ops') \subseteq Elements(ops) \cup {x}
      /\ Defers(ops') = Defers(ops) /\ ops' # <<>> /\ Head(ops') = x
  <2>1. x.kind = Head(ops).kind /\ x.kind # "defer"
    BY <1>2, <1>3, <1>7
  <2> QED BY <1>3, <1>4, <1>7, <2>1, StepOp
<1>9. /\ HandoffShape(handoffs') /\ RowShape(row', Known)
      /\ memory' \in Known \cup {None} /\ faults' \in Nat /\ faults <= faults'
      /\ now' \in 0..MaxTime /\ stopped' \in BOOLEAN /\ recovery' \in {"reset", "arm", "done"}
  BY <1>1, <1>3, <1>7 DEF Shapes
<1>10. Shapes' /\ InvocationsOK' /\ \A f \in Events : Free(f)' = Free(f)
  BY <1>1, <1>3, <1>5, <1>8, <1>9, StoreSteps
<1>11. ASSUME faults' = 0 PROVE Unfailed'
  <2>1. Unfailed
    BY <1>1, <1>3, <1>11
  <2>2. ~again' /\ memory' = None /\ NoFailedWrite' /\ NoFailedHandoff'
    BY <1>3, <1>7, <1>8, <2>1 DEF Unfailed, NoFailedWrite, NoFailedHandoff
  <2>3. StatusIs("pending")' => StatusIs("pending") /\ row' = row /\ x.event = None
    BY <1>7 DEF StatusIs
  <2>4. RowFree'
    <3>1. Head(ops).kind # "defer"
      BY <1>2, <1>3
    <3> QED BY <1>1, <1>3, <1>10, <2>1, <2>3, <3>1, RowStays DEF Unfailed
  <2>5. TakenFree'
    <3> SUFFICES ASSUME ~stopped', Head(ops)'.event # None
                 PROVE  Free(Head(ops).event)' /\ ~RowWaits(Head(ops).event)'
      BY DEF TakenFree
    <3>1. PICK g : g = row.event
      OBVIOUS
    <3>2. Head(ops') = x /\ x.event = g /\ StatusIs("pending") /\ ~stopped
      BY <1>3, <1>7, <1>8, <3>1
    <3>3. g \in Events
      BY <1>1, <3>1, <3>2 DEF Shapes, RowShape, StatusIs
    <3>4. Free(g)
      <4>1. ~HeadDefers(g)
        BY <1>2, <1>3 DEF HeadDefers, AtHead
      <4> QED BY <2>1, <3>1, <3>2, <4>1 DEF Unfailed, RowFree
    <3>5. Free(g)' /\ ~StatusIs("pending")'
      BY <1>7, <1>8, <1>10, <2>3, <3>2, <3>3, <3>4
    <3> QED BY <3>2, <3>5 DEF Free, Phase, RowWaits
  <2>6. recovery' # "reset"
    BY <1>3, <1>4, <2>1 DEF Unfailed, Resetting
  <2> QED BY <2>2, <2>4, <2>5, <2>6 DEF Unfailed
<1> QED BY <1>10, <1>11 DEF TriggerInv

LEMMA ResumesKeeps ==
    ASSUME DeferralAssumption, TriggerInv, Resumes
    PROVE  TriggerInv'
BY ResumeStartKeeps, TakeRowKeeps DEF Resumes

LEMMA HandoffStepKeeps ==
    ASSUME DeferralAssumption, TriggerInv, NEW e \in Events, NEW ok \in BOOLEAN, HandoffStep(e, ok)
    PROVE  TriggerInv'
<1>1. Shapes /\ InvocationsOK /\ (faults = 0 => Unfailed)
  BY DEF TriggerInv
<1>2. /\ SettleHandoff(e, ok) \/ FailHandoff(e, ok)
      /\ handoffs' = [handoffs EXCEPT ![e] = NoHandoff] /\ ops' = ops /\ Outcome(ok)
      /\ UNCHANGED <<now, backend, durable, stopped, inv, running, pending, pinned, recovery, arrived, again>>
  BY DEF HandoffStep, SettleHandoff, FailHandoff, Frame, schedulingVars
<1>3. faults' \in Nat /\ faults <= faults' /\ (faults' = 0 => faults = 0)
  BY <1>1, <1>2, OutcomeIs
<1>4. HandoffShape(handoffs') /\ (NoFailedHandoff => NoFailedHandoff')
  <2>1. HandoffShape(handoffs) /\ NoHandoff = [gen |-> NoHandoff.gen, step |-> NoHandoff.step] /\ NoHandoff.step = "none"
    BY <1>1 DEF Shapes, NoHandoff
  <2>2. /\ handoffs' = [f \in Events |-> handoffs'[f]]
        /\ \A f \in Events : handoffs'[f] = IF f = e THEN NoHandoff ELSE handoffs[f]
    BY <1>2, <2>1 DEF HandoffShape
  <2> QED BY <2>1, <2>2 DEF HandoffShape, NoFailedHandoff
<1>5. Later(now) \in Nat
  BY <1>1, LaterIs DEF Shapes, DeferralAssumption
<1>6. CASE SettleHandoff(e, ok)
  <2>1. /\ row' \in {row, Acknowledged} /\ timer' = timer
        /\ memory' \in {memory, None} /\ deadline' \in {deadline, 0}
    BY <1>6 DEF SettleHandoff
  <2>2. row' \in {row, None} /\ RowShape(row', Known)
    BY <1>1, <2>1, ReleasedIs DEF Shapes
  <2>3. /\ memory' \in Known \cup {None} /\ deadline' \in Nat /\ timer' \in Nat \cup {None}
        /\ QueueShape(ops', Known) /\ Defers(ops') = Defers(ops)
        /\ now' \in 0..MaxTime /\ stopped' \in BOOLEAN /\ recovery' \in {"reset", "arm", "done"}
    BY <1>1, <1>2, <2>1 DEF Shapes
  <2>4. Shapes' /\ InvocationsOK' /\ \A f \in Events : Free(f)' = Free(f)
    BY <1>1, <1>2, <1>3, <1>4, <2>2, <2>3, StoreSteps
  <2>5. ASSUME faults' = 0 PROVE Unfailed'
    <3>1. Unfailed
      BY <1>1, <1>3, <2>5
    <3>2. memory' = None /\ NoFailedWrite' /\ NoFailedHandoff'
      BY <1>2, <1>4, <2>1, <3>1 DEF Unfailed, NoFailedWrite
    <3>3. StatusIs("pending")' => StatusIs("pending") /\ row'.event = row.event
      BY <2>2 DEF StatusIs
    <3>4. recovery' = "reset" => Resetting'
      <4> HAVE recovery' = "reset"
      <4>1. Resetting
        BY <1>2, <3>1 DEF Unfailed
      <4>2. StatusIs("claimed")' => Free(row.event)'
        <5> HAVE StatusIs("claimed")'
        <5>1. row' = row /\ StatusIs("claimed")
          BY <2>2 DEF StatusIs
        <5> QED BY <1>2, <4>1, <5>1 DEF Resetting, Free, Phase
      <4> QED BY <1>2, <2>1, <4>1, <4>2 DEF Resetting
    <3>5. ops # <<>> /\ Head(ops).kind = "defer" => ops' # <<>> /\ Head(ops') = Head(ops)
      BY <1>2
    <3>6. AtHead("resume", "taken")' => AtHead("resume", "taken") /\ Head(ops') = Head(ops)
      BY <1>2 DEF AtHead
    <3> QED BY <1>1, <1>2, <3>1, <3>2, <3>3, <3>4, <3>5, <3>6, UnfailedStays
  <2> QED BY <2>4, <2>5 DEF TriggerInv
<1>7. CASE FailHandoff(e, ok)
  <2>1. row' \in {row, Released} /\ Arm(Later(now)) /\ memory' = memory /\ handoffs[e].step = "failing"
    BY <1>7 DEF FailHandoff
  <2>2. RowShape(row', Known) /\ deadline' \in Nat /\ timer' \in Nat \cup {None}
    BY <1>1, <1>5, <2>1, ReleasedIs, ArmIs DEF Shapes
  <2>3. /\ memory' \in Known \cup {None}
        /\ QueueShape(ops', Known) /\ Defers(ops') = Defers(ops)
        /\ now' \in 0..MaxTime /\ stopped' \in BOOLEAN /\ recovery' \in {"reset", "arm", "done"}
    BY <1>1, <1>2, <2>1 DEF Shapes
  <2>4. Shapes' /\ InvocationsOK'
    BY <1>1, <1>2, <1>3, <1>4, <2>2, <2>3, StoreSteps
  <2>5. faults' # 0
    BY <1>1, <1>3, <2>1 DEF Unfailed, NoFailedHandoff
  <2> QED BY <2>4, <2>5 DEF TriggerInv
<1> QED BY <1>2, <1>6, <1>7

LEMMA ExpiresKeeps ==
    ASSUME DeferralAssumption, TriggerInv, Expires
    PROVE  TriggerInv'
<1>1. Shapes /\ InvocationsOK /\ (faults = 0 => Unfailed)
  BY DEF TriggerInv
<1>2. PICK o : o = Head(ops)
  OBVIOUS
<1>3. /\ ops # <<>> /\ o.kind = "resume" /\ row' = None
      /\ ops' = <<[o EXCEPT !.step = "taken", !.event = None]>> \o Tail(ops)
      /\ memory' \in {memory, None}
      /\ UNCHANGED <<deadline, timer, handoffs, faults>>
      /\ UNCHANGED <<now, backend, durable, stopped, inv, running, pending, pinned, recovery, arrived, again>>
  BY <1>2, Zenon DEF Expires, TakeExpired, AtHead, Step, DropFrame, schedulingVars
<1>4. QueueShape(ops, Known) /\ OpShape(o, Known) /\ o \in Elements(ops)
  BY <1>1, <1>2, <1>3, HeadOp DEF Shapes
<1>5. PICK x : x = [o EXCEPT !.step = "taken", !.event = None]
  OBVIOUS
<1>6. x = Op(o.kind, "taken", o.gen, None, o.at)
  <2>1. OpShape(o, Known)
    BY <1>4
  <2>2. \A f : [o EXCEPT !.step = "taken", !.event = f] = Op(o.kind, "taken", o.gen, f, o.at)
    BY <2>1, StepEventIs, Zenon
  <2> QED BY <1>5, <2>2, Zenon
<1>7. OpShape(x, Known) /\ x.kind = "resume" /\ x.step = "taken" /\ x.event = None
  BY <1>3, <1>4, <1>6 DEF Op, OpShape, StepsOf
<1>8. /\ QueueShape(ops', Known) /\ Elements(ops') \subseteq Elements(ops) \cup {x}
      /\ Defers(ops') = Defers(ops) /\ ops' # <<>> /\ Head(ops') = x
  <2>1. ops' = <<x>> \o Tail(ops)
    BY <1>3, <1>5, Zenon
  <2>2. x.kind = Head(ops).kind /\ x.kind # "defer"
    BY <1>2, <1>3, <1>7
  <2>3. ops # <<>>
    BY <1>3
  <2> QED BY <1>4, <1>7, <2>1, <2>2, <2>3, StepOp
<1>9. /\ RowShape(row', Known) /\ timer' \in Nat \cup {None} /\ HandoffShape(handoffs')
      /\ memory' \in Known \cup {None} /\ deadline' \in Nat /\ faults' \in Nat /\ faults <= faults'
      /\ now' \in 0..MaxTime /\ stopped' \in BOOLEAN /\ recovery' \in {"reset", "arm", "done"}
  <2>1. row' = None /\ memory' \in {memory, None}
        /\ UNCHANGED <<deadline, timer, handoffs, faults, now, stopped, recovery>>
    BY <1>3
  <2> QED BY <1>1, <2>1 DEF Shapes, RowShape
<1>10. /\ UNCHANGED <<handoffs, faults, now, backend, durable, stopped, inv, running, pending, pinned, recovery, arrived, again>>
       /\ memory' \in {memory, None} /\ row' = None /\ o.kind = "resume"
  BY <1>3
<1>11. Shapes' /\ InvocationsOK'
  BY <1>1, <1>8, <1>9, <1>10, StoreSteps
<1>12. ASSUME faults' = 0 PROVE Unfailed'
  <2>1. Unfailed
    BY <1>1, <1>10, <1>12
  <2>2. ~again' /\ memory' = None /\ NoFailedWrite' /\ NoFailedHandoff'
    BY <1>7, <1>8, <1>10, <2>1 DEF Unfailed, NoFailedWrite, NoFailedHandoff
  <2>3. RowFree' /\ TakenFree'
    BY <1>7, <1>8, <1>10 DEF RowFree, TakenFree, StatusIs
  <2>4. recovery' # "reset"
    BY <1>4, <1>10, <2>1 DEF Unfailed, Resetting
  <2> QED BY <2>2, <2>3, <2>4 DEF Unfailed
<1> QED BY <1>11, <1>12 DEF TriggerInv

LEMMA WithdrawKeeps ==
    ASSUME DeferralAssumption, TriggerInv, Withdraw
    PROVE  TriggerInv'
<1> DEFINE x == Op("withdraw", "list", None, None, 0)
<1>1. Shapes /\ InvocationsOK /\ (faults = 0 => Unfailed)
  BY DEF TriggerInv
<1>2. /\ ops' = Append(ops, x)
      /\ UNCHANGED <<row, memory, deadline, timer, handoffs, faults>>
      /\ UNCHANGED <<now, backend, durable, stopped, inv, running, pending, pinned, recovery, arrived, again>>
  BY DEF Withdraw, CancelPending, DropFrame, schedulingVars
<1>3. x.kind = "withdraw" /\ x.step = "list" /\ OpShape(x, Known)
  BY DEF Op, OpShape, StepsOf
<1> HIDE DEF x
<1>4. /\ QueueShape(ops', Known) /\ Defers(ops') = Defers(ops)
      /\ Elements(ops') = Elements(ops) \cup {x}
      /\ ops' # <<>> /\ Head(ops') = IF ops = <<>> THEN x ELSE Head(ops)
  <2>1. /\ QueueShape(Append(ops, x), Known)
        /\ Elements(Append(ops, x)) = Elements(ops) \cup {x}
        /\ Defers(Append(ops, x)) = Defers(ops) \cup (IF x.kind = "defer" THEN {x.event} ELSE {})
        /\ Append(ops, x) # <<>> /\ Head(Append(ops, x)) = IF ops = <<>> THEN x ELSE Head(ops)
    BY <1>1, <1>3, AppendOp DEF Shapes
  <2> QED BY <1>2, <1>3, <2>1
<1>5. /\ RowShape(row', Known) /\ timer' \in Nat \cup {None} /\ HandoffShape(handoffs')
      /\ memory' \in Known \cup {None} /\ deadline' \in Nat /\ faults' \in Nat /\ faults <= faults'
      /\ now' \in 0..MaxTime /\ stopped' \in BOOLEAN /\ recovery' \in {"reset", "arm", "done"}
  BY <1>1, <1>2 DEF Shapes
<1>6. Shapes' /\ InvocationsOK'
  BY <1>1, <1>2, <1>4, <1>5, StoreSteps
<1>7. ASSUME faults' = 0 PROVE Unfailed'
  <2>1. Unfailed
    BY <1>1, <1>2, <1>7
  <2>2. memory' = None /\ NoFailedWrite' /\ NoFailedHandoff'
    BY <1>2, <1>3, <1>4, <2>1 DEF Unfailed, NoFailedWrite, NoFailedHandoff
  <2>3. recovery' = "reset" => Resetting'
    <3> HAVE recovery' = "reset"
    <3>1. Resetting
      BY <1>2, <2>1 DEF Unfailed
    <3>2. \A o \in Elements(ops') : o.kind # "resume" /\ (o.kind = "defer" => o.at > now)
      BY <1>3, <1>4, <3>1 DEF Resetting
    <3>3. StatusIs("claimed")' => Free(row.event)'
      BY <1>2, <3>1 DEF Resetting, StatusIs, Free, Phase
    <3> QED BY <1>2, <3>1, <3>2, <3>3 DEF Resetting
  <2>4. ops # <<>> /\ Head(ops).kind = "defer" => ops' # <<>> /\ Head(ops') = Head(ops)
    BY <1>4
  <2>5. AtHead("resume", "taken")' => AtHead("resume", "taken") /\ Head(ops') = Head(ops)
    BY <1>3, <1>4 DEF AtHead
  <2>6. StatusIs("pending")' => StatusIs("pending") /\ row'.event = row.event
    BY <1>2 DEF StatusIs
  <2> QED BY <1>1, <1>2, <2>1, <2>2, <2>3, <2>4, <2>5, <2>6, UnfailedStays
<1> QED BY <1>6, <1>7 DEF TriggerInv

\* The steps of a withdrawal: the row keeps its event or is gone, and the head
\* of the queue, a withdrawal, is done or takes its next step.
LEMMA WithdrawStepIs ==
    ASSUME DeferralAssumption, Shapes, WithdrawSteps
    PROVE  /\ ops # <<>> /\ Head(ops).kind = "withdraw"
           /\ \/ ops' = Tail(ops)
              \/ \E x : /\ ops' = <<x>> \o Tail(ops) /\ OpShape(x, Known) /\ x.kind = "withdraw"
                        /\ x.step \in {"erase", "erased"}
           /\ row' \in {row, None} /\ memory' \in {memory, None} /\ timer' \in {timer, None}
           /\ deadline' \in {deadline, 0}
           /\ UNCHANGED <<handoffs, faults>>
           /\ UNCHANGED <<now, backend, durable, stopped, inv, running, pending, pinned, recovery, arrived, again>>
<1>1. PICK o : o = Head(ops)
  OBVIOUS
<1>2. /\ UNCHANGED <<handoffs, faults>>
      /\ UNCHANGED <<now, backend, durable, stopped, inv, running, pending, pinned, recovery, arrived, again>>
  BY DEF WithdrawSteps, DropFrame, schedulingVars
<1>3. ops # <<>> /\ o.kind = "withdraw"
  BY <1>1, Zenon DEF WithdrawSteps, WithdrawList, WithdrawRow, WithdrawErased, AtHead
<1>4. OpShape(o, Known)
  BY <1>1, <1>3, HeadOp DEF Shapes
<1>5. CASE WithdrawList
  <2> DEFINE f == IF memory # None THEN memory ELSE row.event
             b == IF StatusIs("pending") THEN 1 ELSE 0
  <2>1. /\ \/ ops' = Tail(ops)
           \/ /\ memory # None \/ StatusIs("pending")
              /\ ops' = <<[o EXCEPT !.step = "erase", !.gen = generation, !.event = f, !.at = b]>> \o Tail(ops)
        /\ UNCHANGED <<row, memory, deadline, timer>>
    BY <1>1, <1>5, Zenon DEF WithdrawList, Step, Done
  <2>2. memory # None \/ StatusIs("pending") => f \in Known
    BY DEF Shapes, RowShape, StatusIs
  <2>3. b \in Nat
    OBVIOUS
  <2> HIDE DEF f, b
  <2>4. PICK x : x = [o EXCEPT !.step = "erase", !.gen = generation, !.event = f, !.at = b]
    OBVIOUS
  <2>5. x = Op(o.kind, "erase", generation, f, b)
    <3>1. \A g, h, c : [o EXCEPT !.step = "erase", !.gen = g, !.event = h, !.at = c] = Op(o.kind, "erase", g, h, c)
      BY <1>4, StepAllIs, Zenon
    <3> QED BY <2>4, <3>1, ZenonT(40)
  <2>6. f \in Known => OpShape(x, Known) /\ x.kind = "withdraw" /\ x.step = "erase"
    BY <1>3, <2>3, <2>5 DEF Op, OpShape, StepsOf
  <2>7. ops' = Tail(ops) \/ (f \in Known /\ ops' = <<x>> \o Tail(ops))
    BY <2>1, <2>2, <2>4, Zenon
  <2>8. UNCHANGED <<row, memory, deadline, timer>>
    BY <2>1
  <2> QED BY <1>1, <1>2, <1>3, <2>6, <2>7, <2>8
<1>6. CASE WithdrawRow
  <2>1. /\ row' \in {row, None} /\ UNCHANGED <<memory, deadline, timer>>
        /\ ops' = Tail(ops) \/ ops' = <<[o EXCEPT !.step = "erased"]>> \o Tail(ops)
    BY <1>1, <1>6 DEF WithdrawRow, Step, Done
  <2>2. PICK x : x = [o EXCEPT !.step = "erased"]
    OBVIOUS
  <2>3. x = Op(o.kind, "erased", o.gen, o.event, o.at)
    BY <1>4, <2>2, OneFieldIs
  <2>4. OpShape(x, Known) /\ x.kind = "withdraw" /\ x.step = "erased"
    BY <1>3, <1>4, <2>3 DEF Op, OpShape, StepsOf
  <2>5. ops' = Tail(ops) \/ ops' = <<x>> \o Tail(ops)
    BY <2>1, <2>2
  <2> QED BY <1>1, <1>2, <1>3, <2>1, <2>4, <2>5
<1>7. CASE WithdrawErased
  BY <1>1, <1>2, <1>3, <1>7 DEF WithdrawErased, Done
<1> QED BY <1>5, <1>6, <1>7 DEF WithdrawSteps

LEMMA WithdrawStepsKeeps ==
    ASSUME DeferralAssumption, TriggerInv, WithdrawSteps
    PROVE  TriggerInv'
<1>1. Shapes /\ InvocationsOK /\ (faults = 0 => Unfailed)
  BY DEF TriggerInv
<1>2. /\ ops # <<>> /\ Head(ops).kind = "withdraw"
      /\ \/ ops' = Tail(ops)
         \/ \E x : /\ ops' = <<x>> \o Tail(ops) /\ OpShape(x, Known) /\ x.kind = "withdraw"
                   /\ x.step \in {"erase", "erased"}
      /\ row' \in {row, None} /\ memory' \in {memory, None} /\ timer' \in {timer, None}
      /\ deadline' \in {deadline, 0}
      /\ UNCHANGED <<handoffs, faults>>
      /\ UNCHANGED <<now, backend, durable, stopped, inv, running, pending, pinned, recovery, arrived, again>>
  BY <1>1, WithdrawStepIs
<1>3. /\ QueueShape(ops', Known) /\ Defers(ops') = Defers(ops) /\ ~AtHead("resume", "taken")'
      /\ \A o \in Elements(ops') : o \in Elements(ops) \/ (o.kind = "withdraw" /\ o.step \in {"erase", "erased"})
  <2>1. CASE ops' = Tail(ops)
    BY <1>1, <1>2, <2>1, DoneIs
  <2>2. CASE ops' # Tail(ops)
    <3>1. PICK x : /\ ops' = <<x>> \o Tail(ops) /\ OpShape(x, Known) /\ x.kind = "withdraw"
                   /\ x.step \in {"erase", "erased"}
      BY <1>2, <2>2
    <3>2. x.kind = Head(ops).kind /\ x.kind # "defer" /\ ops # <<>> /\ QueueShape(ops, Known)
      BY <1>1, <1>2, <3>1 DEF Shapes
    <3>3. /\ QueueShape(ops', Known) /\ Elements(ops') \subseteq Elements(ops) \cup {x}
          /\ Defers(ops') = Defers(ops) /\ ops' # <<>> /\ Head(ops') = x
      BY <3>1, <3>2, StepOp
    <3> QED BY <3>1, <3>3 DEF AtHead
  <2> QED BY <2>1, <2>2
<1>4. /\ RowShape(row', Known) /\ timer' \in Nat \cup {None} /\ HandoffShape(handoffs')
      /\ memory' \in Known \cup {None} /\ deadline' \in Nat /\ faults' \in Nat /\ faults <= faults'
      /\ now' \in 0..MaxTime /\ stopped' \in BOOLEAN /\ recovery' \in {"reset", "arm", "done"}
  BY <1>1, <1>2 DEF Shapes, RowShape
<1>5. Shapes' /\ InvocationsOK'
  BY <1>1, <1>2, <1>3, <1>4, StoreSteps
<1>6. ASSUME faults' = 0 PROVE Unfailed'
  <2>1. Unfailed
    BY <1>1, <1>2, <1>6
  <2>2. memory' = None /\ NoFailedWrite' /\ NoFailedHandoff'
    BY <1>2, <1>3, <2>1 DEF Unfailed, NoFailedWrite, NoFailedHandoff
  <2>3. recovery' = "reset" => Resetting'
    <3> HAVE recovery' = "reset"
    <3>1. Resetting
      BY <1>2, <2>1 DEF Unfailed
    <3>2. \A o \in Elements(ops') : o.kind # "resume" /\ (o.kind = "defer" => o.at > now)
      BY <1>3, <3>1 DEF Resetting
    <3>3. StatusIs("claimed")' => Free(row.event)'
      <4> HAVE StatusIs("claimed")'
      <4>1. row' = row /\ StatusIs("claimed")
        BY <1>2 DEF StatusIs
      <4> QED BY <1>2, <3>1, <4>1 DEF Resetting, Free, Phase
    <3> QED BY <1>2, <3>1, <3>2, <3>3 DEF Resetting
  <2>4. StatusIs("pending")' => StatusIs("pending") /\ row'.event = row.event
    BY <1>2 DEF StatusIs
  <2>5. Head(ops).kind # "defer"
    BY <1>2
  <2> QED BY <1>1, <1>2, <1>3, <2>1, <2>2, <2>3, <2>4, <2>5, UnfailedStays
<1> QED BY <1>5, <1>6 DEF TriggerInv

-----------------------------------------------------------------------------
(* Time, shutdown, restart. *)

\* Only the clock, the shutdown or the generation changes, not during a reset.
LEMMA ClockKeeps ==
    ASSUME DeferralAssumption, TriggerInv,
           UNCHANGED <<ops, row, memory, handoffs, faults>>,
           UNCHANGED <<backend, durable, inv, running, pending, pinned, arrived, again>>,
           now' \in 0..MaxTime, stopped' \in {stopped, TRUE}, deadline' \in Nat, timer' \in Nat \cup {None},
           recovery' = "done"
    PROVE  TriggerInv'
<1>1. Shapes /\ InvocationsOK /\ (faults = 0 => Unfailed)
  BY DEF TriggerInv
<1>2. /\ QueueShape(ops', Known) /\ Defers(ops') = Defers(ops)
      /\ RowShape(row', Known) /\ HandoffShape(handoffs')
      /\ memory' \in Known \cup {None} /\ faults' \in Nat /\ faults <= faults'
      /\ stopped' \in BOOLEAN /\ recovery' \in {"reset", "arm", "done"}
  <2>1. /\ ops' = ops /\ row' = row /\ memory' = memory /\ handoffs' = handoffs /\ faults' = faults
    OBVIOUS
  <2>2. QueueShape(ops', Known) /\ Defers(ops') = Defers(ops) /\ RowShape(row', Known) /\ HandoffShape(handoffs')
    BY <1>1, <2>1 DEF Shapes
  <2>3. memory' \in Known \cup {None} /\ faults' \in Nat /\ faults <= faults'
    BY <1>1, <2>1 DEF Shapes
  <2>4. stopped' \in BOOLEAN /\ recovery' \in {"reset", "arm", "done"}
    BY <1>1 DEF Shapes
  <2> QED BY <2>2, <2>3, <2>4
<1>3. Shapes' /\ InvocationsOK'
  BY <1>1, <1>2, StoreSteps
<1>4. ASSUME faults' = 0 PROVE Unfailed'
  <2>1. Unfailed
    BY <1>1, <1>4
  <2>2. ~again' /\ memory' = None /\ NoFailedWrite' /\ NoFailedHandoff' /\ recovery' # "reset"
    BY <2>1 DEF Unfailed, NoFailedWrite, NoFailedHandoff
  <2>3. CASE stopped'
    BY <2>2, <2>3 DEF Unfailed, RowFree, TakenFree
  <2>4. CASE ~stopped'
    <3>1. ~stopped
      BY <2>4
    <3>2. RowFree'
      BY <2>1, <3>1 DEF Unfailed, RowFree, StatusIs, HeadDefers, AtHead, Free, Phase
    <3>3. TakenFree'
      BY <2>1, <3>1 DEF Unfailed, TakenFree, StatusIs, RowWaits, AtHead, Free, Phase
    <3> QED BY <2>2, <3>2, <3>3 DEF Unfailed
  <2> QED BY <2>3, <2>4
<1> QED BY <1>3, <1>4 DEF TriggerInv

LEMMA TickKeeps ==
    ASSUME DeferralAssumption, TriggerInv, Tick
    PROVE  TriggerInv'
<1>1. /\ now < MaxTime /\ now' = now + 1 /\ recovery' = "done" /\ stopped' = stopped
      /\ deadline' = deadline /\ timer' = timer
      /\ UNCHANGED <<ops, row, memory, handoffs, faults>>
      /\ UNCHANGED <<backend, durable, inv, running, pending, pinned, arrived, again>>
  BY DEF Tick, schedulingVars, historyVars, bounds
<1>2. now \in 0..MaxTime /\ deadline \in Nat /\ timer \in Nat \cup {None} /\ MaxTime \in Nat
  BY DEF TriggerInv, Shapes, DeferralAssumption
<1>3. now' \in 0..MaxTime
  BY <1>1, <1>2
<1> QED BY <1>1, <1>2, <1>3, ClockKeeps

LEMMA StopKeeps ==
    ASSUME DeferralAssumption, TriggerInv, Stop
    PROVE  TriggerInv'
<1>1. /\ now' = now /\ recovery' = "done" /\ stopped' = TRUE /\ deadline' = deadline /\ timer' = None
      /\ UNCHANGED <<ops, row, memory, handoffs, faults>>
      /\ UNCHANGED <<backend, durable, inv, running, pending, pinned, arrived, again>>
  BY DEF Stop, schedulingVars, historyVars, bounds
<1>2. now \in 0..MaxTime /\ deadline \in Nat
  BY DEF TriggerInv, Shapes
<1> QED BY <1>1, <1>2, ClockKeeps

LEMMA EmptyQueue ==
    ASSUME NEW known
    PROVE  QueueShape(<<>>, known) /\ Defers(<<>>) = {} /\ Elements(<<>>) = {}
<1> DEFINE q == <<>>
<1>1. Len(q) = 0 /\ 1..0 = {} /\ 2..0 = {} /\ q = [i \in 1..0 |-> q[i]]
  OBVIOUS
<1> HIDE DEF q
<1>2. QueueShape(q, known) /\ Defers(q) = {} /\ Elements(q) = {}
  BY <1>1 DEF QueueShape, Defers, Elements
<1> QED BY <1>2 DEF q

\* Every invocation is gone.
LEMMA AllIdle ==
    ASSUME DeferralAssumption, inv' = [e \in Events |-> Idle], handoffs' = [e \in Events |-> NoHandoff],
           ~running', pending' = None, pinned' = {}, ops' = <<>>, Known' \subseteq Events
    PROVE  /\ inv' = [f \in Events |-> inv'[f]] /\ \A f \in Events : InvocationShape(inv'[f])
           /\ HandoffShape(handoffs') /\ \A f \in Events : handoffs'[f].step = "none"
           /\ InvocationsOK' /\ \A f \in Events : Free(f)'
<1>0. InvocationShape(Idle) /\ Idle.phase = "none"
  BY DEF Idle, InvocationShape, Invocation, Phases
<1>1. /\ \A f \in Events : inv'[f] = Idle /\ InvocationShape(Idle) /\ Idle.phase = "none"
      /\ inv' = [f \in Events |-> inv'[f]]
  BY <1>0
<1>2. /\ \A f \in Events : handoffs'[f] = NoHandoff /\ NoHandoff = [gen |-> NoHandoff.gen, step |-> NoHandoff.step]
      /\ NoHandoff.step = "none" /\ handoffs' = [f \in Events |-> handoffs'[f]]
  BY DEF NoHandoff
<1>3. \A f \in Events : Phase(f)' = "none" /\ ~Active(f)'
  BY <1>1 DEF Phase, Active
<1>4. \A f \in Events : f # None
  <2>1. Events = 1..Cardinality(Events) /\ Cardinality(Events) \in Nat /\ None \notin Nat
    BY FS_CardinalityType DEF DeferralAssumption
  <2> QED BY <2>1
<1>5. Defers(ops') = {}
  BY EmptyQueue
<1>6. \A f \in Events : Agree(f)'
  BY <1>3, <1>4, <1>5 DEF Agree
<1>7. OneActive'
  BY <1>3 DEF OneActive
<1>8. \A f \in Events : Free(f)'
  BY <1>3, <1>4 DEF Free
<1> QED BY <1>1, <1>2, <1>6, <1>7, <1>8 DEF InvocationsOK, HandoffShape

LEMMA RestartKeeps ==
    ASSUME DeferralAssumption, TriggerInv, Restart
    PROVE  TriggerInv'
<1>1. Shapes /\ InvocationsOK /\ (faults = 0 => Unfailed)
  BY DEF TriggerInv
<1>2. /\ ~again /\ memory' = None /\ deadline' = 0 /\ timer' = None /\ ops' = <<>>
      /\ handoffs' = [e \in Events |-> NoHandoff] /\ stopped' = FALSE
      /\ inv' = [e \in Events |-> Idle] /\ ~running' /\ running' \in BOOLEAN /\ pending' = None /\ pinned' = {}
      /\ recovery' = "reset"
      /\ UNCHANGED <<now, backend, durable, row, arrived, again, faults>>
  BY DEF Restart, Quiet
<1>3. Known' = Known /\ Known' \subseteq Events
  BY <1>1, <1>2 DEF Shapes, Known
<1>4. /\ inv' = [f \in Events |-> inv'[f]] /\ \A f \in Events : InvocationShape(inv'[f])
      /\ HandoffShape(handoffs') /\ \A f \in Events : handoffs'[f].step = "none"
      /\ InvocationsOK' /\ \A f \in Events : Free(f)'
  BY <1>2, <1>3, AllIdle
<1>5. QueueShape(ops', Known') /\ Elements(ops') = {}
  BY <1>2, EmptyQueue
<1>6. Shapes'
  BY <1>1, <1>2, <1>3, <1>4, <1>5 DEF Shapes
<1>7. Unfailed'
  <2>1. ~again' /\ memory' = None /\ NoFailedWrite' /\ NoFailedHandoff'
    BY <1>2, <1>4, <1>5 DEF NoFailedWrite, NoFailedHandoff
  <2>2. row' # None => Free(row.event)'
    <3>1. PICK g : g = row.event
      OBVIOUS
    <3>2. row' # None => g \in Events
      BY <1>1, <1>2, <1>3, <3>1 DEF Shapes, RowShape
    <3> QED BY <1>2, <1>4, <3>1, <3>2 DEF Free, Phase
  <2>3. RowFree' /\ TakenFree' /\ Resetting'
    BY <1>2, <1>5, <2>2 DEF RowFree, TakenFree, Resetting, StatusIs, AtHead
  <2> QED BY <2>1, <2>3 DEF Unfailed
<1> QED BY <1>4, <1>6, <1>7 DEF TriggerInv

LEMMA RecoverKeeps ==
    ASSUME DeferralAssumption, TriggerInv, Recover
    PROVE  TriggerInv'
<1>1. Shapes /\ InvocationsOK /\ (faults = 0 => Unfailed)
  BY DEF TriggerInv
<1>2. /\ UNCHANGED <<now, stopped, memory, ops, handoffs, faults>>
      /\ UNCHANGED <<backend, durable, inv, running, pending, pinned, arrived, again>>
  BY DEF Recover, RecoverReset, RecoverArm, schedulingVars, historyVars, bounds
<1>3. CASE recovery = "reset" /\ recovery' = "arm" /\ RecoverReset
  <2>1. row' = Released /\ UNCHANGED <<deadline, timer>>
    BY <1>3 DEF RecoverReset
  <2>2. /\ RowShape(row', Known) /\ (row # None => row'.event = row.event)
        /\ ~StatusIs("claimed") => row' = row
    BY <1>1, <2>1, ReleasedIs
  <2>3. /\ now' = now /\ stopped' = stopped /\ memory' = memory /\ ops' = ops /\ handoffs' = handoffs
        /\ faults' = faults /\ deadline' = deadline /\ timer' = timer
    BY <1>2, <2>1
  <2>4. /\ QueueShape(ops', Known) /\ Defers(ops') = Defers(ops) /\ HandoffShape(handoffs')
        /\ memory' \in Known \cup {None} /\ faults' \in Nat /\ faults <= faults'
        /\ now' \in 0..MaxTime /\ deadline' \in Nat /\ timer' \in Nat \cup {None}
        /\ stopped' \in BOOLEAN /\ recovery' \in {"reset", "arm", "done"}
    BY <1>1, <1>3, <2>3 DEF Shapes
  <2>5. Shapes' /\ InvocationsOK' /\ \A f \in Events : Free(f)' = Free(f)
    BY <1>1, <1>2, <2>2, <2>4, StoreSteps
  <2>6. ASSUME faults' = 0 PROVE Unfailed'
    <3>1. Unfailed /\ Resetting
      BY <1>1, <1>3, <2>3, <2>6 DEF Unfailed
    <3>2. ~again' /\ memory' = None /\ NoFailedWrite' /\ NoFailedHandoff' /\ recovery' # "reset"
      BY <1>2, <1>3, <2>3, <3>1 DEF Unfailed, NoFailedWrite, NoFailedHandoff
    <3>3. RowFree'
      <4> SUFFICES ASSUME ~stopped', StatusIs("pending")' PROVE Free(row.event)' \/ HeadDefers(row.event)'
        BY DEF RowFree
      <4>1. PICK g : g = row.event
        OBVIOUS
      <4>2. row = None => row' = row
        BY <2>2 DEF StatusIs
      <4>3. row # None /\ row'.event = g /\ g \in Known
        BY <1>1, <2>2, <4>1, <4>2 DEF Shapes, RowShape, StatusIs
      <4>4. CASE StatusIs("claimed")
        <5>1. Free(g) /\ g \in Events
          BY <1>1, <3>1, <4>1, <4>3, <4>4 DEF Resetting, Shapes
        <5>2. Free(g)'
          BY <2>5, <5>1
        <5> QED BY <4>3, <5>2 DEF Free, Phase
      <4>5. CASE ~StatusIs("claimed")
        <5>1. row' = row /\ StatusIs("pending") /\ ~stopped
          BY <2>2, <2>3, <4>5 DEF StatusIs
        <5>2. Free(g) \/ HeadDefers(g)
          BY <3>1, <4>1, <5>1 DEF Unfailed, RowFree
        <5>3. Free(g)' \/ HeadDefers(g)'
          BY <1>1, <2>3, <2>5, <4>3, <5>2 DEF HeadDefers, AtHead, Shapes
        <5> QED BY <4>3, <5>3 DEF Free, Phase, HeadDefers
      <4> QED BY <4>4, <4>5
    <3>4. TakenFree'
      <4>1. ~AtHead("resume", "taken")
        BY <1>1, <3>1, HeadOp DEF Shapes, Resetting, AtHead
      <4> QED BY <2>3, <4>1 DEF TakenFree, AtHead
    <3> QED BY <3>2, <3>3, <3>4 DEF Unfailed
  <2> QED BY <2>5, <2>6 DEF TriggerInv
<1>4. CASE recovery = "arm" /\ recovery' = "done" /\ RecoverArm
  <2>1. row' = row /\ ((StatusIs("pending") /\ Arm(row.notBefore)) \/ UNCHANGED <<timer, deadline>>)
    BY <1>4 DEF RecoverArm
  <2>2. StatusIs("pending") => row.notBefore \in Nat
    BY <1>1 DEF Shapes, RowShape, StatusIs
  <2>3. timer' \in Nat \cup {None} /\ deadline' \in Nat
    BY <1>1, <2>1, <2>2, ArmIs DEF Shapes
  <2>4. now' \in 0..MaxTime /\ stopped' \in {stopped, TRUE}
    BY <1>1, <1>2 DEF Shapes
  <2> QED BY <1>2, <1>4, <2>1, <2>3, <2>4, ClockKeeps
<1> QED BY <1>3, <1>4 DEF Recover

LEMMA RecoverFailsKeeps ==
    ASSUME DeferralAssumption, TriggerInv, RecoverFails
    PROVE  TriggerInv'
<1>1. Shapes /\ InvocationsOK
  BY DEF TriggerInv
<1>2. /\ recovery' = "done" /\ faults' = faults + 1
      /\ UNCHANGED <<now, stopped, memory, ops, handoffs, row, deadline, timer>>
      /\ UNCHANGED <<backend, durable, inv, running, pending, pinned, arrived, again>>
  BY DEF RecoverFails, deferralVars, schedulingVars, historyVars
<1>3. faults' \in Nat /\ faults <= faults' /\ faults' # 0
  BY <1>1, <1>2 DEF Shapes
<1>4. /\ QueueShape(ops', Known) /\ Defers(ops') = Defers(ops) /\ HandoffShape(handoffs') /\ RowShape(row', Known)
      /\ memory' \in Known \cup {None}
      /\ now' \in 0..MaxTime /\ deadline' \in Nat /\ timer' \in Nat \cup {None}
      /\ stopped' \in BOOLEAN /\ recovery' \in {"reset", "arm", "done"}
  <2>1. /\ now' = now /\ stopped' = stopped /\ memory' = memory /\ ops' = ops /\ handoffs' = handoffs
        /\ row' = row /\ deadline' = deadline /\ timer' = timer
    BY <1>2
  <2> QED BY <1>1, <1>2, <2>1 DEF Shapes
<1>5. Shapes' /\ InvocationsOK'
  BY <1>1, <1>2, <1>3, <1>4, StoreSteps
<1> QED BY <1>3, <1>5 DEF TriggerInv

-----------------------------------------------------------------------------
(* The theorems. *)

LEMMA InitHolds ==
    ASSUME DeferralAssumption, TriggerAssumption, Init
    PROVE  TriggerInv
<1>1. /\ now = 0 /\ backend \in Backends /\ durable \in BOOLEAN /\ stopped = FALSE
      /\ row = None /\ memory = None /\ deadline = 0 /\ timer = None
      /\ ops = <<>> /\ handoffs = [e \in Events |-> NoHandoff]
      /\ inv = [e \in Events |-> Idle] /\ running = FALSE /\ pending = None /\ pinned = {}
      /\ recovery = "done" /\ arrived = 0 /\ again = FALSE /\ faults = 0
  BY DEF Init, DeferralInit
<1>2. Known = {} /\ 0 \in 0..MaxTime
  BY <1>1 DEF Known, DeferralAssumption
<1>3. QueueShape(ops, Known) /\ Defers(ops) = {} /\ Elements(ops) = {}
  BY <1>1, EmptyQueue
<1>4. InvocationShape(Idle) /\ Idle.phase = "none"
  BY DEF Idle, InvocationShape, Invocation, Phases
<1>5. NoHandoff = [gen |-> NoHandoff.gen, step |-> NoHandoff.step] /\ NoHandoff.step = "none"
  BY DEF NoHandoff
<1>6. /\ inv = [f \in Events |-> inv[f]] /\ \A f \in Events : inv[f] = Idle
      /\ handoffs = [f \in Events |-> handoffs[f]] /\ \A f \in Events : handoffs[f] = NoHandoff
  BY <1>1
<1>7. HandoffShape(handoffs) /\ NoFailedHandoff
  BY <1>5, <1>6 DEF HandoffShape, NoFailedHandoff
<1>8. \A f \in Events : f # None
  <2>1. Events = 1..Cardinality(Events) /\ Cardinality(Events) \in Nat /\ None \notin Nat
    BY FS_CardinalityType DEF DeferralAssumption
  <2> QED BY <2>1
<1>9. \A f \in Events : Phase(f) = "none" /\ ~Active(f)
  BY <1>4, <1>6 DEF Phase, Active
<1>10. \A f \in Events : Agree(f)
  BY <1>1, <1>3, <1>8, <1>9 DEF Agree
<1>11. InvocationsOK
  BY <1>1, <1>9, <1>10 DEF InvocationsOK, OneActive
<1>12. backend \in {"sqlite", "postgres"}
  BY <1>1 DEF DeferralAssumption
<1>13. Shapes
  BY <1>1, <1>2, <1>3, <1>4, <1>6, <1>7, <1>12 DEF Shapes, RowShape
<1>14. Unfailed
  BY <1>1, <1>3, <1>7 DEF Unfailed, NoFailedWrite, RowFree, TakenFree, StatusIs, AtHead
<1> QED BY <1>11, <1>13, <1>14 DEF TriggerInv

LEMMA StutterKeeps ==
    ASSUME TriggerInv, UNCHANGED vars
    PROVE  TriggerInv'
<1>1. /\ now' = now /\ backend' = backend /\ durable' = durable /\ row' = row /\ memory' = memory
      /\ deadline' = deadline /\ timer' = timer /\ ops' = ops /\ handoffs' = handoffs /\ stopped' = stopped
      /\ inv' = inv /\ running' = running /\ pending' = pending /\ pinned' = pinned
      /\ recovery' = recovery /\ arrived' = arrived /\ again' = again /\ faults' = faults
  BY DEF vars, deferralVars, schedulingVars, historyVars, bounds
<1>2. Shapes' = Shapes
  BY <1>1 DEF Shapes, Known
<1>3. InvocationsOK' = InvocationsOK
  BY <1>1 DEF InvocationsOK, OneActive, Agree, Active, Phase, Known
<1>4. Unfailed' = Unfailed
  BY <1>1 DEF Unfailed, NoFailedWrite, NoFailedHandoff, RowFree, TakenFree, Resetting, Free, Phase,
              HeadDefers, RowWaits, StatusIs, AtHead
<1> QED BY <1>1, <1>2, <1>3, <1>4 DEF TriggerInv

LEMMA NextKeeps ==
    ASSUME DeferralAssumption, TriggerInv, Next
    PROVE  TriggerInv'
<1>1. CASE Work
  <2>1. ASSUME NEW e \in Events, NEW ok \in BOOLEAN, Admit(e, ok) \/ AttemptOutside(e, ok) \/ HandoffStep(e, ok)
        PROVE  TriggerInv'
    BY <2>1, AdmitKeeps, AttemptOutsideKeeps, HandoffStepKeeps
  <2>2. ASSUME NEW e \in Events, AttemptInside(e) \/ ReviewEnds(e) PROVE TriggerInv'
    BY <2>2, AttemptInsideKeeps, ReviewEndsKeeps
  <2>3. ASSUME NEW ok \in BOOLEAN, StoreStep(ok) PROVE TriggerInv'
    BY <2>3, StoreStepKeeps
  <2>4. CASE DeferSettles
    BY <2>4, DeferSettlesKeeps
  <2>5. CASE TargetHandedOver
    BY <2>5, TargetHandedOverKeeps
  <2>6. CASE TimerFires \/ Resumes
    BY <2>6, TimerFiresKeeps, ResumesKeeps
  <2>7. CASE WithdrawSteps \/ Recover
    BY <2>7, WithdrawStepsKeeps, RecoverKeeps
  <2> QED BY <1>1, <2>1, <2>2, <2>3, <2>4, <2>5, <2>6, <2>7 DEF Work
<1>2. ASSUME NEW e \in Events, NEW ok \in BOOLEAN, Arrive(e, ok) PROVE TriggerInv'
  BY <1>2, ArriveKeeps
<1>3. ASSUME NEW e \in Events, AdmissionFails(e) \/ ReviewFails(e) PROVE TriggerInv'
  BY <1>3, AdmissionFailsKeeps, ReviewFailsKeeps
<1>4. CASE Tick \/ Stop \/ Restart \/ RecoverFails
  BY <1>4, TickKeeps, StopKeeps, RestartKeeps, RecoverFailsKeeps
<1>5. CASE StoreFails \/ Expires \/ Withdraw
  BY <1>5, StoreFailsKeeps, ExpiresKeeps, WithdrawKeeps
<1> QED BY <1>1, <1>2, <1>3, <1>4, <1>5 DEF Next

\* The invariant: the invocations, the deduplicator and the queue of store work
\* agree, and while no call has failed an event that the row may hand over is
\* not in flight.
THEOREM TriggerInvariant ==
    ASSUME DeferralAssumption, TriggerAssumption
    PROVE  Spec => []TriggerInv
<1>1. Init => TriggerInv
  BY InitHolds
<1>2. TriggerInv /\ [Next]_vars => TriggerInv'
  BY NextKeeps, StutterKeeps
<1> QED BY <1>1, <1>2, PTL DEF Spec

\* scheduleTriggerProcessing and ReviewDeduplicator keep one review per target:
\* the running mark belongs to exactly one invocation, and the events that hold
\* their configuration snapshot are those in flight.
THEOREM OneReviewAlways ==
    ASSUME DeferralAssumption, TriggerAssumption
    PROVE  Spec => []OneReviewPerTarget
<1>1. TriggerInv => OneReviewPerTarget
  <2> SUFFICES ASSUME TriggerInv PROVE OneReviewPerTarget
    OBVIOUS
  <2> DEFINE S == {e \in Events : Phase(e) \in {"waiting", "reviewing", "redeferring"}}
  <2>1. OneActive /\ \A e \in Events : Agree(e)
    BY DEF TriggerInv, InvocationsOK
  <2>2. running \in BOOLEAN /\ faults \in Nat /\ pinned \subseteq Events /\ pending \in Events \cup {None}
    BY DEF TriggerInv, Shapes
  <2>3. \A e \in Events : e \in S <=> Active(e)
    BY DEF Active
  <2>4. Cardinality(S) = (IF running THEN 1 ELSE 0)
    <3>1. CASE running
      <4>1. PICK e \in Events : Active(e)
        BY <2>1, <3>1 DEF OneActive
      <4>2. S = {e}
        BY <2>1, <2>3, <4>1 DEF OneActive
      <4>3. Cardinality({e}) = 1
        BY FS_Singleton
      <4> QED BY <3>1, <4>2, <4>3
    <3>2. CASE ~running
      <4>1. S = {}
        BY <2>1, <2>3, <3>2 DEF Agree
      <4>2. Cardinality({}) = 0
        BY FS_EmptySet
      <4> QED BY <3>2, <4>1, <4>2
    <3> QED BY <3>1, <3>2
  <2>5. pending # None => running
    BY <2>1, <2>2 DEF Agree
  <2>6. \A e \in Events : (Phase(e) \notin {"none", "admitting"} \/ pending = e) => e \in pinned
    BY <2>1 DEF Agree
  <2>7. \A e \in pinned : Phase(e) # "none" \/ pending = e \/ faults > 0
    BY <2>1, <2>2 DEF Agree
  <2> QED BY <2>4, <2>5, <2>6, <2>7 DEF OneReviewPerTarget
<1>2. Spec => []TriggerInv
  BY TriggerInvariant
<1> QED BY <1>1, <1>2, PTL

\* A deferred event is handed to the handler once, whatever restarts, shutdowns
\* and withdrawals happen, as long as no store call and no admission fails: the
\* claim of the row is the only permission.
THEOREM HandedOverOnceAlways ==
    ASSUME DeferralAssumption, TriggerAssumption
    PROVE  Spec => []HandedOverOnce
<1>1. TriggerInv => HandedOverOnce
  BY DEF TriggerInv, Shapes, Unfailed, HandedOverOnce
<1>2. Spec => []TriggerInv
  BY TriggerInvariant
<1> QED BY <1>1, <1>2, PTL

-----------------------------------------------------------------------------
(* Nothing is forgotten, as long as no call fails: definitions. *)

\* Generation symbols do not run out: every Symbol() of the code is a new one.
EnoughTokens == \A S : IsFiniteSet(S) => Tokens \ S # {}

Writes(o) == o.kind \in {"defer", "cancel"}
NoWrites(q) == \A o \in Elements(q) : ~Writes(o)

\* No resume waits for a write of its own generation, and only the write at the
\* head has been tried.
Ordered(q, g) ==
    /\ \A i, j \in 1..Len(q) : i < j /\ q[i].kind = "resume" /\ g # None /\ q[i].gen = g => ~Writes(q[j])
    /\ \A i \in 2..Len(q) : q[i].kind = "defer" => q[i].step = "write"

Unused(q, g) == g = None \/ \A o \in Elements(q) : o.gen # g

\* The handoff of e is open, and nothing superseded it; its promise resolved.
Live(e) == handoffs[e].step = "open" /\ Current(handoffs[e].gen)
Settled(e) == handoffs[e].step = "settling"
Claimed(e) == StatusIs("claimed") /\ row.event = e
Handing(e) == AtHead("resume", "taken") /\ Current(Head(ops).gen) /\ Head(ops).event = e

\* Where an event may wait while no call fails, and where it waits whatever
\* becomes of the row.
Waits(e) == Phase(e) # "none" \/ pending = e \/ (row # None /\ row.event = e) \/ Handing(e)
Safe(e) == pending = e \/ Phase(e) \notin {"none", "reviewing"}

OwedOK ==
    /\ owed \in Known \cup {None}
    /\ \A e \in Events : owed = e => Waits(e) /\ Phase(e) # "reviewing"

QueueOK ==
    /\ Ordered(ops, generation)
    /\ \A e \in Events : handoffs[e].step # "none" => handoffs[e].gen # None

\* The event of a handoff that nothing superseded holds the claim of the row.
LiveOK == \A e \in Events : Live(e) => NoWrites(ops) /\ Claimed(e)

\* While a handoff settles, which is within an instant of the window, the event
\* that is owed does not depend on the row.
SettlingOK == \A e \in Events : Settled(e) =>
    /\ ~Outside /\ Defers(ops) = {}
    /\ generation # None => NoWrites(ops) /\ Claimed(e)
    /\ \A w \in Events : owed = w => Safe(w)

TakenOK == \A w \in Events : Handing(w) => Claimed(w) /\ \A e \in Events : ~Live(e) /\ ~Settled(e)
StoredOK == \A w \in Events : HeadDefers(w) => RowWaits(w)

\* Until a recovery ends no timer fires and nothing is handed over.
CalmOK == recovery # "done" =>
    /\ \A o \in Elements(ops) : o.kind # "resume" /\ (o.kind = "defer" => o.at > now)
    /\ timer # None => timer > now
    /\ \A e \in Events : handoffs[e].step = "none"

Kept == OwedOK /\ QueueOK /\ LiveOK /\ SettlingOK /\ TakenOK /\ StoredOK /\ CalmOK
KeptInv == TriggerInv /\ (faults = 0 /\ ~stopped => Kept)

-----------------------------------------------------------------------------
(* The order of the queue. *)

LEMMA OrderRenewed ==
    ASSUME NEW q, NEW g, NEW h, Ordered(q, g), Unused(q, h)
    PROVE  Ordered(q, h)
BY DEF Ordered, Unused, Elements

LEMMA OrderAppended ==
    ASSUME NEW q, NEW known, QueueShape(q, known), NEW g, Ordered(q, g), NEW x,
           Writes(x) => Unused(q, g), x.kind = "defer" /\ q # <<>> => x.step = "write"
    PROVE  Ordered(Append(q, x), g)
<1> DEFINE p == Append(q, x)  n == Len(q)  S == Elements(q) \cup {x}
<1>1. q \in Seq(S) /\ x \in S /\ n \in Nat
  <2>1. Elements(q) \subseteq S
    OBVIOUS
  <2> HIDE DEF S
  <2>2. q \in Seq(S)
    BY <2>1, QueueIsSeq
  <2> QED BY <2>2 DEF QueueShape, S
<1>2. /\ Len(p) = n + 1 /\ p[n + 1] = x
      /\ \A i \in 1..n : p[i] = q[i]
  <2> HIDE DEF S
  <2> QED BY <1>1, AppendProperties
<1>3. /\ 1..(n + 1) = (1..n) \cup {n + 1} /\ 2..(n + 1) \subseteq (2..n) \cup {n + 1}
      /\ \A i \in 2..n : i \in 1..n
      /\ \A i \in 1..n : ~(n + 1 < i)
      /\ n + 1 \in 2..(n + 1) => n # 0
  BY <1>1
<1>4. n # 0 => q # <<>>
  OBVIOUS
<1>5. \A i \in 1..n : q[i] \in Elements(q)
  BY DEF Elements
<1> HIDE DEF p, n, S
<1>6. Ordered(q, g) /\ Len(q) = n
  BY DEF n
<1>7. ASSUME NEW i \in 1..(n + 1), NEW j \in 1..(n + 1), i < j, p[i].kind = "resume", g # None, p[i].gen = g
      PROVE  ~Writes(p[j])
  <2>1. i \in 1..n
    BY <1>1, <1>7
  <2>2. CASE j \in 1..n
    BY <1>2, <1>6, <1>7, <2>1, <2>2 DEF Ordered
  <2>3. CASE j = n + 1
    BY <1>2, <1>5, <1>7, <2>1, <2>3 DEF Unused
  <2> QED BY <1>3, <2>2, <2>3
<1>8. ASSUME NEW i \in 2..(n + 1), p[i].kind = "defer" PROVE p[i].step = "write"
  <2>1. CASE i \in 2..n
    BY <1>2, <1>3, <1>6, <1>8, <2>1 DEF Ordered
  <2>2. CASE i = n + 1
    BY <1>2, <1>3, <1>4, <1>8, <2>2
  <2> QED BY <1>3, <2>1, <2>2
<1>9. 1..Len(p) = 1..(n + 1) /\ 2..Len(p) = 2..(n + 1)
  BY <1>2
<1>10. Ordered(p, g)
  BY <1>7, <1>8, <1>9 DEF Ordered
<1> QED BY <1>10 DEF p

LEMMA OrderTail ==
    ASSUME NEW q, NEW known, QueueShape(q, known), q # <<>>, NEW g, Ordered(q, g)
    PROVE  /\ Ordered(Tail(q), g)
           /\ Head(q).kind = "resume" /\ g # None /\ Head(q).gen = g => NoWrites(Tail(q))
           /\ Tail(q) # <<>> /\ Head(Tail(q)).kind = "defer" => Head(Tail(q)).step = "write"
           /\ Elements(q) = Elements(Tail(q)) \cup {Head(q)}
<1> DEFINE p == Tail(q)  n == Len(q) - 1
<1>1. q \in Seq(Elements(q)) /\ n \in Nat /\ Len(q) = n + 1 /\ Head(q) = q[1]
  BY HeadOp, QueueIsSeq
<1>2. Len(p) = n /\ (p # <<>> => n # 0 /\ Head(p) = p[1]) /\ \A i \in 1..n : p[i] = q[i + 1]
  <2>1. p \in Seq(Elements(q)) /\ Len(p) = Len(q) - 1 /\ \A i \in 1..Len(p) : p[i] = q[i + 1]
    BY <1>1, HeadTailProperties
  <2> QED BY <1>1, <2>1
<1>3. /\ \A i \in 1..n : i + 1 \in 1..(n + 1) /\ i + 1 \in 2..(n + 1) /\ 1 < i + 1
      /\ \A i \in 2..n : i \in 1..n
      /\ \A i \in 1..(n + 1) : i # 1 => i - 1 \in 1..n /\ (i - 1) + 1 = i
      /\ 1 \in 1..(n + 1) /\ (n # 0 => 1 \in 1..n)
      /\ \A i, j \in 1..n : i < j => i + 1 < j + 1
  BY <1>1
<1> HIDE DEF p, n
<1>4. Ordered(q, g) /\ Len(q) = n + 1
  BY <1>1
<1>5. ASSUME NEW i \in 1..n, NEW j \in 1..n, i < j, p[i].kind = "resume", g # None, p[i].gen = g
      PROVE  ~Writes(p[j])
  BY <1>2, <1>3, <1>4, <1>5 DEF Ordered
<1>6. ASSUME NEW i \in 1..n, p[i].kind = "defer" PROVE p[i].step = "write"
  BY <1>2, <1>3, <1>4, <1>6 DEF Ordered
<1>7. Ordered(p, g)
  BY <1>2, <1>3, <1>5, <1>6 DEF Ordered
<1>8. Elements(q) = Elements(p) \cup {Head(q)}
  <2>1. ASSUME NEW i \in 1..(n + 1), i # 1 PROVE q[i] \in Elements(p)
    BY <1>2, <1>3, <2>1 DEF Elements
  <2>2. ASSUME NEW i \in 1..n PROVE p[i] \in Elements(q)
    BY <1>2, <1>3, <1>4, <2>2 DEF Elements
  <2>3. Elements(p) \subseteq Elements(q) /\ q[1] \in Elements(q)
    BY <1>2, <1>3, <1>4, <2>2 DEF Elements
  <2>4. Elements(q) \subseteq Elements(p) \cup {q[1]}
    BY <1>4, <2>1 DEF Elements
  <2> QED BY <1>1, <2>3, <2>4
<1>9. ASSUME Head(q).kind = "resume", g # None, Head(q).gen = g PROVE NoWrites(p)
  <2>1. \A i \in 1..n : ~Writes(p[i])
    BY <1>1, <1>2, <1>3, <1>4, <1>9 DEF Ordered
  <2> QED BY <1>2, <2>1 DEF NoWrites, Elements
<1>10. p # <<>> /\ Head(p).kind = "defer" => Head(p).step = "write"
  BY <1>2, <1>3, <1>6
<1> QED BY <1>7, <1>8, <1>9, <1>10 DEF p

LEMMA OrderStepped ==
    ASSUME NEW q, NEW known, QueueShape(q, known), q # <<>>, NEW g, Ordered(q, g), NEW x,
           x.kind = Head(q).kind, x.kind = "resume" => x.gen = Head(q).gen
    PROVE  Ordered(<<x>> \o Tail(q), g) /\ Elements(<<x>> \o Tail(q)) = Elements(Tail(q)) \cup {x}
<1> DEFINE p == <<x>> \o Tail(q)  n == Len(q)  S == Elements(q) \cup {x}
<1>1. q \in Seq(Elements(q)) /\ n \in Nat \ {0} /\ Head(q) = q[1]
  BY HeadOp, QueueIsSeq
<1>2. /\ Len(p) = n /\ p[1] = x /\ Len(Tail(q)) = n - 1
      /\ \A i \in 2..n : p[i] = q[i]
      /\ \A i \in 1..(n - 1) : p[i + 1] = Tail(q)[i]
  <2>1. Tail(q) \in Seq(S) /\ <<x>> \in Seq(S) /\ Len(Tail(q)) = n - 1
        /\ \A i \in 1..(n - 1) : Tail(q)[i] = q[i + 1]
    <3>1. Tail(q) \in Seq(Elements(q)) /\ Len(Tail(q)) = Len(q) - 1 /\ \A i \in 1..Len(Tail(q)) : Tail(q)[i] = q[i + 1]
      BY <1>1, HeadTailProperties
    <3>2. Elements(q) \subseteq S /\ x \in S
      OBVIOUS
    <3> HIDE DEF S
    <3> QED BY <3>1, <3>2
  <2> HIDE DEF S
  <2>2. /\ Len(p) = Len(<<x>>) + Len(Tail(q))
        /\ \A i \in 1..Len(p) : p[i] = IF i <= Len(<<x>>) THEN <<x>>[i] ELSE Tail(q)[i - Len(<<x>>)]
    BY <2>1, ConcatProperties
  <2>3. Len(<<x>>) = 1 /\ <<x>>[1] = x
    OBVIOUS
  <2>4. Len(p) = n
    BY <1>1, <2>1, <2>2, <2>3
  <2>5. \A i \in 2..n : i \in 1..n /\ ~(i <= 1) /\ i - 1 \in 1..(n - 1) /\ (i - 1) + 1 = i
    BY <1>1
  <2>6. 1 \in 1..n /\ \A i \in 1..(n - 1) : i + 1 \in 2..n /\ (i + 1) - 1 = i
    BY <1>1
  <2> HIDE DEF p, n
  <2>7. p[1] = x
    BY <2>2, <2>3, <2>4, <2>6
  <2>8. \A i \in 2..n : p[i] = Tail(q)[i - 1]
    BY <2>2, <2>3, <2>4, <2>5
  <2> QED BY <2>1, <2>4, <2>5, <2>6, <2>7, <2>8
<1>3. /\ \A i \in 1..n : i = 1 \/ i \in 2..n
      /\ \A i, j \in 1..n : i < j => j \in 2..n
      /\ \A i \in 2..n : i \in 1..n /\ i - 1 \in 1..(n - 1) /\ (i - 1) + 1 = i
      /\ \A i \in 1..(n - 1) : i + 1 \in 1..n
      /\ 1 \in 1..n
  BY <1>1
<1> HIDE DEF p, n, S
<1>4. Ordered(q, g) /\ Len(q) = n
  BY DEF n
<1>5. ASSUME NEW i \in 1..n, NEW j \in 1..n, i < j, p[i].kind = "resume", g # None, p[i].gen = g
      PROVE  ~Writes(p[j])
  <2>1. q[i].kind = "resume" /\ q[i].gen = g
    BY <1>1, <1>2, <1>3, <1>5
  <2>2. p[j] = q[j]
    BY <1>2, <1>3, <1>5
  <2> QED BY <1>4, <1>5, <2>1, <2>2 DEF Ordered
<1>6. \A i \in 2..n : p[i].kind = "defer" => p[i].step = "write"
  BY <1>2, <1>4 DEF Ordered
<1>7. Ordered(p, g)
  BY <1>2, <1>5, <1>6 DEF Ordered
<1>8. Elements(p) = Elements(Tail(q)) \cup {x}
  <2>0. \A i \in 1..(n - 1) : Tail(q)[i] \in Elements(Tail(q))
    BY <1>2 DEF Elements
  <2>1. ASSUME NEW i \in 1..n PROVE p[i] \in Elements(Tail(q)) \cup {x}
    <3>1. CASE i = 1
      BY <1>2, <3>1
    <3>2. CASE i \in 2..n
      <4>1. i - 1 \in 1..(n - 1) /\ (i - 1) + 1 = i
        BY <1>3, <3>2
      <4>2. p[i] = Tail(q)[i - 1]
        BY <1>2, <4>1
      <4> QED BY <2>0, <4>1, <4>2
    <3> QED BY <1>3, <3>1, <3>2
  <2>2. \A i \in 1..(n - 1) : Tail(q)[i] \in Elements(p)
    BY <1>2, <1>3 DEF Elements
  <2>3. x \in Elements(p)
    BY <1>2, <1>3 DEF Elements
  <2>4. \A o \in Elements(p) : \E i \in 1..n : o = p[i]
    BY <1>2 DEF Elements
  <2>5. \A o \in Elements(Tail(q)) : \E i \in 1..(n - 1) : o = Tail(q)[i]
    BY <1>2 DEF Elements
  <2> QED BY <2>1, <2>2, <2>3, <2>4, <2>5
<1> QED BY <1>7, <1>8 DEF p

-----------------------------------------------------------------------------
(* Symbols. *)

\* A new symbol is one nothing remembers.
LEMMA FreshIs ==
    ASSUME DeferralAssumption, EnoughTokens, Shapes
    PROVE  /\ Fresh \in Nat /\ Fresh # None
           /\ Unused(ops, Fresh) /\ \A e \in Events : handoffs[e].gen # Fresh
<1> DEFINE inOps == {ops[i].gen : i \in DOMAIN ops}
           inHandoffs == {handoffs[e].gen : e \in Events}
           used == {generation} \cup inOps \cup inHandoffs
<1>1. DOMAIN ops = 1..Len(ops) /\ Len(ops) \in Nat
  BY DEF Shapes, QueueShape
<1>2. IsFiniteSet(inOps)
  <2> DEFINE g == [i \in DOMAIN ops |-> ops[i].gen]
  <2>1. IsFiniteSet(DOMAIN ops)
    <3>1. 1 \in Int /\ Len(ops) \in Int
      BY <1>1
    <3>2. IsFiniteSet(1..Len(ops))
      BY <3>1, FS_Interval
    <3> QED BY <1>1, <3>2
  <2>2. g \in Surjection(DOMAIN ops, inOps)
    BY DEF Surjection
  <2> HIDE DEF g, inOps
  <2> QED BY <2>1, <2>2, FS_Surjection
<1>3. IsFiniteSet(inHandoffs)
  <2> DEFINE g == [e \in Events |-> handoffs[e].gen]
  <2>1. IsFiniteSet(Events)
    BY DEF DeferralAssumption
  <2>2. g \in Surjection(Events, inHandoffs)
    BY DEF Surjection
  <2> HIDE DEF g, inHandoffs
  <2> QED BY <2>1, <2>2, FS_Surjection
<1>4. IsFiniteSet(used)
  <2> HIDE DEF inOps, inHandoffs
  <2> QED BY <1>2, <1>3, FS_Singleton, FS_Union
<1>5. Tokens \ used \in SUBSET Nat /\ Tokens \ used # {}
  <2> HIDE DEF used
  <2> QED BY <1>4 DEF EnoughTokens, DeferralAssumption
<1>6. Min(Tokens \ used) \in Tokens \ used
  <2> HIDE DEF used
  <2>1. PICK x \in Tokens \ used : \A y \in Tokens \ used : x <= y
    BY <1>5, LeastExists
  <2> QED BY <2>1 DEF Min
<1>7. Fresh \in Tokens \ used
  BY <1>6 DEF Fresh
<1>8. Fresh \in Nat /\ Fresh \notin inOps /\ Fresh \notin inHandoffs
  BY <1>5, <1>7
<1>9. Fresh # None
  BY <1>8 DEF DeferralAssumption
<1>10. \A o \in Elements(ops) : o.gen \in inOps
  BY <1>1 DEF Elements
<1>11. \A e \in Events : handoffs[e].gen \in inHandoffs
  OBVIOUS
<1> HIDE DEF inOps, inHandoffs
<1>12. Unused(ops, Fresh)
  BY <1>8, <1>10 DEF Unused
<1>13. \A e \in Events : handoffs[e].gen # Fresh
  BY <1>8, <1>11
<1> QED BY <1>8, <1>9, <1>12, <1>13

-----------------------------------------------------------------------------
(* What the invariants say of a state without failures. *)

Good == TriggerInv /\ faults = 0 /\ ~stopped /\ Kept
GoodNext == TriggerInv' /\ faults' = 0 /\ ~stopped'

LEMMA GoodIs ==
    ASSUME DeferralAssumption, Good
    PROVE  /\ Shapes /\ InvocationsOK /\ Unfailed
           /\ ~again /\ memory = None /\ NoFailedWrite /\ NoFailedHandoff
           /\ OwedOK /\ QueueOK /\ LiveOK /\ SettlingOK /\ TakenOK /\ StoredOK /\ CalmOK
           /\ Known \subseteq Events /\ None \notin Events
BY KnownAre DEF Good, TriggerInv, Unfailed, Kept

LEMMA GoodNextIs ==
    ASSUME DeferralAssumption, GoodNext
    PROVE  Shapes' /\ InvocationsOK' /\ Unfailed' /\ memory' = None /\ ~again'
BY DEF GoodNext, TriggerInv, Unfailed

\* Only a taken resume holds an event.
LEMMA InOpsIs ==
    ASSUME DeferralAssumption, Shapes, NoFailedWrite, NEW w \in Events
    PROVE  w \in InOps <=> w \in Defers(ops) \/ Handing(w)
<1>1. DOMAIN ops = 1..Len(ops) /\ Len(ops) \in Nat /\ QueueShape(ops, Known)
  BY DEF Shapes, QueueShape
<1>2. w # None
  BY KnownAre
<1>3. ASSUME w \in InOps, w \notin Defers(ops) PROVE Handing(w)
  <2>1. PICK i \in 1..Len(ops) : ops[i].event = w /\ (ops[i].kind = "defer" \/ (ops[i].kind = "resume" /\ Current(ops[i].gen)))
    BY <1>1, <1>3 DEF InOps
  <2>2. ops[i].kind = "resume" /\ Current(ops[i].gen)
    BY <1>3, <2>1 DEF Defers
  <2>3. OpShape(ops[i], Known) /\ ops[i] \in Elements(ops)
    BY <1>1 DEF QueueShape, Elements
  <2>4. ops[i].step = "taken"
    BY <1>2, <2>1, <2>2, <2>3 DEF OpShape, StepsOf, NoFailedWrite
  <2>5. i = 1
    <3>1. i \in 2..Len(ops) => ops[i].step = "start"
      BY <1>1, <2>2 DEF QueueShape
    <3>2. i = 1 \/ i \in 2..Len(ops)
      BY <1>1
    <3> QED BY <2>4, <3>1, <3>2
  <2>6. ops # <<>> /\ Head(ops) = ops[1]
    <3>1. ops # <<>>
      BY <1>1
    <3> QED BY <1>1, <3>1, HeadOp
  <2> QED BY <2>1, <2>2, <2>4, <2>5, <2>6 DEF Handing, AtHead
<1>4. ASSUME w \in Defers(ops) PROVE w \in InOps
  BY <1>1, <1>4 DEF InOps, Defers
<1>5. ASSUME Handing(w) PROVE w \in InOps
  <2>1. ops # <<>> /\ Head(ops) = ops[1] /\ Len(ops) \in Nat \ {0}
    BY <1>1, <1>5, HeadOp DEF Handing, AtHead
  <2>2. 1 \in 1..Len(ops)
    BY <2>1
  <2> QED BY <1>1, <1>5, <2>1, <2>2 DEF InOps, Handing, AtHead
<1> QED BY <1>3, <1>4, <1>5

\* An event whose write is in the queue is in an invocation.
LEMMA DefersArePhases ==
    ASSUME DeferralAssumption, InvocationsOK, NEW w \in Events
    PROVE  w \in Defers(ops) <=> Phase(w) \in {"deferring", "redeferring"}
BY DEF InvocationsOK, Agree

\* The property, from the invariant.
LEMMA NothingForgottenHere ==
    ASSUME DeferralAssumption, Good
    PROVE  NothingForgotten
<1> SUFFICES ASSUME owed # None PROVE InPlace(owed)
  BY DEF NothingForgotten
<1>1. PICK w : w = owed
  OBVIOUS
<1>2. w \in Events /\ Waits(w)
  BY <1>1, GoodIs DEF OwedOK
<1>3. Handing(w) => w \in InOps /\ w # None
  BY <1>2, InOpsIs, GoodIs
<1> QED BY <1>1, <1>2, <1>3 DEF Waits, InPlace, Deferred, Stored, InRow


-----------------------------------------------------------------------------
(* The entry of an event. *)

LEMMA RowIsSome ==
    ASSUME DeferralAssumption, NEW e \in Events, NEW n \in Nat
    PROVE  Pending(e, n) # None /\ [event |-> e, notBefore |-> n, status |-> "claimed"] # None
<1>1. Events \subseteq Nat
  <2>1. Events = 1..Cardinality(Events) /\ Cardinality(Events) \in Nat
    BY FS_CardinalityType DEF DeferralAssumption
  <2> QED BY <2>1
<1>2. None \notin [event : Nat, notBefore : Nat, status : {"pending", "claimed"}]
  BY DEF DeferralAssumption
<1>3. Pending(e, n) \in [event : Nat, notBefore : Nat, status : {"pending", "claimed"}]
  BY <1>1 DEF Pending
<1>4. [event |-> e, notBefore |-> n, status |-> "claimed"] \in [event : Nat, notBefore : Nat, status : {"pending", "claimed"}]
  BY <1>1
<1> QED BY <1>2, <1>3, <1>4

WriteAdded(e, at) ==
    \E x : /\ x.kind = "defer" /\ x.event = e /\ x.at \in Nat /\ x.at >= at
           /\ Elements(ops') = Elements(ops) \cup {x}
           /\ Head(ops') = IF ops = <<>> THEN x ELSE Head(ops)
           /\ x.step = "stored" => row' # None /\ row'.event = e /\ row'.status = "pending"

\* The queue after a deferral: its write is the last one, under a new symbol.
LEMMA DeferOrders ==
    ASSUME DeferralAssumption, EnoughTokens, Shapes, QueueOK, backend = "sqlite" => ops = <<>>,
           NEW e \in Events, NEW at \in Nat, Defer(e, at, TRUE)
    PROVE  /\ Ordered(ops', generation') /\ generation' # None
           /\ \A f \in Events : handoffs[f].gen # generation'
           /\ \A w : ~Handing(w)'
           /\ ops' # <<>>
           /\ WriteAdded(e, at)
           /\ row' = row \/ (backend = "sqlite" /\ row' # None /\ row'.event = e)
           /\ memory' = memory /\ timer' = timer
<1> DEFINE instant == Instant(at)  stored == Upsert(e, instant)
           x == IF backend = "postgres" THEN Op("defer", "write", Fresh, e, instant)
                ELSE Op("defer", "stored", Fresh, e, stored.notBefore)
<1>1. instant \in Nat /\ instant >= at
  BY LaterOfTwo DEF Instant, Shapes
<1>2. QueueShape(ops, Known) /\ RowShape(row, Events)
  BY RowGrows DEF Shapes
<1>3. PICK n \in Nat : n >= instant /\ stored = Pending(e, n)
  <2> HIDE DEF instant
  <2> QED BY <1>1, <1>2, UpsertIs
<1>4. stored.notBefore = n /\ stored.event = e /\ stored.status = "pending"
  BY <1>3, PendingRow
<1>5. stored # None
  BY <1>3, RowIsSome
<1>6. /\ ops' = Append(ops, x) /\ generation' = Fresh /\ memory' = memory /\ timer' = timer
      /\ row' = IF backend = "postgres" THEN row ELSE stored
      /\ backend = "postgres" \/ backend = "sqlite"
  BY DEF Defer, Shapes
<1> HIDE DEF instant, stored
<1>7. /\ x.kind = "defer" /\ x.event = e /\ x.at \in Nat /\ x.at >= at
      /\ x.step = (IF backend = "postgres" THEN "write" ELSE "stored") /\ Writes(x)
      /\ OpShape(x, Known \cup {e})
  <2>1. CASE backend = "postgres"
    BY <2>1, <1>1 DEF Op, Writes, OpShape, StepsOf
  <2>2. CASE backend # "postgres"
    BY <2>2, <1>1, <1>3, <1>4 DEF Op, Writes, OpShape, StepsOf
  <2> QED BY <2>1, <2>2
<1> HIDE DEF x
<1>8. Fresh # None /\ Unused(ops, Fresh) /\ \A f \in Events : handoffs[f].gen # Fresh
  BY FreshIs
<1>9. Ordered(ops, Fresh)
  BY <1>8, OrderRenewed DEF QueueOK
<1>10. x.kind = "defer" /\ ops # <<>> => x.step = "write"
  BY <1>6, <1>7
<1>11. Ordered(Append(ops, x), Fresh)
  BY <1>2, <1>8, <1>9, <1>10, OrderAppended
<1>12. /\ Elements(Append(ops, x)) = Elements(ops) \cup {x}
       /\ Append(ops, x) # <<>> /\ Head(Append(ops, x)) = IF ops = <<>> THEN x ELSE Head(ops)
  <2> DEFINE S == Elements(ops) \cup {x}  p == Append(ops, x)
  <2>1. ops \in Seq(S) /\ x \in S /\ Len(ops) \in Nat
    <3>1. Elements(ops) \subseteq S
      OBVIOUS
    <3> HIDE DEF S
    <3>2. ops \in Seq(S)
      BY <1>2, <3>1, QueueIsSeq
    <3> QED BY <3>2 DEF S
  <2>2. /\ p \in Seq(S) /\ Len(p) = Len(ops) + 1 /\ p # <<>>
        /\ \A i \in 1..Len(ops) : p[i] = ops[i]
        /\ p[Len(ops) + 1] = x
    <3> HIDE DEF S
    <3> QED BY <2>1, AppendProperties
  <2>3. 1..(Len(ops) + 1) = (1..Len(ops)) \cup {Len(ops) + 1}
    BY <2>1
  <2>4. Head(p) = IF ops = <<>> THEN x ELSE Head(ops)
    BY <2>1, <2>2
  <2> HIDE DEF p, S
  <2>5. Elements(p) = Elements(ops) \cup {x}
    BY <2>2, <2>3 DEF Elements
  <2> QED BY <2>2, <2>4, <2>5 DEF p
<1>13. \A w : ~Handing(w)'
  <2> SUFFICES ASSUME AtHead("resume", "taken")', Current(Head(ops).gen)' PROVE FALSE
    BY DEF Handing
  <2>1. ops # <<>> /\ Head(ops') = Head(ops)
    BY <1>6, <1>7, <1>12 DEF AtHead
  <2>2. Head(ops) \in Elements(ops)
    BY <1>2, <2>1, HeadOp
  <2> QED BY <1>6, <1>8, <2>1, <2>2 DEF Current, Unused
<1>14. row' = row \/ (backend = "sqlite" /\ row' # None /\ row'.event = e)
  BY <1>4, <1>5, <1>6
<1>15. x.step = "stored" => row' # None /\ row'.event = e /\ row'.status = "pending"
  BY <1>4, <1>5, <1>6, <1>7
<1>16. WriteAdded(e, at)
  <2>1. PICK y : y = x
    OBVIOUS
  <2>2. /\ y.kind = "defer" /\ y.event = e /\ y.at \in Nat /\ y.at >= at
        /\ y.step = "stored" => row' # None /\ row'.event = e /\ row'.status = "pending"
    BY <1>7, <1>15, <2>1
  <2>3. /\ Elements(ops') = Elements(ops) \cup {y}
        /\ Head(ops') = IF ops = <<>> THEN y ELSE Head(ops)
    BY <1>6, <1>12, <2>1
  <2> QED BY <2>2, <2>3, Zenon DEF WriteAdded
<1> QED BY <1>6, <1>8, <1>11, <1>12, <1>13, <1>14, <1>16

\* A deferral keeps its own event, and that of a row it does not replace.
LEMMA DeferralKeeps ==
    ASSUME DeferralAssumption, EnoughTokens, Good, GoodNext, backend = "sqlite" => ops = <<>>, Outside,
           NEW e \in Events, e \in Known', Defer(e, NextAllowed(now), TRUE),
           Phase(e)' \in {"deferring", "redeferring"}, \A f \in Events \ {e} : Phase(f)' = Phase(f),
           UNCHANGED <<now, pending, handoffs, recovery>>, Known \subseteq Known',
           owed' \in {e, owed},
           \A w \in Events : owed = w /\ owed' = w /\ w # e /\ backend = "sqlite" /\ row # None /\ row.event = w
                                => Phase(w) # "none" \/ pending = w
    PROVE  Kept'
<1>1. /\ Shapes /\ InvocationsOK /\ OwedOK /\ QueueOK /\ LiveOK /\ SettlingOK /\ TakenOK /\ StoredOK /\ CalmOK
  BY GoodIs
<1>2. now \in 0..MaxTime /\ NextAllowed(now) \in 0..MaxTime /\ NextAllowed(now) > now /\ now \in Nat
      /\ NextAllowed(now) \in Nat
  <2>1. now \in 0..MaxTime /\ MaxTime \in Nat
    BY <1>1 DEF Shapes, DeferralAssumption
  <2>2. NextAllowed(now) \in 0..MaxTime
    BY <2>1, NextAllowedIs
  <2> QED BY <2>1, <2>2 DEF Outside
<1>3. PICK at \in Nat : at = NextAllowed(now)
  BY <1>2
<1>4. Defer(e, at, TRUE)
  BY <1>3
<1>13. /\ Ordered(ops', generation') /\ generation' # None
       /\ \A f \in Events : handoffs[f].gen # generation'
       /\ \A w : ~Handing(w)'
       /\ ops' # <<>>
       /\ row' = row \/ (backend = "sqlite" /\ row' # None /\ row'.event = e)
       /\ memory' = memory /\ timer' = timer
  BY <1>1, <1>4, DeferOrders
<1>14. WriteAdded(e, at)
  BY <1>1, <1>4, DeferOrders
<1>15. PICK x : /\ x.kind = "defer" /\ x.event = e /\ x.at \in Nat /\ x.at >= at
                /\ Elements(ops') = Elements(ops) \cup {x}
                /\ Head(ops') = IF ops = <<>> THEN x ELSE Head(ops)
                /\ x.step = "stored" => row' # None /\ row'.event = e /\ row'.status = "pending"
  BY <1>14 DEF WriteAdded
<1>5. ASSUME NEW w \in Events, owed' = w PROVE Waits(w)' /\ Phase(w)' # "reviewing"
  <2>1. CASE w = e
    BY <2>1 DEF Waits
  <2>2. CASE w # e
    <3>1. owed = w /\ Phase(w)' = Phase(w) /\ Waits(w) /\ Phase(w) # "reviewing"
      BY <1>1, <1>5, <2>2 DEF OwedOK
    <3>2. CASE row # None /\ row.event = w
      BY <1>13, <1>5, <2>2, <3>1, <3>2 DEF Waits
    <3>3. CASE Handing(w)
      <4>1. ops # <<>> /\ row # None /\ row.event = w
        BY <1>1, <3>3 DEF Handing, AtHead, TakenOK, Claimed, StatusIs
      <4> QED BY <3>2, <4>1
    <3> QED BY <3>1, <3>2, <3>3 DEF Waits
  <2> QED BY <2>1, <2>2
<1>6. OwedOK'
  <2>1. owed' \in Known' \cup {None}
    BY <1>1 DEF OwedOK
  <2> QED BY <1>5, <2>1 DEF OwedOK
<1>7. QueueOK'
  BY <1>1, <1>13 DEF QueueOK
<1>8. LiveOK'
  BY <1>13 DEF LiveOK, Live, Current
<1>9. SettlingOK'
  BY <1>1 DEF SettlingOK, Settled
<1>10. TakenOK'
  BY <1>13 DEF TakenOK
<1>11. StoredOK'
  <2> SUFFICES ASSUME NEW w \in Events, AtHead("defer", "stored")', Head(ops').event = w
               PROVE  row' # None /\ row'.status = "pending" /\ row'.event = w
    BY DEF StoredOK, HeadDefers, RowWaits, StatusIs
  <2>1. CASE ops = <<>>
    BY <1>15, <2>1 DEF AtHead
  <2>2. CASE ops # <<>>
    <3>1. HeadDefers(w) /\ row' = row
      BY <1>13, <1>15, <2>2 DEF HeadDefers, AtHead
    <3> QED BY <1>1, <3>1 DEF StoredOK, RowWaits, StatusIs
  <2> QED BY <2>1, <2>2
<1>12. CalmOK'
  <2>1. x.at > now
    BY <1>2, <1>3, <1>15
  <2> QED BY <1>1, <1>13, <1>15, <2>1 DEF CalmOK
<1> QED BY <1>6, <1>7, <1>8, <1>9, <1>10, <1>11, <1>12 DEF Kept

\* Who is settled and who is live after the handler's promise resolved.
ResolvedTo(e, gen, h) ==
    /\ \A f \in Events : f # e => h[f].step = handoffs[f].step /\ h[f].gen = handoffs[f].gen
    /\ handoffs[e].step # "open" => h = handoffs
    /\ handoffs[e].step = "open" /\ handoffs[e].gen # gen => h[e].step = "none"
    /\ handoffs[e].step = "open" /\ handoffs[e].gen = gen => h[e].step = "settling" /\ h[e].gen = handoffs[e].gen

LEMMA ResolvedIs ==
    ASSUME Shapes, NEW e \in Events, NEW gen
    PROVE  ResolvedTo(e, gen, Resolve(e, TRUE, gen))
<1> DEFINE r == Resolve(e, TRUE, gen)
<1>1. HandoffShape(handoffs) /\ NoHandoff.step = "none"
  BY DEF Shapes, NoHandoff
<1>2. CASE handoffs[e].step # "open"
  BY <1>2 DEF Resolve, ResolvedTo
<1>3. CASE handoffs[e].step = "open" /\ handoffs[e].gen # gen
  <2>1. r = [handoffs EXCEPT ![e] = NoHandoff]
    BY <1>3 DEF Resolve
  <2>2. \A f \in Events : r[f] = IF f = e THEN NoHandoff ELSE handoffs[f]
    BY <1>1, <2>1 DEF HandoffShape
  <2> HIDE DEF r, ResolvedTo
  <2>3. \A f \in Events : f # e => r[f].step = handoffs[f].step /\ r[f].gen = handoffs[f].gen
    BY <2>2
  <2>4. r[e].step = "none"
    BY <1>1, <2>2
  <2> QED BY <1>3, <2>3, <2>4 DEF r, ResolvedTo
<1>4. CASE handoffs[e].step = "open" /\ handoffs[e].gen = gen
  <2>1. r = [handoffs EXCEPT ![e].step = "settling"]
    BY <1>4 DEF Resolve
  <2>2. [handoffs[e] EXCEPT !.step = "settling"] = [gen |-> handoffs[e].gen, step |-> "settling"]
    BY <1>1 DEF HandoffShape
  <2>3. \A f \in Events : r[f] = IF f = e THEN [gen |-> handoffs[e].gen, step |-> "settling"] ELSE handoffs[f]
    BY <1>1, <2>1, <2>2 DEF HandoffShape
  <2> HIDE DEF r, ResolvedTo
  <2>4. \A f \in Events : f # e => r[f].step = handoffs[f].step /\ r[f].gen = handoffs[f].gen
    BY <2>3
  <2>5. r[e].step = "settling" /\ r[e].gen = handoffs[e].gen
    BY <2>3
  <2> QED BY <1>4, <2>4, <2>5 DEF r, ResolvedTo
<1> QED BY <1>2, <1>3, <1>4

\* A queue without writes holds no deferral.
LEMMA NoWritesIs ==
    ASSUME NEW q, NoWrites(q)
    PROVE  Defers(q) = {} /\ \A o \in Elements(q) : o.kind \notin {"defer", "cancel"}
<1>1. \A o \in Elements(q) : o.kind \notin {"defer", "cancel"}
  BY DEF NoWrites, Writes
<1>2. \A i \in 1..Len(q) : q[i].kind # "defer"
  BY <1>1 DEF Elements
<1> QED BY <1>1, <1>2 DEF Defers

-----------------------------------------------------------------------------
(* Attempts. *)

\* Only the invocations move: the owed event stays where it is, or waits nearer
\* to its review.
LEMMA OnlyInvocationsMove ==
    ASSUME DeferralAssumption, Good, Known' = Known,
           UNCHANGED <<now, row, timer, ops, generation, handoffs, recovery>>,
           owed' \in {owed, None},
           \A w \in Events : owed' = w =>
              /\ Phase(w)' # "reviewing"
              /\ Phase(w) # "none" \/ pending = w => Phase(w)' # "none" \/ pending' = w
              /\ Safe(w) => Safe(w)'
    PROVE  Kept'
<1>1. /\ OwedOK /\ QueueOK /\ LiveOK /\ SettlingOK /\ TakenOK /\ StoredOK /\ CalmOK /\ None \notin Events
  BY GoodIs
<1>2. \A w \in Events : owed' = w => owed = w
  BY <1>1
<1>3. \A w \in Events : Handing(w)' <=> Handing(w)
  BY DEF Handing, AtHead, Current
<1>4. OwedOK'
  BY <1>1, <1>2, <1>3 DEF OwedOK, Waits
<1>5. \A w \in Events : (Live(w)' <=> Live(w)) /\ (Settled(w)' <=> Settled(w)) /\ (Claimed(w)' <=> Claimed(w))
                         /\ (HeadDefers(w)' <=> HeadDefers(w)) /\ (RowWaits(w)' <=> RowWaits(w))
  BY DEF Live, Settled, Claimed, HeadDefers, RowWaits, Current, AtHead, StatusIs
<1>6. QueueOK' /\ LiveOK' /\ TakenOK' /\ StoredOK'
  BY <1>1, <1>3, <1>5 DEF QueueOK, LiveOK, TakenOK, StoredOK
<1>7. SettlingOK'
  BY <1>1, <1>2, <1>5 DEF SettlingOK, Outside
<1>8. CalmOK'
  BY <1>1 DEF CalmOK
<1> QED BY <1>4, <1>6, <1>7, <1>8 DEF Kept

LEMMA AttemptInsideKept ==
    ASSUME DeferralAssumption, Good, NEW e \in Events, AttemptInside(e)
    PROVE  Kept'
<1>1. /\ UNCHANGED <<now, row, timer, ops, generation, handoffs, recovery, pending, arrived>>
      /\ inv' = [inv EXCEPT ![e].phase = "reviewing"]
      /\ owed' = IF owed = e THEN None ELSE owed
  BY DEF AttemptInside, deferralVars
<1>2. Shapes /\ OwedOK /\ e # None
  BY GoodIs
<1>3. Sets(e, "reviewing")
  BY <1>1, <1>2, SetsIs DEF Phases
<1>4. \A w \in Events : owed' = w => w # e /\ owed = w /\ Phase(w)' = Phase(w)
  BY <1>1, <1>2, <1>3, KnownAre DEF Sets
<1>5. Known' = Known /\ owed' \in {owed, None}
  BY <1>1 DEF Known
<1> QED BY <1>1, <1>2, <1>4, <1>5, OnlyInvocationsMove DEF Safe, OwedOK

LEMMA ReviewFailsKept ==
    ASSUME DeferralAssumption, Good, NEW e \in Events, ReviewFails(e)
    PROVE  Kept'
<1>1. /\ UNCHANGED <<now, row, timer, ops, generation, handoffs, recovery, pending, arrived, owed>>
      /\ Phase(e) = "reviewing"
      /\ inv' = [inv EXCEPT ![e] = Invocation("waiting", inv[e].attempt + 1, NextAllowed(Later(now)))]
  BY DEF ReviewFails, deferralVars, historyVars
<1>2. Shapes /\ OwedOK
  BY GoodIs
<1>3. Sets(e, "waiting")
  BY <1>1, <1>2, SetsIs DEF Phases
<1>4. \A w \in Events : owed' = w => w # e /\ Phase(w)' = Phase(w)
  BY <1>1, <1>2, <1>3 DEF Sets, OwedOK
<1>5. Known' = Known /\ owed' \in {owed, None}
  BY <1>1 DEF Known
<1> QED BY <1>1, <1>2, <1>4, <1>5, OnlyInvocationsMove DEF Safe, OwedOK

LEMMA ReviewEndsKept ==
    ASSUME DeferralAssumption, Good, NEW e \in Events, ReviewEnds(e)
    PROVE  Kept'
<1>1. /\ UNCHANGED <<now, row, timer, ops, generation, handoffs, recovery, arrived, owed>>
      /\ Phase(e) = "reviewing" /\ Completed(e)
  BY DEF ReviewEnds, deferralVars, historyVars
<1>2. Shapes /\ InvocationsOK /\ OwedOK
  BY GoodIs
<1>3. /\ pending' = None
      /\ \A f \in Events : Phase(f)' = IF f = e THEN "none" ELSE IF f = pending THEN "admitting" ELSE Phase(f)
  BY <1>1, <1>2, CompletedIs DEF Active
<1>4. \A w \in Events : owed' = w => w # e /\ Phase(w)' = IF w = pending THEN "admitting" ELSE Phase(w)
  BY <1>1, <1>2, <1>3 DEF OwedOK
<1>5. Known' = Known /\ owed' \in {owed, None}
  BY <1>1 DEF Known
<1>6. \A w \in Events : owed' = w => Phase(w)' # "reviewing"
  BY <1>1, <1>2, <1>4 DEF OwedOK
<1> QED BY <1>1, <1>2, <1>4, <1>5, <1>6, OnlyInvocationsMove DEF Safe

LEMMA AttemptOutsideKept ==
    ASSUME DeferralAssumption, EnoughTokens, Good, GoodNext, NEW e \in Events, NEW ok \in BOOLEAN,
           AttemptOutside(e, ok)
    PROVE  Kept'
<1>1. /\ Shapes /\ InvocationsOK /\ OwedOK /\ Known \subseteq Events /\ None \notin Events
  BY GoodIs
<1>2. /\ Quiet /\ Outside /\ Phase(e) = "waiting" /\ UNCHANGED <<now, pending, handoffs, recovery, arrived>>
  BY DEF AttemptOutside
<1>3. Known' = Known /\ e \in Known
  BY <1>1, <1>2 DEF Known, InvocationsOK, Agree
<1>4. backend = "sqlite" => ops = <<>>
  BY <1>2 DEF Quiet
<1>5. CASE inv[e].attempt = 1
  <2>1. /\ Defer(e, NextAllowed(now), ok) /\ Replaces(e, Superseded(ok)) /\ Outcome(ok)
        /\ inv' = [inv EXCEPT ![e].phase = "redeferring"]
    BY <1>5 DEF AttemptOutside
  <2>2. ok = TRUE
    BY <1>1, <2>1, OutcomeIs DEF GoodNext
  <2>3. Sets(e, "redeferring")
    BY <1>1, <2>1, SetsIs DEF Phases
  <2>4. owed' = IF owed \notin Superseded(TRUE) \ {None} \/ Phase(owed) \in {"admitting", "waiting"} THEN owed ELSE e
    BY <1>2, <2>1, <2>2 DEF Replaces
  <2>5. Superseded(TRUE) = IF backend = "sqlite" THEN Stored \ {pending} ELSE {}
    BY <1>2 DEF Superseded
  <2>6. \A w \in Events : owed = w /\ owed' = w /\ w # e /\ backend = "sqlite" /\ row # None /\ row.event = w
                             => Phase(w) # "none" \/ pending = w
    BY <1>1, <2>4, <2>5 DEF Stored, InRow
  <2>7. Phase(e)' \in {"deferring", "redeferring"} /\ \A f \in Events \ {e} : Phase(f)' = Phase(f)
    BY <2>3 DEF Sets
  <2>8. Defer(e, NextAllowed(now), TRUE)
    BY <2>1, <2>2
  <2> QED BY <1>2, <1>3, <1>4, <2>4, <2>6, <2>7, <2>8, DeferralKeeps
<1>6. CASE inv[e].attempt # 1
  <2>1. /\ inv' = [inv EXCEPT ![e].at = NextAllowed(now)]
        /\ UNCHANGED <<row, generation, timer, ops, owed>>
    BY <1>6 DEF AttemptOutside
  <2>2. Sets(e, inv[e].phase)
    BY <1>1, <2>1, SetsIs DEF InvocationShape, Shapes
  <2>3. \A f \in Events : Phase(f)' = Phase(f)
    BY <2>2 DEF Sets, Phase
  <2> QED BY <1>1, <1>2, <1>3, <2>1, <2>3, OnlyInvocationsMove DEF Safe, OwedOK
<1> QED BY <1>5, <1>6

-----------------------------------------------------------------------------
(* The three ways in which an event enters. *)

\* e takes the place of the owed event, which otherwise was not put away.
Succeeds(e) ==
    /\ owed' \in {e, owed}
    /\ \A w \in Events : owed' = w /\ w # e => w \notin Superseded(TRUE) \/ Phase(w) \in {"admitting", "waiting"}

LEMMA EnterRunningKept ==
    ASSUME DeferralAssumption, Good, NEW e \in Events, e \in Known', Known \subseteq Known', Succeeds(e),
           ~Outside, running, Enter(e, TRUE), UNCHANGED <<now, recovery>>
    PROVE  Kept'
<1>1. /\ Shapes /\ InvocationsOK /\ OwedOK /\ QueueOK /\ LiveOK /\ SettlingOK /\ TakenOK /\ StoredOK /\ CalmOK
      /\ None \notin Events /\ Known \subseteq Events
  BY GoodIs
<1>2. /\ pending' = e /\ inv' = [inv EXCEPT ![e] = Idle]
      /\ handoffs' = Resolve(e, TRUE, generation)
      /\ UNCHANGED <<running, row, memory, deadline, generation, timer, ops>>
  BY DEF Enter, SetPending
<1>3. Phase(e)' = "none" /\ \A f \in Events : f # e => Phase(f)' = Phase(f)
  <2>1. Sets(e, "none")
    BY <1>1, <1>2, SetsIs DEF Phases
  <2> QED BY <2>1 DEF Sets
<1>4. /\ \A f \in Events : f # e => handoffs'[f].step = handoffs[f].step /\ handoffs'[f].gen = handoffs[f].gen
      /\ handoffs[e].step # "open" => handoffs' = handoffs
      /\ handoffs[e].step = "open" /\ handoffs[e].gen # generation => handoffs'[e].step = "none"
      /\ handoffs[e].step = "open" /\ handoffs[e].gen = generation =>
            handoffs'[e].step = "settling" /\ handoffs'[e].gen = handoffs[e].gen
  <2>1. ResolvedTo(e, generation, Resolve(e, TRUE, generation))
    BY <1>1, ResolvedIs
  <2>2. ResolvedTo(e, generation, handoffs')
    BY <1>2, <2>1
  <2> QED BY <2>2 DEF ResolvedTo
<1>5. \A w \in Events : (Handing(w)' <=> Handing(w)) /\ (Claimed(w)' <=> Claimed(w))
                         /\ (HeadDefers(w)' <=> HeadDefers(w)) /\ (RowWaits(w)' <=> RowWaits(w))
  BY <1>2 DEF Handing, Claimed, HeadDefers, RowWaits, Current, AtHead, StatusIs
<1>6. \A f \in Events : Live(f)' => Live(f)
  BY <1>2, <1>4 DEF Live, Current
<1>7. \A f \in Events : Settled(f)' => Settled(f) \/ (f = e /\ Live(e))
  BY <1>1, <1>2, <1>4 DEF Settled, Live, Current, QueueOK
<1>8. \A w \in Events : owed' = w /\ w # e => owed = w /\ pending # w
  <2> TAKE w \in Events
  <2> HAVE owed' = w /\ w # e
  <2>1. owed = w /\ (w # pending \/ Phase(w) \in {"admitting", "waiting"})
    BY <1>1, <1>2 DEF Succeeds, Superseded
  <2>2. pending = w => Phase(w) = "none"
    BY <1>1 DEF InvocationsOK, Agree
  <2> QED BY <2>1, <2>2
<1>9. OwedOK'
  <2>1. owed' \in Known' \cup {None}
    BY <1>1 DEF OwedOK, Succeeds
  <2>2. ASSUME NEW w \in Events, owed' = w PROVE Waits(w)' /\ Phase(w)' # "reviewing"
    <3>1. CASE w = e
      BY <1>2, <1>3, <3>1 DEF Waits
    <3>2. CASE w # e
      BY <1>1, <1>2, <1>3, <1>5, <1>8, <2>2, <3>2 DEF OwedOK, Waits
    <3> QED BY <3>1, <3>2
  <2> QED BY <2>1, <2>2 DEF OwedOK
<1>10. QueueOK'
  BY <1>1, <1>2, <1>4 DEF QueueOK
<1>11. LiveOK'
  BY <1>1, <1>2, <1>5, <1>6 DEF LiveOK
<1>12. TakenOK'
  BY <1>1, <1>5, <1>6, <1>7 DEF TakenOK
<1>13. StoredOK'
  BY <1>1, <1>5 DEF StoredOK
<1>14. CalmOK'
  BY <1>1, <1>2, <1>4 DEF CalmOK
<1>15. ASSUME NEW f \in Events, Settled(f)'
       PROVE  /\ ~Outside /\ Defers(ops) = {}
              /\ generation # None => NoWrites(ops) /\ Claimed(f)
              /\ \A w \in Events : owed' = w => Safe(w)'
  <2>1. ASSUME NEW w \in Events, owed' = w, w # e, Safe(w) PROVE Safe(w)'
    BY <1>3, <1>8, <2>1 DEF Safe
  <2>2. Safe(e)'
    BY <1>2 DEF Safe
  <2>3. CASE Settled(f)
    BY <1>1, <1>8, <2>1, <2>2, <2>3 DEF SettlingOK
  <2>4. CASE f = e /\ Live(e)
    <3>1. NoWrites(ops) /\ Claimed(e)
      BY <1>1, <2>4 DEF LiveOK
    <3>2. ASSUME NEW w \in Events, owed' = w, w # e PROVE Safe(w)
      <4>1. ~Handing(w) /\ ~(row # None /\ row.event = w)
        BY <1>1, <2>4, <3>1, <3>2 DEF TakenOK, Claimed
      <4>2. Waits(w) /\ Phase(w) # "reviewing" /\ pending # w
        BY <1>1, <1>8, <3>2 DEF OwedOK
      <4> QED BY <4>1, <4>2 DEF Waits, Safe
    <3> QED BY <2>1, <2>2, <2>4, <3>1, <3>2, NoWritesIs
  <2> QED BY <1>7, <1>15, <2>3, <2>4
<1>16. SettlingOK'
  BY <1>2, <1>5, <1>15 DEF SettlingOK, Outside
<1> QED BY <1>9, <1>10, <1>11, <1>12, <1>13, <1>14, <1>16 DEF Kept

\* With a cancellation no handoff stays open: its generation is gone.
LEMMA EnterStartsKept ==
    ASSUME DeferralAssumption, Good, NEW e \in Events, e \in Known', Known \subseteq Known', Succeeds(e), Quiet,
           pending # e, ~Outside, ~running, Enter(e, TRUE), UNCHANGED <<now, recovery>>
    PROVE  Kept'
<1>1. /\ Shapes /\ InvocationsOK /\ OwedOK /\ QueueOK /\ LiveOK /\ SettlingOK /\ TakenOK /\ StoredOK /\ CalmOK
      /\ None \notin Events /\ Known \subseteq Events
  BY GoodIs
<1>2. /\ Cancel(e, TRUE) /\ inv' = [inv EXCEPT ![e] = Invocation("waiting", 1, now)]
      /\ handoffs' = Resolve(e, TRUE, None) /\ pending' = pending
  BY DEF Enter
<1>3. Phase(e)' = "waiting" /\ \A f \in Events : f # e => Phase(f)' = Phase(f)
  <2>1. Sets(e, "waiting")
    BY <1>1, <1>2, SetsIs DEF Phases
  <2> QED BY <2>1 DEF Sets
<1>4. /\ \A f \in Events : f # e => handoffs'[f].step = handoffs[f].step /\ handoffs'[f].gen = handoffs[f].gen
      /\ handoffs[e].step # "open" => handoffs' = handoffs
      /\ handoffs[e].step = "open" => handoffs'[e].step = "none"
  <2>1. ResolvedTo(e, None, Resolve(e, TRUE, None))
    BY <1>1, ResolvedIs
  <2>2. ResolvedTo(e, None, handoffs')
    BY <1>2, <2>1
  <2> QED BY <1>1, <2>2 DEF ResolvedTo, QueueOK
<1>5. /\ timer' = None /\ generation' = None
      /\ backend = "postgres" => ops' = Append(ops, Op("cancel", "write", None, e, 0)) /\ row' = row
      /\ backend = "sqlite" => ops = <<>> /\ ops' = <<>> /\ row' = None
      /\ backend \in {"postgres", "sqlite"}
  BY <1>1, <1>2 DEF Cancel, Quiet, Shapes
<1>6. /\ QueueShape(ops, Known) /\ Defers(ops') = Defers(ops)
  <2>1. QueueShape(ops, Known) /\ Known \subseteq Events
    BY <1>1 DEF Shapes
  <2>2. Defers(ops') = Defers(ops)
    BY <1>1, <1>2, CancelIs
  <2> QED BY <2>1, <2>2
<1>7. PICK x : x = Op("cancel", "write", None, e, 0)
  OBVIOUS
<1>8. x.kind = "cancel"
  BY <1>7 DEF Op
<1>9. /\ Ordered(ops', None)
      /\ \A o \in Elements(ops') : o \in Elements(ops) \/ o.kind = "cancel"
      /\ \A w \in Events : HeadDefers(w)' => HeadDefers(w) /\ row' = row
  <2>1. CASE backend = "sqlite"
    <3>1. Elements(ops') = {} /\ ops' = <<>> /\ ops' = ops
      BY <1>5, <2>1, EmptyQueue
    <3>2. Ordered(ops, None)
      BY <1>1, OrderRenewed DEF QueueOK, Unused
    <3> QED BY <3>1, <3>2 DEF HeadDefers, AtHead
  <2>2. CASE backend = "postgres"
    <3>1. ops' = Append(ops, x) /\ row' = row
      BY <1>5, <1>7, <2>2
    <3>2. Ordered(ops, None) /\ Unused(ops, None)
      BY <1>1, OrderRenewed DEF QueueOK, Unused
    <3>3. Ordered(Append(ops, x), None)
      BY <1>6, <1>8, <3>2, OrderAppended
    <3>4. OpShape(x, Known \cup {e})
      BY <1>7 DEF Op, OpShape, StepsOf
    <3>5. QueueShape(ops, Known \cup {e})
      BY <1>6, QueueGrows
    <3>6. /\ Elements(Append(ops, x)) = Elements(ops) \cup {x}
          /\ Append(ops, x) # <<>> /\ Head(Append(ops, x)) = IF ops = <<>> THEN x ELSE Head(ops)
      BY <1>8, <3>4, <3>5, AppendOp
    <3> QED BY <1>8, <3>1, <3>3, <3>6 DEF HeadDefers, AtHead
  <2> QED BY <1>5, <2>1, <2>2
<1>10. \A w \in Events : ~Live(w)' /\ ~Handing(w)'
  BY <1>5 DEF Live, Handing, Current
<1>11. \A f \in Events : Settled(f)' => Settled(f)
  BY <1>4 DEF Settled
<1>12. \A w \in Events : owed' = w => w = e \/ owed = w
  BY DEF Succeeds
<1>13. OwedOK'
  <2>1. owed' \in Known' \cup {None}
    BY <1>1 DEF OwedOK, Succeeds
  <2>2. ASSUME NEW w \in Events, owed' = w PROVE Waits(w)' /\ Phase(w)' # "reviewing"
    <3>1. CASE w = e
      BY <1>3, <3>1 DEF Waits
    <3>2. CASE w # e
      <4>1. owed = w /\ Waits(w) /\ Phase(w)' = Phase(w) /\ Phase(w) # "reviewing" /\ w # None
        BY <1>1, <1>3, <1>12, <2>2, <3>2 DEF OwedOK
      <4>2. Handing(w) => row # None /\ row.event = w
        BY <1>1 DEF TakenOK, Claimed, StatusIs
      <4>3. CASE backend = "postgres"
        BY <1>2, <1>5, <4>1, <4>2, <4>3 DEF Waits
      <4>4. CASE backend = "sqlite"
        <5>1. ~Handing(w)
          BY <1>5, <4>4 DEF Handing, AtHead
        <5>2. row # None /\ row.event = w => pending = w \/ Phase(w) # "none"
          BY <2>2, <3>2, <4>4 DEF Succeeds, Superseded, Stored, InRow
        <5> QED BY <1>2, <4>1, <5>1, <5>2 DEF Waits
      <4> QED BY <1>5, <4>3, <4>4
    <3> QED BY <3>1, <3>2
  <2> QED BY <2>1, <2>2 DEF OwedOK
<1>14. QueueOK'
  BY <1>1, <1>4, <1>5, <1>9 DEF QueueOK
<1>15. SettlingOK'
  <2> SUFFICES ASSUME NEW f \in Events, Settled(f)
               PROVE  Defers(ops) = {} /\ \A w \in Events : owed' = w => Safe(w)'
    BY <1>5, <1>6, <1>11 DEF SettlingOK, Outside
  <2>1. Defers(ops) = {} /\ \A w \in Events : owed = w => Safe(w)
    BY <1>1 DEF SettlingOK
  <2>2. ASSUME NEW w \in Events, owed' = w PROVE Safe(w)'
    BY <1>2, <1>3, <1>12, <2>1, <2>2 DEF Safe
  <2> QED BY <2>1, <2>2
<1>16. LiveOK' /\ TakenOK'
  BY <1>10 DEF LiveOK, TakenOK
<1>17. StoredOK'
  BY <1>1, <1>9 DEF StoredOK, RowWaits, StatusIs
<1>18. CalmOK'
  BY <1>1, <1>4, <1>5, <1>9 DEF CalmOK
<1> QED BY <1>13, <1>14, <1>15, <1>16, <1>17, <1>18 DEF Kept

LEMMA EnterKept ==
    ASSUME DeferralAssumption, EnoughTokens, Good, GoodNext, NEW e \in Events, e \in Known', Known \subseteq Known',
           Succeeds(e), Quiet, pending # e, Enter(e, TRUE), UNCHANGED <<now, recovery>>
    PROVE  Kept'
<1>1. CASE Outside
  <2>1. /\ Defer(e, NextAllowed(now), TRUE) /\ inv' = [inv EXCEPT ![e] = Invocation("deferring", 1, 0)]
        /\ UNCHANGED <<pending, handoffs>>
    BY <1>1 DEF Enter
  <2>2. Shapes
    BY GoodIs
  <2>3. Sets(e, "deferring")
    BY <2>1, <2>2, SetsIs DEF Phases
  <2>4. \A w \in Events : owed = w /\ owed' = w /\ w # e /\ backend = "sqlite" /\ row # None /\ row.event = w
                             => Phase(w) # "none" \/ pending = w
    BY <1>1 DEF Succeeds, Superseded, Stored, InRow
  <2>5. Phase(e)' \in {"deferring", "redeferring"} /\ \A f \in Events \ {e} : Phase(f)' = Phase(f)
    BY <2>3 DEF Sets
  <2>6. backend = "sqlite" => ops = <<>>
    BY DEF Quiet
  <2>7. owed' \in {e, owed}
    BY DEF Succeeds
  <2> QED BY <1>1, <2>1, <2>4, <2>5, <2>6, <2>7, DeferralKeeps
<1>2. CASE ~Outside /\ running
  BY <1>2, EnterRunningKept
<1>3. CASE ~Outside /\ ~running
  BY <1>3, EnterStartsKept
<1> QED BY <1>1, <1>2, <1>3

LEMMA ArriveKept ==
    ASSUME DeferralAssumption, EnoughTokens, Good, GoodNext, NEW e \in Events, NEW ok \in BOOLEAN, Arrive(e, ok)
    PROVE  Kept'
<1>1. /\ Quiet /\ e = arrived + 1 /\ arrived' = e /\ Enter(e, ok) /\ owed' = e /\ Outcome(ok)
      /\ UNCHANGED <<now, recovery>>
  BY DEF Arrive
<1>2. Shapes /\ InvocationsOK
  BY GoodIs
<1>3. ok = TRUE
  BY <1>1, <1>2, OutcomeIs DEF GoodNext
<1>4. Known \subseteq Known' /\ e \in Known' /\ e \notin Known
  <2>1. arrived \in Nat
    BY <1>2 DEF Shapes
  <2>2. 1..(arrived + 1) = (1..arrived) \cup {arrived + 1} /\ arrived + 1 \notin 1..arrived
    BY <2>1
  <2> QED BY <1>1, <2>2 DEF Known
<1>5. pending # e
  BY <1>2, <1>4, KnownAre DEF Shapes
<1>6. Succeeds(e)
  BY <1>1 DEF Succeeds
<1>7. Enter(e, TRUE)
  BY <1>1, <1>3
<1> QED BY <1>1, <1>4, <1>5, <1>6, <1>7, EnterKept

LEMMA AdmitKept ==
    ASSUME DeferralAssumption, EnoughTokens, Good, GoodNext, NEW e \in Events, NEW ok \in BOOLEAN, Admit(e, ok)
    PROVE  Kept'
<1>1. /\ Quiet /\ Phase(e) = "admitting" /\ Enter(e, ok) /\ Replaces(e, Superseded(ok)) /\ Outcome(ok)
      /\ UNCHANGED <<now, recovery, arrived>>
  BY DEF Admit
<1>2. Shapes /\ InvocationsOK /\ None \notin Events
  BY GoodIs
<1>3. ok = TRUE
  BY <1>1, <1>2, OutcomeIs DEF GoodNext
<1>4. Known' = Known /\ e \in Known /\ pending # e
  BY <1>1, <1>2 DEF Known, InvocationsOK, Agree
<1>5. owed' = IF owed \notin Superseded(TRUE) \ {None} \/ Phase(owed) \in {"admitting", "waiting"} THEN owed ELSE e
  BY <1>1, <1>3 DEF Replaces
<1>6. Succeeds(e)
  <2>1. owed' \in {e, owed}
    BY <1>5
  <2>2. ASSUME NEW w \in Events, owed' = w, w # e PROVE w \notin Superseded(TRUE) \/ Phase(w) \in {"admitting", "waiting"}
    <3>1. w # None
      BY <1>2
    <3>2. owed = w
      BY <1>5, <2>2
    <3> QED BY <1>5, <2>2, <3>1, <3>2
  <2> QED BY <2>1, <2>2 DEF Succeeds
<1>7. Enter(e, TRUE)
  BY <1>1, <1>3
<1> QED BY <1>1, <1>4, <1>6, <1>7, EnterKept

-----------------------------------------------------------------------------
(* The promise of a deferral settles; a target is handed over. *)

\* The head of the queue is done: the next one has not begun.
LEMMA HeadDone ==
    ASSUME Good, DeferralAssumption, ops # <<>>, ops' = Tail(ops)
    PROVE  /\ \A g : Ordered(ops, g) => Ordered(ops', g)
           /\ Head(ops).kind = "resume" /\ generation # None /\ Head(ops).gen = generation => NoWrites(ops')
           /\ \A w : ~Handing(w)' /\ ~HeadDefers(w)'
           /\ Elements(ops') \subseteq Elements(ops)
           /\ Head(ops).kind # "defer" => Defers(ops') = Defers(ops)
<1>1. QueueShape(ops, Known) /\ Ordered(ops, generation) /\ Shapes
  BY GoodIs DEF Shapes, QueueOK
<1>2. \A g : Ordered(ops, g) => Ordered(Tail(ops), g)
  BY <1>1, OrderTail
<1>3. /\ Head(ops).kind = "resume" /\ generation # None /\ Head(ops).gen = generation => NoWrites(Tail(ops))
      /\ Tail(ops) # <<>> /\ Head(Tail(ops)).kind = "defer" => Head(Tail(ops)).step = "write"
  BY <1>1, OrderTail
<1>4. /\ Elements(ops') \subseteq Elements(ops)
      /\ Head(ops).kind # "defer" => Defers(ops') = Defers(ops)
      /\ ~AtHead("resume", "taken")'
  BY <1>1, DoneIs
<1> QED BY <1>2, <1>3, <1>4 DEF Handing, HeadDefers, AtHead

LEMMA DeferSettlesKept ==
    ASSUME DeferralAssumption, Good, GoodNext, DeferSettles
    PROVE  Kept'
<1>1. /\ Shapes /\ InvocationsOK /\ OwedOK /\ QueueOK /\ LiveOK /\ SettlingOK /\ TakenOK /\ StoredOK /\ CalmOK
      /\ None \notin Events /\ NoFailedWrite /\ memory = None /\ memory' = None
  BY GoodIs, GoodNextIs
<1>2. PICK e : e = Head(ops).event
  OBVIOUS
<1>3. /\ ops # <<>> /\ ops' = Tail(ops) /\ Head(ops).kind = "defer"
      /\ Head(ops).step \in {"stored", "unstored"}
      /\ UNCHANGED <<row, generation, now, recovery, arrived>>
      /\ timer' \in {timer, Head(ops).at}
  BY DEF DeferSettles, SettleDefer, AtHead, Done, Arm
<1>4. QueueShape(ops, Known) /\ Head(ops) \in Elements(ops) /\ e \in Defers(ops) /\ e \in Known /\ e \in Events
      /\ Head(ops).at \in Nat /\ now \in Nat
  <2>1. QueueShape(ops, Known) /\ Known \subseteq Events /\ now \in 0..MaxTime /\ MaxTime \in Nat
    BY <1>1 DEF Shapes, DeferralAssumption
  <2>2. Head(ops) \in Elements(ops) /\ e \in Defers(ops) /\ OpShape(Head(ops), Known)
    BY <1>2, <1>3, <2>1, HeadOp
  <2> QED BY <1>2, <1>3, <2>1, <2>2 DEF OpShape
<1>5. Head(ops).step = "stored" /\ HeadDefers(e)
  BY <1>1, <1>2, <1>3, <1>4 DEF NoFailedWrite, HeadDefers, AtHead
<1>6. RowWaits(e)
  BY <1>1, <1>4, <1>5 DEF StoredOK
<1>7. \A f \in Events : ~Live(f) /\ ~Settled(f) /\ ~Handing(f)
  BY <1>1, <1>4, <1>6 DEF LiveOK, SettlingOK, TakenOK, RowWaits, Claimed, StatusIs
<1>8. owed' = owed
  BY <1>1, <1>5 DEF DeferSettles
<1>9. Phase(e) \in {"deferring", "redeferring"} /\ pending # e
  BY <1>1, <1>4 DEF InvocationsOK, Agree
<1>10. /\ Phase(e)' = "none"
       /\ \A w \in Events : w # e => /\ Phase(w)' = Phase(w) \/ Phase(w)' = "admitting"
                                     /\ pending = w => pending' = w \/ Phase(w)' = "admitting"
       /\ \A f \in Events : handoffs'[f].step # "none" => handoffs[f].step # "none" /\ handoffs'[f].gen = handoffs[f].gen
       /\ \A f \in Events : handoffs'[f].step # "none" => handoffs'[f].step = handoffs[f].step
  <2>1. CASE Phase(e) = "deferring"
    <3>1. inv' = [inv EXCEPT ![e] = Idle] /\ pending' = pending /\ handoffs' = Resolve(e, TRUE, generation)
      <4>1. handoffs' = Resolve(e, Head(ops).step = "stored" \/ ~durable, generation)
        BY <1>2, <2>1 DEF DeferSettles
      <4>2. (Head(ops).step = "stored" \/ ~durable) = TRUE
        BY <1>5
      <4>3. inv' = [inv EXCEPT ![e] = Idle] /\ pending' = pending
        BY <1>2, <2>1 DEF DeferSettles
      <4> QED BY <4>1, <4>2, <4>3
    <3>2. Sets(e, "none")
      BY <1>1, <1>4, <3>1, SetsIs DEF Phases
    <3>3. ResolvedTo(e, generation, handoffs')
      <4>1. ResolvedTo(e, generation, Resolve(e, TRUE, generation))
        BY <1>1, <1>4, ResolvedIs
      <4> QED BY <3>1, <4>1
    <3>4. handoffs[e].step # "open" \/ handoffs[e].gen # generation
      BY <1>1, <1>4, <1>7 DEF Live, Current, QueueOK
    <3>5. \A f \in Events : handoffs'[f].step # "none" => handoffs'[f].step = handoffs[f].step /\ handoffs'[f].gen = handoffs[f].gen
      BY <3>3, <3>4 DEF ResolvedTo
    <3> QED BY <3>1, <3>2, <3>5 DEF Sets
  <2>2. CASE Phase(e) = "redeferring"
    <3>1. Completed(e) /\ handoffs' = handoffs
      BY <1>2, <1>5, <2>2 DEF DeferSettles
    <3>2. \A f \in Events : Phase(f)' = IF f = e THEN "none" ELSE IF f = pending THEN "admitting" ELSE Phase(f)
      BY <1>1, <1>4, <2>2, <3>1, CompletedIs DEF Active
    <3> QED BY <1>4, <3>1, <3>2
  <2> QED BY <1>9, <2>1, <2>2
<1>11. /\ Ordered(ops', generation) /\ Elements(ops') \subseteq Elements(ops)
       /\ \A w : ~Handing(w)' /\ ~HeadDefers(w)'
  BY <1>1, <1>3, HeadDone DEF QueueOK
<1>12. OwedOK'
  <2>1. owed' \in Known' \cup {None}
    BY <1>1, <1>3, <1>8 DEF OwedOK, Known
  <2>2. ASSUME NEW w \in Events, owed' = w PROVE Waits(w)' /\ Phase(w)' # "reviewing"
    <3>1. CASE w = e
      BY <1>3, <1>6, <1>10, <3>1 DEF Waits, RowWaits, StatusIs
    <3>2. CASE w # e
      <4>1. Waits(w) /\ Phase(w) # "reviewing"
        BY <1>1, <1>8, <2>2 DEF OwedOK
      <4> QED BY <1>3, <1>7, <1>10, <3>2, <4>1 DEF Waits
    <3> QED BY <3>1, <3>2
  <2> QED BY <2>1, <2>2 DEF OwedOK
<1>13. QueueOK'
  BY <1>1, <1>3, <1>10, <1>11 DEF QueueOK
<1>14. \A f \in Events : ~Live(f)' /\ ~Settled(f)'
  BY <1>3, <1>7, <1>10 DEF Live, Settled, Current
<1>15. LiveOK' /\ SettlingOK' /\ TakenOK' /\ StoredOK'
  <2>1. LiveOK'
    BY <1>14 DEF LiveOK
  <2>2. SettlingOK'
    BY <1>14 DEF SettlingOK
  <2>3. TakenOK' /\ StoredOK'
    BY <1>11 DEF TakenOK, StoredOK
  <2> QED BY <2>1, <2>2, <2>3
<1>16. CalmOK'
  <2> SUFFICES ASSUME recovery' # "done" PROVE CalmOK'
    BY DEF CalmOK
  <2>1. Head(ops).at > now
    BY <1>1, <1>3, <1>4 DEF CalmOK
  <2>2. timer' # None => timer' > now
    BY <1>1, <1>3, <2>1 DEF CalmOK
  <2>3. \A f \in Events : handoffs'[f].step = "none"
    BY <1>1, <1>3, <1>10 DEF CalmOK
  <2> QED BY <1>1, <1>3, <1>11, <2>2, <2>3 DEF CalmOK
<1> QED BY <1>12, <1>13, <1>15, <1>16 DEF Kept

LEMMA TargetHandedOverKept ==
    ASSUME DeferralAssumption, Good, GoodNext, TargetHandedOver
    PROVE  Kept'
<1>1. /\ Shapes /\ InvocationsOK /\ OwedOK /\ QueueOK /\ LiveOK /\ SettlingOK /\ TakenOK /\ StoredOK /\ CalmOK
      /\ None \notin Events /\ ~again' /\ ~stopped
  BY GoodIs, GoodNextIs DEF Good
<1>2. PICK e : e = Head(ops).event
  OBVIOUS
<1>3. /\ AtHead("resume", "taken") /\ ops # <<>> /\ Head(ops).kind = "resume" /\ ops' = Tail(ops)
      /\ inv' = IF HandsOver THEN [inv EXCEPT ![e] = Invocation("admitting", 1, 0)] ELSE inv
      /\ row' = row
      /\ handoffs' = IF HandsOver THEN [handoffs EXCEPT ![e] = [gen |-> Head(ops).gen, step |-> "open"]] ELSE handoffs
      /\ UNCHANGED <<timer, generation, now, recovery, arrived, owed, pending>>
  BY <1>1, <1>2 DEF TargetHandedOver, ResumeTaken, AtHead, Done
<1>4. /\ QueueShape(ops, Known) /\ Head(ops) \in Elements(ops) /\ e \in Known \cup {None} /\ Known \subseteq Events
  <2>1. QueueShape(ops, Known) /\ Known \subseteq Events
    BY <1>1 DEF Shapes
  <2>2. Head(ops) \in Elements(ops) /\ OpShape(Head(ops), Known)
    BY <1>3, <2>1, HeadOp
  <2> QED BY <1>2, <2>1, <2>2 DEF OpShape
<1>5. recovery = "done"
  BY <1>1, <1>3, <1>4 DEF CalmOK
<1>6. /\ Ordered(ops', generation)
      /\ generation # None /\ Head(ops).gen = generation => NoWrites(ops')
      /\ \A w : ~Handing(w)' /\ ~HeadDefers(w)'
      /\ Elements(ops') \subseteq Elements(ops) /\ Defers(ops') = Defers(ops)
  BY <1>1, <1>3, HeadDone DEF QueueOK
<1>7. \A w \in Events : Handing(w) <=> HandsOver /\ w = e
  BY <1>1, <1>2, <1>3 DEF Handing, HandsOver
<1>8. TakenOK' /\ StoredOK' /\ CalmOK'
  BY <1>3, <1>5, <1>6 DEF TakenOK, StoredOK, CalmOK
<1>9. CASE HandsOver
  <2>1. e \in Events /\ Current(Head(ops).gen) /\ Handing(e)
    BY <1>2, <1>4, <1>7, <1>9 DEF HandsOver
  <2>2. Claimed(e) /\ \A f \in Events : ~Live(f) /\ ~Settled(f)
    BY <1>1, <2>1 DEF TakenOK
  <2>3. Sets(e, "admitting")
    BY <1>1, <1>3, <1>9, <2>1, SetsIs DEF Phases
  <2>4. handoffs = [f \in Events |-> handoffs[f]]
    BY <1>1 DEF Shapes, HandoffShape
  <2>5. /\ \A f \in Events : f # e => handoffs'[f] = handoffs[f]
        /\ handoffs'[e].step = "open" /\ handoffs'[e].gen = Head(ops).gen
    BY <1>3, <1>9, <2>1, <2>4
  <2>6. \A f \in Events : (Live(f)' => f = e) /\ ~Settled(f)'
    BY <1>3, <2>2, <2>5 DEF Live, Settled, Current
  <2>7. NoWrites(ops') /\ Claimed(e)'
    BY <1>3, <1>6, <2>1, <2>2 DEF Current, Claimed, StatusIs
  <2>8. LiveOK' /\ SettlingOK'
    BY <2>6, <2>7 DEF LiveOK, SettlingOK
  <2>9. QueueOK'
    BY <1>1, <1>3, <1>6, <2>1, <2>5 DEF QueueOK, Current
  <2>10. OwedOK'
    <3>1. owed' \in Known' \cup {None}
      BY <1>1, <1>3 DEF OwedOK, Known
    <3>2. ASSUME NEW w \in Events, owed' = w PROVE Waits(w)' /\ Phase(w)' # "reviewing"
      BY <1>1, <1>3, <1>7, <2>3, <3>2 DEF OwedOK, Waits, Sets
    <3> QED BY <3>1, <3>2 DEF OwedOK
  <2> QED BY <1>8, <2>8, <2>9, <2>10 DEF Kept
<1>10. CASE ~HandsOver
  <2>1. \A w \in Events : (Live(w)' <=> Live(w)) /\ (Settled(w)' <=> Settled(w)) /\ (Claimed(w)' <=> Claimed(w)) /\ ~Handing(w)
    BY <1>3, <1>7, <1>10 DEF Live, Settled, Claimed, Current, StatusIs
  <2>2. NoWrites(ops) => NoWrites(ops')
    BY <1>6 DEF NoWrites
  <2>3. \A w \in Events : Phase(w)' = Phase(w) /\ (Safe(w)' <=> Safe(w))
    BY <1>3, <1>10 DEF Phase, Safe
  <2>4. LiveOK' /\ SettlingOK'
    BY <1>1, <1>3, <1>6, <2>1, <2>2, <2>3 DEF LiveOK, SettlingOK, Outside
  <2>5. QueueOK'
    BY <1>1, <1>3, <1>6, <1>10 DEF QueueOK
  <2>6. OwedOK'
    BY <1>1, <1>3, <2>1, <2>3 DEF OwedOK, Waits, Known
  <2> QED BY <1>8, <2>4, <2>5, <2>6 DEF Kept
<1> QED BY <1>9, <1>10

-----------------------------------------------------------------------------
(* The queue moves on, the row stays. *)

LEMMA QueueKept ==
    ASSUME DeferralAssumption, Good, UNCHANGED <<now, row, generation, handoffs, recovery, arrived, owed, inv, pending>>,
           Ordered(ops', generation), Defers(ops') = Defers(ops),
           \A o \in Elements(ops') \ Elements(ops) : ~Writes(o) /\ (recovery = "done" \/ o.kind # "resume"),
           \A w \in Events : /\ Handing(w)' => Handing(w)
                             /\ HeadDefers(w)' => HeadDefers(w)
                             /\ owed = w /\ Handing(w) => Handing(w)',
           timer' \in {timer, None} \/ recovery = "done"
    PROVE  Kept'
<1>1. OwedOK /\ QueueOK /\ LiveOK /\ SettlingOK /\ TakenOK /\ StoredOK /\ CalmOK
  BY GoodIs
<1>2. \A w \in Events : /\ Phase(w)' = Phase(w) /\ (Safe(w)' <=> Safe(w)) /\ (Live(w)' <=> Live(w))
                        /\ (Settled(w)' <=> Settled(w)) /\ (Claimed(w)' <=> Claimed(w)) /\ (RowWaits(w)' <=> RowWaits(w))
  BY DEF Phase, Safe, Live, Settled, Claimed, RowWaits, Current, StatusIs
<1>3. NoWrites(ops) => NoWrites(ops')
  BY DEF NoWrites
<1>4. OwedOK'
  BY <1>1, <1>2 DEF OwedOK, Waits, Known
<1>5. QueueOK'
  BY <1>1 DEF QueueOK
<1>6. LiveOK'
  BY <1>1, <1>2, <1>3 DEF LiveOK
<1>7. SettlingOK'
  BY <1>1, <1>2, <1>3 DEF SettlingOK, Outside
<1>8. TakenOK'
  BY <1>1, <1>2 DEF TakenOK
<1>9. StoredOK'
  BY <1>1, <1>2 DEF StoredOK
<1>10. CalmOK'
  BY <1>1 DEF CalmOK, Writes
<1> QED BY <1>4, <1>5, <1>6, <1>7, <1>8, <1>9, <1>10 DEF Kept

\* A new operation that writes nothing.
LEMMA AppendKept ==
    ASSUME DeferralAssumption, Good, UNCHANGED <<now, row, generation, handoffs, recovery, arrived, owed, inv, pending>>,
           NEW x, OpShape(x, Known), x.kind \in {"resume", "withdraw"}, x.kind = "resume" => x.step = "start" /\ recovery = "done",
           ops' = Append(ops, x), timer' \in {timer, None} \/ recovery = "done"
    PROVE  Kept'
<1>1. QueueOK /\ QueueShape(ops, Known)
  BY GoodIs DEF Shapes
<1>2. /\ Elements(ops') = Elements(ops) \cup {x} /\ Defers(ops') = Defers(ops)
      /\ ops' # <<>> /\ Head(ops') = IF ops = <<>> THEN x ELSE Head(ops)
  <2>1. /\ Elements(Append(ops, x)) = Elements(ops) \cup {x}
        /\ Defers(Append(ops, x)) = Defers(ops) \cup (IF x.kind = "defer" THEN {x.event} ELSE {})
        /\ Append(ops, x) # <<>> /\ Head(Append(ops, x)) = IF ops = <<>> THEN x ELSE Head(ops)
    BY <1>1, AppendOp
  <2> QED BY <2>1
<1>3. ~Writes(x) /\ x.kind # "defer"
  BY DEF Writes
<1>4. Ordered(ops', generation)
  <2>1. Ordered(Append(ops, x), generation)
    BY <1>1, <1>3, OrderAppended DEF QueueOK
  <2> QED BY <2>1
<1>5. \A w \in Events : /\ Handing(w)' => Handing(w)
                        /\ HeadDefers(w)' => HeadDefers(w)
                        /\ owed = w /\ Handing(w) => Handing(w)'
  BY <1>2 DEF Handing, HeadDefers, AtHead, Current
<1>6. \A o \in Elements(ops') \ Elements(ops) : ~Writes(o) /\ (recovery = "done" \/ o.kind # "resume")
  BY <1>2, <1>3
<1> QED BY <1>2, <1>4, <1>5, <1>6, QueueKept

LEMMA TimerFiresKept ==
    ASSUME DeferralAssumption, Good, TimerFires
    PROVE  Kept'
<1>1. /\ FireTimer /\ UNCHANGED <<now, handoffs, recovery, arrived, owed, inv, pending>>
  BY DEF TimerFires, Frame, schedulingVars
<1>2. /\ timer # None /\ timer <= now /\ UNCHANGED <<row, generation>>
      /\ ops' = ops \/ ops' = Append(ops, Op("resume", "start", generation, None, 0))
  BY <1>1 DEF FireTimer
<1>3. Shapes /\ CalmOK /\ QueueOK
  BY GoodIs
<1>4. recovery = "done"
  <2>1. timer \in Nat /\ now \in Nat
    <3>1. now \in 0..MaxTime /\ MaxTime \in Nat /\ timer \in Nat \cup {None}
      BY <1>3 DEF Shapes, DeferralAssumption
    <3> QED BY <1>2, <3>1
  <2>2. ~(timer > now)
    BY <1>2, <2>1
  <2> QED BY <1>2, <1>3, <2>2 DEF CalmOK
<1>5. CASE ops' = ops
  <2>1. \A w \in Events : (Handing(w)' <=> Handing(w)) /\ (HeadDefers(w)' <=> HeadDefers(w))
    BY <1>2, <1>5 DEF Handing, HeadDefers, AtHead, Current
  <2>2. Ordered(ops', generation) /\ Defers(ops') = Defers(ops) /\ Elements(ops') = Elements(ops)
    BY <1>3, <1>5 DEF QueueOK
  <2> QED BY <1>1, <1>2, <1>4, <2>1, <2>2, QueueKept
<1>6. CASE ops' = Append(ops, Op("resume", "start", generation, None, 0))
  <2>1. PICK x : x = Op("resume", "start", generation, None, 0)
    OBVIOUS
  <2>2. OpShape(x, Known) /\ x.kind = "resume" /\ x.step = "start"
    BY <2>1 DEF Op, OpShape, StepsOf
  <2>3. ops' = Append(ops, x)
    BY <1>6, <2>1
  <2> QED BY <1>1, <1>2, <1>4, <2>2, <2>3, AppendKept
<1> QED BY <1>2, <1>5, <1>6

LEMMA WithdrawKept ==
    ASSUME DeferralAssumption, Good, Withdraw
    PROVE  Kept'
<1>1. /\ CancelPending /\ UNCHANGED <<now, row, generation, timer, handoffs, recovery, arrived, owed, inv, pending>>
  BY DEF Withdraw, DropFrame, schedulingVars
<1>2. PICK x : x = Op("withdraw", "list", None, None, 0)
  OBVIOUS
<1>3. OpShape(x, Known) /\ x.kind = "withdraw"
  BY <1>2 DEF Op, OpShape, StepsOf
<1>4. ops' = Append(ops, x)
  BY <1>1, <1>2 DEF CancelPending
<1> QED BY <1>1, <1>3, <1>4, AppendKept

\* The head of the queue takes a step.
LEMMA HeadStepped ==
    ASSUME Good, DeferralAssumption, ops # <<>>, NEW x, OpShape(x, Known), x.kind = Head(ops).kind,
           x.kind = "resume" => x.gen = Head(ops).gen, x.kind = "defer" => x.event = Head(ops).event,
           ops' = <<x>> \o Tail(ops)
    PROVE  /\ \A g : Ordered(ops, g) => Ordered(ops', g)
           /\ \A o \in Elements(ops') : o \in Elements(ops) \/ o = x
           /\ Defers(ops') = Defers(ops) /\ ops' # <<>> /\ Head(ops') = x
           /\ Head(ops).kind = "resume" => recovery = "done"
           /\ OpShape(Head(ops), Known) /\ Head(ops) \in Elements(ops)
<1>1. QueueShape(ops, Known) /\ CalmOK
  BY GoodIs DEF Shapes
<1>2. \A g : Ordered(ops, g) => Ordered(<<x>> \o Tail(ops), g)
  BY <1>1, OrderStepped
<1>3. /\ Elements(<<x>> \o Tail(ops)) \subseteq Elements(ops) \cup {x}
      /\ Defers(<<x>> \o Tail(ops)) = Defers(ops)
      /\ <<x>> \o Tail(ops) # <<>> /\ Head(<<x>> \o Tail(ops)) = x
  BY <1>1, StepOp
<1>4. OpShape(Head(ops), Known) /\ Head(ops) \in Elements(ops)
  BY <1>1, HeadOp
<1>5. Head(ops).kind = "resume" => recovery = "done"
  BY <1>1, <1>4 DEF CalmOK
<1> QED BY <1>2, <1>3, <1>4, <1>5

LEMMA DoneKept ==
    ASSUME DeferralAssumption, Good, UNCHANGED <<now, row, generation, handoffs, recovery, arrived, owed, inv, pending>>,
           ops # <<>>, Head(ops).kind # "defer", ops' = Tail(ops), \A w \in Events : ~Handing(w),
           timer' \in {timer, None}
    PROVE  Kept'
<1>1. Ordered(ops, generation)
  BY GoodIs DEF QueueOK
<1>2. /\ Ordered(ops', generation) /\ Elements(ops') \subseteq Elements(ops) /\ Defers(ops') = Defers(ops)
      /\ \A w : ~Handing(w)' /\ ~HeadDefers(w)'
  BY <1>1, HeadDone
<1> QED BY <1>2, QueueKept

LEMMA StepKept ==
    ASSUME DeferralAssumption, Good, UNCHANGED <<now, row, generation, handoffs, recovery, arrived, owed, inv, pending>>,
           ops # <<>>, Head(ops).kind \in {"resume", "withdraw"}, NEW x, OpShape(x, Known), x.kind = Head(ops).kind,
           x.kind = "resume" => x.gen = Head(ops).gen, x.step = "taken" => x.event = None,
           ops' = <<x>> \o Tail(ops), \A w \in Events : ~Handing(w),
           timer' \in {timer, None} \/ Head(ops).kind = "resume"
    PROVE  Kept'
<1>1. Ordered(ops, generation) /\ None \notin Events
  BY GoodIs DEF QueueOK
<1>2. /\ Ordered(ops', generation) /\ Defers(ops') = Defers(ops) /\ ops' # <<>> /\ Head(ops') = x
      /\ \A o \in Elements(ops') : o \in Elements(ops) \/ o = x
      /\ Head(ops).kind = "resume" => recovery = "done"
  BY <1>1, HeadStepped
<1>3. \A w \in Events : ~Handing(w)' /\ ~HeadDefers(w)'
  BY <1>1, <1>2 DEF Handing, HeadDefers, AtHead
<1>4. \A o \in Elements(ops') \ Elements(ops) : ~Writes(o) /\ (recovery = "done" \/ o.kind # "resume")
  BY <1>2 DEF Writes
<1> QED BY <1>2, <1>3, <1>4, QueueKept

-----------------------------------------------------------------------------
(* resume(). *)

LEMMA ResumeStartKept ==
    ASSUME DeferralAssumption, Good, ResumeStart, Frame, UNCHANGED <<handoffs, owed>>
    PROVE  Kept'
<1>1. PICK o : o = Head(ops)
  OBVIOUS
<1>2. Shapes /\ memory = None
  BY GoodIs
<1>3. /\ ops # <<>> /\ o.kind = "resume" /\ o.step = "start"
      /\ \/ ops' = Tail(ops)
         \/ ops' = <<[o EXCEPT !.step = "taken"]>> \o Tail(ops)
         \/ row # None /\ ops' = <<[o EXCEPT !.step = "row", !.at = row.notBefore]>> \o Tail(ops)
      /\ UNCHANGED <<row, generation, timer>>
      /\ UNCHANGED <<now, recovery, arrived, inv, pending>>
  BY <1>1, <1>2, Zenon DEF ResumeStart, AtHead, Step, Done, Frame, schedulingVars
<1>4. OpShape(o, Known) /\ o.event = None /\ (row # None => row.notBefore \in Nat)
  BY <1>1, <1>2, <1>3, HeadOp DEF Shapes, OpShape, RowShape
<1>5. \A w \in Events : ~Handing(w)
  BY <1>1, <1>3 DEF Handing, AtHead
<1>6. CASE ops' = Tail(ops)
  BY <1>1, <1>3, <1>5, <1>6, DoneKept
<1>7. CASE ops' = <<[o EXCEPT !.step = "taken"]>> \o Tail(ops)
  <2>1. PICK x : x = [o EXCEPT !.step = "taken"]
    OBVIOUS
  <2>2. x = Op(o.kind, "taken", o.gen, o.event, o.at)
    BY <1>4, <2>1, OneFieldIs
  <2>3. OpShape(x, Known) /\ x.kind = "resume" /\ x.gen = o.gen /\ x.event = None
    BY <1>3, <1>4, <2>2 DEF Op, OpShape, StepsOf
  <2>4. ops' = <<x>> \o Tail(ops)
    BY <1>7, <2>1, Zenon
  <2> QED BY <1>1, <1>3, <1>5, <2>3, <2>4, StepKept
<1>8. CASE row # None /\ ops' = <<[o EXCEPT !.step = "row", !.at = row.notBefore]>> \o Tail(ops)
  <2>1. PICK x : x = [o EXCEPT !.step = "row", !.at = row.notBefore]
    OBVIOUS
  <2>2. x = Op(o.kind, "row", o.gen, o.event, row.notBefore)
    <3>1. \A b : [o EXCEPT !.step = "row", !.at = b] = Op(o.kind, "row", o.gen, o.event, b)
      <4>1. OpShape(o, Known)
        BY <1>4
      <4> QED BY <4>1, StepAtIs, Zenon
    <3> QED BY <2>1, <3>1, Zenon
  <2>3. OpShape(x, Known) /\ x.kind = "resume" /\ x.gen = o.gen /\ x.event = None
    BY <1>3, <1>4, <1>8, <2>2 DEF Op, OpShape, StepsOf
  <2>4. ops' = <<x>> \o Tail(ops)
    BY <1>8, <2>1, Zenon
  <2> QED BY <1>1, <1>3, <1>5, <2>3, <2>4, StepKept
<1> QED BY <1>3, <1>6, <1>7, <1>8

\* A pending row is claimed or deleted: no handoff was open.
LEMMA PendingRowKept ==
    ASSUME DeferralAssumption, Good, StatusIs("pending"),
           UNCHANGED <<now, timer, generation, handoffs, recovery, arrived, inv, pending>>,
           Ordered(ops', generation), Defers(ops') = Defers(ops),
           \A o \in Elements(ops') \ Elements(ops) : ~Writes(o) /\ (recovery = "done" \/ o.kind # "resume"),
           \A w \in Events : ~HeadDefers(w)' /\ (Handing(w)' => Claimed(w)'),
           owed' \in {owed, None},
           \A w \in Events : owed = w /\ owed' = w => Waits(w)'
    PROVE  Kept'
<1>1. OwedOK /\ QueueOK /\ LiveOK /\ SettlingOK /\ TakenOK /\ StoredOK /\ CalmOK /\ None \notin Events
  BY GoodIs
<1>2. \A f \in Events : ~Claimed(f)
  BY DEF Claimed, StatusIs
<1>3. \A f \in Events : ~Live(f) /\ (Settled(f) => generation = None)
  BY <1>1, <1>2 DEF LiveOK, SettlingOK
<1>4. \A w \in Events : /\ Phase(w)' = Phase(w) /\ (Safe(w)' <=> Safe(w)) /\ (Live(w)' <=> Live(w))
                        /\ (Settled(w)' <=> Settled(w)) /\ (owed' = w => owed = w)
                        /\ (Handing(w)' => generation # None)
  BY <1>1 DEF Phase, Safe, Live, Settled, Handing, Current
<1>5. OwedOK'
  <2>1. owed' \in Known' \cup {None}
    BY <1>1 DEF OwedOK, Known
  <2> QED BY <1>1, <1>4, <2>1 DEF OwedOK
<1>6. QueueOK'
  BY <1>1 DEF QueueOK
<1>7. LiveOK'
  BY <1>3, <1>4 DEF LiveOK
<1>8. SettlingOK'
  BY <1>1, <1>3, <1>4 DEF SettlingOK, Outside
<1>9. TakenOK'
  BY <1>3, <1>4 DEF TakenOK
<1>10. StoredOK'
  BY DEF StoredOK
<1>11. CalmOK'
  BY <1>1 DEF CalmOK, Writes
<1> QED BY <1>5, <1>6, <1>7, <1>8, <1>9, <1>10, <1>11 DEF Kept

LEMMA TakeRowKept ==
    ASSUME DeferralAssumption, Good, TakeRow, Frame, UNCHANGED <<handoffs, owed>>
    PROVE  Kept'
<1>1. PICK o : o = Head(ops)
  OBVIOUS
<1>2. Shapes /\ OwedOK /\ QueueOK /\ None \notin Events /\ Known \subseteq Events
  BY GoodIs
<1>3. /\ ops # <<>> /\ o.kind = "resume" /\ o.step = "row"
      /\ \/ row' = row /\ ops' = <<[o EXCEPT !.step = "taken"]>> \o Tail(ops)
         \/ /\ StatusIs("pending") /\ row' = [row EXCEPT !.status = "claimed"] /\ timer' = timer
            /\ ops' = <<[o EXCEPT !.step = "taken", !.event = row.event]>> \o Tail(ops)
      /\ UNCHANGED <<generation, now, recovery, arrived, inv, pending>>
  BY <1>1, Zenon DEF TakeRow, AtHead, Step, Frame, schedulingVars
<1>4. OpShape(o, Known) /\ o.event = None
  BY <1>1, <1>2, <1>3, HeadOp DEF Shapes, OpShape
<1>5. \A w \in Events : ~Handing(w)
  BY <1>1, <1>3 DEF Handing, AtHead
<1>6. CASE row' = row /\ ops' = <<[o EXCEPT !.step = "taken"]>> \o Tail(ops)
  <2>1. PICK x : x = [o EXCEPT !.step = "taken"]
    OBVIOUS
  <2>2. x = Op(o.kind, "taken", o.gen, o.event, o.at)
    BY <1>4, <2>1, OneFieldIs
  <2>3. OpShape(x, Known) /\ x.kind = "resume" /\ x.gen = o.gen /\ x.event = None
    BY <1>3, <1>4, <2>2 DEF Op, OpShape, StepsOf
  <2>4. ops' = <<x>> \o Tail(ops)
    BY <1>6, <2>1, Zenon
  <2> QED BY <1>1, <1>3, <1>5, <1>6, <2>3, <2>4, StepKept
<1>7. CASE /\ StatusIs("pending") /\ row' = [row EXCEPT !.status = "claimed"] /\ timer' = timer
           /\ ops' = <<[o EXCEPT !.step = "taken", !.event = row.event]>> \o Tail(ops)
  <2>1. PICK x : x = [o EXCEPT !.step = "taken", !.event = row.event]
    OBVIOUS
  <2>2. x = Op(o.kind, "taken", o.gen, row.event, o.at)
    <3>1. \A f : [o EXCEPT !.step = "taken", !.event = f] = Op(o.kind, "taken", o.gen, f, o.at)
      <4>1. OpShape(o, Known)
        BY <1>4
      <4> QED BY <4>1, StepEventIs, Zenon
    <3> QED BY <2>1, <3>1, Zenon
  <2>3. PICK r : r = row.event
    OBVIOUS
  <2>4. PICK n : n = row.notBefore
    OBVIOUS
  <2>5. r \in Known /\ r \in Events /\ n \in Nat /\ row = [event |-> r, notBefore |-> n, status |-> row.status]
    BY <1>2, <1>7, <2>3, <2>4 DEF Shapes, RowShape, StatusIs
  <2>6. row' = [event |-> r, notBefore |-> n, status |-> "claimed"]
    <3>1. [row EXCEPT !.status = "claimed"] = [event |-> r, notBefore |-> n, status |-> "claimed"]
      BY <2>5
    <3> QED BY <1>7, <3>1
  <2>7. row' # None /\ row'.event = r /\ row'.status = "claimed"
    <3>1. [event |-> r, notBefore |-> n, status |-> "claimed"] # None
      BY <2>5, RowIsSome
    <3> QED BY <2>6, <3>1
  <2>8. OpShape(x, Known) /\ x.kind = "resume" /\ x.step = "taken" /\ x.gen = o.gen /\ x.event = r
    BY <1>3, <1>4, <2>2, <2>3, <2>5 DEF Op, OpShape, StepsOf
  <2>9. ops' = <<x>> \o Tail(ops)
    BY <1>7, <2>1, Zenon
  <2>10. /\ Ordered(ops', generation) /\ Defers(ops') = Defers(ops) /\ ops' # <<>> /\ Head(ops') = x
         /\ \A y \in Elements(ops') : y \in Elements(ops) \/ y = x
         /\ recovery = "done"
    BY <1>1, <1>2, <1>3, <2>8, <2>9, HeadStepped DEF QueueOK
  <2>11. \A w \in Events : ~HeadDefers(w)' /\ (Handing(w)' => Claimed(w)')
    BY <2>7, <2>8, <2>10 DEF HeadDefers, Handing, AtHead, Claimed, StatusIs
  <2>12. \A y \in Elements(ops') \ Elements(ops) : ~Writes(y)
    BY <2>8, <2>10 DEF Writes
  <2>13. \A w \in Events : owed = w => Waits(w)'
    <3> TAKE w \in Events
    <3> HAVE owed = w
    <3>1. Waits(w) /\ ~Handing(w)
      BY <1>2, <1>5 DEF OwedOK
    <3> QED BY <1>3, <2>3, <2>7, <3>1 DEF Waits, Phase
  <2> QED BY <1>3, <1>7, <2>10, <2>11, <2>12, <2>13, PendingRowKept
<1> QED BY <1>3, <1>6, <1>7

LEMMA ResumesKept ==
    ASSUME DeferralAssumption, Good, Resumes
    PROVE  Kept'
BY ResumeStartKept, TakeRowKept DEF Resumes

LEMMA ExpiresKept ==
    ASSUME DeferralAssumption, Good, Expires
    PROVE  Kept'
<1>1. PICK o : o = Head(ops)
  OBVIOUS
<1>2. Shapes /\ OwedOK /\ QueueOK /\ NoFailedWrite /\ None \notin Events /\ Known \subseteq Events
  BY GoodIs
<1>3. /\ TakeExpired /\ Dropped(InRow \cup {o.event})
      /\ UNCHANGED <<now, recovery, handoffs, arrived, inv, pending>>
  BY <1>1 DEF Expires, DropFrame, schedulingVars
<1>4. /\ ops # <<>> /\ o.kind = "resume" /\ o.step \in {"row", "memory"}
      /\ o.step = "row" => StatusIs("pending")
      /\ ops' = <<[o EXCEPT !.step = "taken", !.event = None]>> \o Tail(ops)
      /\ row' = None /\ UNCHANGED <<generation, timer>>
  BY <1>1, <1>3, Zenon DEF TakeExpired, AtHead, Step
<1>5. OpShape(o, Known) /\ StatusIs("pending")
  <2>1. OpShape(o, Known) /\ o \in Elements(ops)
    BY <1>1, <1>2, <1>4, HeadOp DEF Shapes
  <2> QED BY <1>2, <1>4, <2>1 DEF NoFailedWrite
<1>6. PICK x : x = [o EXCEPT !.step = "taken", !.event = None]
  OBVIOUS
<1>7. x = Op(o.kind, "taken", o.gen, None, o.at)
  <2>1. \A f : [o EXCEPT !.step = "taken", !.event = f] = Op(o.kind, "taken", o.gen, f, o.at)
    BY <1>5, StepEventIs, Zenon
  <2> QED BY <1>6, <2>1, Zenon
<1>8. OpShape(x, Known) /\ x.kind = "resume" /\ x.gen = o.gen /\ x.event = None
  BY <1>4, <1>5, <1>7 DEF Op, OpShape, StepsOf
<1>9. ops' = <<x>> \o Tail(ops)
  BY <1>4, <1>6, Zenon
<1>10. /\ Ordered(ops', generation) /\ Defers(ops') = Defers(ops) /\ ops' # <<>> /\ Head(ops') = x
       /\ \A y \in Elements(ops') : y \in Elements(ops) \/ y = x
       /\ recovery = "done"
  BY <1>1, <1>2, <1>4, <1>8, <1>9, HeadStepped DEF QueueOK
<1>11. \A w \in Events : ~HeadDefers(w)' /\ ~Handing(w)' /\ ~Handing(w)
  BY <1>1, <1>2, <1>4, <1>8, <1>10 DEF HeadDefers, Handing, AtHead
<1>12. \A y \in Elements(ops') \ Elements(ops) : ~Writes(y)
  BY <1>8, <1>10 DEF Writes
<1>13. owed' \in {owed, None} /\ \A w \in Events : owed = w /\ owed' = w => w \notin InRow
  BY <1>2, <1>3 DEF Dropped
<1>14. \A w \in Events : owed = w /\ owed' = w => Waits(w)'
  <2> TAKE w \in Events
  <2> HAVE owed = w /\ owed' = w
  <2>1. Waits(w) /\ ~Handing(w) /\ ~(row # None /\ row.event = w)
    BY <1>2, <1>11, <1>13 DEF OwedOK, InRow
  <2> QED BY <1>3, <2>1 DEF Waits, Phase
<1> QED BY <1>3, <1>4, <1>5, <1>10, <1>11, <1>12, <1>13, <1>14, PendingRowKept

-----------------------------------------------------------------------------
(* The writes of PostgreSQL. *)

LEMMA WriteDeferralKept ==
    ASSUME DeferralAssumption, Good, WriteDeferral(TRUE), Frame, UNCHANGED handoffs,
           IF row' # row THEN Replaces(Head(ops).event, InRow \ {pending}) ELSE UNCHANGED owed
    PROVE  Kept'
<1>1. /\ Shapes /\ InvocationsOK /\ OwedOK /\ QueueOK /\ LiveOK /\ SettlingOK /\ CalmOK
      /\ None \notin Events /\ Known \subseteq Events
  BY GoodIs
<1> DEFINE op == Head(ops)  stored == Upsert(op.event, op.at)
<1>2. /\ ops # <<>> /\ op.kind = "defer" /\ op.step = "write" /\ row' = stored
      /\ ops' = <<[op EXCEPT !.step = "stored", !.at = stored.notBefore]>> \o Tail(ops)
      /\ UNCHANGED <<generation, timer, now, recovery, arrived, inv, pending>>
  BY DEF WriteDeferral, AtHead, Step, Frame, schedulingVars
<1>3. PICK e : e = op.event
  OBVIOUS
<1>4. QueueShape(ops, Known) /\ OpShape(op, Known) /\ op \in Elements(ops) /\ e \in Defers(ops) /\ e \in Known /\ op.at \in Nat
  BY <1>1, <1>2, <1>3, HeadOp DEF Shapes, OpShape
<1>5. PICK n \in Nat : n >= op.at /\ stored = Pending(e, n)
  BY <1>1, <1>3, <1>4, UpsertIs DEF Shapes
<1>6. e \in Events /\ stored.event = e /\ stored.notBefore = n /\ stored.status = "pending" /\ stored # None
  BY <1>1, <1>4, <1>5, PendingRow, RowIsSome
<1>7. PICK x : x = [op EXCEPT !.step = "stored", !.at = stored.notBefore]
  OBVIOUS
<1> HIDE DEF op, stored
<1>8. x = Op("defer", "stored", op.gen, e, n)
  <2>1. \A b : [op EXCEPT !.step = "stored", !.at = b] = Op(op.kind, "stored", op.gen, op.event, b)
    BY <1>4, StepAtIs, Zenon
  <2>2. x = Op(op.kind, "stored", op.gen, op.event, stored.notBefore)
    BY <1>7, <2>1, Zenon
  <2> QED BY <1>2, <1>3, <1>6, <2>2, Zenon
<1>9. OpShape(x, Known) /\ x.kind = "defer" /\ x.event = e /\ x.step = "stored" /\ x.at = n
  BY <1>4, <1>5, <1>8 DEF Op, OpShape, StepsOf
<1>10. ops' = <<x>> \o Tail(ops)
  BY <1>2, <1>7, Zenon
<1>11. /\ Ordered(ops', generation) /\ ops' # <<>> /\ Head(ops') = x
       /\ \A o \in Elements(ops') : o \in Elements(ops) \/ o = x
  <2>1. x.kind = Head(ops).kind /\ x.event = Head(ops).event
    BY <1>2, <1>3, <1>9 DEF op
  <2> QED BY <1>1, <1>2, <1>9, <1>10, <2>1, HeadStepped DEF QueueOK
<1>12. \A f \in Events : ~Live(f) /\ ~Settled(f) /\ ~Handing(f)
  <2>1. ~NoWrites(ops) /\ Defers(ops) # {}
    BY <1>2, <1>4 DEF NoWrites, Writes
  <2>2. \A f \in Events : ~Handing(f)
    BY <1>2 DEF Handing, AtHead, op
  <2> QED BY <1>1, <2>1, <2>2 DEF LiveOK, SettlingOK
<1>13. Phase(e) \in {"deferring", "redeferring"} /\ Phase(e)' = Phase(e)
  BY <1>1, <1>2, <1>4, <1>6 DEF InvocationsOK, Agree, Phase
<1>14. /\ owed' \in {owed, e}
       /\ owed' = owed => row' = row \/ owed \notin InRow \ {pending, None} \/ Phase(owed) # "none"
  <2>1. CASE row' # row
    <3>1. Replaces(e, InRow \ {pending})
      BY <1>3, <2>1 DEF op
    <3> QED BY <1>13, <2>1, <3>1 DEF Replaces
  <2>2. CASE row' = row
    BY <2>2
  <2> QED BY <2>1, <2>2
<1>15. OwedOK'
  <2>1. owed' \in Known' \cup {None}
    BY <1>1, <1>2, <1>4, <1>14 DEF OwedOK, Known
  <2>2. ASSUME NEW w \in Events, owed' = w PROVE Waits(w)' /\ Phase(w)' # "reviewing"
    <3>1. CASE w = e
      BY <1>13, <3>1 DEF Waits
    <3>2. CASE w # e
      <4>1. owed' = owed /\ owed = w
        BY <1>14, <2>2, <3>2
      <4>2. Waits(w) /\ Phase(w) # "reviewing" /\ Phase(w)' = Phase(w) /\ ~Handing(w) /\ w # None
        BY <1>1, <1>2, <1>12, <4>1 DEF OwedOK, Phase
      <4>3. row # None /\ row.event = w => row' = row \/ pending = w \/ Phase(w) # "none"
        BY <1>14, <4>1, <4>2 DEF InRow
      <4> QED BY <1>2, <4>2, <4>3 DEF Waits
    <3> QED BY <3>1, <3>2
  <2> QED BY <2>1, <2>2 DEF OwedOK
<1>16. QueueOK'
  BY <1>1, <1>2, <1>11 DEF QueueOK
<1>17. \A f \in Events : ~Live(f)' /\ ~Settled(f)' /\ ~Handing(f)'
  BY <1>2, <1>9, <1>11, <1>12 DEF Live, Settled, Handing, AtHead, Current
<1>18. LiveOK' /\ TakenOK'
  BY <1>17 DEF LiveOK, TakenOK
<1>19. SettlingOK'
  BY <1>17 DEF SettlingOK
<1>20. StoredOK'
  BY <1>2, <1>6, <1>9, <1>11 DEF StoredOK, HeadDefers, RowWaits, StatusIs
<1>21. CalmOK'
  <2> SUFFICES ASSUME recovery # "done" PROVE CalmOK'
    BY <1>2 DEF CalmOK
  <2>1. now \in Nat /\ op.at > now
    BY <1>1, <1>2, <1>4 DEF Shapes, DeferralAssumption, CalmOK
  <2>2. x.at > now
    BY <1>4, <1>5, <1>9, <2>1
  <2> QED BY <1>1, <1>2, <1>9, <1>11, <2>2 DEF CalmOK
<1> QED BY <1>15, <1>16, <1>18, <1>19, <1>20, <1>21 DEF Kept

LEMMA WriteCancelKept ==
    ASSUME DeferralAssumption, Good, WriteCancel(TRUE), Frame, UNCHANGED handoffs,
           IF row' # row THEN Replaces(Head(ops).event, InRow \ {pending}) ELSE UNCHANGED owed
    PROVE  Kept'
<1>1. /\ Shapes /\ InvocationsOK /\ OwedOK /\ QueueOK /\ LiveOK /\ SettlingOK /\ CalmOK
      /\ None \notin Events /\ Known \subseteq Events /\ NoFailedWrite
  BY GoodIs
<1>2. /\ ops # <<>> /\ Head(ops).kind = "cancel" /\ row' = None /\ ops' = Tail(ops)
      /\ UNCHANGED <<generation, timer, now, recovery, arrived, inv, pending>>
  BY DEF WriteCancel, AtHead, Done, Frame, schedulingVars
<1>3. PICK c : c = Head(ops).event
  OBVIOUS
<1>4. Head(ops) \in Elements(ops) /\ c \in Known \cup {None}
  BY <1>1, <1>2, <1>3, HeadOp DEF Shapes, OpShape
<1>5. /\ Ordered(ops', generation) /\ Elements(ops') \subseteq Elements(ops) /\ Defers(ops') = Defers(ops)
      /\ \A w : ~Handing(w)' /\ ~HeadDefers(w)'
  BY <1>1, <1>2, HeadDone DEF QueueOK
<1>6. \A f \in Events : ~Live(f) /\ (Settled(f) => generation = None) /\ ~Handing(f)
  <2>1. ~NoWrites(ops)
    BY <1>2, <1>4 DEF NoWrites, Writes
  <2>2. \A f \in Events : ~Handing(f)
    BY <1>2 DEF Handing, AtHead
  <2> QED BY <1>1, <2>1, <2>2 DEF LiveOK, SettlingOK
<1>7. \A w \in Events : w \in InOps => Phase(w) \in {"deferring", "redeferring"}
  BY <1>1, <1>6, InOpsIs, DefersArePhases
<1>8. \A w \in Events : Phase(w)' = Phase(w) /\ (Safe(w)' <=> Safe(w))
  BY <1>2 DEF Phase, Safe
<1>9. \/ owed' = owed /\ (row # None => owed \notin InRow \ {pending, None} \/ Phase(owed) # "none")
      \/ owed' \in {None, c} /\ owed \in InRow \ {pending} /\ Phase(owed) \notin {"admitting", "waiting"}
         /\ (owed' = c => c = None \/ Phase(c) \notin {"none", "reviewing"} \/ c \in InOps)
  <2>1. CASE row' # row
    <3>1. Replaces(c, InRow \ {pending})
      BY <1>3, <2>1
    <3> QED BY <2>1, <3>1 DEF Replaces
  <2>2. CASE row' = row
    BY <1>2, <2>2
  <2> QED BY <2>1, <2>2
<1>10. OwedOK'
  <2>1. owed' \in Known' \cup {None}
    BY <1>1, <1>2, <1>4, <1>9 DEF OwedOK, Known
  <2>2. ASSUME NEW w \in Events, owed' = w PROVE Waits(w)' /\ Phase(w)' # "reviewing"
    <3>1. w # None
      BY <1>1
    <3>2. CASE owed' = owed /\ (row # None => owed \notin InRow \ {pending, None} \/ Phase(owed) # "none")
      <4>1. Waits(w) /\ Phase(w) # "reviewing" /\ ~Handing(w)
        BY <1>1, <1>6, <2>2, <3>2 DEF OwedOK
      <4>2. row # None /\ row.event = w => pending = w \/ Phase(w) # "none"
        BY <2>2, <3>1, <3>2 DEF InRow
      <4> QED BY <1>2, <1>8, <4>1, <4>2 DEF Waits
    <3>3. CASE w = c /\ (Phase(c) \notin {"none", "reviewing"} \/ c \in InOps)
      BY <1>7, <1>8, <3>3 DEF Waits
    <3> QED BY <1>9, <2>2, <3>1, <3>2, <3>3
  <2> QED BY <2>1, <2>2 DEF OwedOK
<1>11. QueueOK'
  BY <1>1, <1>2, <1>5 DEF QueueOK
<1>12. LiveOK'
  BY <1>2, <1>6 DEF LiveOK, Live, Current
<1>13. SettlingOK'
  <2> SUFFICES ASSUME NEW f \in Events, Settled(f) PROVE \A w \in Events : owed' = w => Safe(w)
    BY <1>1, <1>2, <1>5, <1>6, <1>8 DEF SettlingOK, Settled, Outside
  <2>1. Defers(ops) = {} /\ \A w \in Events : owed = w => Safe(w)
    BY <1>1 DEF SettlingOK
  <2>2. owed \in Events \cup {None}
    BY <1>1 DEF OwedOK
  <2>3. owed' = owed \/ owed' = None
    <3> SUFFICES ASSUME owed \in InRow \ {pending}, Phase(owed) \notin {"admitting", "waiting"}, owed' # None,
                        owed' = c, c = None \/ Phase(c) \notin {"none", "reviewing"} \/ c \in InOps
                 PROVE  FALSE
      BY <1>9
    <3>1. c \in Events
      BY <1>1, <1>4
    <3>2. PICK w : w = owed
      OBVIOUS
    <3>3. w \in Events
      BY <1>1, <3>2 DEF InRow, Shapes, RowShape
    <3>4. Phase(w) \in {"deferring", "redeferring"}
      <4>1. Safe(w) /\ pending # w /\ Phase(w) \notin {"admitting", "waiting"}
        BY <2>1, <3>2, <3>3
      <4>2. Phase(w) \in Phases
        BY <1>1, <3>3 DEF Shapes, InvocationShape, Phase
      <4> QED BY <4>1, <4>2 DEF Safe, Phases
    <3>5. w \in Defers(ops)
      BY <1>1, <3>3, <3>4, DefersArePhases
    <3> QED BY <2>1, <3>5
  <2> QED BY <1>1, <2>1, <2>3
<1>14. TakenOK' /\ StoredOK'
  BY <1>5 DEF TakenOK, StoredOK
<1>15. CalmOK'
  BY <1>1, <1>2, <1>5 DEF CalmOK
<1> QED BY <1>10, <1>11, <1>12, <1>13, <1>14, <1>15 DEF Kept

LEMMA StoreStepKept ==
    ASSUME DeferralAssumption, Good, GoodNext, NEW ok \in BOOLEAN, StoreStep(ok)
    PROVE  Kept'
<1>1. Shapes /\ NoFailedWrite
  BY GoodIs
<1>2. /\ WriteDeferral(ok) \/ WriteCancel(ok) \/ TakeMemory(ok)
      /\ IF row' # row THEN Replaces(Head(ops).event, InRow \ {pending}) ELSE UNCHANGED owed
      /\ Outcome(ok) /\ Frame /\ UNCHANGED handoffs
  BY DEF StoreStep
<1>3. ok = TRUE
  BY <1>1, <1>2, OutcomeIs DEF GoodNext
<1>4. ~TakeMemory(ok)
  <2> SUFFICES ASSUME AtHead("resume", "memory") PROVE FALSE
    BY DEF TakeMemory
  <2>1. Head(ops) \in Elements(ops)
    BY <1>1, HeadOp DEF Shapes, AtHead
  <2> QED BY <1>1, <2>1 DEF NoFailedWrite, AtHead
<1> QED BY <1>2, <1>3, <1>4, WriteDeferralKept, WriteCancelKept

-----------------------------------------------------------------------------
(* The end of a handoff. *)

LEMMA HandoffStepKept ==
    ASSUME DeferralAssumption, Good, GoodNext, NEW e \in Events, NEW ok \in BOOLEAN, HandoffStep(e, ok)
    PROVE  Kept'
<1>1. /\ Shapes /\ OwedOK /\ QueueOK /\ LiveOK /\ SettlingOK /\ TakenOK /\ StoredOK /\ CalmOK
      /\ None \notin Events /\ NoFailedHandoff
  BY GoodIs
<1>2. /\ SettleHandoff(e, ok) \/ FailHandoff(e, ok)
      /\ Outcome(ok) /\ UNCHANGED <<now, recovery, arrived, inv, pending, owed>>
  BY DEF HandoffStep, Frame, schedulingVars
<1>3. /\ handoffs[e].step = "settling" /\ row' \in {row, Acknowledged}
      /\ handoffs' = [handoffs EXCEPT ![e] = NoHandoff]
      /\ UNCHANGED <<generation, timer, ops>>
  BY <1>1, <1>2 DEF SettleHandoff, FailHandoff, NoFailedHandoff
<1>4. handoffs = [f \in Events |-> handoffs[f]] /\ NoHandoff.step = "none"
  BY <1>1 DEF Shapes, HandoffShape, NoHandoff
<1>5. /\ \A f \in Events : f # e => handoffs'[f] = handoffs[f]
      /\ handoffs'[e].step = "none"
  BY <1>3, <1>4
<1>6. /\ Settled(e) /\ Defers(ops) = {} /\ ~Outside /\ \A w \in Events : owed = w => Safe(w)
      /\ generation # None => Claimed(e)
  BY <1>1, <1>3 DEF Settled, SettlingOK
<1>7. \A w \in Events : ~Handing(w) /\ (Handing(w)' <=> Handing(w)) /\ Phase(w)' = Phase(w) /\ (Safe(w)' <=> Safe(w))
  BY <1>1, <1>2, <1>3, <1>6 DEF TakenOK, Handing, AtHead, Current, Phase, Safe
<1>8. \A f \in Events : generation # None /\ Claimed(f) => f = e
  BY <1>6 DEF Claimed
<1>9. \A f \in Events : ~Live(f)' /\ (Settled(f)' => Settled(f) /\ generation = None)
  <2> TAKE f \in Events
  <2>1. CASE f = e
    BY <1>5, <2>1 DEF Live, Settled
  <2>2. CASE f # e
    <3>1. (Live(f)' <=> Live(f)) /\ (Settled(f)' <=> Settled(f))
      BY <1>3, <1>5, <2>2 DEF Live, Settled, Current
    <3>2. Live(f) => generation # None
      BY DEF Live, Current
    <3> QED BY <1>1, <1>8, <2>2, <3>1, <3>2 DEF LiveOK, SettlingOK
  <2> QED BY <2>1, <2>2
<1>10. OwedOK'
  <2>1. \A w \in Events : owed = w => Safe(w) /\ Phase(w) # "reviewing"
    BY <1>1, <1>6 DEF OwedOK
  <2> QED BY <1>1, <1>2, <1>7, <2>1 DEF OwedOK, Waits, Safe, Known
<1>11. QueueOK'
  BY <1>1, <1>3, <1>5 DEF QueueOK
<1>12. LiveOK' /\ TakenOK'
  BY <1>7, <1>9 DEF LiveOK, TakenOK
<1>13. SettlingOK'
  BY <1>2, <1>3, <1>6, <1>7, <1>9 DEF SettlingOK, Outside
<1>14. StoredOK'
  <2>1. \A w \in Events : ~HeadDefers(w)
    <3>1. ops # <<>> /\ Head(ops).kind = "defer" => Head(ops).event \in Defers(ops)
      BY <1>1, HeadOp DEF Shapes
    <3> QED BY <1>6, <3>1 DEF HeadDefers, AtHead
  <2> QED BY <1>3, <2>1 DEF StoredOK, HeadDefers, AtHead
<1>15. CalmOK'
  BY <1>1, <1>2, <1>3 DEF CalmOK
<1> QED BY <1>10, <1>11, <1>12, <1>13, <1>14, <1>15 DEF Kept

-----------------------------------------------------------------------------
(* Withdrawals. *)

LEMMA WithdrawListKept ==
    ASSUME DeferralAssumption, Good, WithdrawList, UNCHANGED <<now, handoffs, recovery, arrived, owed, inv, pending>>
    PROVE  Kept'
<1>1. PICK o : o = Head(ops)
  OBVIOUS
<1>2. Shapes /\ memory = None
  BY GoodIs
<1>3. /\ ops # <<>> /\ o.kind = "withdraw" /\ UNCHANGED <<row, generation, timer>>
      /\ \/ ops' = Tail(ops)
         \/ /\ StatusIs("pending")
            /\ ops' = <<[o EXCEPT !.step = "erase", !.gen = generation, !.event = row.event, !.at = 1]>> \o Tail(ops)
  BY <1>1, <1>2, Zenon DEF WithdrawList, AtHead, Step, Done
<1>4. OpShape(o, Known)
  BY <1>1, <1>2, <1>3, HeadOp DEF Shapes
<1>5. \A w \in Events : ~Handing(w)
  BY <1>1, <1>3 DEF Handing, AtHead
<1>6. CASE ops' = Tail(ops)
  BY <1>1, <1>3, <1>5, <1>6, DoneKept
<1>7. CASE /\ StatusIs("pending")
           /\ ops' = <<[o EXCEPT !.step = "erase", !.gen = generation, !.event = row.event, !.at = 1]>> \o Tail(ops)
  <2>1. PICK x : x = [o EXCEPT !.step = "erase", !.gen = generation, !.event = row.event, !.at = 1]
    OBVIOUS
  <2>2. x = Op(o.kind, "erase", generation, row.event, 1)
    <3>1. \A g, h, c : [o EXCEPT !.step = "erase", !.gen = g, !.event = h, !.at = c] = Op(o.kind, "erase", g, h, c)
      BY <1>4, StepAllIs, Zenon
    <3> QED BY <2>1, <3>1, Zenon
  <2>3. row.event \in Known
    BY <1>2, <1>7 DEF Shapes, RowShape, StatusIs
  <2>4. OpShape(x, Known) /\ x.kind = "withdraw" /\ x.step = "erase"
    BY <1>3, <2>2, <2>3 DEF Op, OpShape, StepsOf
  <2>5. ops' = <<x>> \o Tail(ops)
    BY <1>7, <2>1, Zenon
  <2> QED BY <1>1, <1>3, <1>5, <2>4, <2>5, StepKept
<1> QED BY <1>3, <1>6, <1>7

LEMMA WithdrawRowKept ==
    ASSUME DeferralAssumption, Good, WithdrawRow, UNCHANGED <<now, handoffs, recovery, arrived, inv, pending>>,
           IF row' # row THEN Dropped({Head(ops).event, row.event}) ELSE UNCHANGED owed
    PROVE  Kept'
<1>1. PICK o : o = Head(ops)
  OBVIOUS
<1>2. Shapes /\ OwedOK /\ QueueOK /\ None \notin Events
  BY GoodIs
<1>3. /\ ops # <<>> /\ o.kind = "withdraw" /\ UNCHANGED <<generation, timer>>
      /\ \/ ops' = Tail(ops) /\ row' = row
         \/ /\ row' = row \/ (row' = None /\ StatusIs("pending"))
            /\ ops' = <<[o EXCEPT !.step = "erased"]>> \o Tail(ops)
  BY <1>1 DEF WithdrawRow, AtHead, Step, Done
<1>4. OpShape(o, Known)
  BY <1>1, <1>2, <1>3, HeadOp DEF Shapes
<1>5. \A w \in Events : ~Handing(w)
  BY <1>1, <1>3 DEF Handing, AtHead
<1>6. CASE ops' = Tail(ops) /\ row' = row
  BY <1>1, <1>3, <1>5, <1>6, DoneKept
<1>7. CASE /\ row' = row \/ (row' = None /\ StatusIs("pending"))
           /\ ops' = <<[o EXCEPT !.step = "erased"]>> \o Tail(ops)
  <2>1. PICK x : x = [o EXCEPT !.step = "erased"]
    OBVIOUS
  <2>2. x = Op(o.kind, "erased", o.gen, o.event, o.at)
    BY <1>4, <2>1, OneFieldIs
  <2>3. OpShape(x, Known) /\ x.kind = "withdraw" /\ x.step = "erased"
    BY <1>3, <1>4, <2>2 DEF Op, OpShape, StepsOf
  <2>4. ops' = <<x>> \o Tail(ops)
    BY <1>7, <2>1, Zenon
  <2>5. CASE row' = row
    BY <1>1, <1>3, <1>5, <2>3, <2>4, <2>5, StepKept
  <2>6. CASE row' # row
    <3>1. row' = None /\ StatusIs("pending")
      BY <1>7, <2>6
    <3>2. /\ Ordered(ops', generation) /\ Defers(ops') = Defers(ops) /\ ops' # <<>> /\ Head(ops') = x
          /\ \A y \in Elements(ops') : y \in Elements(ops) \/ y = x
      BY <1>1, <1>2, <1>3, <2>3, <2>4, HeadStepped DEF QueueOK
    <3>3. \A w \in Events : ~HeadDefers(w)' /\ ~Handing(w)'
      BY <2>3, <3>2 DEF HeadDefers, Handing, AtHead
    <3>4. \A y \in Elements(ops') \ Elements(ops) : ~Writes(y) /\ y.kind # "resume"
      BY <2>3, <3>2 DEF Writes
    <3>5. owed' \in {owed, None} /\ \A w \in Events : owed = w /\ owed' = w => row.event # w
      BY <1>2, <2>6 DEF Dropped
    <3>6. \A w \in Events : owed = w /\ owed' = w => Waits(w)'
      <4> TAKE w \in Events
      <4> HAVE owed = w /\ owed' = w
      <4>1. Waits(w) /\ ~Handing(w) /\ row.event # w
        BY <1>2, <1>5, <3>5 DEF OwedOK
      <4> QED BY <4>1 DEF Waits, Phase
    <3> QED BY <1>3, <3>1, <3>2, <3>3, <3>4, <3>5, <3>6, PendingRowKept
  <2> QED BY <2>5, <2>6
<1> QED BY <1>3, <1>6, <1>7

LEMMA WithdrawErasedKept ==
    ASSUME DeferralAssumption, Good, WithdrawErased, UNCHANGED <<now, handoffs, recovery, arrived, owed, inv, pending>>
    PROVE  Kept'
<1>1. OwedOK /\ QueueOK /\ LiveOK /\ SettlingOK /\ TakenOK /\ StoredOK /\ CalmOK
  BY GoodIs
<1>2. /\ ops # <<>> /\ Head(ops).kind = "withdraw" /\ ops' = Tail(ops) /\ row' = row
      /\ UNCHANGED <<generation, timer>> \/ (generation' = None /\ timer' = None)
  BY DEF WithdrawErased, AtHead, Done
<1>3. \A w \in Events : ~Handing(w)
  BY <1>2 DEF Handing, AtHead
<1>4. CASE UNCHANGED <<generation, timer>>
  BY <1>2, <1>3, <1>4, DoneKept
<1>5. CASE generation' = None /\ timer' = None
  <2>1. /\ \A g : Ordered(ops, g) => Ordered(ops', g)
        /\ Elements(ops') \subseteq Elements(ops) /\ Defers(ops') = Defers(ops)
        /\ \A w : ~Handing(w)' /\ ~HeadDefers(w)'
    BY <1>2, HeadDone
  <2>2. Ordered(ops, None)
    BY <1>1, OrderRenewed DEF QueueOK, Unused
  <2>3. \A w \in Events : Phase(w)' = Phase(w) /\ (Safe(w)' <=> Safe(w)) /\ (Settled(w)' <=> Settled(w)) /\ ~Live(w)'
    BY <1>5 DEF Phase, Safe, Settled, Live, Current
  <2>4. OwedOK'
    BY <1>1, <1>2, <1>3, <2>3 DEF OwedOK, Waits, Known
  <2>5. QueueOK'
    BY <1>1, <1>5, <2>1, <2>2 DEF QueueOK
  <2>6. LiveOK' /\ TakenOK' /\ StoredOK'
    BY <2>1, <2>3 DEF LiveOK, TakenOK, StoredOK
  <2>7. SettlingOK'
    BY <1>1, <1>5, <2>1, <2>3 DEF SettlingOK, Outside
  <2>8. CalmOK'
    BY <1>1, <1>5, <2>1 DEF CalmOK
  <2> QED BY <2>4, <2>5, <2>6, <2>7, <2>8 DEF Kept
<1> QED BY <1>2, <1>4, <1>5

LEMMA WithdrawStepsKept ==
    ASSUME DeferralAssumption, Good, GoodNext, WithdrawSteps
    PROVE  Kept'
<1>1. UNCHANGED <<now, handoffs, recovery, arrived, inv, pending>>
  BY DEF WithdrawSteps, DropFrame, schedulingVars
<1>2. memory' = memory
  BY GoodIs, GoodNextIs
<1>3. \/ WithdrawList /\ UNCHANGED owed
      \/ WithdrawRow /\ (IF row' # row THEN Dropped({Head(ops).event, row.event}) ELSE UNCHANGED owed)
      \/ WithdrawErased /\ UNCHANGED owed
  BY <1>2 DEF WithdrawSteps
<1> QED BY <1>1, <1>3, WithdrawListKept, WithdrawRowKept, WithdrawErasedKept

-----------------------------------------------------------------------------
(* Time, restart, recovery. *)

LEMMA TickKept ==
    ASSUME DeferralAssumption, Good, Tick
    PROVE  Kept'
<1>1. OwedOK /\ QueueOK /\ LiveOK /\ TakenOK /\ StoredOK
  BY GoodIs
<1>2. /\ recovery' = "done" /\ ~Settling
      /\ UNCHANGED <<row, generation, ops, handoffs, arrived, owed, inv, pending>>
  BY DEF Tick, schedulingVars, historyVars
<1>3. \A w \in Events : /\ Phase(w)' = Phase(w) /\ (Handing(w)' <=> Handing(w)) /\ (Claimed(w)' <=> Claimed(w))
                        /\ (Live(w)' <=> Live(w)) /\ ~Settled(w)' /\ ~Settled(w)
                        /\ (HeadDefers(w)' <=> HeadDefers(w)) /\ (RowWaits(w)' <=> RowWaits(w))
  BY <1>2 DEF Phase, Handing, Claimed, Live, Settled, Settling, HeadDefers, RowWaits, AtHead, Current, StatusIs
<1>4. OwedOK'
  BY <1>1, <1>2, <1>3 DEF OwedOK, Waits, Known
<1>5. QueueOK' /\ LiveOK' /\ TakenOK' /\ StoredOK'
  BY <1>1, <1>2, <1>3 DEF QueueOK, LiveOK, TakenOK, StoredOK
<1>6. SettlingOK' /\ CalmOK'
  BY <1>2, <1>3 DEF SettlingOK, CalmOK
<1> QED BY <1>4, <1>5, <1>6 DEF Kept

\* With an empty queue and no handoff only the owed event matters.
LEMMA EmptyKept ==
    ASSUME DeferralAssumption, ops' = <<>>, \A f \in Events : handoffs'[f].step = "none", timer' = None, OwedOK'
    PROVE  Kept'
<1>1. Elements(ops') = {} /\ Len(ops') = 0
  BY EmptyQueue
<1>2. Ordered(ops', generation')
  BY <1>1 DEF Ordered
<1>3. \A w \in Events : ~Live(w)' /\ ~Settled(w)' /\ ~Handing(w)' /\ ~HeadDefers(w)'
  BY DEF Live, Settled, Handing, HeadDefers, AtHead
<1>4. QueueOK'
  BY <1>2 DEF QueueOK
<1>5. LiveOK' /\ TakenOK' /\ StoredOK'
  BY <1>3 DEF LiveOK, TakenOK, StoredOK
<1>6. SettlingOK'
  BY <1>3 DEF SettlingOK
<1>7. CalmOK'
  BY <1>1 DEF CalmOK
<1> QED BY <1>4, <1>5, <1>6, <1>7 DEF Kept

LEMMA RestartKept ==
    ASSUME DeferralAssumption, TriggerInv, Restart
    PROVE  Kept'
<1>1. Shapes
  BY DEF TriggerInv
<1>2. /\ timer' = None /\ ops' = <<>> /\ handoffs' = [e \in Events |-> NoHandoff]
      /\ inv' = [e \in Events |-> Idle] /\ row' = row /\ arrived' = arrived
      /\ owed' = IF row # None /\ row.event = owed THEN owed ELSE None
  BY DEF Restart
<1>3. /\ \A f \in Events : handoffs'[f].step = "none" /\ Phase(f)' = "none"
  BY <1>2 DEF NoHandoff, Idle, Phase
<1>4. OwedOK'
  <2>1. row # None => row.event \in Known
    BY <1>1 DEF Shapes, RowShape
  <2>2. owed' \in Known' \cup {None}
    BY <1>2, <2>1 DEF Known
  <2>3. None \notin Events
    BY <1>1, KnownAre
  <2>4. ASSUME NEW w \in Events, owed' = w PROVE Waits(w)' /\ Phase(w)' # "reviewing"
    BY <1>2, <1>3, <2>3, <2>4 DEF Waits
  <2> QED BY <2>2, <2>4 DEF OwedOK
<1> QED BY <1>2, <1>3, <1>4, EmptyKept

LEMMA RecoverKept ==
    ASSUME DeferralAssumption, EnoughTokens, Good, Recover
    PROVE  Kept'
<1>1. /\ Shapes /\ OwedOK /\ QueueOK /\ LiveOK /\ SettlingOK /\ TakenOK /\ StoredOK /\ CalmOK
  BY GoodIs
<1>2. /\ recovery # "done" /\ UNCHANGED <<now, handoffs, ops, arrived, owed, inv, pending>>
      /\ \/ row' = Released /\ UNCHANGED <<generation, timer>>
         \/ /\ recovery' = "done" /\ row' = row /\ generation' \in {generation, Fresh}
  BY DEF Recover, RecoverReset, RecoverArm, schedulingVars, historyVars
<1>3. /\ \A o \in Elements(ops) : o.kind # "resume" /\ (o.kind = "defer" => o.at > now)
      /\ timer # None => timer > now
      /\ \A f \in Events : handoffs[f].step = "none"
  BY <1>1, <1>2 DEF CalmOK
<1>4. /\ row' = None <=> row = None
      /\ row # None => row'.event = row.event
      /\ StatusIs("pending") => row' = row
  <2>1. CASE row' = row
    BY <2>1
  <2>2. CASE row' = Released
    <3>1. ~StatusIs("claimed") => Released = row
      BY <1>1, ReleasedIs
    <3>2. CASE StatusIs("claimed")
      <4>1. PICK e : e = row.event
        OBVIOUS
      <4>2. PICK n : n = row.notBefore
        OBVIOUS
      <4>3. row # None /\ e \in Events /\ n \in Nat /\ row = [event |-> e, notBefore |-> n, status |-> "claimed"]
        BY <1>1, <3>2, <4>1, <4>2, KnownAre DEF StatusIs, Shapes, RowShape
      <4>4. [row EXCEPT !.status = "pending"] = Pending(e, n)
        BY <4>3 DEF Pending
      <4>5. Released = Pending(e, n)
        BY <3>2, <4>4 DEF Released
      <4>6. Pending(e, n) # None /\ Pending(e, n).event = e
        BY <4>3, RowIsSome, PendingRow
      <4> QED BY <2>2, <3>2, <4>1, <4>3, <4>5, <4>6 DEF StatusIs
    <3> QED BY <2>2, <3>1, <3>2
  <2> QED BY <1>2, <2>1, <2>2
<1>5. \A w \in Events : ~Handing(w) /\ ~Handing(w)'
  <2>1. ~AtHead("resume", "taken")
    <3>1. ops # <<>> => Head(ops) \in Elements(ops)
      BY <1>1, HeadOp DEF Shapes
    <3> QED BY <1>3, <3>1 DEF AtHead
  <2> QED BY <1>2, <2>1 DEF Handing, AtHead
<1>6. OwedOK'
  BY <1>1, <1>2, <1>4, <1>5 DEF OwedOK, Waits, Phase, Known
<1>7. QueueOK'
  <2>1. Ordered(ops, generation) /\ Ordered(ops, Fresh)
    BY <1>1, FreshIs, OrderRenewed DEF QueueOK
  <2>2. Ordered(ops', generation')
    BY <1>2, <2>1
  <2> QED BY <1>2, <1>3, <2>2 DEF QueueOK
<1>8. \A f \in Events : ~Live(f)' /\ ~Settled(f)'
  BY <1>2, <1>3 DEF Live, Settled
<1>9. LiveOK' /\ TakenOK'
  BY <1>5, <1>8 DEF LiveOK, TakenOK
<1>10. SettlingOK'
  BY <1>8 DEF SettlingOK
<1>11. StoredOK'
  BY <1>1, <1>2, <1>4 DEF StoredOK, HeadDefers, RowWaits, AtHead, StatusIs
<1>12. CalmOK'
  <2>1. recovery' # "done" => timer' = timer
    BY <1>2
  <2> QED BY <1>2, <1>3, <2>1 DEF CalmOK
<1> QED BY <1>6, <1>7, <1>9, <1>10, <1>11, <1>12 DEF Kept

LEMMA StutterKept ==
    ASSUME Good, UNCHANGED vars
    PROVE  Kept'
<1>1. OwedOK /\ QueueOK /\ LiveOK /\ SettlingOK /\ TakenOK /\ StoredOK /\ CalmOK
  BY DEF Good, Kept
<1>2. UNCHANGED <<now, row, generation, timer, ops, handoffs, recovery, arrived, owed, inv, pending>>
  BY DEF vars, deferralVars, schedulingVars, historyVars
<1>3. \A w \in Events : /\ Phase(w)' = Phase(w) /\ (Handing(w)' <=> Handing(w)) /\ (Claimed(w)' <=> Claimed(w))
                        /\ (Live(w)' <=> Live(w)) /\ (Settled(w)' <=> Settled(w)) /\ (Safe(w)' <=> Safe(w))
                        /\ (HeadDefers(w)' <=> HeadDefers(w)) /\ (RowWaits(w)' <=> RowWaits(w))
  BY <1>2 DEF Phase, Safe, Handing, Claimed, Live, Settled, HeadDefers, RowWaits, AtHead, Current, StatusIs
<1>4. OwedOK'
  BY <1>1, <1>2, <1>3 DEF OwedOK, Waits, Known
<1>5. QueueOK' /\ LiveOK' /\ TakenOK' /\ StoredOK' /\ CalmOK'
  BY <1>1, <1>2, <1>3 DEF QueueOK, LiveOK, TakenOK, StoredOK, CalmOK
<1>6. SettlingOK'
  BY <1>1, <1>2, <1>3 DEF SettlingOK, Outside
<1> QED BY <1>4, <1>5, <1>6 DEF Kept

LEMMA InitKept ==
    ASSUME DeferralAssumption, Init
    PROVE  Kept
<1>1. /\ ops = <<>> /\ timer = None /\ handoffs = [e \in Events |-> NoHandoff] /\ owed = None /\ recovery = "done"
  BY DEF Init, DeferralInit
<1>2. None \notin Events
  <2>1. Cardinality(Events) \in Nat
    BY FS_CardinalityType DEF DeferralAssumption
  <2> QED BY <2>1 DEF DeferralAssumption
<1>3. \A w \in Events : ~Live(w) /\ ~Settled(w) /\ ~Handing(w) /\ ~HeadDefers(w) /\ handoffs[w].step = "none" /\ owed # w
  BY <1>1, <1>2 DEF Live, Settled, Handing, HeadDefers, AtHead, NoHandoff
<1>4. Ordered(ops, generation)
  BY <1>1, EmptyQueue DEF Ordered
<1>5. OwedOK /\ QueueOK /\ LiveOK /\ TakenOK /\ StoredOK /\ CalmOK
  BY <1>1, <1>3, <1>4 DEF OwedOK, QueueOK, LiveOK, TakenOK, StoredOK, CalmOK
<1>6. SettlingOK
  BY <1>3 DEF SettlingOK
<1> QED BY <1>5, <1>6 DEF Kept

-----------------------------------------------------------------------------
(* Every step. *)

\* Trouble is never taken back: a state without a failed call, of a process
\* that is not stopped, follows such a state, unless the process restarted.
LEMMA NoTroubleBefore ==
    ASSUME Shapes, Next, ~Restart, faults' = 0, ~stopped'
    PROVE  faults = 0 /\ ~stopped /\ ~StoreFails /\ ~RecoverFails /\ ~Stop /\ \A e \in Events : ~AdmissionFails(e)
<1>1. faults \in Nat
  BY DEF Shapes
<1>2. ASSUME Work PROVE stopped' = stopped /\ faults = 0
  <2>1. ASSUME NEW e \in Events, NEW ok \in BOOLEAN, Admit(e, ok) PROVE stopped' = stopped /\ faults = 0
    BY <1>1, <2>1, OutcomeIs DEF Admit, Enter
  <2>2. ASSUME NEW e \in Events, NEW ok \in BOOLEAN, AttemptOutside(e, ok) PROVE stopped' = stopped /\ faults = 0
    BY <1>1, <2>2, OutcomeIs DEF AttemptOutside
  <2>3. ASSUME NEW e \in Events, NEW ok \in BOOLEAN, HandoffStep(e, ok) PROVE stopped' = stopped /\ faults = 0
    BY <2>3, OutcomeIs DEF HandoffStep, Frame
  <2>4. ASSUME NEW ok \in BOOLEAN, StoreStep(ok) PROVE stopped' = stopped /\ faults = 0
    BY <2>4, OutcomeIs DEF StoreStep, Frame
  <2>5. ASSUME NEW e \in Events, AttemptInside(e) \/ ReviewEnds(e) PROVE stopped' = stopped /\ faults = 0
    BY <2>5 DEF AttemptInside, ReviewEnds, deferralVars, bounds
  <2>6. ASSUME DeferSettles \/ TargetHandedOver \/ TimerFires \/ Resumes PROVE stopped' = stopped /\ faults = 0
    BY <2>6 DEF DeferSettles, TargetHandedOver, TimerFires, Resumes, Frame, bounds
  <2>7. ASSUME WithdrawSteps \/ Recover PROVE stopped' = stopped /\ faults = 0
    BY <2>7 DEF WithdrawSteps, DropFrame, Recover, bounds
  <2> QED BY <1>2, <2>1, <2>2, <2>3, <2>4, <2>5, <2>6, <2>7 DEF Work
<1>3. ASSUME NEW e \in Events, NEW ok \in BOOLEAN, Arrive(e, ok) PROVE stopped' = stopped /\ faults = 0
  BY <1>1, <1>3, OutcomeIs DEF Arrive, Enter
<1>4. ASSUME NEW e \in Events, ReviewFails(e) PROVE stopped' = stopped /\ faults = 0
  BY <1>4 DEF ReviewFails, deferralVars, bounds
<1>5. ASSUME Tick \/ Expires \/ Withdraw PROVE stopped' = stopped /\ faults = 0
  BY <1>5 DEF Tick, Expires, Withdraw, DropFrame, bounds
<1>6. ~StoreFails /\ ~RecoverFails /\ ~Stop /\ \A e \in Events : ~AdmissionFails(e)
  <2>1. ASSUME Outcome(FALSE) PROVE FALSE
    BY <1>1, <2>1 DEF Outcome
  <2>2. ~StoreFails /\ \A e \in Events : ~AdmissionFails(e)
    BY <2>1 DEF StoreFails, AdmissionFails
  <2>3. ~RecoverFails /\ ~Stop
    BY <1>1 DEF RecoverFails, Stop
  <2> QED BY <2>2, <2>3
<1> QED BY <1>2, <1>3, <1>4, <1>5, <1>6 DEF Next

LEMMA NextKept ==
    ASSUME DeferralAssumption, EnoughTokens, KeptInv, Next
    PROVE  KeptInv'
<1>1. TriggerInv /\ TriggerInv'
  BY NextKeeps DEF KeptInv
<1>2. SUFFICES ASSUME faults' = 0, ~stopped' PROVE Kept'
  BY <1>1 DEF KeptInv
<1>3. CASE Restart
  BY <1>1, <1>3, RestartKept
<1>4. CASE ~Restart
  <2>1. Good /\ GoodNext
    BY <1>1, <1>2, <1>4, NoTroubleBefore DEF KeptInv, Good, GoodNext, TriggerInv
  <2>2. ~StoreFails /\ ~RecoverFails /\ ~Stop /\ \A e \in Events : ~AdmissionFails(e)
    BY <1>1, <1>2, <1>4, NoTroubleBefore DEF TriggerInv
  <2>3. ASSUME NEW e \in Events, NEW ok \in BOOLEAN, Admit(e, ok) \/ AttemptOutside(e, ok) \/ HandoffStep(e, ok)
        PROVE  Kept'
    BY <2>1, <2>3, AdmitKept, AttemptOutsideKept, HandoffStepKept
  <2>4. ASSUME NEW e \in Events, AttemptInside(e) \/ ReviewEnds(e) \/ ReviewFails(e) PROVE Kept'
    BY <2>1, <2>4, AttemptInsideKept, ReviewEndsKept, ReviewFailsKept
  <2>5. ASSUME NEW ok \in BOOLEAN, StoreStep(ok) PROVE Kept'
    BY <2>1, <2>5, StoreStepKept
  <2>6. CASE DeferSettles \/ TargetHandedOver
    BY <2>1, <2>6, DeferSettlesKept, TargetHandedOverKept
  <2>7. CASE TimerFires \/ Resumes \/ Recover
    BY <2>1, <2>7, TimerFiresKept, ResumesKept, RecoverKept
  <2>8. CASE WithdrawSteps \/ Withdraw \/ Expires
    BY <2>1, <2>8, WithdrawStepsKept, WithdrawKept, ExpiresKept
  <2>9. CASE Tick
    BY <2>1, <2>9, TickKept
  <2>10. ASSUME NEW e \in Events, NEW ok \in BOOLEAN, Arrive(e, ok) PROVE Kept'
    BY <2>1, <2>10, ArriveKept
  <2>11. CASE Work
    BY <2>3, <2>4, <2>5, <2>6, <2>7, <2>8, <2>11 DEF Work
  <2> QED BY <1>4, <2>2, <2>4, <2>8, <2>9, <2>10, <2>11 DEF Next
<1> QED BY <1>3, <1>4

\* scheduleTriggerProcessing, ReviewDeduplicator and ReviewDeferralManager
\* forget no event while no call fails: whatever restarts, withdrawals and
\* shutdowns interleave with arrivals, attempts, timers and queued writes, the
\* newest event of the target is in an invocation, pending, or deferred until
\* its review begins.
THEOREM NothingForgottenUnfailed ==
    ASSUME DeferralAssumption, TriggerAssumption, EnoughTokens
    PROVE  Spec => [](faults = 0 => NothingForgotten)
<1>1. Init => KeptInv
  BY InitHolds, InitKept DEF KeptInv
<1>2. KeptInv /\ [Next]_vars => KeptInv'
  <2>1. ASSUME KeptInv, UNCHANGED vars PROVE KeptInv'
    <3>1. faults' = faults /\ stopped' = stopped
      BY <2>1 DEF vars, bounds, deferralVars
    <3>2. TriggerInv'
      BY <2>1, StutterKeeps DEF KeptInv
    <3>3. faults = 0 /\ ~stopped => Kept'
      BY <2>1, StutterKept DEF KeptInv, Good
    <3> QED BY <3>1, <3>2, <3>3 DEF KeptInv
  <2> QED BY <2>1, NextKept
<1>3. KeptInv => (faults = 0 => NothingForgotten)
  <2> SUFFICES ASSUME KeptInv, faults = 0 PROVE NothingForgotten
    OBVIOUS
  <2>1. CASE stopped
    BY <2>1 DEF NothingForgotten
  <2>2. CASE ~stopped
    BY <2>2, NothingForgottenHere DEF KeptInv, Good
  <2> QED BY <2>1, <2>2
<1> QED BY <1>1, <1>2, <1>3, PTL DEF Spec
=============================================================================
