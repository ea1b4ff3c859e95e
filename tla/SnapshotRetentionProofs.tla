------------------------ MODULE SnapshotRetentionProofs ------------------------
(***************************************************************************)
(* The proofs about configuration snapshots: for any number of revisions,  *)
(* instances, receipts, jobs and tasks, work that was accepted and is not  *)
(* done keeps the snapshot it was accepted with, and an instance on the    *)
(* active revision finds its snapshot.  The invariants are proved one on   *)
(* top of the other:                                                       *)
(*   Shapes   what a record of a task and of a row looks like;             *)
(*   Heads    who is how far behind the head, and why a collection never   *)
(*            lists the snapshot of the newest revision it may meet;       *)
(*   Rows     a row of the table refers to a snapshot that is there;       *)
(*   Pins     the pin of accepted work stays until the work is done;       *)
(*   Ledger   the row of a job that can still run is not retired.          *)
(***************************************************************************)
EXTENDS SnapshotRetention, FiniteSetTheorems, TLAPS

TaskFields == {"step", "then", "rev", "for", "ver", "removable", "due", "found", "retired"}
RowFields == {"ver", "rev", "value", "of", "by", "during"}

Shapes ==
    /\ DOMAIN task = Tasks /\ \A t \in Tasks : DOMAIN task[t] = TaskFields
    /\ DOMAIN states = Keys /\ \A k \in Keys : DOMAIN states[k] = RowFields
    /\ DOMAIN snapshots = Revisions
    /\ \A r \in Revisions : DOMAIN snapshots[r] = {"there", "during"} /\ There(r) \in BOOLEAN
    /\ DOMAIN current = Instances /\ DOMAIN receipts = Receipts
    /\ \A w \in Receipts : DOMAIN receipts[w] = {"state", "rev"}
    /\ DOMAIN jobs = Jobs /\ confirmed \in [Jobs -> BOOLEAN]

-----------------------------------------------------------------------------
Waiting == {"snapshot", "prepare"}
Asking == {"heartbeat", "list", "poll", "queue", "ask", "retire"}
Choosing == {"rows", "candidates"}
Accepting == {"pin", "accept", "unpin", "reserve"}

HeadGlobal ==
    /\ head \in Revisions
    /\ \A i \in Instances : current[i] \in Revisions /\ current[i] <= head
    /\ \A r \in Revisions : There(r) => r <= head
    /\ \A i \in Instances : current[i] = head => There(head)

\* A snapshot that was written after the task had read the head is not old for it.
NothingNewerIsOld(t) == \A r \in Revisions : There(r) /\ t \notin snapshots[r].during => r <= task[t].rev

HeadTask(t) ==
    /\ task[t].step \in Waiting \cup Asking \cup Choosing \cup Accepting => task[t].rev \in Revisions /\ task[t].rev <= head
    /\ task[t].step \in Waiting => current[Home[t]] < task[t].rev
    /\ task[t].step \in Waiting => \A u \in Tasks : Home[u] = Home[t] /\ task[u].step \in Waiting => u = t
    /\ task[t].step = "prepare" /\ task[t].rev = head => There(head)
    /\ task[t].step \in Waiting \cup Asking \cup Choosing => NothingNewerIsOld(t)
    /\ task[t].step \in Asking => task[t].rev <= current[Home[t]]
    /\ task[t].step \in Choosing => \E x \in task[t].found : x \in Revisions /\ task[t].rev <= x /\ x <= head
    /\ task[t].step = "delete" => \A r \in task[t].due : r \in Revisions /\ r < head
    /\ task[t].step = "admission" => task[t].then \in {"pin", "heartbeat", "reserve"}
    /\ task[t].step \in Waiting => task[t].then \in {"pin", "heartbeat", "reserve"}

Heads == HeadGlobal /\ \A t \in Tasks : HeadTask(t)

-----------------------------------------------------------------------------
Rows == \A k \in Keys : states[k].rev # None => states[k].rev \in Revisions /\ There(states[k].rev)

-----------------------------------------------------------------------------
\* No collection has listed the pin.
NotListed(w) == \A c \in Tasks : \A row \in task[c].removable : row[1] # w

\* Whoever has listed the pin keeps it for the sake of the work.
Respected(w, c) ==
    \A row \in task[c].removable :
        row[1] = w => row[3] = receipts[w].rev /\ (task[c].step = "poll" \/ row[3] \in task[c].found)

PinOf(w) ==
    /\ receipts[w].state = "none" => states[w].ver = 0 /\ states[w].value = "none" /\ NotListed(w)
    /\ receipts[w].state = "live" =>
         /\ receipts[w].rev \in Revisions /\ states[w].rev = receipts[w].rev
         /\ \A c \in Tasks : Respected(w, c)

WillPin(t) == task[t].step = "pin" \/ (task[t].step \in {"admission"} \cup Waiting /\ task[t].then = "pin")

PinTask(t) ==
    /\ WillPin(t) => task[t].for \in Receipts /\ receipts[task[t].for].state = "none"
    /\ task[t].step = "accept" =>
         /\ task[t].for \in Receipts /\ receipts[task[t].for].state = "tried"
         /\ states[task[t].for].ver = 1 /\ states[task[t].for].value = "active"
         /\ states[task[t].for].rev = task[t].rev /\ t \in states[task[t].for].during
         /\ NotListed(task[t].for)
    /\ task[t].step = "unpin" => task[t].for \in Receipts /\ receipts[task[t].for].state # "none"
    /\ task[t].removable # {} => task[t].step \in {"poll", "queue", "ask", "retire", "rows"}
    /\ \A row \in task[t].removable : row[1] \in Receipts \cup Instances
    /\ task[t].for \in Receipts => \A u \in Tasks : task[u].for = task[t].for => u = t

Pins == (\A w \in Receipts : PinOf(w)) /\ \A t \in Tasks : PinTask(t)

-----------------------------------------------------------------------------
\* A row that is enqueued belongs to a job that was.
JobOf(j) ==
    /\ states[j].ver \in Nat
    /\ states[j].ver = 0 => states[j].value = "none" /\ states[j].rev = None
    /\ states[j].rev # None => states[j].of = states[j].rev
    /\ confirmed[j] => states[j].value = "enqueued"
    /\ states[j].value = "enqueued" => jobs[j] # "none"
    /\ states[j].value = "enqueued" /\ states[j].rev = None => jobs[j] = "completed"

WillReserve(t) == task[t].step \in {"find", "reserve"} \/ (task[t].step \in {"admission"} \cup Waiting /\ task[t].then = "reserve")

\* A row as a collection read it.
EntryOf(e) ==
    /\ e.id \in Jobs /\ DOMAIN e.row = RowFields /\ e.row.rev # None
    /\ e.row.ver \in Nat \ {0} /\ e.row.ver <= states[e.id].ver
    /\ e.row.ver = states[e.id].ver => e.row.rev = states[e.id].rev /\ e.row.of = states[e.id].of /\ e.row.value = states[e.id].value
    /\ e.row.value = "enqueued" => jobs[e.id] # "none"

JobTask(t) ==
    /\ WillReserve(t) => task[t].for \in Jobs
    /\ task[t].step \in {"enqueue", "confirm"} =>
         /\ task[t].for \in Jobs /\ task[t].ver \in Nat \ {0} /\ task[t].ver <= states[task[t].for].ver
         /\ task[t].ver = states[task[t].for].ver => states[task[t].for].rev # None
         /\ task[t].ver < states[task[t].for].ver /\ states[task[t].for].rev # None => states[task[t].for].value = "enqueued"
    /\ task[t].step = "confirm" => jobs[task[t].for] # "none"
    /\ task[t].step = "ask" => task[t].due # {} /\ \A e \in task[t].due : EntryOf(e)
    /\ task[t].step \in {"ask", "retire"} =>
         \A e \in task[t].retired : EntryOf(e) /\ (e.row.value = "enqueued" => jobs[e.id] = "completed")
    /\ task[t].step = "retire" => task[t].retired # {}

JobStates == \A j \in Jobs : jobs[j] \in {"none", "live", "completed"}

LedgerKept == JobStates /\ (\A j \in Jobs : JobOf(j)) /\ \A t \in Tasks : JobTask(t)

InductiveInvariant == Shapes /\ Heads /\ Rows /\ Pins /\ LedgerKept

-----------------------------------------------------------------------------
(* What the steps do to the records. *)

TaskShape == DOMAIN task = Tasks /\ \A t \in Tasks : DOMAIN task[t] = TaskFields
StateShape == DOMAIN states = Keys /\ \A k \in Keys : DOMAIN states[k] = RowFields
SnapshotShape ==
    /\ DOMAIN snapshots = Revisions
    /\ \A r \in Revisions : DOMAIN snapshots[r] = {"there", "during"} /\ There(r) \in BOOLEAN
WorkShape ==
    /\ DOMAIN current = Instances /\ DOMAIN receipts = Receipts
    /\ \A w \in Receipts : DOMAIN receipts[w] = {"state", "rev"}
    /\ DOMAIN jobs = Jobs /\ confirmed \in [Jobs -> BOOLEAN]

\* The shapes are four independent facts.
LEMMA ShapeParts == Shapes <=> TaskShape /\ StateShape /\ SnapshotShape /\ WorkShape
BY DEF Shapes, TaskShape, StateShape, SnapshotShape, WorkShape

Fields(t, step, then, rev, for, ver, removable, due, found, retired) ==
    /\ task'[t].step = step /\ task'[t].then = then /\ task'[t].rev = rev /\ task'[t].for = for
    /\ task'[t].ver = ver /\ task'[t].removable = removable /\ task'[t].due = due
    /\ task'[t].found = found /\ task'[t].retired = retired

Others(t) == \A u \in Tasks : u # t => task'[u] = task[u]

\* One task goes on, and this is what it remembers.
Moves(t, step, then, rev, for, ver, removable, due, found, retired) ==
    TaskShape' /\ Others(t) /\ Fields(t, step, then, rev, for, ver, removable, due, found, retired)

Advances(t, step) ==
    Moves(t, step, task[t].then, task[t].rev, task[t].for, task[t].ver,
          task[t].removable, task[t].due, task[t].found, task[t].retired)
Rests(t, step) == Moves(t, step, "idle", None, None, 0, {}, {}, {}, {})

LEMMA GoesIs ==
    ASSUME TaskShape, NEW t \in Tasks, NEW step, Goes(t, step)
    PROVE  Advances(t, step)
BY DEF TaskShape, Goes, Advances, Moves, Others, Fields, TaskFields

LEMMA EndsIs ==
    ASSUME TaskShape, NEW t \in Tasks, Ends(t)
    PROVE  Rests(t, "done")
BY DEF TaskShape, Ends, Rests, Moves, Others, Fields, TaskFields, Resting

\* A call that is over rests at "over", a collector at "idle".
LEMMA OverIs ==
    ASSUME NEW t
    PROVE  /\ DOMAIN Over(t) = TaskFields /\ Over(t).step \in {"over", "idle"} /\ Over(t).then = "idle"
           /\ Over(t).rev = None /\ Over(t).for = None /\ Over(t).removable = {} /\ Over(t).due = {}
           /\ Over(t).found = {} /\ Over(t).retired = {}
BY DEF Over, Resting, TaskFields

LEMMA AdmittedIs ==
    ASSUME TaskShape, NEW t \in Tasks, NEW rev, Admitted(t, rev)
    PROVE  Moves(t, task[t].then, "idle", rev, task[t].for, task[t].ver,
                 task[t].removable, task[t].due, task[t].found, task[t].retired)
BY DEF TaskShape, Admitted, Moves, Others, Fields, TaskFields

LEMMA StartWithIs ==
    ASSUME TaskShape, NEW t \in Tasks, NEW step, NEW for, StartWith(t, step, for)
    PROVE  /\ Moves(t, "admission", step, None, for, 0, {}, {}, {}, {})
           /\ At(t, "idle") /\ UNCHANGED configVars /\ NothingElse
BY DEF TaskShape, StartWith, Moves, Others, Fields, TaskFields, Resting

LEMMA SweepsIs ==
    ASSUME TaskShape, NEW t \in Tasks, NEW due, NEW found, NEW retired, Sweeps(t, due, found, retired)
    PROVE  \E step, all :
             /\ Moves(t, step, task[t].then, task[t].rev, task[t].for, task[t].ver, task[t].removable, due, all, retired)
             /\ \/ step = "ask" /\ due # {} /\ all = found
                \/ step = "retire" /\ due = {} /\ retired # {} /\ all = found
                \/ step = "rows" /\ due = {} /\ retired = {} /\ all = found \cup {current[Home[t]]}
<1> DEFINE step == IF due # {} THEN "ask" ELSE IF retired # {} THEN "retire" ELSE "rows"
           all == IF step = "rows" THEN found \cup {current[Home[t]]} ELSE found
<1>1. task' = [task EXCEPT ![t].step = step, ![t].due = due, ![t].retired = retired, ![t].found = all]
  BY DEF Sweeps
<1>2. \/ step = "ask" /\ due # {} /\ all = found
      \/ step = "retire" /\ due = {} /\ retired # {} /\ all = found
      \/ step = "rows" /\ due = {} /\ retired = {} /\ all = found \cup {current[Home[t]]}
  OBVIOUS
<1> HIDE DEF step, all
<1>3. Moves(t, step, task[t].then, task[t].rev, task[t].for, task[t].ver, task[t].removable, due, all, retired)
  BY <1>1 DEF TaskShape, Moves, Others, Fields, TaskFields
<1> QED BY <1>2, <1>3

\* One row is written; its version goes up by one.
Writes(k, row, during) ==
    /\ StateShape' /\ UNCHANGED <<head, snapshots>>
    /\ \A other \in Keys : other # k => states'[other] = states[other]
    /\ k \in Keys =>
         /\ states'[k].ver = row.ver + 1 /\ states'[k].rev = row.rev /\ states'[k].value = row.value
         /\ states'[k].of = row.of /\ states'[k].by = row.by /\ states'[k].during = during

LEMMA WriteIs ==
    ASSUME StateShape, NEW k, NEW row, NEW during, DOMAIN row = RowFields, WriteState(k, row, during)
    PROVE  Writes(k, row, during)
<1>1. PICK n : n = row.ver + 1
  OBVIOUS
<1>2. states' = [states EXCEPT ![k] = [row EXCEPT !.ver = n, !.during = during]]
  BY <1>1 DEF WriteState
<1>3. UNCHANGED <<head, snapshots>>
  BY DEF WriteState
<1> QED BY <1>1, <1>2, <1>3 DEF StateShape, Writes, RowFields

LEMMA DeleteIs ==
    ASSUME StateShape, NEW k, NEW expected, DeleteState(k, expected)
    PROVE  /\ StateShape' /\ UNCHANGED <<head, snapshots>>
           /\ \A other \in Keys : states'[other] = states[other] \/ (other = k /\ states'[other] = NoRow)
BY DEF StateShape, DeleteState, NoRow, RowFields

-----------------------------------------------------------------------------
(* The same for each action: what it found, and everything it changes.      *)

Rest == <<current, alive, receipts, jobs, confirmed>>
TaskOnly == UNCHANGED <<configVars, Rest>>

\* The tasks that are gone leave the rows and snapshots older than before.
AgesSnapshots(gone) ==
    /\ SnapshotShape'
    /\ \A r \in Revisions : There(r)' = There(r) /\ snapshots'[r].during = snapshots[r].during \ gone
AgesRows(gone) ==
    /\ StateShape'
    /\ \A k \in Keys :
         /\ states'[k].ver = states[k].ver /\ states'[k].rev = states[k].rev
         /\ states'[k].value = states[k].value /\ states'[k].of = states[k].of /\ states'[k].by = states[k].by
         /\ k \notin Instances => states'[k].during = states[k].during \ gone

LEMMA ReturnIs ==
    ASSUME Shapes, NEW t \in Tasks, Return(t), UNCHANGED ledgerVars
    PROVE  /\ \E step : Rests(t, step) /\ step \in {"over", "idle"}
           /\ UNCHANGED <<head, Rest>> /\ AgesSnapshots({t}) /\ AgesRows({t})
<1>1. TaskShape /\ StateShape /\ SnapshotShape
  BY ShapeParts
<1>2. task' = [task EXCEPT ![t] = Over(t)] /\ WithoutTasks({t}) /\ UNCHANGED <<current, alive, receipts>>
  BY DEF Return, NothingElse
<1>3. Rests(t, Over(t).step) /\ Over(t).step \in {"over", "idle"}
  <2>1. TaskShape' /\ Others(t) /\ task'[t] = Over(t)
    BY <1>1, <1>2, OverIs DEF TaskShape, Others
  <2>2. Over(t).ver = 0
    BY DEF Over, Resting
  <2> QED BY <2>1, <2>2, OverIs DEF Rests, Moves, Fields
<1>4. AgesSnapshots({t})
  BY <1>1, <1>2 DEF WithoutTasks, AgesSnapshots, SnapshotShape, There
<1>5. AgesRows({t})
  BY <1>1, <1>2 DEF WithoutTasks, AgesRows, StateShape, RowFields
<1> QED BY <1>2, <1>3, <1>4, <1>5 DEF WithoutTasks, ledgerVars, Rest

LEMMA LostIs ==
    ASSUME Shapes, NEW i \in Instances, Lost(i), UNCHANGED ledgerVars
    PROVE  LET mine == {t \in Tasks : Home[t] = i}
           IN  /\ TaskShape' /\ UNCHANGED <<head, current, receipts, jobs, confirmed>>
               /\ \A t \in Tasks : task'[t] = IF t \in mine THEN Over(t) ELSE task[t]
               /\ AgesSnapshots(mine) /\ AgesRows(mine)
<1> DEFINE mine == {t \in Tasks : Home[t] = i}
<1>1. TaskShape /\ StateShape /\ SnapshotShape
  BY ShapeParts
<1>2. /\ task' = [t \in Tasks |-> IF t \in mine THEN Over(t) ELSE task[t]]
      /\ states' = [k \in Keys |-> [states[k] EXCEPT !.during = (IF k = i THEN UnderWay ELSE @) \ mine]]
      /\ snapshots' = [r \in Revisions |-> [snapshots[r] EXCEPT !.during = @ \ mine]]
      /\ UNCHANGED <<head, current, receipts>>
  BY DEF Lost
<1> HIDE DEF mine
<1>3. TaskShape'
  BY <1>1, <1>2, OverIs DEF TaskShape
<1>4. AgesSnapshots(mine)
  BY <1>1, <1>2 DEF AgesSnapshots, SnapshotShape, There
<1>5. AgesRows(mine)
  BY <1>1, <1>2 DEF AgesRows, StateShape, RowFields
<1> QED BY <1>2, <1>3, <1>4, <1>5 DEF ledgerVars, mine

\* A snapshot is written, unless it is there.
WritesSnapshot(r, during) ==
    /\ SnapshotShape' /\ UNCHANGED <<head, states>>
    /\ \A other \in Revisions : other # r => snapshots'[other] = snapshots[other]
    /\ r \in Revisions =>
         /\ There(r)'
         /\ IF There(r) THEN snapshots'[r] = snapshots[r] ELSE snapshots'[r].during = during

LEMMA WriteSnapshotIs ==
    ASSUME Shapes, NEW r, NEW during, WriteSnapshot(r, during)
    PROVE  WritesSnapshot(r, during)
BY ShapeParts DEF WriteSnapshot, WritesSnapshot, SnapshotShape, There

LEMMA ReadHeadIs ==
    ASSUME Shapes, NEW t \in Tasks, ReadHead(t), UNCHANGED ledgerVars
    PROVE  /\ TaskOnly /\ At(t, "admission")
           /\ \/ /\ head = current[Home[t]]
                 /\ Moves(t, task[t].then, "idle", head, task[t].for, task[t].ver,
                          task[t].removable, task[t].due, task[t].found, task[t].retired)
              \/ Rests(t, "done")
              \/ /\ head # current[Home[t]] /\ ~(head < current[Home[t]]) /\ Refreshes(t)
                 /\ Moves(t, "snapshot", task[t].then, head, task[t].for, task[t].ver,
                          task[t].removable, task[t].due, task[t].found, task[t].retired)
<1>1. TaskShape
  BY ShapeParts
<1>2. TaskOnly /\ At(t, "admission") /\ Refreshes(t)
  BY DEF ReadHead, TaskOnly, NothingElse, ledgerVars, Rest
<1>3. CASE head = current[Home[t]]
  <2>1. Admitted(t, head) \/ Ends(t)
    BY <1>3 DEF ReadHead
  <2> QED BY <1>1, <1>2, <1>3, <2>1, AdmittedIs, EndsIs
<1>4. CASE head # current[Home[t]] /\ head < current[Home[t]]
  <2>1. Ends(t)
    BY <1>4 DEF ReadHead
  <2> QED BY <1>1, <1>2, <2>1, EndsIs
<1>5. CASE head # current[Home[t]] /\ ~(head < current[Home[t]])
  <2>1. task' = [task EXCEPT ![t].step = "snapshot", ![t].rev = head]
    BY <1>5 DEF ReadHead
  <2> QED BY <1>1, <1>2, <1>5, <2>1 DEF TaskShape, Moves, Others, Fields, TaskFields
<1> QED BY <1>3, <1>4, <1>5

LEMMA EnsureSnapshotIs ==
    ASSUME Shapes, NEW t \in Tasks, EnsureSnapshot(t), UNCHANGED ledgerVars
    PROVE  /\ At(t, "snapshot") /\ WritesSnapshot(task[t].rev, UnderWay)
           /\ Advances(t, "prepare") /\ UNCHANGED Rest
BY ShapeParts, GoesIs, WriteSnapshotIs DEF EnsureSnapshot, NothingElse, ledgerVars, Rest

LEMMA AdoptIs ==
    ASSUME Shapes, NEW t \in Tasks, Adopt(t), UNCHANGED ledgerVars, Home[t] \in Instances
    PROVE  /\ At(t, "prepare")
           /\ Moves(t, task[t].then, "idle", task[t].rev, task[t].for, task[t].ver,
                    task[t].removable, task[t].due, task[t].found, task[t].retired)
           /\ DOMAIN current' = Instances /\ current'[Home[t]] = task[t].rev
           /\ \A i \in Instances : i # Home[t] => current'[i] = current[i]
           /\ UNCHANGED <<configVars, alive, receipts, jobs, confirmed>>
<1>1. TaskShape /\ WorkShape
  BY ShapeParts
<1>2. Admitted(t, task[t].rev) /\ current' = [current EXCEPT ![Home[t]] = task[t].rev]
  BY DEF Adopt
<1> QED BY <1>1, <1>2, AdmittedIs DEF Adopt, WorkShape, ledgerVars

LEMMA AdoptFailsIs ==
    ASSUME Shapes, NEW t \in Tasks, AdoptFails(t), UNCHANGED ledgerVars
    PROVE  Rests(t, "done") /\ TaskOnly
BY ShapeParts, EndsIs DEF AdoptFails, NothingElse, ledgerVars, Rest, TaskOnly

LEMMA BeginPinIs ==
    ASSUME Shapes, NEW t \in Tasks, BeginPin(t), UNCHANGED ledgerVars
    PROVE  /\ At(t, "pin") /\ UNCHANGED <<current, alive, jobs, confirmed>>
           /\ \/ /\ Accepts(task[t].for, 0) /\ MayRefer(task[t].rev)
                 /\ Writes(task[t].for, [NoRow EXCEPT !.rev = task[t].rev, !.value = "active", !.by = Home[t]], UnderWay)
                 /\ receipts' = [receipts EXCEPT ![task[t].for].state = "tried"]
                 /\ Advances(t, "accept")
              \/ Rests(t, "done") /\ TaskOnly
<1>1. TaskShape /\ StateShape
  BY ShapeParts
<1>2. At(t, "pin") /\ UNCHANGED <<current, alive, jobs, confirmed>>
  BY DEF BeginPin, ledgerVars
<1>3. CASE Accepts(task[t].for, 0) /\ MayRefer(task[t].rev)
  <2> DEFINE row == [NoRow EXCEPT !.rev = task[t].rev, !.value = "active", !.by = Home[t]]
  <2>1. WriteState(task[t].for, row, UnderWay) /\ Goes(t, "accept")
        /\ receipts' = [receipts EXCEPT ![task[t].for].state = "tried"]
    BY <1>3 DEF BeginPin
  <2>2. DOMAIN row = RowFields
    BY DEF NoRow, RowFields
  <2> HIDE DEF row
  <2>3. Writes(task[t].for, row, UnderWay)
    BY <1>1, <2>1, <2>2, WriteIs
  <2>4. Advances(t, "accept")
    BY <1>1, <2>1, GoesIs
  <2> QED BY <1>2, <1>3, <2>1, <2>3, <2>4 DEF row
<1>4. CASE ~(Accepts(task[t].for, 0) /\ MayRefer(task[t].rev))
  BY <1>1, <1>4, EndsIs DEF BeginPin, TaskOnly, Rest, ledgerVars
<1> QED BY <1>2, <1>3, <1>4

LEMMA AcceptReceiptIs ==
    ASSUME Shapes, NEW t \in Tasks, AcceptReceipt(t), UNCHANGED ledgerVars
    PROVE  /\ At(t, "accept") /\ Advances(t, "unpin")
           /\ \/ receipts' = [receipts EXCEPT ![task[t].for] = [state |-> "live", rev |-> task[t].rev]]
              \/ receipts' = receipts
           /\ UNCHANGED <<configVars, current, alive, jobs, confirmed>>
BY ShapeParts, GoesIs DEF AcceptReceipt, ledgerVars

LEMMA EndPinIs ==
    ASSUME Shapes, NEW t \in Tasks, EndPin(t), UNCHANGED ledgerVars, task[t].for \in Keys
    PROVE  /\ At(t, "unpin") /\ Rests(t, "done") /\ UNCHANGED Rest
           /\ \/ Writes(task[t].for, [states[task[t].for] EXCEPT !.value = "ended"], {})
              \/ UNCHANGED configVars
<1>1. TaskShape /\ StateShape
  BY ShapeParts
<1> DEFINE row == [states[task[t].for] EXCEPT !.value = "ended"]
<1>2. DOMAIN row = RowFields
  BY <1>1 DEF StateShape
<1>3. WriteState(task[t].for, row, {}) \/ UNCHANGED configVars
  BY DEF EndPin
<1> HIDE DEF row
<1>4. Writes(task[t].for, row, {}) \/ UNCHANGED configVars
  BY <1>1, <1>2, <1>3, WriteIs
<1>5. At(t, "unpin") /\ Rests(t, "done") /\ UNCHANGED Rest
  BY <1>1, EndsIs DEF EndPin, NothingElse, ledgerVars, Rest
<1> QED BY <1>4, <1>5 DEF row

LEMMA HeartbeatIs ==
    ASSUME Shapes, NEW t \in Tasks, Heartbeat(t), UNCHANGED ledgerVars, Home[t] \in Instances
    PROVE  /\ At(t, "heartbeat") /\ UNCHANGED Rest
           /\ Rests(t, "done") \/ Advances(t, "list")
           /\ \/ \E row : /\ MayRefer(current[Home[t]]) /\ row.rev = current[Home[t]]
                          /\ Writes(Home[t], row, {})
              \/ UNCHANGED configVars
<1>1. TaskShape /\ StateShape
  BY ShapeParts
<1> DEFINE row == [states[Home[t]] EXCEPT !.rev = current[Home[t]], !.ver = 0]
<1>2. DOMAIN row = RowFields /\ row.rev = current[Home[t]]
  BY <1>1 DEF StateShape, Keys, RowFields
<1>3. (MayRefer(current[Home[t]]) /\ WriteState(Home[t], row, {})) \/ UNCHANGED configVars
  BY DEF Heartbeat
<1> HIDE DEF row
<1>4. (MayRefer(current[Home[t]]) /\ Writes(Home[t], row, {})) \/ UNCHANGED configVars
  BY <1>1, <1>2, <1>3, WriteIs
<1>5. At(t, "heartbeat") /\ UNCHANGED Rest /\ (Ends(t) \/ Goes(t, "list"))
  BY DEF Heartbeat, NothingElse, ledgerVars, Rest
<1> QED BY <1>1, <1>2, <1>4, <1>5, EndsIs, GoesIs

\* The rows a collection may remove.
MayGo(k) ==
    \/ k \in Receipts /\ (states[k].value = "ended" \/ (states[k].value = "active" /\ Abandoned(states[k])))
    \/ k \in Instances

LEMMA ListStatesIs ==
    ASSUME Shapes, NEW t \in Tasks, ListStates(t), UNCHANGED ledgerVars
    PROVE  /\ At(t, "list") /\ TaskOnly
           /\ \E rows :
                /\ Moves(t, "poll", task[t].then, task[t].rev, task[t].for, task[t].ver,
                         rows, task[t].due, task[t].found, task[t].retired)
                /\ \A row \in rows : \E k : MayGo(k) /\ row = <<k, states[k].ver, states[k].rev>>
<1>1. TaskShape
  BY ShapeParts
<1> DEFINE keys == {w \in Receipts : states[w].value = "ended" \/ (states[w].value = "active" /\ Abandoned(states[w]))}
                     \cup {i \in Instances : states[i].ver > 0 /\ ~LiveInstance(i)}
           rows == {<<k, states[k].ver, states[k].rev>> : k \in keys}
<1>2. task' = [task EXCEPT ![t].step = "poll", ![t].removable = rows] /\ At(t, "list") /\ TaskOnly
  BY DEF ListStates, TaskOnly, Rest, NothingElse, ledgerVars
<1>3. \A k \in keys : MayGo(k)
  BY DEF MayGo
<1>4. \A row \in rows : \E k : MayGo(k) /\ row = <<k, states[k].ver, states[k].rev>>
  BY <1>3
<1> HIDE DEF rows
<1>5. Moves(t, "poll", task[t].then, task[t].rev, task[t].for, task[t].ver,
            rows, task[t].due, task[t].found, task[t].retired)
  BY <1>1, <1>2 DEF TaskShape, Moves, Others, Fields, TaskFields
<1> QED BY <1>2, <1>4, <1>5

LEMMA PollReceiptsIs ==
    ASSUME Shapes, NEW t \in Tasks, PollReceipts(t), UNCHANGED ledgerVars
    PROVE  /\ At(t, "poll") /\ TaskOnly
           /\ Moves(t, "queue", task[t].then, task[t].rev, task[t].for, task[t].ver, task[t].removable, task[t].due,
                    {receipts[w].rev : w \in {v \in Receipts : receipts[v].state \in Pending}}, task[t].retired)
<1>1. TaskShape
  BY ShapeParts
<1> DEFINE all == {receipts[w].rev : w \in {v \in Receipts : receipts[v].state \in Pending}}
<1>2. task' = [task EXCEPT ![t].step = "queue", ![t].found = all] /\ At(t, "poll") /\ TaskOnly
  BY DEF PollReceipts, TaskOnly, Rest, NothingElse, ledgerVars
<1> HIDE DEF all
<1>3. Moves(t, "queue", task[t].then, task[t].rev, task[t].for, task[t].ver, task[t].removable, task[t].due, all, task[t].retired)
  BY <1>1, <1>2 DEF TaskShape, Moves, Others, Fields, TaskFields
<1> QED BY <1>2, <1>3 DEF all

\* A row nobody refers to is removed; when there is none, the snapshots come next.
LEMMA RemoveRowIs ==
    ASSUME Shapes, NEW t \in Tasks, RemoveRow(t), UNCHANGED ledgerVars
    PROVE  /\ At(t, "rows") /\ UNCHANGED Rest
           /\ \/ /\ UNCHANGED configVars
                 /\ Moves(t, "candidates", task[t].then, task[t].rev, task[t].for, task[t].ver,
                          {}, task[t].due, task[t].found, task[t].retired)
              \/ \E row \in task[t].removable :
                   /\ row[1] \in Receipts => row[3] \notin task[t].found
                   /\ DeleteState(row[1], row[2])
                   /\ Moves(t, "rows", task[t].then, task[t].rev, task[t].for, task[t].ver,
                            task[t].removable \ {row}, task[t].due, task[t].found, task[t].retired)
<1>1. TaskShape
  BY ShapeParts
<1> DEFINE rows == {row \in task[t].removable : row[1] \in Receipts => row[3] \notin task[t].found}
<1>2. At(t, "rows") /\ UNCHANGED Rest
  BY DEF RemoveRow, NothingElse, ledgerVars, Rest
<1>3. CASE rows = {}
  <2>1. task' = [task EXCEPT ![t].step = "candidates", ![t].removable = {}] /\ UNCHANGED configVars
    BY <1>3 DEF RemoveRow
  <2> QED BY <1>1, <1>2, <2>1 DEF TaskShape, Moves, Others, Fields, TaskFields
<1>4. CASE rows # {}
  <2>1. PICK row \in rows : DeleteState(row[1], row[2]) /\ task' = [task EXCEPT ![t].removable = @ \ {row}]
    BY <1>4 DEF RemoveRow
  <2>2. Moves(t, "rows", task[t].then, task[t].rev, task[t].for, task[t].ver,
              task[t].removable \ {row}, task[t].due, task[t].found, task[t].retired)
    BY <1>1, <1>2, <2>1 DEF TaskShape, Moves, Others, Fields, TaskFields, At
  <2> QED BY <1>2, <2>1, <2>2
<1> QED BY <1>3, <1>4

LEMMA ListCandidatesIs ==
    ASSUME Shapes, NEW t \in Tasks, ListCandidates(t), UNCHANGED ledgerVars
    PROVE  /\ At(t, "candidates") /\ TaskOnly
           /\ Moves(t, "delete", task[t].then, task[t].rev, task[t].for, task[t].ver,
                    task[t].removable, Unreferenced \ task[t].found, {}, task[t].retired)
<1>1. TaskShape
  BY ShapeParts
<1>2. /\ task' = [task EXCEPT ![t].step = "delete", ![t].due = Unreferenced \ task[t].found, ![t].found = {}]
      /\ At(t, "candidates") /\ TaskOnly
  BY DEF ListCandidates, TaskOnly, Rest, NothingElse, ledgerVars
<1> QED BY <1>1, <1>2 DEF TaskShape, Moves, Others, Fields, TaskFields

\* A snapshot goes only while no row refers to it.
Deletes(r) ==
    /\ SnapshotShape' /\ UNCHANGED <<head, states>>
    /\ \A other \in Revisions : snapshots'[other] = snapshots[other]
                                \/ (other = r /\ ~Referenced(r) /\ ~There(other)')

LEMMA DeleteNextIs ==
    ASSUME Shapes, NEW t \in Tasks, DeleteNext(t), UNCHANGED ledgerVars
    PROVE  /\ At(t, "delete") /\ UNCHANGED Rest
           /\ \/ Rests(t, "done") /\ UNCHANGED configVars
              \/ \E r \in task[t].due :
                   /\ Deletes(r)
                   /\ Moves(t, "delete", task[t].then, task[t].rev, task[t].for, task[t].ver,
                            task[t].removable, task[t].due \ {r}, task[t].found, task[t].retired)
<1>1. TaskShape /\ SnapshotShape
  BY ShapeParts
<1>2. At(t, "delete") /\ UNCHANGED Rest
  BY DEF DeleteNext, NothingElse, ledgerVars, Rest
<1>3. CASE task[t].due = {}
  BY <1>1, <1>2, <1>3, EndsIs DEF DeleteNext
<1>4. CASE task[t].due # {}
  <2>1. PICK r \in task[t].due : DeleteSnapshot(r) /\ task' = [task EXCEPT ![t].due = @ \ {r}]
    BY <1>4 DEF DeleteNext
  <2>2. Deletes(r)
    BY <1>1, <2>1 DEF DeleteSnapshot, Deletes, SnapshotShape, There, NoSnapshot
  <2>3. Moves(t, "delete", task[t].then, task[t].rev, task[t].for, task[t].ver,
              task[t].removable, task[t].due \ {r}, task[t].found, task[t].retired)
    BY <1>1, <1>2, <2>1 DEF TaskShape, Moves, Others, Fields, TaskFields, At
  <2> QED BY <1>2, <2>1, <2>2, <2>3
<1> QED BY <1>3, <1>4

LEMMA StartEnqueueIs ==
    ASSUME Shapes, NEW t \in Tasks, NEW j, StartEnqueue(t, j), UNCHANGED ledgerVars
    PROVE  Moves(t, "find", "idle", None, j, 0, {}, {}, {}, {}) /\ TaskOnly
<1>1. TaskShape
  BY ShapeParts
<1>2. task' = [task EXCEPT ![t] = [Resting EXCEPT !.step = "find", !.for = j]] /\ TaskOnly
  BY DEF StartEnqueue, TaskOnly, NothingElse, ledgerVars, Rest
<1> QED BY <1>1, <1>2 DEF TaskShape, Moves, Others, Fields, TaskFields, Resting

LEMMA FindJobIs ==
    ASSUME Shapes, NEW t \in Tasks, FindJob(t)
    PROVE  /\ At(t, "find") /\ TaskOnly
           /\ \/ Rests(t, "done")
              \/ Moves(t, "admission", "reserve", task[t].rev, task[t].for, task[t].ver,
                       task[t].removable, task[t].due, task[t].found, task[t].retired)
<1>1. TaskShape
  BY ShapeParts
<1>2. At(t, "find") /\ TaskOnly
  BY DEF FindJob, TaskOnly, NothingRuns, ledgerVars, Rest
<1>3. Ends(t) \/ task' = [task EXCEPT ![t].step = "admission", ![t].then = "reserve"]
  BY DEF FindJob
<1>4. ASSUME task' = [task EXCEPT ![t].step = "admission", ![t].then = "reserve"]
      PROVE  Moves(t, "admission", "reserve", task[t].rev, task[t].for, task[t].ver,
                   task[t].removable, task[t].due, task[t].found, task[t].retired)
  BY <1>1, <1>4 DEF TaskShape, Moves, Others, Fields, TaskFields
<1> QED BY <1>1, <1>2, <1>3, <1>4, EndsIs

LEMMA ReserveIs ==
    ASSUME Shapes, NEW t \in Tasks, Reserve(t)
    PROVE  /\ At(t, "reserve") /\ UNCHANGED Rest
           /\ \/ /\ Accepts(task[t].for, 0) /\ MayRefer(task[t].rev)
                 /\ Writes(task[t].for, [NoRow EXCEPT !.rev = task[t].rev, !.of = task[t].rev,
                                                      !.value = "preparing", !.by = Home[t]], UnderWay)
                 /\ Moves(t, "enqueue", task[t].then, task[t].rev, task[t].for, 1,
                          task[t].removable, task[t].due, task[t].found, task[t].retired)
              \/ /\ ~Accepts(task[t].for, 0) /\ Ledger(t).rev # None /\ UNCHANGED configVars
                 /\ Moves(t, "enqueue", task[t].then, task[t].rev, task[t].for, Ledger(t).ver,
                          task[t].removable, task[t].due, task[t].found, task[t].retired)
              \/ Rests(t, "done") /\ UNCHANGED configVars
<1>1. TaskShape /\ StateShape
  BY ShapeParts
<1> DEFINE row == [NoRow EXCEPT !.rev = task[t].rev, !.of = task[t].rev, !.value = "preparing", !.by = Home[t]]
<1>2. At(t, "reserve") /\ UNCHANGED Rest
  BY DEF Reserve, NothingRuns, ledgerVars, Rest
<1>3. CASE Accepts(task[t].for, 0) /\ MayRefer(task[t].rev)
  <2>1. WriteState(task[t].for, row, UnderWay) /\ task' = [task EXCEPT ![t].step = "enqueue", ![t].ver = 1]
    BY <1>3 DEF Reserve
  <2>2. DOMAIN row = RowFields
    BY DEF NoRow, RowFields
  <2> HIDE DEF row
  <2>3. Writes(task[t].for, row, UnderWay)
    BY <1>1, <2>1, <2>2, WriteIs
  <2>4. Moves(t, "enqueue", task[t].then, task[t].rev, task[t].for, 1,
              task[t].removable, task[t].due, task[t].found, task[t].retired)
    BY <1>1, <2>1 DEF TaskShape, Moves, Others, Fields, TaskFields
  <2> QED BY <1>2, <1>3, <2>3, <2>4 DEF row
<1>4. CASE ~Accepts(task[t].for, 0) /\ Ledger(t).rev # None
  <2>1. task' = [task EXCEPT ![t].step = "enqueue", ![t].ver = Ledger(t).ver] /\ UNCHANGED configVars
    BY <1>4 DEF Reserve
  <2>2. Moves(t, "enqueue", task[t].then, task[t].rev, task[t].for, Ledger(t).ver,
              task[t].removable, task[t].due, task[t].found, task[t].retired)
    BY <1>1, <2>1 DEF TaskShape, Moves, Others, Fields, TaskFields
  <2> QED BY <1>2, <1>4, <2>1, <2>2
<1>5. CASE ~(Accepts(task[t].for, 0) /\ MayRefer(task[t].rev)) /\ ~(~Accepts(task[t].for, 0) /\ Ledger(t).rev # None)
  BY <1>1, <1>2, <1>5, EndsIs DEF Reserve
<1> QED BY <1>3, <1>4, <1>5

LEMMA EnqueueJobIs ==
    ASSUME Shapes, NEW t \in Tasks, EnqueueJob(t)
    PROVE  /\ At(t, "enqueue") /\ UNCHANGED <<configVars, current, alive, receipts, confirmed>>
           /\ \/ /\ jobs' = [jobs EXCEPT ![task[t].for] = IF @ = "none" THEN "live" ELSE @]
                 /\ Advances(t, "confirm")
              \/ jobs' = jobs /\ Rests(t, "done")
BY ShapeParts, GoesIs, EndsIs DEF EnqueueJob, NothingRuns

LEMMA ConfirmIs ==
    ASSUME Shapes, NEW t \in Tasks, Confirm(t), task[t].for \in Keys
    PROVE  /\ At(t, "confirm") /\ Rests(t, "done") /\ UNCHANGED <<current, alive, receipts, jobs>>
           /\ \/ /\ Accepts(task[t].for, task[t].ver)
                 /\ Writes(task[t].for, [Ledger(t) EXCEPT !.value = "enqueued"], {})
              \/ ~Accepts(task[t].for, task[t].ver) /\ UNCHANGED configVars
           /\ confirmed' = [confirmed EXCEPT ![task[t].for] = @ \/ Accepts(task[t].for, task[t].ver) \/ Ledger(t).rev # None]
<1>1. TaskShape /\ StateShape
  BY ShapeParts
<1> DEFINE row == [Ledger(t) EXCEPT !.value = "enqueued"]
<1>2. DOMAIN row = RowFields
  BY <1>1 DEF StateShape, Ledger
<1>3. \/ Accepts(task[t].for, task[t].ver) /\ WriteState(task[t].for, row, {})
      \/ ~Accepts(task[t].for, task[t].ver) /\ UNCHANGED configVars
  BY DEF Confirm
<1> HIDE DEF row
<1>4. \/ Accepts(task[t].for, task[t].ver) /\ Writes(task[t].for, row, {})
      \/ ~Accepts(task[t].for, task[t].ver) /\ UNCHANGED configVars
  BY <1>1, <1>2, <1>3, WriteIs
<1>5. /\ At(t, "confirm") /\ Rests(t, "done") /\ UNCHANGED <<current, alive, receipts, jobs>>
      /\ confirmed' = [confirmed EXCEPT ![task[t].for] = @ \/ Accepts(task[t].for, task[t].ver) \/ Ledger(t).rev # None]
  BY <1>1, EndsIs DEF Confirm, NothingRuns
<1> QED BY <1>4, <1>5 DEF row

LEMMA ListLedgerIs ==
    ASSUME Shapes, NEW t \in Tasks, ListLedger(t)
    PROVE  /\ At(t, "queue") /\ TaskOnly
           /\ \E rows : /\ Sweeps(t, rows, task[t].found, {})
                        /\ \A e \in rows : e.id \in Jobs /\ e.row = states[e.id] /\ states[e.id].rev # None
<1> DEFINE rows == {[id |-> j, row |-> states[j], held |-> Preparing(states[j])] : j \in {k \in Jobs : states[k].rev # None}}
<1>1. Sweeps(t, rows, task[t].found, {}) /\ At(t, "queue") /\ TaskOnly
  BY DEF ListLedger, TaskOnly, NothingRuns, ledgerVars, Rest
<1>2. \A e \in rows : e.id \in Jobs /\ e.row = states[e.id] /\ states[e.id].rev # None
  OBVIOUS
<1> QED BY <1>1, <1>2

\* One row that was due counts, or may be retired because the job is not live.
LEMMA AskJobIs ==
    ASSUME Shapes, NEW t \in Tasks, AskJob(t), task[t].due # {}
    PROVE  /\ At(t, "ask") /\ TaskOnly
           /\ \E e \in task[t].due :
                \/ Sweeps(t, task[t].due \ {e}, task[t].found \cup {e.row.rev}, task[t].retired)
                \/ jobs[e.id] # "live" /\ Sweeps(t, task[t].due \ {e}, task[t].found, task[t].retired \cup {e})
<1>1. At(t, "ask") /\ TaskOnly
  BY DEF AskJob, TaskOnly, NothingRuns, ledgerVars, Rest
<1> DEFINE e == CHOOSE e \in task[t].due : TRUE
           counts == e.held \/ jobs[e.id] = "live"
<1>2. Sweeps(t, task[t].due \ {e}, IF counts THEN task[t].found \cup {e.row.rev} ELSE task[t].found,
             IF counts THEN task[t].retired ELSE task[t].retired \cup {e})
  BY DEF AskJob
<1>3. e \in task[t].due
  OBVIOUS
<1> HIDE DEF e
<1>4. CASE counts
  BY <1>1, <1>2, <1>3, <1>4
<1>5. CASE ~counts
  BY <1>1, <1>2, <1>3, <1>5
<1> QED BY <1>4, <1>5

LEMMA RetireRowIs ==
    ASSUME Shapes, NEW t \in Tasks, RetireRow(t), task[t].retired # {},
           \A e \in task[t].retired : DOMAIN e.row = RowFields
    PROVE  /\ At(t, "retire") /\ UNCHANGED Rest
           /\ \E e \in task[t].retired :
                /\ \/ Accepts(e.id, e.row.ver) /\ Writes(e.id, [e.row EXCEPT !.rev = None], {})
                   \/ UNCHANGED configVars
                /\ Sweeps(t, {}, task[t].found, task[t].retired \ {e})
<1>1. StateShape /\ At(t, "retire") /\ UNCHANGED Rest
  BY ShapeParts DEF RetireRow, NothingRuns, ledgerVars, Rest
<1>2. PICK e \in task[t].retired :
        /\ \/ Accepts(e.id, e.row.ver) /\ WriteState(e.id, [e.row EXCEPT !.rev = None], {})
           \/ UNCHANGED configVars
        /\ Sweeps(t, {}, task[t].found, task[t].retired \ {e})
  BY DEF RetireRow
<1> DEFINE row == [e.row EXCEPT !.rev = None]
<1>3. DOMAIN row = RowFields
  OBVIOUS
<1> HIDE DEF row
<1>4. (Accepts(e.id, e.row.ver) /\ Writes(e.id, row, {})) \/ UNCHANGED configVars
  <2>1. (Accepts(e.id, e.row.ver) /\ WriteState(e.id, row, {})) \/ UNCHANGED configVars
    BY <1>2 DEF row
  <2> QED BY <2>1, <1>1, <1>3, WriteIs
<1> QED BY <1>1, <1>2, <1>4 DEF row

-----------------------------------------------------------------------------
(* What a step leaves alone stays true. *)

USE DEF Waiting, Asking, Choosing, Accepting

LEMMA HomeIs == ASSUME NEW t \in Tasks PROVE Home[t] \in Instances
BY SnapshotAssumption

LEMMA RevisionsAre == Revisions \subseteq Nat /\ None \notin Revisions
BY ConfigAssumption, FS_CardinalityType

LEMMA HeadRests ==
    ASSUME NEW t \in Tasks, NEW step \in {"done", "over", "idle", "find", "enqueue", "confirm"}, task'[t].step = step
    PROVE  HeadTask(t)'
BY DEF HeadTask

\* The head, the generations and the snapshots stay, and no other task starts to wait.
LEMMA HeadsQuiet ==
    ASSUME Heads, NEW t \in Tasks, Others(t), UNCHANGED <<head, current, snapshots>>, HeadTask(t)',
           task'[t].step \in Waiting => task[t].step \in Waiting
    PROVE  Heads'
<1>1. HeadGlobal'
  BY DEF Heads, HeadGlobal, There
<1>2. ASSUME NEW u \in Tasks, u # t PROVE HeadTask(u)'
  <2>1. task'[u] = task[u] /\ HeadTask(u)
    BY <1>2 DEF Others, Heads
  <2>2. ASSUME task[u].step \in Waiting, NEW v \in Tasks, Home[v] = Home[u], task'[v].step \in Waiting PROVE v = u
    BY <2>1, <2>2, HeadTask(u) DEF Others, HeadTask
  <2> QED BY <2>1, <2>2 DEF HeadTask, NothingNewerIsOld, There
<1> QED BY <1>1, <1>2 DEF Heads

LEMMA RowsQuiet ==
    ASSUME Rows, UNCHANGED <<snapshots, states>>
    PROVE  Rows'
BY DEF Rows, There

LEMMA RowsWritten ==
    ASSUME Rows, NEW k, NEW row, NEW during, Writes(k, row, during),
           row.rev # None => row.rev \in Revisions /\ There(row.rev)
    PROVE  Rows'
BY DEF Rows, There, Writes

RowStays(k) ==
    /\ states'[k].ver = states[k].ver /\ states'[k].rev = states[k].rev
    /\ states'[k].value = states[k].value /\ states'[k].of = states[k].of

\* A row keeps the tasks under way that were when it was written.
StaysYoung(k) == \A u \in Tasks : task[u].step = "accept" /\ u \in states[k].during => u \in states'[k].during \/ task'[u].step # "accept"

LEMMA PinRests ==
    ASSUME NEW t \in Tasks, NEW step \in {"done", "over", "idle"}, Rests(t, step)
    PROVE  PinTask(t)'
<1>1. None \notin Receipts
  BY ConfigAssumption
<1> QED BY <1>1 DEF PinTask, WillPin, Rests, Moves, Fields

\* A task that is not about to pin or to accept keeps to what it listed.
LEMMA PinPlain ==
    ASSUME Pins, NEW t \in Tasks, Others(t), task'[t].for = task[t].for,
           task'[t].step \notin {"pin", "accept", "unpin"},
           task'[t].step \in {"admission"} \cup Waiting => task'[t].then # "pin",
           task'[t].removable \subseteq task[t].removable,
           task'[t].removable # {} => task'[t].step \in {"poll", "queue", "ask", "retire", "rows"}
    PROVE  PinTask(t)'
BY DEF Pins, PinTask, WillPin, Others

\* No other task has the pin this one goes on with.
OwnPin(t) == task'[t].for \in Receipts => \A u \in Tasks : u # t => task[u].for # task'[t].for

LEMMA SamePin ==
    ASSUME Pins, NEW t \in Tasks, task'[t].for = task[t].for
    PROVE  OwnPin(t)
BY DEF Pins, PinTask, OwnPin

\* Pins are only touched by whoever writes them.
LEMMA PinsQuiet ==
    ASSUME Pins, NEW t \in Tasks, Others(t), UNCHANGED receipts,
           \A w \in Receipts : RowStays(w) /\ StaysYoung(w),
           PinTask(t)', OwnPin(t),
           task'[t].removable \subseteq task[t].removable,
           \A w \in Receipts : receipts[w].state = "live" => Respected(w, t)'
    PROVE  Pins'
<1>1. ASSUME NEW w \in Receipts, NotListed(w) PROVE NotListed(w)'
  BY <1>1 DEF NotListed, Others
<1>2. ASSUME NEW w \in Receipts PROVE PinOf(w)'
  <2>1. PinOf(w) /\ RowStays(w)
    BY DEF Pins
  <2>2. ASSUME receipts[w].state = "live", NEW c \in Tasks PROVE Respected(w, c)'
    <3>1. CASE c = t
      BY <2>2, <3>1
    <3>2. CASE c # t
      BY <2>1, <2>2, <3>2 DEF PinOf, Respected, Others
    <3> QED BY <3>1, <3>2
  <2> QED BY <1>1, <2>1, <2>2 DEF PinOf, RowStays
<1>3. ASSUME NEW u \in Tasks, u # t PROVE PinTask(u)'
  <2>1. task'[u] = task[u] /\ PinTask(u)
    BY <1>3 DEF Others, Pins
  <2>2. task[u].step = "accept" =>
          /\ task[u].for \in Receipts /\ NotListed(task[u].for)'
          /\ states'[task[u].for].ver = 1 /\ states'[task[u].for].value = "active"
          /\ states'[task[u].for].rev = task[u].rev /\ u \in states'[task[u].for].during
    BY <1>1, <2>1 DEF PinTask, RowStays, StaysYoung
  <2>3. task[u].for \in Receipts => \A v \in Tasks : task'[v].for = task[u].for => v = u
    BY <2>1 DEF PinTask, Others, OwnPin
  <2> QED BY <2>1, <2>2, <2>3 DEF PinTask, WillPin
<1> QED BY <1>2, <1>3 DEF Pins

-----------------------------------------------------------------------------
\* The row of a job is never taken back: its version only grows, and whoever knows
\* an older version finds a row that is confirmed or retired.
JobMoves(j) ==
    /\ states'[j].ver \in Nat
    /\ \/ RowStays(j)
       \/ states[j].ver = 0
       \/ states[j].ver < states'[j].ver /\ (states'[j].rev # None => states'[j].value = "enqueued")
    /\ jobs[j] # "none" => jobs'[j] # "none"
    /\ jobs[j] = "completed" => jobs'[j] = "completed"

LEMMA EntryKept ==
    ASSUME LedgerKept, \A j \in Jobs : JobMoves(j), NEW e, EntryOf(e)
    PROVE  EntryOf(e)'
BY DEF LedgerKept, JobOf, JobMoves, EntryOf, RowStays

LEMMA JobTaskKept ==
    ASSUME LedgerKept, \A j \in Jobs : JobMoves(j), NEW t \in Tasks, task'[t] = task[t]
    PROVE  JobTask(t)'
<1>1. JobTask(t) /\ \A j \in Jobs : JobOf(j)
  BY DEF LedgerKept
<1>2. task[t].step \in {"enqueue", "confirm"} =>
         /\ task[t].for \in Jobs /\ task[t].ver \in Nat \ {0} /\ task[t].ver <= states'[task[t].for].ver
         /\ task[t].ver = states'[task[t].for].ver => states'[task[t].for].rev # None
         /\ task[t].ver < states'[task[t].for].ver /\ states'[task[t].for].rev # None => states'[task[t].for].value = "enqueued"
  BY <1>1 DEF JobTask, JobOf, JobMoves, RowStays
<1>3. task[t].step = "confirm" => jobs'[task[t].for] # "none"
  BY <1>1 DEF JobTask, JobMoves
<1>4. task[t].step = "ask" => task[t].due # {} /\ \A e \in task[t].due : EntryOf(e)'
  BY <1>1, EntryKept DEF JobTask
<1>5. task[t].step \in {"ask", "retire"} =>
         \A e \in task[t].retired : EntryOf(e)' /\ (e.row.value = "enqueued" => jobs'[e.id] = "completed")
  <2>1. ASSUME task[t].step \in {"ask", "retire"}, NEW e \in task[t].retired
        PROVE  EntryOf(e)' /\ (e.row.value = "enqueued" => jobs'[e.id] = "completed")
    <3>1. EntryOf(e) /\ (e.row.value = "enqueued" => jobs[e.id] = "completed")
      BY <1>1, <2>1 DEF JobTask
    <3>2. e.id \in Jobs
      BY <3>1 DEF EntryOf
    <3> QED BY <3>1, <3>2, EntryKept DEF JobMoves
  <2> QED BY <2>1
<1> QED BY <1>1, <1>2, <1>3, <1>4, <1>5 DEF JobTask, WillReserve

LEMMA JobRests ==
    ASSUME NEW t \in Tasks, task'[t].step \notin {"find", "reserve", "enqueue", "confirm", "ask", "retire"},
           task'[t].step \in {"admission"} \cup Waiting => task'[t].then # "reserve"
    PROVE  JobTask(t)'
BY DEF JobTask, WillReserve

\* The jobs and their rows stay as they are.
JobsSame == UNCHANGED <<jobs, confirmed>> /\ \A j \in Jobs : RowStays(j)

LEMMA SameMoves ==
    ASSUME LedgerKept, JobsSame
    PROVE  \A j \in Jobs : JobMoves(j)
BY DEF LedgerKept, JobOf, JobsSame, JobMoves, RowStays

LEMMA JobsQuiet ==
    ASSUME LedgerKept, JobsSame, NEW t \in Tasks, Others(t), JobTask(t)'
    PROVE  LedgerKept'
<1>1. JobStates' /\ \A j \in Jobs : JobOf(j)'
  BY DEF LedgerKept, JobStates, JobOf, JobsSame, RowStays
<1>2. ASSUME NEW u \in Tasks PROVE JobTask(u)'
  BY SameMoves, JobTaskKept DEF Others
<1> QED BY <1>1, <1>2 DEF LedgerKept

-----------------------------------------------------------------------------
\* Steps that change nothing but what their task remembers.
LEMMA SameRows ==
    ASSUME UNCHANGED states
    PROVE  \A k : RowStays(k) /\ StaysYoung(k)
BY DEF RowStays, StaysYoung

LEMMA PlainKeeps ==
    ASSUME InductiveInvariant, NEW t \in Tasks, TaskOnly, TaskShape', Others(t),
           HeadTask(t)', task'[t].step \in Waiting => task[t].step \in Waiting,
           PinTask(t)', OwnPin(t),
           task'[t].removable \subseteq task[t].removable,
           \A w \in Receipts : receipts[w].state = "live" => Respected(w, t)',
           JobTask(t)'
    PROVE  InductiveInvariant'
<1>1. UNCHANGED <<head, snapshots, states, current, alive, receipts, jobs, confirmed>>
  BY DEF TaskOnly, configVars, Rest
<1>2. Shapes'
  BY <1>1, ShapeParts DEF InductiveInvariant, Shapes, TaskShape, There
<1>3. Heads'
  BY <1>1, HeadsQuiet DEF InductiveInvariant
<1>4. Rows'
  BY <1>1, RowsQuiet DEF InductiveInvariant
<1>5. Pins'
  BY <1>1, PinsQuiet, SameRows DEF InductiveInvariant
<1>6. LedgerKept'
  BY <1>1, JobsQuiet, SameRows DEF InductiveInvariant, JobsSame
<1> QED BY <1>2, <1>3, <1>4, <1>5, <1>6 DEF InductiveInvariant

LEMMA RestKeeps ==
    ASSUME InductiveInvariant, NEW t \in Tasks, TaskOnly, NEW step \in {"done", "over", "idle"}, Rests(t, step)
    PROVE  InductiveInvariant'
<1>1. TaskShape' /\ Others(t) /\ task'[t].step = step /\ task'[t].then = "idle" /\ task'[t].for = None /\ task'[t].removable = {}
  BY DEF Rests, Moves, Fields
<1>2. HeadTask(t)' /\ PinTask(t)' /\ JobTask(t)'
  BY <1>1, HeadRests, PinRests, JobRests
<1>3. \A w \in Receipts : Respected(w, t)'
  BY <1>1 DEF Respected
<1>4. None \notin Receipts
  BY ConfigAssumption
<1> QED BY <1>1, <1>2, <1>3, <1>4, PlainKeeps DEF OwnPin

LEMMA StartAcceptKeeps ==
    ASSUME InductiveInvariant, NEW t \in Tasks, NEW w \in Receipts, StartAccept(t, w), UNCHANGED ledgerVars
    PROVE  InductiveInvariant'
<1>1. TaskShape /\ StartWith(t, "pin", w) /\ receipts[w].state = "none" /\ \A u \in Tasks : task[u].for # w
  BY ShapeParts DEF StartAccept, InductiveInvariant
<1>2. Moves(t, "admission", "pin", None, w, 0, {}, {}, {}, {}) /\ TaskOnly
  BY <1>1, StartWithIs DEF TaskOnly, NothingElse, ledgerVars, Rest
<1>3. HeadTask(t)' /\ JobTask(t)' /\ OwnPin(t) /\ \A v \in Receipts : Respected(v, t)'
  BY <1>1, <1>2 DEF Moves, Fields, HeadTask, JobTask, WillReserve, OwnPin, Respected
<1>4. PinTask(t)'
  BY <1>1, <1>2 DEF Moves, Others, Fields, PinTask, WillPin, TaskOnly, Rest
<1> QED BY <1>2, <1>3, <1>4, PlainKeeps DEF Moves, Fields

LEMMA StartRefreshKeeps ==
    ASSUME InductiveInvariant, NEW t \in Tasks, StartRefresh(t), UNCHANGED ledgerVars
    PROVE  InductiveInvariant'
<1>1. Moves(t, "admission", "heartbeat", None, None, 0, {}, {}, {}, {}) /\ TaskOnly
  BY ShapeParts, StartWithIs DEF StartRefresh, InductiveInvariant, TaskOnly, NothingElse, ledgerVars, Rest
<1>2. None \notin Receipts
  BY ConfigAssumption
<1>3. HeadTask(t)' /\ JobTask(t)' /\ OwnPin(t) /\ PinTask(t)' /\ \A v \in Receipts : Respected(v, t)'
  BY <1>1, <1>2 DEF Moves, Fields, HeadTask, JobTask, WillReserve, OwnPin, Respected, PinTask, WillPin
<1> QED BY <1>1, <1>3, PlainKeeps DEF Moves, Fields

LEMMA StartEnqueueKeeps ==
    ASSUME InductiveInvariant, NEW t \in Tasks, NEW j \in Jobs, StartEnqueue(t, j), UNCHANGED ledgerVars
    PROVE  InductiveInvariant'
<1>1. Moves(t, "find", "idle", None, j, 0, {}, {}, {}, {}) /\ TaskOnly
  BY StartEnqueueIs DEF InductiveInvariant
<1>2. j \notin Receipts
  BY ConfigAssumption
<1>3. HeadTask(t)' /\ JobTask(t)' /\ OwnPin(t) /\ PinTask(t)' /\ \A v \in Receipts : Respected(v, t)'
  BY <1>1, <1>2 DEF Moves, Fields, HeadTask, JobTask, WillReserve, OwnPin, Respected, PinTask, WillPin
<1> QED BY <1>1, <1>3, PlainKeeps DEF Moves, Fields

\* The records of a task that does not collect, or has not listed anything yet.
LEMMA NothingListed ==
    ASSUME InductiveInvariant, NEW t \in Tasks, task[t].step \notin {"poll", "queue", "ask", "retire", "rows"}
    PROVE  task[t].removable = {}
BY DEF InductiveInvariant, Pins, PinTask

\* The end of an admission: the head was read, and the generation is at least that.
LEMMA AdmittedKeeps ==
    ASSUME InductiveInvariant, NEW t \in Tasks, task[t].step \in {"admission"} \cup Waiting,
           NEW rev, Moves(t, task[t].then, "idle", rev, task[t].for, task[t].ver,
                          task[t].removable, task[t].due, task[t].found, task[t].retired)
    PROVE  /\ rev \in Revisions /\ rev <= head' /\ current'[Home[t]] = rev /\ NothingNewerIsOld(t)' => HeadTask(t)'
           /\ UNCHANGED receipts => PinTask(t)'
           /\ JobTask(t)' /\ OwnPin(t) /\ \A w \in Receipts : Respected(w, t)'
           /\ task'[t].step \notin Waiting
<1>1. task[t].then \in {"pin", "heartbeat", "reserve"} /\ task[t].removable = {}
  <2>1. HeadTask(t)
    BY DEF InductiveInvariant, Heads
  <2> QED BY <2>1, NothingListed DEF HeadTask
<1>2. /\ task'[t].step = task[t].then /\ task'[t].then = "idle" /\ task'[t].rev = rev /\ task'[t].for = task[t].for
      /\ task'[t].removable = {} /\ Others(t)
  BY <1>1 DEF Moves, Fields
<1>3. rev \in Revisions /\ rev <= head' /\ current'[Home[t]] = rev /\ NothingNewerIsOld(t)' => HeadTask(t)'
  BY <1>1, <1>2, RevisionsAre DEF HeadTask
<1>4. PinTask(t) /\ JobTask(t) /\ Pins
  BY DEF InductiveInvariant, Pins, LedgerKept
<1>5. UNCHANGED receipts => PinTask(t)'
  BY <1>1, <1>2, <1>4 DEF PinTask, WillPin, Others
<1>6. JobTask(t)'
  BY <1>1, <1>2, <1>4 DEF JobTask, WillReserve
<1>7. OwnPin(t)
  BY <1>2, <1>4, SamePin
<1> QED BY <1>1, <1>2, <1>3, <1>5, <1>6, <1>7 DEF Respected

LEMMA ReadHeadKeeps ==
    ASSUME InductiveInvariant, NEW t \in Tasks, ReadHead(t), UNCHANGED ledgerVars
    PROVE  InductiveInvariant'
<1>1. Shapes /\ Heads /\ Pins /\ LedgerKept /\ HeadTask(t) /\ PinTask(t) /\ JobTask(t)
  BY DEF InductiveInvariant, Heads, Pins, LedgerKept
<1>2. TaskOnly /\ At(t, "admission")
  BY <1>1, ReadHeadIs
<1>3. task[t].step = "admission" /\ task[t].removable = {} /\ UNCHANGED <<head, current, snapshots, receipts>>
  BY <1>2, NothingListed DEF At, TaskOnly, configVars, Rest
<1>4. HeadGlobal /\ Home[t] \in Instances
  BY <1>1, HomeIs DEF Heads
<1>5. CASE /\ head = current[Home[t]]
           /\ Moves(t, task[t].then, "idle", head, task[t].for, task[t].ver,
                    task[t].removable, task[t].due, task[t].found, task[t].retired)
  <2>1. NothingNewerIsOld(t)'
    BY <1>3, <1>4, <1>5 DEF NothingNewerIsOld, HeadGlobal, There, Moves, Fields
  <2>2. head \in Revisions /\ head <= head' /\ current'[Home[t]] = head
    BY <1>3, <1>4, <1>5, RevisionsAre DEF HeadGlobal
  <2>3. HeadTask(t)' /\ PinTask(t)' /\ JobTask(t)' /\ OwnPin(t) /\ (\A w \in Receipts : Respected(w, t)') /\ task'[t].step \notin Waiting
    BY <1>3, <1>5, <2>1, <2>2, AdmittedKeeps
  <2> QED BY <1>2, <1>5, <2>3, PlainKeeps DEF Moves, Fields
<1>6. CASE Rests(t, "done")
  BY <1>2, <1>6, RestKeeps
<1>7. CASE /\ head # current[Home[t]] /\ ~(head < current[Home[t]]) /\ Refreshes(t)
           /\ Moves(t, "snapshot", task[t].then, head, task[t].for, task[t].ver,
                    task[t].removable, task[t].due, task[t].found, task[t].retired)
  <2>1. /\ task'[t].step = "snapshot" /\ task'[t].then = task[t].then /\ task'[t].rev = head /\ task'[t].for = task[t].for
        /\ task'[t].removable = {} /\ Others(t) /\ TaskShape'
    BY <1>3, <1>7 DEF Moves, Fields
  <2>2. current[Home[t]] < head /\ head \in Revisions /\ head <= head
    BY <1>4, <1>7, RevisionsAre DEF HeadGlobal
  <2>3. NothingNewerIsOld(t)'
    BY <1>3, <1>4, <2>1 DEF NothingNewerIsOld, HeadGlobal, There
  <2>4. \A u \in Tasks : Home[u] = Home[t] /\ task'[u].step \in Waiting => u = t
    BY <1>7, <2>1 DEF Refreshes, Others
  <2>5. HeadTask(t)'
    BY <1>1, <1>3, <2>1, <2>2, <2>3, <2>4 DEF HeadTask
  <2>6. Heads'
    <3>1. HeadGlobal'
      BY <1>3, <1>4 DEF HeadGlobal, There
    <3>2. ASSUME NEW u \in Tasks, u # t PROVE HeadTask(u)'
      <4>1. task'[u] = task[u] /\ HeadTask(u)
        BY <1>1, <2>1, <3>2 DEF Others, Heads
      <4>2. task[u].step \in Waiting => Home[u] # Home[t]
        BY <1>7 DEF Refreshes
      <4>3. ASSUME task[u].step \in Waiting, NEW v \in Tasks, Home[v] = Home[u], task'[v].step \in Waiting PROVE v = u
        BY <2>1, <4>1, <4>2, <4>3 DEF Others, HeadTask
      <4> QED BY <1>3, <4>1, <4>3 DEF HeadTask, NothingNewerIsOld, There
    <3> QED BY <2>5, <3>1, <3>2 DEF Heads
  <2>7. PinTask(t)'
    BY <1>1, <1>3, <2>1 DEF PinTask, WillPin, Others
  <2>8. JobTask(t)'
    BY <1>1, <1>3, <2>1 DEF JobTask, WillReserve
  <2>9. OwnPin(t) /\ \A w \in Receipts : Respected(w, t)'
    BY <1>1, <2>1, SamePin DEF Respected
  <2>10. Shapes' /\ Rows'
    BY <1>1, <1>2, <2>1, ShapeParts, RowsQuiet DEF Shapes, TaskShape, There, TaskOnly, configVars, Rest, InductiveInvariant
  <2>11. Pins'
    BY <1>1, <1>2, <2>1, <2>7, <2>9, PinsQuiet, SameRows DEF TaskOnly, configVars, Rest
  <2>12. LedgerKept'
    BY <1>1, <1>2, <2>1, <2>8, JobsQuiet, SameRows DEF TaskOnly, configVars, Rest, JobsSame
  <2> QED BY <2>6, <2>10, <2>11, <2>12 DEF InductiveInvariant
<1> QED BY <1>1, <1>5, <1>6, <1>7, ReadHeadIs

LEMMA AdoptFailsKeeps ==
    ASSUME InductiveInvariant, NEW t \in Tasks, AdoptFails(t), UNCHANGED ledgerVars
    PROVE  InductiveInvariant'
BY AdoptFailsIs, RestKeeps DEF InductiveInvariant

LEMMA FindJobKeeps ==
    ASSUME InductiveInvariant, NEW t \in Tasks, FindJob(t)
    PROVE  InductiveInvariant'
<1>1. Pins /\ JobTask(t) /\ At(t, "find") /\ TaskOnly
  BY FindJobIs DEF InductiveInvariant, LedgerKept
<1>2. CASE Rests(t, "done")
  BY <1>1, <1>2, RestKeeps
<1>3. CASE Moves(t, "admission", "reserve", task[t].rev, task[t].for, task[t].ver,
                 task[t].removable, task[t].due, task[t].found, task[t].retired)
  <2>1. task[t].removable = {}
    BY <1>1, NothingListed DEF At
  <2>2. HeadTask(t)' /\ JobTask(t)' /\ PinTask(t)' /\ OwnPin(t) /\ \A v \in Receipts : Respected(v, t)'
    <3>1. OwnPin(t)
      BY <1>1, <1>3, SamePin DEF Moves, Fields
    <3>2. HeadTask(t)'
      BY <1>3 DEF Moves, Fields, HeadTask
    <3>3. JobTask(t)'
      BY <1>1, <1>3 DEF At, Moves, Fields, JobTask, WillReserve
    <3>4. PinTask(t)'
      BY <1>1, <1>3, <2>1, PinPlain DEF Moves, Fields
    <3> QED BY <1>3, <2>1, <3>1, <3>2, <3>3, <3>4 DEF Respected, Moves, Fields
  <2> QED BY <1>1, <1>3, <2>1, <2>2, PlainKeeps DEF Moves, Fields
<1> QED BY <1>2, <1>3, FindJobIs DEF InductiveInvariant

\* A pin that is being used is not old, and no row of it is listed.
LEMMA ListStatesKeeps ==
    ASSUME InductiveInvariant, NEW t \in Tasks, ListStates(t), UNCHANGED ledgerVars
    PROVE  InductiveInvariant'
<1>1. Shapes /\ Heads /\ Rows /\ Pins /\ LedgerKept /\ HeadTask(t) /\ PinTask(t) /\ At(t, "list") /\ TaskOnly
  BY ListStatesIs DEF InductiveInvariant, Heads, Pins
<1>2. UNCHANGED <<head, snapshots, states, current, alive, receipts, jobs, confirmed>>
  BY <1>1 DEF TaskOnly, configVars, Rest
<1>3. PICK rows :
        /\ Moves(t, "poll", task[t].then, task[t].rev, task[t].for, task[t].ver,
                 rows, task[t].due, task[t].found, task[t].retired)
        /\ \A row \in rows : \E k : MayGo(k) /\ row = <<k, states[k].ver, states[k].rev>>
  BY <1>1, ListStatesIs
<1>4. TaskShape' /\ Others(t) /\ task'[t].step = "poll" /\ task'[t].rev = task[t].rev /\ task'[t].for = task[t].for
      /\ task'[t].removable = rows
  BY <1>3 DEF Moves, Fields
<1>5. \A row \in rows : row[1] \in Receipts \cup Instances /\ MayGo(row[1]) /\ row[3] = states[row[1]].rev
  BY <1>3 DEF MayGo
<1>6. HeadTask(t)'
  BY <1>1, <1>2, <1>4 DEF At, HeadTask, NothingNewerIsOld, There
<1>7. Heads'
  BY <1>1, <1>2, <1>4, <1>6, HeadsQuiet
<1>8. LedgerKept'
  BY <1>1, <1>2, <1>4, JobRests, JobsQuiet, SameRows DEF JobsSame
<1>9. Shapes' /\ Rows'
  BY <1>1, <1>2, <1>4, ShapeParts, RowsQuiet DEF Shapes, TaskShape, There
<1>10. Receipts \cap Instances = {}
  BY ConfigAssumption
<1>11. ASSUME NEW w \in Receipts, NotListed(w), states[w].value = "none" \/ (states[w].value = "active" /\ \E u \in Tasks : u \in states[w].during)
       PROVE  NotListed(w)'
  <2>1. ~MayGo(w)
    BY <1>10, <1>11 DEF MayGo, Abandoned, Aged
  <2> QED BY <1>4, <1>5, <1>11, <2>1 DEF NotListed, Others
<1>12. ASSUME NEW w \in Receipts PROVE PinOf(w)'
  <2>1. PinOf(w)
    BY <1>1 DEF Pins
  <2>2. ASSUME receipts[w].state = "live", NEW c \in Tasks PROVE Respected(w, c)'
    <3>1. CASE c = t
      BY <1>2, <1>4, <1>5, <2>1, <2>2, <3>1 DEF PinOf, Respected
    <3>2. CASE c # t
      BY <1>2, <1>4, <2>1, <2>2, <3>2 DEF PinOf, Respected, Others
    <3> QED BY <3>1, <3>2
  <2> QED BY <1>2, <1>11, <2>1, <2>2 DEF PinOf
<1>13. ASSUME NEW u \in Tasks PROVE PinTask(u)'
  <2>1. PinTask(u) /\ task'[u].for = task[u].for
    BY <1>1, <1>4 DEF Pins, Others
  <2>2. task[u].for \in Receipts => \A v \in Tasks : task'[v].for = task'[u].for => v = u
    BY <1>4, <2>1 DEF PinTask, Others
  <2>3. CASE u = t
    BY <1>4, <1>5, <2>1, <2>2, <2>3 DEF PinTask, WillPin
  <2>4. CASE u # t
    <3>1. task'[u] = task[u]
      BY <1>4, <2>4 DEF Others
    <3>2. task[u].step = "accept" => task[u].for \in Receipts /\ NotListed(task[u].for)'
      BY <1>11, <2>1 DEF PinTask
    <3> QED BY <1>2, <2>1, <2>2, <3>1, <3>2 DEF PinTask, WillPin
  <2> QED BY <2>3, <2>4
<1>14. Pins'
  BY <1>12, <1>13 DEF Pins
<1> QED BY <1>7, <1>8, <1>9, <1>14 DEF InductiveInvariant

LEMMA PollReceiptsKeeps ==
    ASSUME InductiveInvariant, NEW t \in Tasks, PollReceipts(t), UNCHANGED ledgerVars
    PROVE  InductiveInvariant'
<1>1. Pins /\ HeadTask(t) /\ PinTask(t) /\ JobTask(t) /\ Shapes
  BY DEF InductiveInvariant, Heads, Pins, LedgerKept
<1> DEFINE all == {receipts[w].rev : w \in {v \in Receipts : receipts[v].state \in Pending}}
<1>2. /\ At(t, "poll") /\ TaskOnly
      /\ Moves(t, "queue", task[t].then, task[t].rev, task[t].for, task[t].ver, task[t].removable, task[t].due, all, task[t].retired)
  BY <1>1, PollReceiptsIs
<1>3. \A w \in Receipts : receipts[w].state = "live" => receipts[w].rev \in all
  BY DEF Pending
<1> HIDE DEF all
<1>4. UNCHANGED <<head, snapshots, current, receipts>>
  BY <1>2 DEF TaskOnly, configVars, Rest
<1>5. HeadTask(t)'
  BY <1>1, <1>2, <1>4 DEF At, HeadTask, NothingNewerIsOld, There, Moves, Fields
<1>6. PinTask(t)' /\ OwnPin(t)
  BY <1>1, <1>2, PinPlain, SamePin DEF Moves, Fields
<1>7. JobTask(t)'
  BY <1>2, JobRests DEF Moves, Fields
<1>8. ASSUME NEW w \in Receipts, receipts[w].state = "live" PROVE Respected(w, t)'
  <2>1. Respected(w, t)
    BY <1>1, <1>8 DEF Pins, PinOf
  <2> QED BY <1>2, <1>3, <1>4, <1>8, <2>1 DEF Respected, Moves, Fields
<1> QED BY <1>2, <1>5, <1>6, <1>7, <1>8, PlainKeeps DEF Moves, Fields

\* The snapshots of a collection are older than the newest reference it knows.
LEMMA ListCandidatesKeeps ==
    ASSUME InductiveInvariant, NEW t \in Tasks, ListCandidates(t), UNCHANGED ledgerVars
    PROVE  InductiveInvariant'
<1>1. Shapes /\ HeadGlobal /\ Pins /\ HeadTask(t) /\ PinTask(t)
  BY DEF InductiveInvariant, Heads, Pins
<1>2. /\ At(t, "candidates") /\ TaskOnly
      /\ Moves(t, "delete", task[t].then, task[t].rev, task[t].for, task[t].ver,
               task[t].removable, Unreferenced \ task[t].found, {}, task[t].retired)
  BY <1>1, ListCandidatesIs
<1>3. task[t].step = "candidates" /\ task[t].removable = {} /\ UNCHANGED <<head, snapshots, current, receipts>>
  BY <1>2, NothingListed DEF At, TaskOnly, configVars, Rest
<1>4. PICK x \in task[t].found : x \in Revisions /\ task[t].rev <= x /\ x <= head
  BY <1>1, <1>3 DEF HeadTask
<1>5. ASSUME NEW r \in Unreferenced \ task[t].found PROVE r \in Revisions /\ r < head
  <2>1. r \in Revisions /\ There(r) /\ t \notin snapshots[r].during
    BY DEF Unreferenced, Aged
  <2>2. r <= task[t].rev /\ task[t].rev \in Revisions
    BY <1>1, <1>3, <2>1 DEF HeadTask, NothingNewerIsOld
  <2> QED BY <1>1, <1>4, <1>5, <2>1, <2>2, RevisionsAre DEF HeadGlobal
<1>6. HeadTask(t)'
  BY <1>2, <1>3, <1>5 DEF HeadTask, Moves, Fields
<1>7. PinTask(t)' /\ OwnPin(t)
  BY <1>1, <1>2, <1>3, PinPlain, SamePin DEF Moves, Fields
<1>8. JobTask(t)' /\ \A w \in Receipts : Respected(w, t)'
  BY <1>2, <1>3, JobRests DEF Moves, Fields, Respected
<1> QED BY <1>2, <1>3, <1>6, <1>7, <1>8, PlainKeeps DEF Moves, Fields

Retirable(e) == EntryOf(e) /\ (e.row.value = "enqueued" => jobs[e.id] = "completed")

\* A step of the collection through the ledger adds references, the newest last.
LEMMA SweepsCalm ==
    ASSUME InductiveInvariant, NEW t \in Tasks, task[t].step \in {"queue", "ask", "retire"},
           NEW due, NEW found, NEW retired, Sweeps(t, due, found, retired), task[t].found \subseteq found,
           UNCHANGED <<head, snapshots, current, receipts>>,
           \A e \in due : EntryOf(e)', \A e \in retired : Retirable(e)'
    PROVE  /\ TaskShape' /\ Others(t) /\ HeadTask(t)' /\ PinTask(t)' /\ JobTask(t)' /\ OwnPin(t)
           /\ task'[t].removable = task[t].removable /\ task'[t].step \notin Waiting
           /\ \A w \in Receipts : receipts[w].state = "live" => Respected(w, t)'
<1>1. TaskShape /\ HeadGlobal /\ Pins /\ HeadTask(t) /\ PinTask(t) /\ Home[t] \in Instances
  BY ShapeParts, HomeIs DEF InductiveInvariant, Heads, Pins
<1>2. PICK step, all :
        /\ Moves(t, step, task[t].then, task[t].rev, task[t].for, task[t].ver, task[t].removable, due, all, retired)
        /\ \/ step = "ask" /\ due # {} /\ all = found
           \/ step = "retire" /\ due = {} /\ retired # {} /\ all = found
           \/ step = "rows" /\ due = {} /\ retired = {} /\ all = found \cup {current[Home[t]]}
  BY <1>1, SweepsIs
<1>3. /\ TaskShape' /\ Others(t) /\ task'[t].step = step /\ step \in {"ask", "retire", "rows"}
      /\ task'[t].rev = task[t].rev /\ task'[t].for = task[t].for /\ task'[t].removable = task[t].removable
      /\ task'[t].due = due /\ task'[t].found = all /\ task'[t].retired = retired /\ found \subseteq all
  BY <1>2 DEF Moves, Fields
<1>4. HeadTask(t)'
  <2>1. task[t].rev \in Revisions /\ task[t].rev <= head /\ task[t].rev <= current[Home[t]] /\ NothingNewerIsOld(t)
    BY <1>1 DEF HeadTask
  <2>2. NothingNewerIsOld(t)'
    BY <1>3, <2>1 DEF NothingNewerIsOld, There
  <2>3. step = "rows" => \E x \in all : x \in Revisions /\ task[t].rev <= x /\ x <= head
    BY <1>1, <1>2, <2>1 DEF HeadGlobal
  <2> QED BY <1>3, <2>1, <2>2, <2>3 DEF HeadTask
<1>5. PinTask(t)' /\ OwnPin(t)
  BY <1>1, <1>3, PinPlain, SamePin
<1>6. JobTask(t)'
  BY <1>2, <1>3 DEF JobTask, WillReserve, Retirable
<1>7. ASSUME NEW w \in Receipts, receipts[w].state = "live" PROVE Respected(w, t)'
  <2>1. Respected(w, t)
    BY <1>1, <1>7 DEF Pins, PinOf
  <2> QED BY <1>3, <2>1 DEF Respected
<1> QED BY <1>3, <1>4, <1>5, <1>6, <1>7

LEMMA ListLedgerKeeps ==
    ASSUME InductiveInvariant, NEW t \in Tasks, ListLedger(t)
    PROVE  InductiveInvariant'
<1>1. At(t, "queue") /\ TaskOnly /\ Shapes /\ LedgerKept
  BY ListLedgerIs DEF InductiveInvariant
<1>2. PICK rows : /\ Sweeps(t, rows, task[t].found, {})
                  /\ \A e \in rows : e.id \in Jobs /\ e.row = states[e.id] /\ states[e.id].rev # None
  BY <1>1, ListLedgerIs
<1>3. ASSUME NEW e \in rows PROVE EntryOf(e)'
  <2>1. e.id \in Jobs /\ e.row = states[e.id] /\ states[e.id].rev # None /\ JobOf(e.id) /\ DOMAIN states[e.id] = RowFields
    BY <1>1, <1>2 DEF LedgerKept, Shapes, Keys
  <2>2. EntryOf(e)
    BY <2>1 DEF EntryOf, JobOf
  <2> QED BY <1>1, <2>2 DEF EntryOf, TaskOnly, configVars, Rest
<1>4. UNCHANGED <<head, snapshots, current, receipts>>
  BY <1>1 DEF TaskOnly, configVars, Rest
<1>5. /\ TaskShape' /\ Others(t) /\ HeadTask(t)' /\ PinTask(t)' /\ JobTask(t)' /\ OwnPin(t)
      /\ task'[t].removable = task[t].removable /\ task'[t].step \notin Waiting
      /\ \A w \in Receipts : receipts[w].state = "live" => Respected(w, t)'
  BY <1>1, <1>2, <1>3, <1>4, SweepsCalm DEF At
<1> QED BY <1>1, <1>5, PlainKeeps

LEMMA AskJobKeeps ==
    ASSUME InductiveInvariant, NEW t \in Tasks, AskJob(t)
    PROVE  InductiveInvariant'
<1>1. At(t, "ask") /\ JobTask(t) /\ Shapes /\ JobStates
  BY DEF InductiveInvariant, AskJob, LedgerKept
<1>2. /\ task[t].due # {} /\ (\A e \in task[t].due : EntryOf(e)) /\ \A e \in task[t].retired : Retirable(e)
  BY <1>1 DEF At, JobTask, Retirable
<1>3. TaskOnly
  BY <1>1, <1>2, AskJobIs
<1>4. PICK e \in task[t].due :
        \/ Sweeps(t, task[t].due \ {e}, task[t].found \cup {e.row.rev}, task[t].retired)
        \/ jobs[e.id] # "live" /\ Sweeps(t, task[t].due \ {e}, task[t].found, task[t].retired \cup {e})
  BY <1>1, <1>2, AskJobIs
<1>5. UNCHANGED <<head, snapshots, states, current, receipts, jobs>>
  BY <1>3 DEF TaskOnly, configVars, Rest
<1>6. \A x \in task[t].due \ {e} : EntryOf(x)'
  BY <1>2, <1>5 DEF EntryOf
<1>7. \A x \in task[t].retired : Retirable(x)'
  BY <1>2, <1>5 DEF Retirable, EntryOf
<1>8. jobs[e.id] # "live" => Retirable(e)'
  <2>1. EntryOf(e) /\ e.id \in Jobs
    BY <1>2, <1>4 DEF EntryOf
  <2> QED BY <1>1, <1>5, <2>1 DEF Retirable, EntryOf, JobStates
<1>9. /\ TaskShape' /\ Others(t) /\ HeadTask(t)' /\ PinTask(t)' /\ JobTask(t)' /\ OwnPin(t)
      /\ task'[t].removable = task[t].removable /\ task'[t].step \notin Waiting
      /\ \A w \in Receipts : receipts[w].state = "live" => Respected(w, t)'
  <2>1. CASE Sweeps(t, task[t].due \ {e}, task[t].found \cup {e.row.rev}, task[t].retired)
    BY <1>1, <1>5, <1>6, <1>7, <2>1, SweepsCalm DEF At
  <2>2. CASE jobs[e.id] # "live" /\ Sweeps(t, task[t].due \ {e}, task[t].found, task[t].retired \cup {e})
    <3>1. \A x \in task[t].retired \cup {e} : Retirable(x)'
      BY <1>7, <1>8, <2>2
    <3> QED BY <1>1, <1>5, <1>6, <2>2, <3>1, SweepsCalm DEF At
  <2> QED BY <1>4, <2>1, <2>2
<1> QED BY <1>3, <1>9, PlainKeeps

-----------------------------------------------------------------------------
(* Steps that write a row. *)

\* A write to a row leaves the others alone.
LEMMA WritesApart ==
    ASSUME NEW k, NEW row, NEW during, Writes(k, row, during)
    PROVE  \A other \in Keys : other # k => RowStays(other) /\ StaysYoung(other)
BY DEF Writes, RowStays, StaysYoung

\* A task that rests keeps its pin while nobody touches the row or lists it.
LEMMA PinBystander ==
    ASSUME NEW u \in Tasks, PinTask(u), task'[u] = task[u],
           task[u].for \in Receipts => receipts'[task[u].for] = receipts[task[u].for],
           task[u].for \in Receipts => \A v \in Tasks : task'[v].for = task[u].for => v = u,
           task[u].step = "accept" =>
             /\ task[u].for \in Receipts /\ RowStays(task[u].for) /\ StaysYoung(task[u].for) /\ NotListed(task[u].for)'
    PROVE  PinTask(u)'
<1>1. task[u].step = "accept" =>
        /\ states'[task[u].for].ver = 1 /\ states'[task[u].for].value = "active"
        /\ states'[task[u].for].rev = task[u].rev /\ u \in states'[task[u].for].during
  BY DEF PinTask, RowStays, StaysYoung
<1> QED BY <1>1 DEF PinTask, WillPin

LEMMA WriteShapes ==
    ASSUME Shapes, TaskShape', StateShape', UNCHANGED <<snapshots, current, receipts, jobs, confirmed>>
    PROVE  Shapes'
BY DEF Shapes, TaskShape, StateShape, There

\* The row of a job is retired: nobody who may still run depends on it.
LEMMA RetireRowKeeps ==
    ASSUME InductiveInvariant, NEW t \in Tasks, RetireRow(t)
    PROVE  InductiveInvariant'
<1>1. At(t, "retire") /\ JobTask(t) /\ Shapes /\ Heads /\ Rows /\ Pins /\ LedgerKept
  BY DEF InductiveInvariant, RetireRow, LedgerKept
<1>2. task[t].retired # {} /\ \A e \in task[t].retired : Retirable(e)
  BY <1>1 DEF At, JobTask, Retirable
<1>3. \A e \in task[t].retired : DOMAIN e.row = RowFields
  BY <1>2 DEF Retirable, EntryOf
<1>4. UNCHANGED Rest
  BY <1>1, <1>2, <1>3, RetireRowIs
<1>5. PICK e \in task[t].retired :
        /\ \/ Accepts(e.id, e.row.ver) /\ Writes(e.id, [e.row EXCEPT !.rev = None], {})
           \/ UNCHANGED configVars
        /\ Sweeps(t, {}, task[t].found, task[t].retired \ {e})
  BY <1>1, <1>2, <1>3, RetireRowIs
<1> DEFINE row == [e.row EXCEPT !.rev = None]
<1>6. e.id \in Jobs /\ EntryOf(e) /\ Retirable(e) /\ e.row.ver \in Nat \ {0}
  BY <1>2, <1>5 DEF Retirable, EntryOf
<1>7. row.rev = None /\ row.ver = e.row.ver /\ row.value = e.row.value
  BY <1>6 DEF EntryOf, RowFields
<1>8. (Accepts(e.id, e.row.ver) /\ Writes(e.id, row, {})) \/ UNCHANGED configVars
  BY <1>5
<1> HIDE DEF row
<1>9. UNCHANGED <<head, snapshots, current, receipts, jobs, confirmed>>
  BY <1>4, <1>8 DEF Writes, configVars, Rest
<1>10. JobOf(e.id) /\ e.id \in Keys /\ e.id \notin Receipts
  BY <1>1, <1>6, ConfigAssumption DEF LedgerKept, Keys
<1>11. \A j \in Jobs : JobMoves(j) /\ JobOf(j)'
  <2>1. CASE UNCHANGED configVars
    BY <1>1, <1>9, <2>1 DEF configVars, LedgerKept, JobOf, JobMoves, RowStays
  <2>2. CASE Accepts(e.id, e.row.ver) /\ Writes(e.id, row, {})
    <3>1. ASSUME NEW j \in Jobs, j # e.id PROVE JobMoves(j) /\ JobOf(j)'
      BY <1>1, <1>9, <2>2, <3>1, WritesApart DEF LedgerKept, JobOf, JobMoves, RowStays, Keys
    <3>2. /\ states'[e.id].ver = states[e.id].ver + 1 /\ states'[e.id].rev = None
          /\ states'[e.id].value = states[e.id].value /\ states[e.id].ver \in Nat
      BY <1>6, <1>7, <1>10, <2>2 DEF Writes, Accepts, EntryOf, JobOf
    <3>3. states[e.id].value = "enqueued" => jobs[e.id] = "completed"
      BY <1>6, <2>2 DEF Accepts, Retirable, EntryOf
    <3>4. JobMoves(e.id) /\ JobOf(e.id)'
      BY <1>9, <1>10, <3>2, <3>3 DEF JobOf, JobMoves
    <3> QED BY <3>1, <3>4
  <2> QED BY <1>8, <2>1, <2>2
<1>12. \A w \in Receipts : RowStays(w) /\ StaysYoung(w)
  BY <1>8, <1>10, WritesApart, SameRows DEF Keys, configVars
<1>13. \A x \in task[t].retired \ {e} : Retirable(x)'
  BY <1>1, <1>2, <1>9, <1>11, EntryKept DEF Retirable
<1>14. /\ TaskShape' /\ Others(t) /\ HeadTask(t)' /\ PinTask(t)' /\ JobTask(t)' /\ OwnPin(t)
       /\ task'[t].removable = task[t].removable /\ task'[t].step \notin Waiting
       /\ \A w \in Receipts : receipts[w].state = "live" => Respected(w, t)'
  BY <1>1, <1>5, <1>9, <1>13, SweepsCalm DEF At
<1>15. StateShape'
  BY <1>1, <1>8, ShapeParts DEF Writes, configVars, StateShape
<1>16. Shapes'
  BY <1>1, <1>9, <1>14, <1>15, WriteShapes
<1>17. Heads' /\ Pins'
  BY <1>1, <1>9, <1>12, <1>14, HeadsQuiet, PinsQuiet
<1>18. Rows'
  BY <1>1, <1>7, <1>8, RowsQuiet, RowsWritten DEF configVars
<1>19. LedgerKept'
  <2>1. ASSUME NEW u \in Tasks PROVE JobTask(u)'
    BY <1>1, <1>11, <1>14, JobTaskKept DEF Others
  <2> QED BY <1>1, <1>9, <1>11, <2>1 DEF LedgerKept, JobStates
<1> QED BY <1>16, <1>17, <1>18, <1>19 DEF InductiveInvariant

\* A pin is written: its name was not in use, and no collection has listed it.
LEMMA BeginPinKeeps ==
    ASSUME InductiveInvariant, NEW t \in Tasks, BeginPin(t), UNCHANGED ledgerVars
    PROVE  InductiveInvariant'
<1>1. Shapes /\ Heads /\ Rows /\ Pins /\ LedgerKept /\ HeadTask(t) /\ PinTask(t)
  BY DEF InductiveInvariant, Heads, Pins
<1>2. task[t].step = "pin" /\ task[t].removable = {} /\ UNCHANGED <<current, alive, jobs, confirmed>>
  BY <1>1, BeginPinIs, NothingListed DEF At
<1>3. CASE Rests(t, "done") /\ TaskOnly
  BY <1>3, RestKeeps
<1> DEFINE w == task[t].for
           row == [NoRow EXCEPT !.rev = task[t].rev, !.value = "active", !.by = Home[t]]
<1>4. CASE /\ Accepts(task[t].for, 0) /\ MayRefer(task[t].rev) /\ Writes(w, row, UnderWay)
           /\ receipts' = [receipts EXCEPT ![w].state = "tried"]
           /\ Advances(t, "accept")
  <2>1. w \in Receipts /\ receipts[w].state = "none" /\ w \in Keys /\ w \notin Jobs
    BY <1>1, <1>2, ConfigAssumption DEF PinTask, WillPin, Keys
  <2>2. row.ver = 0 /\ row.rev = task[t].rev /\ row.value = "active"
    BY DEF NoRow
  <2>3. task[t].rev \in Revisions /\ task[t].rev <= head /\ There(task[t].rev)
    BY <1>1, <1>2, <1>4, RevisionsAre DEF HeadTask, MayRefer
  <2> HIDE DEF row
  <2>4. /\ UNCHANGED <<head, snapshots>> /\ StateShape'
        /\ \A k \in Keys : k # w => RowStays(k) /\ StaysYoung(k) /\ states'[k] = states[k]
        /\ states'[w].ver = 1 /\ states'[w].rev = task[t].rev /\ states'[w].value = "active" /\ states'[w].during = UnderWay
    BY <1>4, <2>1, <2>2, WritesApart DEF Writes
  <2>5. /\ TaskShape' /\ Others(t) /\ task'[t].step = "accept" /\ task'[t].then = task[t].then /\ task'[t].rev = task[t].rev
        /\ task'[t].for = w /\ task'[t].removable = {}
    BY <1>2, <1>4 DEF Advances, Moves, Fields
  <2>6. /\ receipts'[w].state = "tried" /\ DOMAIN receipts' = Receipts
        /\ \A v \in Receipts : DOMAIN receipts'[v] = {"state", "rev"} /\ (v # w => receipts'[v] = receipts[v])
    BY <1>1, <1>4, <2>1 DEF Shapes
  <2>7. Shapes'
    BY <1>1, <1>2, <2>4, <2>5, <2>6 DEF Shapes, TaskShape, StateShape, There
  <2>8. Heads'
    <3>1. HeadTask(t)'
      BY <2>3, <2>4, <2>5 DEF HeadTask
    <3> QED BY <1>1, <1>2, <2>4, <2>5, <3>1, HeadsQuiet
  <2>9. Rows'
    BY <1>1, <1>4, <2>2, <2>3, RowsWritten
  <2>10. LedgerKept'
    <3>1. JobTask(t)'
      BY <2>5, JobRests
    <3>2. JobsSame
      BY <1>2, <2>1, <2>4 DEF JobsSame, Keys
    <3> QED BY <1>1, <2>5, <3>1, <3>2, JobsQuiet
  <2>11. \A v \in Receipts : NotListed(v) => NotListed(v)'
    BY <2>5 DEF NotListed, Others
  <2>12. PinOf(w) /\ NotListed(w)
    BY <1>1, <2>1 DEF Pins, PinOf
  <2>13. ASSUME NEW v \in Receipts PROVE PinOf(v)'
    <3>1. CASE v = w
      BY <2>6, <3>1 DEF PinOf
    <3>2. CASE v # w
      <4>1. PinOf(v) /\ RowStays(v) /\ receipts'[v] = receipts[v]
        BY <1>1, <2>4, <2>6, <3>2 DEF Pins, Keys
      <4>2. ASSUME receipts[v].state = "live", NEW c \in Tasks PROVE Respected(v, c)'
        <5>1. CASE c = t
          BY <2>5, <5>1 DEF Respected
        <5>2. CASE c # t
          BY <2>5, <4>1, <4>2, <5>2 DEF PinOf, Respected, Others
        <5> QED BY <5>1, <5>2
      <4> QED BY <2>11, <4>1, <4>2 DEF PinOf, RowStays
    <3> QED BY <3>1, <3>2
  <2>14. ASSUME NEW u \in Tasks PROVE PinTask(u)'
    <3>1. PinTask(u)
      BY <1>1 DEF Pins
    <3>2. CASE u = t
      <4>1. t \in UnderWay
        BY <1>2 DEF UnderWay
      <4> QED BY <2>1, <2>4, <2>5, <2>6, <2>11, <2>12, <3>1, <3>2, <4>1 DEF PinTask, WillPin, Others
    <3>3. CASE u # t
      <4>1. task'[u] = task[u] /\ task[u].for # w
        BY <1>1, <2>1, <2>5, <3>3 DEF Others, PinTask
      <4>2. task[u].for \in Receipts => RowStays(task[u].for) /\ StaysYoung(task[u].for) /\ receipts'[task[u].for] = receipts[task[u].for]
        BY <2>4, <2>6, <4>1 DEF Keys
      <4>3. task[u].for \in Receipts => \A x \in Tasks : task'[x].for = task[u].for => x = u
        BY <2>5, <3>1, <4>1 DEF Others, PinTask
      <4>4. task[u].step = "accept" => u \in states'[task[u].for].during /\ NotListed(task[u].for)'
        BY <2>11, <3>1, <4>1, <4>2 DEF PinTask, StaysYoung
      <4> QED BY <3>1, <4>1, <4>2, <4>3, <4>4 DEF PinTask, WillPin, RowStays
    <3> QED BY <3>2, <3>3
  <2>15. Pins'
    BY <2>13, <2>14 DEF Pins
  <2> QED BY <2>7, <2>8, <2>9, <2>10, <2>15 DEF InductiveInvariant
<1> QED BY <1>1, <1>3, <1>4, BeginPinIs

\* The work is live: its pin refers to the snapshot, and nobody has listed the pin.
LEMMA AcceptReceiptKeeps ==
    ASSUME InductiveInvariant, NEW t \in Tasks, AcceptReceipt(t), UNCHANGED ledgerVars
    PROVE  InductiveInvariant'
<1>1. Shapes /\ Heads /\ Rows /\ Pins /\ LedgerKept /\ HeadTask(t) /\ PinTask(t)
  BY DEF InductiveInvariant, Heads, Pins
<1>2. /\ At(t, "accept") /\ Advances(t, "unpin") /\ UNCHANGED <<configVars, current, alive, jobs, confirmed>>
      /\ \/ receipts' = [receipts EXCEPT ![task[t].for] = [state |-> "live", rev |-> task[t].rev]]
         \/ receipts' = receipts
  BY <1>1, AcceptReceiptIs
<1> DEFINE w == task[t].for
<1>3. /\ task[t].step = "accept" /\ task[t].removable = {} /\ w \in Receipts /\ receipts[w].state = "tried"
      /\ states[w].rev = task[t].rev /\ NotListed(w) /\ UNCHANGED <<head, snapshots, states>> /\ task[t].rev \in Revisions
      /\ task[t].rev <= head
  BY <1>1, <1>2, NothingListed DEF At, PinTask, configVars, HeadTask
<1>4. /\ TaskShape' /\ Others(t) /\ task'[t].step = "unpin" /\ task'[t].then = task[t].then /\ task'[t].rev = task[t].rev
      /\ task'[t].for = w /\ task'[t].removable = {}
  BY <1>2, <1>3 DEF Advances, Moves, Fields
<1>5. /\ DOMAIN receipts' = Receipts /\ \A v \in Receipts : DOMAIN receipts'[v] = {"state", "rev"} /\ (v # w => receipts'[v] = receipts[v])
      /\ receipts'[w].state \in {"tried", "live"} /\ (receipts'[w].state = "live" => receipts'[w].rev = task[t].rev)
  BY <1>1, <1>2, <1>3 DEF Shapes
<1>6. Shapes'
  BY <1>1, <1>2, <1>3, <1>4, <1>5 DEF Shapes, TaskShape, There
<1>7. Heads'
  <2>1. HeadTask(t)'
    BY <1>3, <1>4 DEF HeadTask
  <2> QED BY <1>1, <1>2, <1>3, <1>4, <2>1, HeadsQuiet
<1>8. Rows' /\ LedgerKept'
  BY <1>1, <1>2, <1>3, <1>4, RowsQuiet, JobRests, JobsQuiet, SameRows DEF JobsSame
<1>9. \A v \in Receipts : NotListed(v) => NotListed(v)'
  BY <1>4 DEF NotListed, Others
<1>10. ASSUME NEW v \in Receipts PROVE PinOf(v)'
  <2>1. PinOf(v)
    BY <1>1 DEF Pins
  <2>2. CASE v = w
    <3>1. \A c \in Tasks : Respected(v, c)'
      BY <1>3, <1>9, <2>2 DEF NotListed, Respected
    <3> QED BY <1>3, <1>5, <2>2, <3>1 DEF PinOf
  <2>3. CASE v # w
    <3>1. ASSUME receipts[v].state = "live", NEW c \in Tasks PROVE Respected(v, c)'
      <4>1. CASE c = t
        BY <1>4, <4>1 DEF Respected
      <4>2. CASE c # t
        BY <1>4, <1>5, <2>1, <2>3, <3>1, <4>2 DEF PinOf, Respected, Others
      <4> QED BY <4>1, <4>2
    <3> QED BY <1>3, <1>5, <1>9, <2>1, <2>3, <3>1 DEF PinOf
  <2> QED BY <2>2, <2>3
<1>11. ASSUME NEW u \in Tasks PROVE PinTask(u)'
  <2>1. PinTask(u)
    BY <1>1 DEF Pins
  <2>2. CASE u = t
    BY <1>3, <1>4, <1>5, <2>1, <2>2 DEF PinTask, WillPin, Others
  <2>3. CASE u # t
    <3>1. task'[u] = task[u] /\ task[u].for # w
      BY <1>1, <1>3, <1>4, <2>3 DEF Others, PinTask
    <3>2. task[u].for \in Receipts => receipts'[task[u].for] = receipts[task[u].for]
      BY <1>5, <3>1
    <3>3. task[u].for \in Receipts => \A x \in Tasks : task'[x].for = task[u].for => x = u
      BY <1>4, <2>1, <3>1 DEF Others, PinTask
    <3> QED BY <1>3, <1>9, <2>1, <3>1, <3>2, <3>3 DEF PinTask, WillPin
  <2> QED BY <2>2, <2>3
<1>12. Pins'
  BY <1>10, <1>11 DEF Pins
<1> QED BY <1>6, <1>7, <1>8, <1>12 DEF InductiveInvariant

\* What becomes of work that was accepted under a pin: it ends, or it is armed again.
LEMMA SettledWorkKeeps ==
    ASSUME InductiveInvariant, NEW w \in Receipts, UNCHANGED <<configVars, current, alive, task, ledgerVars>>,
           receipts[w].state \in {"live", "rearmed", "done"},
           DOMAIN receipts' = Receipts, DOMAIN receipts'[w] = {"state", "rev"},
           receipts'[w].state \in {"done", "rearmed"},
           \A v \in Receipts \ {w} : receipts'[v] = receipts[v]
    PROVE  InductiveInvariant'
<1>1. Shapes /\ Heads /\ Rows /\ Pins /\ LedgerKept
  BY DEF InductiveInvariant
<1>2. UNCHANGED <<head, snapshots, states, current, alive, task, jobs, confirmed>>
  BY DEF configVars, ledgerVars
<1>3. \A v \in Receipts : DOMAIN receipts'[v] = {"state", "rev"} /\ (v # w => receipts'[v] = receipts[v])
  BY <1>1 DEF Shapes
<1>4. Shapes'
  BY <1>1, <1>2, <1>3 DEF Shapes, There
<1>5. Heads' /\ Rows' /\ LedgerKept'
  BY <1>1, <1>2 DEF Heads, HeadGlobal, HeadTask, NothingNewerIsOld, There, Rows, LedgerKept, JobStates, JobOf, JobTask, WillReserve, EntryOf
<1>6. ASSUME NEW v \in Receipts PROVE PinOf(v)'
  <2>1. PinOf(v) /\ (NotListed(v) => NotListed(v)')
    BY <1>1, <1>2 DEF Pins, NotListed
  <2>2. CASE v = w
    BY <1>3, <2>2 DEF PinOf
  <2>3. CASE v # w
    <3>1. receipts'[v] = receipts[v] /\ UNCHANGED <<states, task>>
      BY <1>2, <1>3, <2>3
    <3>2. ASSUME NEW c \in Tasks, Respected(v, c) PROVE Respected(v, c)'
      BY <3>1, <3>2 DEF Respected
    <3> QED BY <2>1, <3>1, <3>2 DEF PinOf
  <2> QED BY <2>2, <2>3
<1>7. ASSUME NEW u \in Tasks PROVE PinTask(u)'
  <2>1. PinTask(u) /\ UNCHANGED <<states, task>>
    BY <1>1, <1>2 DEF Pins
  <2>2. \A v \in Receipts : NotListed(v) => NotListed(v)'
    BY <2>1 DEF NotListed
  <2>3. receipts'[w].state \in {"done", "rearmed"}
    OBVIOUS
  <2>4. task[u].for \in Receipts /\ task[u].for # w => receipts'[task[u].for] = receipts[task[u].for]
    BY <1>3
  <2>5. task[u].for = w => ~WillPin(u) /\ task[u].step # "accept"
    BY <1>2, <2>1 DEF PinTask
  <2> QED BY <2>1, <2>2, <2>3, <2>4, <2>5 DEF PinTask, WillPin
<1> QED BY <1>4, <1>5, <1>6, <1>7 DEF InductiveInvariant, Pins

LEMMA CompleteReceiptKeeps ==
    ASSUME InductiveInvariant, NEW w \in Receipts, CompleteReceipt(w), UNCHANGED ledgerVars
    PROVE  InductiveInvariant'
<1>1. DOMAIN receipts = Receipts /\ \A v \in Receipts : DOMAIN receipts[v] = {"state", "rev"}
  BY DEF InductiveInvariant, Shapes
<1>2. /\ receipts[w].state \in {"live", "rearmed"} /\ UNCHANGED <<configVars, current, alive, task>>
      /\ receipts' = [receipts EXCEPT ![w] = [state |-> "done", rev |-> None]]
  BY DEF CompleteReceipt, Pending
<1>3. /\ DOMAIN receipts' = Receipts /\ receipts'[w].state = "done" /\ DOMAIN receipts'[w] = {"state", "rev"}
      /\ \A v \in Receipts \ {w} : receipts'[v] = receipts[v]
  BY <1>1, <1>2
<1> QED BY <1>2, <1>3, SettledWorkKeeps

\* The retry has no pin: only work that was accepted under one keeps its row.
LEMMA RetryReceiptKeeps ==
    ASSUME InductiveInvariant, NEW w \in Receipts, NEW i \in Instances, RetryReceipt(i, w), UNCHANGED ledgerVars
    PROVE  InductiveInvariant'
<1>1. DOMAIN receipts = Receipts
  BY DEF InductiveInvariant, Shapes
<1>2. /\ receipts[w].state = "done" /\ UNCHANGED <<configVars, current, alive, task>>
      /\ receipts' = [receipts EXCEPT ![w] = [state |-> "rearmed", rev |-> current[i]]]
  BY DEF RetryReceipt
<1>3. /\ DOMAIN receipts' = Receipts /\ receipts'[w].state = "rearmed" /\ DOMAIN receipts'[w] = {"state", "rev"}
      /\ \A v \in Receipts \ {w} : receipts'[v] = receipts[v]
  BY <1>1, <1>2
<1> QED BY <1>2, <1>3, SettledWorkKeeps

LEMMA EndPinKeeps ==
    ASSUME InductiveInvariant, NEW t \in Tasks, EndPin(t), UNCHANGED ledgerVars
    PROVE  InductiveInvariant'
<1>1. Shapes /\ Heads /\ Rows /\ Pins /\ LedgerKept /\ PinTask(t) /\ At(t, "unpin")
  BY DEF InductiveInvariant, Pins, EndPin
<1>2. PICK w \in Receipts : w = task[t].for
  BY <1>1 DEF At, PinTask
<1>3. receipts[w].state # "none" /\ w \in Keys /\ w \notin Jobs /\ task[t].removable = {}
  BY <1>1, <1>2, ConfigAssumption, NothingListed DEF At, PinTask, Keys
<1> DEFINE row == [states[w] EXCEPT !.value = "ended"]
<1>4. /\ Rests(t, "done") /\ UNCHANGED Rest
      /\ Writes(w, row, {}) \/ UNCHANGED configVars
  BY <1>1, <1>2, <1>3, EndPinIs
<1>5. row.rev = states[w].rev
  BY <1>1, <1>3 DEF Shapes, RowFields
<1> HIDE DEF row
<1>6. UNCHANGED <<head, snapshots, current, alive, receipts, jobs, confirmed>>
  BY <1>4 DEF Writes, configVars, Rest
<1>7. /\ TaskShape' /\ Others(t) /\ task'[t].step = "done" /\ task'[t].for = None /\ task'[t].removable = {} /\ task'[t].then = "idle"
  BY <1>4 DEF Rests, Moves, Fields
<1>8. states'[w].rev = states[w].rev /\ StateShape' /\ \A k \in Keys : k # w => RowStays(k) /\ StaysYoung(k)
  BY <1>1, <1>3, <1>4, <1>5, WritesApart, SameRows, ShapeParts DEF Writes, configVars, StateShape
<1>9. Shapes' /\ Heads'
  BY <1>1, <1>6, <1>7, <1>8, WriteShapes, HeadRests, HeadsQuiet
<1>10. Rows'
  BY <1>1, <1>3, <1>4, <1>5, RowsWritten, RowsQuiet DEF Rows, configVars
<1>11. LedgerKept'
  <2>1. JobsSame
    BY <1>3, <1>6, <1>8 DEF JobsSame, Keys
  <2> QED BY <1>1, <1>7, <2>1, JobRests, JobsQuiet
<1>12. \A v \in Receipts : NotListed(v) => NotListed(v)'
  BY <1>7 DEF NotListed, Others
<1>13. ASSUME NEW v \in Receipts PROVE PinOf(v)'
  <2>1. PinOf(v) /\ (v # w => RowStays(v)) /\ states'[v].rev = states[v].rev
    BY <1>1, <1>8 DEF Pins, Keys, RowStays
  <2>2. ASSUME receipts[v].state = "live", NEW c \in Tasks PROVE Respected(v, c)'
    <3>1. CASE c = t
      BY <1>7, <3>1 DEF Respected
    <3>2. CASE c # t
      BY <1>6, <1>7, <2>1, <2>2, <3>2 DEF PinOf, Respected, Others
    <3> QED BY <3>1, <3>2
  <2> QED BY <1>3, <1>6, <1>12, <2>1, <2>2 DEF PinOf, RowStays
<1>14. ASSUME NEW u \in Tasks, u # t PROVE PinTask(u)'
  <2>1. PinTask(u) /\ task'[u] = task[u] /\ task[u].for # w
    BY <1>1, <1>2, <1>7, <1>14 DEF Pins, Others, PinTask
  <2>2. task[u].for \in Receipts => RowStays(task[u].for) /\ StaysYoung(task[u].for)
    BY <1>8, <2>1 DEF Keys
  <2>3. task[u].for \in Receipts => \A x \in Tasks : task'[x].for = task[u].for => x = u
    BY <1>7, <2>1, ConfigAssumption DEF Others, PinTask
  <2>4. task[u].step = "accept" => u \in states'[task[u].for].during /\ NotListed(task[u].for)'
    BY <1>12, <2>1, <2>2 DEF PinTask, StaysYoung
  <2> QED BY <1>6, <2>1, <2>2, <2>3, <2>4 DEF PinTask, WillPin, RowStays
<1>15. Pins'
  BY <1>4, <1>13, <1>14, PinRests DEF Pins
<1> QED BY <1>9, <1>10, <1>11, <1>15 DEF InductiveInvariant

\* Activation records are nobody's pin and nobody's job.
LEMMA HeartbeatKeeps ==
    ASSUME InductiveInvariant, NEW t \in Tasks, Heartbeat(t), UNCHANGED ledgerVars
    PROVE  InductiveInvariant'
<1>1. Shapes /\ Heads /\ Rows /\ Pins /\ LedgerKept /\ HeadTask(t) /\ PinTask(t) /\ Home[t] \in Instances
  BY HomeIs DEF InductiveInvariant, Heads, Pins
<1>2. PICK i \in Instances : i = Home[t]
  BY <1>1
<1>3. i \in Keys /\ i \notin Receipts /\ i \notin Jobs
  BY ConfigAssumption DEF Keys
<1>4. /\ At(t, "heartbeat") /\ UNCHANGED Rest /\ (Rests(t, "done") \/ Advances(t, "list"))
      /\ \/ \E row : MayRefer(current[i]) /\ row.rev = current[i] /\ Writes(i, row, {})
         \/ UNCHANGED configVars
  BY <1>1, <1>2, HeartbeatIs
<1>5. UNCHANGED <<head, snapshots, current, alive, receipts, jobs, confirmed>>
  BY <1>4 DEF Writes, configVars, Rest
<1>6. task[t].step = "heartbeat" /\ task[t].removable = {}
  BY <1>4, NothingListed DEF At
<1>7. StateShape' /\ \A k \in Keys : k # i => RowStays(k) /\ StaysYoung(k)
  BY <1>1, <1>4, WritesApart, SameRows, ShapeParts DEF Writes, configVars, StateShape
<1>8. Rows'
  <2>1. CASE UNCHANGED configVars
    BY <1>1, <2>1, RowsQuiet DEF configVars
  <2>2. ASSUME NEW row, MayRefer(current[i]), row.rev = current[i], Writes(i, row, {}) PROVE Rows'
    <3>1. current[i] \in Revisions /\ There(current[i])
      BY <1>1, <2>2, RevisionsAre DEF MayRefer, Heads, HeadGlobal
    <3> QED BY <1>1, <2>2, <3>1, RowsWritten
  <2> QED BY <1>4, <2>1, <2>2
<1>9. /\ TaskShape' /\ Others(t) /\ task'[t].step \in {"done", "list"} /\ task'[t].removable = {}
      /\ task'[t].step = "list" => task'[t].rev = task[t].rev /\ task'[t].for = task[t].for
      /\ task'[t].step = "done" => Rests(t, "done")
  BY <1>4, <1>6 DEF Rests, Advances, Moves, Fields
<1>10. HeadTask(t)'
  BY <1>1, <1>5, <1>6, <1>9 DEF HeadTask, NothingNewerIsOld, There
<1>11. Shapes' /\ Heads'
  BY <1>1, <1>5, <1>7, <1>9, <1>10, WriteShapes, HeadsQuiet
<1>12. LedgerKept'
  <2>1. JobsSame
    BY <1>3, <1>5, <1>7 DEF JobsSame, Keys
  <2> QED BY <1>1, <1>9, <2>1, JobRests, JobsQuiet
<1>13. PinTask(t)' /\ OwnPin(t)
  <2>1. CASE task'[t].step = "list"
    BY <1>1, <1>9, <2>1, PinPlain, SamePin
  <2>2. CASE task'[t].step = "done"
    BY <1>9, <2>2, PinRests, ConfigAssumption DEF OwnPin, Rests, Moves, Fields
  <2> QED BY <1>9, <2>1, <2>2
<1>14. Pins'
  <2>1. \A w \in Receipts : RowStays(w) /\ StaysYoung(w)
    BY <1>3, <1>7 DEF Keys
  <2> QED BY <1>1, <1>5, <1>9, <1>13, <2>1, PinsQuiet DEF Respected
<1> QED BY <1>8, <1>11, <1>12, <1>14 DEF InductiveInvariant

\* What is removed is no pin of live work, and no row of a job.
LEMMA RemoveRowKeeps ==
    ASSUME InductiveInvariant, NEW t \in Tasks, RemoveRow(t), UNCHANGED ledgerVars
    PROVE  InductiveInvariant'
<1>1. Shapes /\ Heads /\ Rows /\ Pins /\ LedgerKept /\ HeadTask(t) /\ PinTask(t)
  BY DEF InductiveInvariant, Heads, Pins
<1>2. At(t, "rows") /\ UNCHANGED Rest
  BY <1>1, RemoveRowIs
<1>3. CASE /\ UNCHANGED configVars
           /\ Moves(t, "candidates", task[t].then, task[t].rev, task[t].for, task[t].ver,
                    {}, task[t].due, task[t].found, task[t].retired)
  <2>1. TaskOnly /\ UNCHANGED <<head, snapshots, current, receipts>>
    BY <1>2, <1>3 DEF TaskOnly, configVars, Rest
  <2>2. HeadTask(t)'
    BY <1>1, <1>2, <1>3, <2>1 DEF At, HeadTask, NothingNewerIsOld, There, Moves, Fields
  <2>3. PinTask(t)' /\ OwnPin(t) /\ JobTask(t)'
    BY <1>1, <1>3, PinPlain, SamePin, JobRests DEF Moves, Fields
  <2>4. \A w \in Receipts : Respected(w, t)'
    BY <1>3 DEF Respected, Moves, Fields
  <2> QED BY <1>3, <2>1, <2>2, <2>3, <2>4, PlainKeeps DEF Moves, Fields
<1>4. ASSUME NEW row \in task[t].removable, row[1] \in Receipts => row[3] \notin task[t].found, DeleteState(row[1], row[2]),
             Moves(t, "rows", task[t].then, task[t].rev, task[t].for, task[t].ver,
                   task[t].removable \ {row}, task[t].due, task[t].found, task[t].retired)
      PROVE  InductiveInvariant'
  <2>1. PICK k \in Receipts \cup Instances : k = row[1]
    BY <1>1 DEF PinTask
  <2>2. k \in Keys /\ k \notin Jobs
    BY ConfigAssumption DEF Keys
  <2>3. /\ StateShape' /\ UNCHANGED <<head, snapshots>>
        /\ \A other \in Keys : states'[other] = states[other] \/ (other = k /\ states'[other] = NoRow)
    BY <1>1, <1>4, <2>1, DeleteIs, ShapeParts
  <2>4. \A other \in Keys : other # k => RowStays(other) /\ StaysYoung(other)
    BY <2>3 DEF RowStays, StaysYoung
  <2>5. UNCHANGED <<current, receipts, jobs, confirmed>>
    BY <1>2 DEF Rest
  <2>6. /\ TaskShape' /\ Others(t) /\ task'[t].step = "rows" /\ task'[t].rev = task[t].rev /\ task'[t].for = task[t].for
        /\ task'[t].removable = task[t].removable \ {row} /\ task'[t].found = task[t].found
    BY <1>4 DEF Moves, Fields
  <2>7. HeadTask(t)'
    BY <1>1, <1>2, <2>3, <2>6 DEF At, HeadTask, NothingNewerIsOld, There
  <2>8. Shapes' /\ Heads'
    BY <1>1, <2>3, <2>5, <2>6, <2>7, WriteShapes, HeadsQuiet
  <2>9. Rows'
    BY <1>1, <2>3 DEF Rows, There, NoRow
  <2>10. LedgerKept'
    <3>1. JobsSame
      BY <2>2, <2>4, <2>5 DEF JobsSame, Keys
    <3> QED BY <1>1, <2>6, <3>1, JobRests, JobsQuiet
  <2>11. \A v \in Receipts : NotListed(v) => NotListed(v)'
    BY <2>6 DEF NotListed, Others
  <2>12. \A v \in Receipts : NotListed(v) => v # k
    BY <2>1 DEF NotListed
  <2>13. \A v \in Receipts : receipts[v].state = "live" => v # k
    <3>1. ASSUME NEW v \in Receipts, receipts[v].state = "live", v = k PROVE FALSE
      <4>1. Respected(v, t)
        BY <1>1, <3>1 DEF Pins, PinOf
      <4>2. row[1] = v /\ row[1] \in Receipts /\ task[t].step = "rows"
        BY <1>2, <2>1, <3>1 DEF At
      <4>3. row[3] \notin task[t].found
        BY <1>4, <4>2
      <4>4. row[3] \in task[t].found
        BY <1>4, <4>1, <4>2 DEF Respected
      <4> QED BY <4>3, <4>4
    <3> QED BY <3>1
  <2>14. ASSUME NEW v \in Receipts PROVE PinOf(v)'
    <3>1. PinOf(v) /\ (v # k => RowStays(v))
      BY <1>1, <2>4 DEF Pins, Keys
    <3>2. ASSUME receipts[v].state = "live", NEW c \in Tasks PROVE Respected(v, c)'
      <4>1. Respected(v, c)
        BY <3>1, <3>2 DEF PinOf
      <4>2. CASE c = t
        BY <1>2, <2>5, <2>6, <4>1, <4>2 DEF Respected, At
      <4>3. CASE c # t
        BY <2>5, <2>6, <4>1, <4>3 DEF Respected, Others
      <4> QED BY <4>2, <4>3
    <3> QED BY <2>5, <2>11, <2>12, <2>13, <3>1, <3>2 DEF PinOf, RowStays
  <2>15. ASSUME NEW u \in Tasks PROVE PinTask(u)'
    <3>1. PinTask(u)
      BY <1>1 DEF Pins
    <3>2. CASE u = t
      <4>1. task'[t].for = task[t].for /\ task'[t].removable \subseteq task[t].removable
        BY <2>6
      <4> QED BY <1>1, <2>6, <3>2, <4>1, PinPlain
    <3>3. CASE u # t
      <4>1. task'[u] = task[u]
        BY <2>6, <3>3 DEF Others
      <4>2. task[u].for \in Receipts => \A x \in Tasks : task'[x].for = task[u].for => x = u
        BY <2>6, <3>1, <4>1 DEF Others, PinTask
      <4>3. task[u].step = "accept" =>
              /\ task[u].for \in Receipts /\ RowStays(task[u].for) /\ StaysYoung(task[u].for) /\ NotListed(task[u].for)'
        <5>1. CASE task[u].step # "accept"
          BY <5>1
        <5>2. CASE task[u].step = "accept"
          <6>1. PICK v \in Receipts : v = task[u].for /\ NotListed(v)
            BY <3>1, <5>2 DEF PinTask
          <6>2. v # k /\ NotListed(v)' /\ task'[u].for = v
            BY <2>11, <2>12, <4>1, <6>1
          <6>3. RowStays(v) /\ StaysYoung(v)
            BY <2>4, <6>2 DEF Keys
          <6> QED BY <6>1, <6>2, <6>3
        <5> QED BY <5>1, <5>2
      <4>4. receipts'[task[u].for] = receipts[task[u].for]
        BY <2>5
      <4> QED BY <3>1, <4>1, <4>2, <4>3, <4>4, PinBystander
    <3> QED BY <3>2, <3>3
  <2>16. Pins'
    BY <2>14, <2>15 DEF Pins
  <2> QED BY <2>8, <2>9, <2>10, <2>16 DEF InductiveInvariant
<1> QED BY <1>1, <1>3, <1>4, RemoveRowIs

-----------------------------------------------------------------------------
(* Steps of a job.  They leave the pins and the head alone. *)

LEMMA JobStepKeeps ==
    ASSUME InductiveInvariant, NEW t \in Tasks, TaskShape', Others(t), StateShape', DOMAIN jobs' = Jobs, confirmed' \in [Jobs -> BOOLEAN],
           UNCHANGED <<head, snapshots, current, receipts>>,
           \A w \in Receipts : RowStays(w) /\ StaysYoung(w),
           task'[t].step \in {"enqueue", "confirm", "done"}, task[t].removable = {}, task'[t].removable = {},
           task'[t].for \in {task[t].for, None}, Rows',
           JobStates', \A j \in Jobs : JobMoves(j) /\ JobOf(j)', JobTask(t)'
    PROVE  InductiveInvariant'
<1>1. Shapes /\ Heads /\ Pins /\ LedgerKept /\ None \notin Receipts
  BY ConfigAssumption DEF InductiveInvariant
<1>2. Shapes'
  BY <1>1 DEF Shapes, TaskShape, StateShape, There
<1>3. HeadTask(t)'
  BY DEF HeadTask
<1>4. Heads'
  BY <1>1, <1>3, HeadsQuiet
<1>5. PinTask(t)' /\ OwnPin(t)
  BY <1>1 DEF Pins, PinTask, WillPin, OwnPin, Others
<1>6. Pins'
  BY <1>1, <1>5, PinsQuiet DEF Respected
<1>7. \A u \in Tasks : JobTask(u)'
  BY <1>1, JobTaskKept DEF Others
<1>8. LedgerKept'
  BY <1>7 DEF LedgerKept
<1> QED BY <1>2, <1>4, <1>6, <1>8 DEF InductiveInvariant

\* A write to the row of a job is one step forward for whoever knows the row.
LEMMA JobRowWritten ==
    ASSUME InductiveInvariant, NEW j \in Jobs, NEW row, NEW during, Writes(j, row, during),
           UNCHANGED <<jobs, receipts>>, row.ver = states[j].ver,
           \A k \in Jobs : k # j => confirmed'[k] = confirmed[k],
           states[j].ver = 0 \/ (row.rev # None => row.value = "enqueued"),
           row.rev # None => row.rev \in Revisions /\ There(row.rev)
    PROVE  /\ StateShape' /\ Rows' /\ UNCHANGED <<head, snapshots>> /\ states'[j].ver = states[j].ver + 1 /\ states[j].ver \in Nat
           /\ states'[j].rev = row.rev /\ states'[j].of = row.of /\ states'[j].value = row.value
           /\ \A k \in Jobs : JobMoves(k) /\ (k # j => JobOf(k)')
           /\ \A w \in Receipts : RowStays(w) /\ StaysYoung(w)
<1>1. Rows /\ LedgerKept /\ j \in Keys /\ j \notin Receipts /\ states[j].ver \in Nat
  BY ConfigAssumption DEF InductiveInvariant, LedgerKept, JobOf, Keys
<1>2. /\ StateShape' /\ UNCHANGED <<head, snapshots>> /\ states'[j].ver = states[j].ver + 1
      /\ states'[j].rev = row.rev /\ states'[j].of = row.of /\ states'[j].value = row.value
  BY <1>1 DEF Writes
<1>3. Rows'
  BY <1>1, RowsWritten
<1>4. \A k \in Keys : k # j => RowStays(k) /\ StaysYoung(k)
  BY WritesApart
<1>5. ASSUME NEW k \in Jobs PROVE JobMoves(k) /\ (k # j => JobOf(k)')
  <2>1. CASE k = j
    BY <1>1, <1>2, <2>1 DEF JobMoves
  <2>2. CASE k # j
    BY <1>1, <1>4, <2>2 DEF JobMoves, JobOf, LedgerKept, RowStays, Keys
  <2> QED BY <2>1, <2>2
<1> QED BY <1>1, <1>2, <1>3, <1>4, <1>5 DEF Keys

LEMMA ReserveKeeps ==
    ASSUME InductiveInvariant, NEW t \in Tasks, Reserve(t)
    PROVE  InductiveInvariant'
<1>1. Shapes /\ Heads /\ Rows /\ Pins /\ LedgerKept /\ HeadTask(t) /\ JobTask(t)
  BY DEF InductiveInvariant, Heads, LedgerKept
<1>2. task[t].step = "reserve" /\ task[t].removable = {} /\ UNCHANGED <<current, alive, receipts, jobs, confirmed>>
  BY <1>1, ReserveIs, NothingListed DEF At, Rest
<1>3. PICK j \in Jobs : j = task[t].for
  BY <1>1, <1>2 DEF JobTask, WillReserve
<1>4. JobOf(j) /\ j \in Keys /\ j \notin Receipts /\ JobStates
  BY <1>1, ConfigAssumption DEF LedgerKept, Keys
<1>5. CASE Rests(t, "done") /\ UNCHANGED configVars
  BY <1>2, <1>5, RestKeeps DEF TaskOnly, Rest
<1>6. DOMAIN jobs' = Jobs /\ confirmed' \in [Jobs -> BOOLEAN] /\ JobStates'
  BY <1>1, <1>2, <1>4 DEF Shapes, JobStates
<1>7. CASE /\ ~Accepts(task[t].for, 0) /\ Ledger(t).rev # None /\ UNCHANGED configVars
           /\ Moves(t, "enqueue", task[t].then, task[t].rev, task[t].for, Ledger(t).ver,
                    task[t].removable, task[t].due, task[t].found, task[t].retired)
  <2>1. UNCHANGED <<head, snapshots, states>>
    BY <1>7 DEF configVars
  <2>2. /\ TaskShape' /\ Others(t) /\ task'[t].step = "enqueue" /\ task'[t].for = j /\ task'[t].ver = states[j].ver /\ task'[t].removable = {}
        /\ states[j].ver \in Nat \ {0} /\ states[j].rev # None
    BY <1>2, <1>3, <1>4, <1>7 DEF Moves, Fields, Ledger, Accepts, JobOf
  <2>3. JobTask(t)'
    BY <2>1, <2>2 DEF JobTask, WillReserve
  <2>4. StateShape' /\ Rows'
    BY <1>1, <2>1, ShapeParts, RowsQuiet DEF StateShape
  <2>5. \A k \in Jobs : JobMoves(k) /\ JobOf(k)'
    BY <1>1, <1>2, <2>1 DEF LedgerKept, JobOf, JobMoves, RowStays
  <2> QED BY <1>2, <1>3, <1>6, <2>1, <2>2, <2>3, <2>4, <2>5, SameRows, JobStepKeeps
<1> DEFINE row == [NoRow EXCEPT !.rev = task[t].rev, !.of = task[t].rev, !.value = "preparing", !.by = Home[t]]
<1>8. CASE /\ Accepts(task[t].for, 0) /\ MayRefer(task[t].rev) /\ Writes(task[t].for, row, UnderWay)
           /\ Moves(t, "enqueue", task[t].then, task[t].rev, task[t].for, 1,
                    task[t].removable, task[t].due, task[t].found, task[t].retired)
  <2>1. row.ver = 0 /\ row.rev = task[t].rev /\ row.of = task[t].rev /\ row.value = "preparing"
    BY DEF NoRow
  <2>2. task[t].rev \in Revisions /\ task[t].rev # None /\ There(task[t].rev)
    BY <1>1, <1>2, <1>8, RevisionsAre DEF HeadTask, MayRefer
  <2>3. states[j].ver = 0 /\ Writes(j, row, UnderWay)
    BY <1>3, <1>8 DEF Accepts
  <2> HIDE DEF row
  <2>4. /\ StateShape' /\ Rows' /\ UNCHANGED <<head, snapshots>> /\ states'[j].ver = 1
        /\ states'[j].rev = task[t].rev /\ states'[j].of = task[t].rev /\ states'[j].value = "preparing"
        /\ \A k \in Jobs : JobMoves(k) /\ (k # j => JobOf(k)')
        /\ \A w \in Receipts : RowStays(w) /\ StaysYoung(w)
    BY <1>2, <2>1, <2>2, <2>3, JobRowWritten
  <2>5. JobOf(j)'
    BY <1>2, <1>4, <2>2, <2>3, <2>4 DEF JobOf
  <2>6. /\ TaskShape' /\ Others(t) /\ task'[t].step = "enqueue" /\ task'[t].for = j /\ task'[t].ver = 1 /\ task'[t].removable = {}
    BY <1>2, <1>3, <1>8 DEF Moves, Fields
  <2>7. JobTask(t)'
    BY <2>2, <2>4, <2>6 DEF JobTask, WillReserve
  <2> QED BY <1>2, <1>3, <1>6, <2>4, <2>5, <2>6, <2>7, JobStepKeeps
<1> QED BY <1>1, <1>5, <1>7, <1>8, ReserveIs

LEMMA EnqueueJobKeeps ==
    ASSUME InductiveInvariant, NEW t \in Tasks, EnqueueJob(t)
    PROVE  InductiveInvariant'
<1>1. Shapes /\ Rows /\ LedgerKept /\ JobTask(t) /\ JobStates /\ confirmed \in [Jobs -> BOOLEAN]
  BY DEF InductiveInvariant, LedgerKept, Shapes
<1>2. task[t].step = "enqueue" /\ task[t].removable = {} /\ UNCHANGED <<configVars, current, alive, receipts, confirmed>>
  BY <1>1, EnqueueJobIs, NothingListed DEF At
<1>3. PICK j \in Jobs : j = task[t].for
  BY <1>1, <1>2 DEF JobTask
<1>4. CASE jobs' = jobs /\ Rests(t, "done")
  BY <1>2, <1>4, RestKeeps DEF TaskOnly, Rest
<1>5. CASE /\ jobs' = [jobs EXCEPT ![task[t].for] = IF @ = "none" THEN "live" ELSE @]
           /\ Advances(t, "confirm")
  <2>1. UNCHANGED <<head, snapshots, states>>
    BY <1>2 DEF configVars
  <2>2. /\ DOMAIN jobs' = Jobs /\ \A k \in Jobs : jobs'[k] \in {"none", "live", "completed"} /\ (k # j => jobs'[k] = jobs[k])
        /\ jobs'[j] # "none" /\ (jobs[j] # "none" => jobs'[j] = jobs[j])
    <3>1. DOMAIN jobs = Jobs /\ \A k \in Jobs : jobs[k] \in {"none", "live", "completed"}
      BY <1>1 DEF Shapes, JobStates
    <3> QED BY <1>3, <1>5, <3>1
  <2>3. /\ TaskShape' /\ Others(t) /\ task'[t].step = "confirm" /\ task'[t].for = j /\ task'[t].ver = task[t].ver /\ task'[t].removable = {}
    BY <1>2, <1>3, <1>5 DEF Advances, Moves, Fields
  <2>4. \A k \in Jobs : JobMoves(k) /\ JobOf(k)'
    BY <1>1, <1>2, <2>1, <2>2 DEF LedgerKept, JobOf, JobMoves, RowStays
  <2>5. JobTask(t)'
    BY <1>1, <1>2, <1>3, <2>1, <2>2, <2>3 DEF JobTask, WillReserve
  <2>6. StateShape' /\ Rows' /\ JobStates'
    BY <1>1, <2>1, <2>2, ShapeParts, RowsQuiet DEF StateShape, JobStates
  <2> QED BY <1>1, <1>2, <1>3, <2>1, <2>2, <2>3, <2>4, <2>5, <2>6, SameRows, JobStepKeeps
<1> QED BY <1>1, <1>4, <1>5, EnqueueJobIs

LEMMA ConfirmKeeps ==
    ASSUME InductiveInvariant, NEW t \in Tasks, Confirm(t)
    PROVE  InductiveInvariant'
<1>1. Shapes /\ Rows /\ LedgerKept /\ JobTask(t) /\ JobStates /\ At(t, "confirm")
  BY DEF InductiveInvariant, LedgerKept, Confirm
<1>2. PICK j \in Jobs : j = task[t].for
  BY <1>1 DEF At, JobTask
<1>3. JobOf(j) /\ j \in Keys /\ j \notin Receipts /\ task[t].removable = {} /\ DOMAIN states[j] = RowFields
  BY <1>1, <1>2, NothingListed, ConfigAssumption DEF LedgerKept, Keys, At, Shapes
<1> DEFINE row == [states[j] EXCEPT !.value = "enqueued"]
<1>4. /\ Rests(t, "done") /\ UNCHANGED <<current, alive, receipts, jobs>>
      /\ \/ Accepts(j, task[t].ver) /\ Writes(j, row, {})
         \/ ~Accepts(j, task[t].ver) /\ UNCHANGED configVars
      /\ confirmed' = [confirmed EXCEPT ![j] = @ \/ Accepts(j, task[t].ver) \/ states[j].rev # None]
  BY <1>1, <1>2, <1>3, ConfirmIs DEF Ledger
<1>5. row.ver = states[j].ver /\ row.rev = states[j].rev /\ row.of = states[j].of /\ row.value = "enqueued"
  BY <1>3 DEF RowFields
<1> HIDE DEF row
<1>6. /\ TaskShape' /\ Others(t) /\ task'[t].step = "done" /\ task'[t].then = "idle" /\ task'[t].for = None /\ task'[t].removable = {}
  BY <1>4 DEF Rests, Moves, Fields
<1>7. /\ confirmed' \in [Jobs -> BOOLEAN] /\ \A k \in Jobs : k # j => confirmed'[k] = confirmed[k]
      /\ confirmed'[j] => confirmed[j] \/ Accepts(j, task[t].ver) \/ states[j].rev # None
  <2>1. confirmed \in [Jobs -> BOOLEAN]
    BY <1>1 DEF Shapes
  <2>2. PICK b \in BOOLEAN : b <=> (confirmed[j] \/ Accepts(j, task[t].ver) \/ states[j].rev # None)
    OBVIOUS
  <2>3. confirmed' = [confirmed EXCEPT ![j] = b]
    <3>1. (confirmed[j] \/ Accepts(j, task[t].ver) \/ states[j].rev # None) \in BOOLEAN
      BY <2>1
    <3>2. b = (confirmed[j] \/ Accepts(j, task[t].ver) \/ states[j].rev # None)
      BY <2>2, <3>1
    <3> QED BY <1>4, <3>2
  <2> QED BY <2>1, <2>2, <2>3
<1>8. /\ task[t].ver \in Nat \ {0} /\ task[t].ver <= states[j].ver /\ jobs[j] # "none"
      /\ task[t].ver = states[j].ver => states[j].rev # None
      /\ task[t].ver < states[j].ver /\ states[j].rev # None => states[j].value = "enqueued"
  BY <1>1, <1>2 DEF At, JobTask
<1>9. DOMAIN jobs' = Jobs /\ JobStates' /\ JobTask(t)' /\ UNCHANGED jobs
  BY <1>1, <1>4, <1>6, JobRests DEF Shapes, JobStates
<1>10. CASE Accepts(j, task[t].ver) /\ Writes(j, row, {})
  <2>1. states[j].rev # None /\ states[j].rev \in Revisions /\ There(states[j].rev)
    BY <1>1, <1>3, <1>8, <1>10 DEF Accepts, Rows
  <2>2. /\ StateShape' /\ Rows' /\ UNCHANGED <<head, snapshots>> /\ states'[j].ver = states[j].ver + 1 /\ states[j].ver \in Nat
        /\ states'[j].rev = states[j].rev /\ states'[j].of = states[j].of /\ states'[j].value = "enqueued"
        /\ \A k \in Jobs : JobMoves(k) /\ (k # j => JobOf(k)')
        /\ \A w \in Receipts : RowStays(w) /\ StaysYoung(w)
    BY <1>4, <1>5, <1>7, <1>10, <2>1, JobRowWritten
  <2>3. JobOf(j)'
    BY <1>3, <1>4, <1>8, <2>1, <2>2 DEF JobOf
  <2> QED BY <1>3, <1>4, <1>6, <1>7, <1>9, <2>2, <2>3, JobStepKeeps
<1>11. CASE ~Accepts(j, task[t].ver) /\ UNCHANGED configVars
  <2>1. UNCHANGED <<head, snapshots, states>>
    BY <1>11 DEF configVars
  <2>2. states[j].rev # None => states[j].value = "enqueued"
    BY <1>3, <1>8, <1>11 DEF Accepts, JobOf
  <2>3. \A k \in Jobs : JobMoves(k) /\ JobOf(k)'
    <3>1. ASSUME NEW k \in Jobs PROVE JobMoves(k) /\ JobOf(k)'
      <4>1. JobOf(k)
        BY <1>1 DEF LedgerKept
      <4>2. CASE k = j
        BY <1>7, <1>9, <1>11, <2>1, <2>2, <4>1, <4>2 DEF JobOf, JobMoves, RowStays
      <4>3. CASE k # j
        BY <1>7, <1>9, <2>1, <4>1, <4>3 DEF JobOf, JobMoves, RowStays
      <4> QED BY <4>2, <4>3
    <3> QED BY <3>1
  <2>4. StateShape' /\ Rows'
    BY <1>1, <2>1, ShapeParts, RowsQuiet DEF StateShape
  <2> QED BY <1>3, <1>4, <1>6, <1>7, <1>9, <2>1, <2>3, <2>4, SameRows, JobStepKeeps
<1> QED BY <1>4, <1>10, <1>11

LEMMA CompleteJobKeeps ==
    ASSUME InductiveInvariant, NEW j \in Jobs, CompleteJob(j)
    PROVE  InductiveInvariant'
<1>1. Shapes /\ Heads /\ Rows /\ Pins /\ LedgerKept
  BY DEF InductiveInvariant
<1>2. /\ jobs[j] = "live" /\ jobs' = [jobs EXCEPT ![j] = "completed"]
      /\ UNCHANGED <<head, snapshots, states, current, alive, task, receipts, confirmed>>
  BY DEF CompleteJob, configVars, runtimeVars
<1>3. DOMAIN jobs' = Jobs /\ jobs'[j] = "completed" /\ \A k \in Jobs : k # j => jobs'[k] = jobs[k]
  BY <1>1, <1>2 DEF Shapes
<1>4. Shapes'
  BY <1>1, <1>2, <1>3 DEF Shapes, There
<1>5. Heads' /\ Rows' /\ Pins'
  BY <1>1, <1>2 DEF Heads, HeadGlobal, HeadTask, NothingNewerIsOld, There, Rows, Pins, PinOf, PinTask, WillPin, NotListed, Respected
<1>6. \A k \in Jobs : JobMoves(k) /\ JobOf(k)'
  BY <1>1, <1>2, <1>3 DEF LedgerKept, JobOf, JobMoves, RowStays
<1>7. JobStates' /\ \A u \in Tasks : JobTask(u)'
  BY <1>1, <1>2, <1>3, <1>6, JobTaskKept DEF JobStates, LedgerKept
<1> QED BY <1>4, <1>5, <1>6, <1>7 DEF InductiveInvariant, LedgerKept

-----------------------------------------------------------------------------
(* Steps that move the head, a generation or a snapshot. *)

LEMMA HeadBystander ==
    ASSUME HeadGlobal, HeadGlobal', NEW u \in Tasks, HeadTask(u), task'[u] = task[u], head <= head',
           head' = head /\ There(head) => There(head)',
           \A r \in Revisions : There(r)' /\ u \in UnderWay /\ u \notin snapshots'[r].during => There(r) /\ u \notin snapshots[r].during,
           \A i \in Instances : current[i] <= current'[i],
           task[u].step \in Waiting =>
             /\ current'[Home[u]] = current[Home[u]]
             /\ \A v \in Tasks : Home[v] = Home[u] /\ task'[v].step \in Waiting => v = u
    PROVE  HeadTask(u)'
<1>1. Home[u] \in Instances /\ head \in Nat /\ head' \in Nat /\ \A i \in Instances : current[i] \in Nat /\ current'[i] \in Nat
  BY HomeIs, RevisionsAre DEF HeadGlobal
<1>2. task[u].step \in Waiting \cup Asking \cup Choosing \cup Accepting =>
        task[u].rev \in Revisions /\ task[u].rev \in Nat /\ task[u].rev <= head'
  <2>1. task[u].step \in Waiting \cup Asking \cup Choosing \cup Accepting => task[u].rev \in Revisions /\ task[u].rev <= head
    BY DEF HeadTask
  <2>2. \A x \in Nat : x <= head => x <= head'
    BY <1>1
  <2> QED BY <2>1, <2>2, RevisionsAre
<1>3. task[u].step = "prepare" /\ task[u].rev = head' => There(head)'
  <2>1. ASSUME task[u].step = "prepare", task[u].rev = head' PROVE There(head)'
    <3>1. task[u].rev <= head /\ task[u].rev \in Revisions /\ (task[u].rev = head => There(head))
      BY <2>1 DEF HeadTask
    <3>2. head' = head
      BY <1>1, <2>1, <3>1
    <3> QED BY <2>1, <3>1, <3>2
  <2> QED BY <2>1
<1>4. task[u].step \in Waiting \cup Asking \cup Choosing => NothingNewerIsOld(u)'
  BY DEF HeadTask, NothingNewerIsOld, UnderWay
<1>5. task[u].step \in Asking => task[u].rev <= current'[Home[u]]
  BY <1>1, <1>2 DEF HeadTask
<1>6. task[u].step \in Choosing => \E x \in task[u].found : x \in Revisions /\ task[u].rev <= x /\ x <= head'
  <2>1. ASSUME task[u].step \in Choosing PROVE \E x \in task[u].found : x \in Revisions /\ task[u].rev <= x /\ x <= head'
    <3>1. PICK x \in task[u].found : x \in Revisions /\ task[u].rev <= x /\ x <= head
      BY <2>1 DEF HeadTask
    <3> QED BY <1>1, <3>1, RevisionsAre
  <2> QED BY <2>1
<1>7. task[u].step = "delete" => \A r \in task[u].due : r \in Revisions /\ r < head'
  <2>1. ASSUME task[u].step = "delete", NEW r \in task[u].due PROVE r \in Revisions /\ r < head'
    <3>1. r \in Revisions /\ r < head
      BY <2>1 DEF HeadTask
    <3> QED BY <1>1, <3>1, RevisionsAre
  <2> QED BY <2>1
<1>8. task[u].step \in Waiting => current'[Home[u]] < task[u].rev
  BY DEF HeadTask
<1> QED BY <1>2, <1>3, <1>4, <1>5, <1>6, <1>7, <1>8 DEF HeadTask

LEMMA PublishKeeps ==
    ASSUME InductiveInvariant, Publish
    PROVE  InductiveInvariant'
<1>1. Shapes /\ Heads /\ Rows /\ Pins /\ LedgerKept /\ HeadGlobal
  BY DEF InductiveInvariant, Heads
<1>2. /\ head + 1 \in Revisions /\ head' = head + 1
      /\ UNCHANGED <<snapshots, states, current, alive, task, receipts, jobs, confirmed>>
  BY DEF Publish, CommitChangeset, runtimeVars, ledgerVars
<1>3. Shapes' /\ Rows' /\ Pins' /\ LedgerKept'
  <2>1. Shapes' /\ Rows'
    BY <1>1, <1>2 DEF Shapes, There, Rows
  <2>2. Pins'
    BY <1>1, <1>2 DEF There, Pins, PinOf, PinTask, WillPin, NotListed, Respected
  <2>3. LedgerKept'
    BY <1>1, <1>2 DEF There, LedgerKept, JobStates, JobOf, JobTask, WillReserve, EntryOf
  <2> QED BY <2>1, <2>2, <2>3
<1>4. HeadGlobal'
  <2>1. head \in Nat /\ \A i \in Instances : current[i] \in Nat /\ current[i] <= head
    BY <1>1, RevisionsAre DEF HeadGlobal
  <2> QED BY <1>1, <1>2, <2>1, RevisionsAre DEF HeadGlobal, There
<1>5. ASSUME NEW u \in Tasks PROVE HeadTask(u)'
  <2>1. head \in Nat /\ HeadTask(u) /\ \A i \in Instances : current[i] \in Nat
    BY <1>1, RevisionsAre DEF HeadGlobal, Heads
  <2>2. head <= head' /\ head' # head
    BY <1>2, <2>1
  <2>3. task[u].step \in Waiting => \A v \in Tasks : Home[v] = Home[u] /\ task'[v].step \in Waiting => v = u
    BY <1>2, <2>1 DEF HeadTask
  <2>4. \A r \in Revisions : There(r)' = There(r) /\ snapshots'[r] = snapshots[r]
    BY <1>2 DEF There
  <2>5. \A i \in Instances : current'[i] = current[i] /\ current[i] <= current'[i]
    BY <1>2, <2>1
  <2> QED BY <1>1, <1>2, <1>4, <2>1, <2>2, <2>3, <2>4, <2>5, HeadBystander, HomeIs
<1> QED BY <1>3, <1>4, <1>5 DEF InductiveInvariant, Heads

\* A snapshot is written; the tasks under way have seen nothing of it.
LEMMA SnapshotWritten ==
    ASSUME InductiveInvariant, NEW r \in Revisions, r <= head, WritesSnapshot(r, UnderWay), UNCHANGED current
    PROVE  /\ HeadGlobal'
           /\ \A x \in Revisions : There(x) => There(x)'
           /\ \A u \in UnderWay : \A x \in Revisions :
                There(x)' /\ u \notin snapshots'[x].during => There(x) /\ u \notin snapshots[x].during
           /\ \A u \in Tasks : HeadTask(u) /\ task'[u] = task[u]
                               /\ (\A v \in Tasks : task'[v].step \in Waiting => task[v].step \in Waiting) => HeadTask(u)'
<1>1. HeadGlobal /\ head' = head
  BY DEF InductiveInvariant, Heads, WritesSnapshot
<1>2. \A x \in Revisions : There(x) => There(x)'
  BY DEF WritesSnapshot, There
<1>3. \A u \in UnderWay : \A x \in Revisions : There(x)' /\ u \notin snapshots'[x].during => There(x) /\ u \notin snapshots[x].during
  BY DEF WritesSnapshot, There
<1>4. \A x \in Revisions : There(x)' => There(x) \/ x = r
  BY DEF WritesSnapshot, There
<1>5. There(head) => There(head)'
  BY <1>1, <1>2 DEF HeadGlobal, There
<1>6. HeadGlobal'
  BY <1>1, <1>4, <1>5 DEF HeadGlobal
<1>7. ASSUME NEW u \in Tasks, HeadTask(u), task'[u] = task[u], \A v \in Tasks : task'[v].step \in Waiting => task[v].step \in Waiting
      PROVE  HeadTask(u)'
  <2>1. head <= head' /\ \A i \in Instances : current'[i] = current[i] /\ current[i] <= current'[i]
    <3>1. head \in Nat /\ \A i \in Instances : current[i] \in Nat
      BY <1>1, RevisionsAre DEF HeadGlobal
    <3>2. \A n \in Nat : n <= n
      OBVIOUS
    <3> QED BY <1>1, <3>1, <3>2
  <2>2. task[u].step \in Waiting => \A v \in Tasks : Home[v] = Home[u] /\ task'[v].step \in Waiting => v = u
    BY <1>7 DEF HeadTask
  <2> QED BY <1>1, <1>3, <1>5, <1>6, <1>7, <2>1, <2>2, HeadBystander, HomeIs
<1> QED BY <1>2, <1>3, <1>6, <1>7

LEMMA PublishSnapshotKeeps ==
    ASSUME InductiveInvariant, PublishSnapshot
    PROVE  InductiveInvariant'
<1>1. Shapes /\ Heads /\ Rows /\ Pins /\ LedgerKept /\ HeadGlobal /\ head \in Revisions /\ head <= head
  BY RevisionsAre DEF InductiveInvariant, Heads, HeadGlobal
<1>2. WritesSnapshot(head, UnderWay) /\ UNCHANGED <<head, states, current, alive, task, receipts, jobs, confirmed>>
  BY <1>1, WriteSnapshotIs DEF PublishSnapshot, WriteSnapshot, runtimeVars, ledgerVars
<1>3. Pins' /\ LedgerKept'
  BY <1>1, <1>2 DEF Pins, PinOf, PinTask, WillPin, NotListed, Respected, LedgerKept, JobStates, JobOf, JobTask, WillReserve, EntryOf
<1>4. Shapes'
  BY <1>1, <1>2 DEF WritesSnapshot, SnapshotShape, Shapes
<1>5. HeadGlobal' /\ (\A x \in Revisions : There(x) => There(x)') /\ \A u \in Tasks : HeadTask(u)'
  BY <1>1, <1>2, SnapshotWritten DEF Heads
<1>6. Rows'
  BY <1>1, <1>2, <1>5 DEF Rows
<1> QED BY <1>3, <1>4, <1>5, <1>6 DEF InductiveInvariant, Heads

LEMMA EnsureSnapshotKeeps ==
    ASSUME InductiveInvariant, NEW t \in Tasks, EnsureSnapshot(t), UNCHANGED ledgerVars
    PROVE  InductiveInvariant'
<1>1. Shapes /\ Heads /\ Rows /\ Pins /\ LedgerKept /\ HeadGlobal /\ HeadTask(t) /\ PinTask(t) /\ JobTask(t)
  BY DEF InductiveInvariant, Heads, Pins, LedgerKept
<1>2. task[t].step = "snapshot" /\ WritesSnapshot(task[t].rev, UnderWay) /\ Advances(t, "prepare") /\ UNCHANGED <<current, alive, receipts, jobs, confirmed>>
  BY <1>1, EnsureSnapshotIs DEF At, Rest
<1>3. task[t].removable = {} /\ UNCHANGED <<head, states>> /\ t \in UnderWay
  BY <1>2, NothingListed DEF WritesSnapshot, UnderWay
<1>4. task[t].rev \in Revisions /\ task[t].rev <= head /\ current[Home[t]] < task[t].rev /\ NothingNewerIsOld(t)
      /\ task[t].then \in {"pin", "heartbeat", "reserve"}
      /\ \A u \in Tasks : Home[u] = Home[t] /\ task[u].step \in Waiting => u = t
  BY <1>1, <1>2 DEF HeadTask
<1>5. /\ TaskShape' /\ Others(t) /\ task'[t].step = "prepare" /\ task'[t].rev = task[t].rev /\ task'[t].for = task[t].for
      /\ task'[t].then = task[t].then /\ task'[t].removable = {}
  BY <1>2, <1>3 DEF Advances, Moves, Fields
<1>6. \A v \in Tasks : task'[v].step \in Waiting => task[v].step \in Waiting
  BY <1>2, <1>5 DEF Others
<1>7. /\ HeadGlobal' /\ \A x \in Revisions : There(x) => There(x)'
      /\ \A x \in Revisions : There(x)' /\ t \notin snapshots'[x].during => There(x) /\ t \notin snapshots[x].during
      /\ \A u \in Tasks : u # t => HeadTask(u)'
  <2>1. \A u \in Tasks : u # t => HeadTask(u) /\ task'[u] = task[u]
    BY <1>1, <1>5 DEF Heads, Others
  <2> QED BY <1>2, <1>3, <1>4, <1>6, <2>1, SnapshotWritten
<1>8. HeadTask(t)'
  <2>1. There(task[t].rev)'
    <3>1. PICK r \in Revisions : r = task[t].rev
      BY <1>4
    <3>2. There(r)' /\ task'[t].rev = r
      BY <1>2, <1>5, <3>1 DEF WritesSnapshot
    <3> QED BY <3>2 DEF There
  <2>2. NothingNewerIsOld(t)'
    BY <1>4, <1>5, <1>7 DEF NothingNewerIsOld
  <2>3. \A u \in Tasks : Home[u] = Home[t] /\ task'[u].step \in Waiting => u = t
    BY <1>4, <1>6
  <2>4. task'[t].rev = head' => There(head)'
    BY <1>5, <2>1 DEF There
  <2> QED BY <1>2, <1>3, <1>4, <1>5, <2>2, <2>3, <2>4 DEF HeadTask
<1>9. Shapes'
  BY <1>1, <1>2, <1>3, <1>5 DEF WritesSnapshot, SnapshotShape, TaskShape, Shapes
<1>10. Rows'
  BY <1>1, <1>3, <1>7 DEF Rows
<1>11. PinTask(t)' /\ OwnPin(t) /\ JobTask(t)'
  BY <1>1, <1>2, <1>3, <1>5, SamePin DEF PinTask, WillPin, JobTask, WillReserve, Others
<1>12. Pins' /\ LedgerKept'
  BY <1>1, <1>2, <1>3, <1>5, <1>11, PinsQuiet, JobsQuiet, SameRows DEF JobsSame, Respected
<1> QED BY <1>7, <1>8, <1>9, <1>10, <1>12 DEF InductiveInvariant, Heads

LEMMA AdoptKeeps ==
    ASSUME InductiveInvariant, NEW t \in Tasks, Adopt(t), UNCHANGED ledgerVars
    PROVE  InductiveInvariant'
<1>1. Shapes /\ Heads /\ Rows /\ Pins /\ LedgerKept /\ HeadGlobal /\ HeadTask(t) /\ PinTask(t) /\ Home[t] \in Instances
  BY HomeIs DEF InductiveInvariant, Heads, Pins
<1>2. /\ task[t].step = "prepare"
      /\ Moves(t, task[t].then, "idle", task[t].rev, task[t].for, task[t].ver,
               task[t].removable, task[t].due, task[t].found, task[t].retired)
      /\ DOMAIN current' = Instances /\ current'[Home[t]] = task[t].rev
      /\ \A i \in Instances : i # Home[t] => current'[i] = current[i]
      /\ UNCHANGED <<head, snapshots, states, alive, receipts, jobs, confirmed>>
  BY <1>1, AdoptIs DEF At, configVars
<1>3. /\ task[t].rev \in Revisions /\ task[t].rev <= head /\ current[Home[t]] < task[t].rev /\ NothingNewerIsOld(t)
      /\ (task[t].rev = head => There(head))
      /\ \A u \in Tasks : Home[u] = Home[t] /\ task[u].step \in Waiting => u = t
  BY <1>1, <1>2 DEF HeadTask
<1>4. HeadGlobal'
  BY <1>1, <1>2, <1>3 DEF HeadGlobal, There
<1>5. \A i \in Instances : current[i] <= current'[i]
  BY <1>1, <1>2, <1>3, RevisionsAre DEF HeadGlobal
<1>6. NothingNewerIsOld(t)'
  BY <1>2, <1>3 DEF NothingNewerIsOld, There, Moves, Fields
<1>7. HeadTask(t)' /\ PinTask(t)' /\ JobTask(t)' /\ OwnPin(t) /\ (\A w \in Receipts : Respected(w, t)') /\ task'[t].step \notin Waiting
  BY <1>2, <1>3, <1>6, AdmittedKeeps
<1>8. TaskShape' /\ Others(t) /\ task[t].removable = {} /\ task'[t].removable = {}
  BY <1>2, NothingListed DEF Moves, Fields
<1>9. ASSUME NEW u \in Tasks, u # t PROVE HeadTask(u)'
  <2>1. HeadTask(u) /\ task'[u] = task[u]
    BY <1>1, <1>8, <1>9 DEF Heads, Others
  <2>2. task[u].step \in Waiting => current'[Home[u]] = current[Home[u]]
    BY <1>2, <1>3, <1>9, HomeIs
  <2>3. task[u].step \in Waiting => \A v \in Tasks : Home[v] = Home[u] /\ task'[v].step \in Waiting => v = u
    BY <1>7, <1>8, <2>1 DEF HeadTask, Others
  <2>4. head <= head'
    BY <1>1, <1>2, RevisionsAre DEF HeadGlobal
  <2>5. \A r \in Revisions : There(r)' = There(r) /\ snapshots'[r] = snapshots[r]
    BY <1>2 DEF There
  <2>6. There(head) => There(head)'
    BY <1>2 DEF There
  <2> QED BY <1>1, <1>4, <1>5, <2>1, <2>2, <2>3, <2>4, <2>5, <2>6, HeadBystander
<1>10. Shapes'
  BY <1>1, <1>2, <1>8 DEF Shapes, TaskShape, There
<1>11. Rows' /\ Pins' /\ LedgerKept'
  BY <1>1, <1>2, <1>7, <1>8, RowsQuiet, PinsQuiet, JobsQuiet, SameRows DEF JobsSame
<1> QED BY <1>4, <1>7, <1>9, <1>10, <1>11 DEF InductiveInvariant, Heads

\* What is deleted is older than the head, and no row refers to it.
LEMMA DeleteNextKeeps ==
    ASSUME InductiveInvariant, NEW t \in Tasks, DeleteNext(t), UNCHANGED ledgerVars
    PROVE  InductiveInvariant'
<1>1. Shapes /\ Heads /\ Rows /\ Pins /\ LedgerKept /\ HeadGlobal /\ HeadTask(t) /\ PinTask(t)
  BY DEF InductiveInvariant, Heads, Pins
<1>2. task[t].step = "delete" /\ task[t].removable = {} /\ UNCHANGED <<current, alive, receipts, jobs, confirmed>>
  BY <1>1, DeleteNextIs, NothingListed DEF At, Rest
<1>3. CASE Rests(t, "done") /\ UNCHANGED configVars
  BY <1>2, <1>3, RestKeeps DEF TaskOnly, Rest
<1>4. ASSUME NEW r \in task[t].due, Deletes(r),
             Moves(t, "delete", task[t].then, task[t].rev, task[t].for, task[t].ver,
                   task[t].removable, task[t].due \ {r}, task[t].found, task[t].retired)
      PROVE  InductiveInvariant'
  <2>1. r \in Revisions /\ r < head /\ \A x \in task[t].due : x \in Revisions /\ x < head
    BY <1>1, <1>2 DEF HeadTask
  <2>2. /\ SnapshotShape' /\ UNCHANGED <<head, states>>
        /\ \A x \in Revisions : There(x)' => There(x) /\ snapshots'[x] = snapshots[x]
        /\ \A x \in Revisions : x # r => There(x)' = There(x)
        /\ \A x \in Revisions : Referenced(x) => There(x)' = There(x)
    BY <1>4 DEF Deletes, There
  <2>3. /\ TaskShape' /\ Others(t) /\ task'[t].step = "delete" /\ task'[t].for = task[t].for /\ task'[t].removable = {}
        /\ task'[t].due = task[t].due \ {r}
    BY <1>2, <1>4 DEF Moves, Fields
  <2>4. There(head) => There(head)'
    <3>1. head \in Revisions /\ head # r
      BY <1>1, <2>1, RevisionsAre DEF HeadGlobal
    <3> QED BY <2>2, <3>1 DEF There
  <2>5. HeadGlobal'
    BY <1>1, <1>2, <2>2, <2>4 DEF HeadGlobal
  <2>6. HeadTask(t)'
    BY <2>1, <2>2, <2>3 DEF HeadTask
  <2>7. ASSUME NEW u \in Tasks, u # t PROVE HeadTask(u)'
    <3>1. HeadTask(u) /\ task'[u] = task[u]
      BY <1>1, <2>3, <2>7 DEF Heads, Others
    <3>2. task[u].step \in Waiting => \A v \in Tasks : Home[v] = Home[u] /\ task'[v].step \in Waiting => v = u
      BY <2>3, <3>1 DEF HeadTask, Others
    <3>3. head <= head' /\ \A i \in Instances : current[i] <= current'[i]
      <4>1. head \in Nat /\ \A i \in Instances : current[i] \in Nat
        BY <1>1, RevisionsAre DEF HeadGlobal
      <4>2. \A n \in Nat : n <= n
        OBVIOUS
      <4> QED BY <1>2, <2>2, <4>1, <4>2
    <3>4. task[u].step \in Waiting => current'[Home[u]] = current[Home[u]]
      BY <1>2
    <3> QED BY <1>1, <2>2, <2>4, <2>5, <3>1, <3>2, <3>3, <3>4, HeadBystander
  <2>8. Shapes'
    BY <1>1, <1>2, <2>2, <2>3 DEF SnapshotShape, TaskShape, Shapes
  <2>9. Rows'
    BY <1>1, <2>2 DEF Rows, Referenced
  <2>10. PinTask(t)' /\ OwnPin(t) /\ JobTask(t)'
    BY <1>1, <1>2, <2>3, PinPlain, SamePin, JobRests
  <2>11. Pins' /\ LedgerKept'
    BY <1>1, <1>2, <2>2, <2>3, <2>10, PinsQuiet, JobsQuiet, SameRows DEF JobsSame, Respected
  <2> QED BY <2>5, <2>6, <2>7, <2>8, <2>9, <2>11 DEF InductiveInvariant, Heads
<1> QED BY <1>1, <1>3, <1>4, DeleteNextIs

\* Tasks end, one by itself or all of an instance that is lost.
LEMMA GoneKeeps ==
    ASSUME InductiveInvariant, NEW gone, TaskShape', UNCHANGED <<head, current, receipts, jobs, confirmed>>,
           \A t \in Tasks : t \notin gone => task'[t] = task[t],
           \A t \in Tasks : t \in gone =>
             task'[t].step \in {"over", "idle"} /\ task'[t].then = "idle" /\ task'[t].for = None /\ task'[t].removable = {},
           AgesSnapshots(gone), AgesRows(gone)
    PROVE  InductiveInvariant'
<1>1. Shapes /\ Heads /\ Rows /\ Pins /\ LedgerKept /\ HeadGlobal /\ None \notin Receipts
  BY ConfigAssumption DEF InductiveInvariant, Heads
<1>2. /\ SnapshotShape' /\ StateShape' /\ \A k \in Keys : RowStays(k)
      /\ \A r \in Revisions : There(r)' = There(r) /\ snapshots'[r].during = snapshots[r].during \ gone
      /\ \A w \in Receipts : states'[w].during = states[w].during \ gone
  BY ConfigAssumption DEF AgesSnapshots, AgesRows, RowStays, Keys
<1>3. Shapes'
  BY <1>1, <1>2 DEF SnapshotShape, StateShape, TaskShape, Shapes
<1>4. HeadGlobal'
  <2>1. There(head) => There(head)'
    BY <1>1, <1>2 DEF HeadGlobal, There
  <2> QED BY <1>1, <1>2, <2>1 DEF HeadGlobal
<1>5. Rows'
  BY <1>1, <1>2 DEF Rows, RowStays
<1>6. ASSUME NEW u \in Tasks, u \in gone PROVE HeadTask(u)' /\ PinTask(u)' /\ JobTask(u)'
  <2>1. task'[u].step \in {"over", "idle"} /\ task'[u].then = "idle" /\ task'[u].for = None /\ task'[u].removable = {}
    BY <1>6
  <2> QED BY <1>1, <2>1 DEF HeadTask, PinTask, WillPin, JobTask, WillReserve
<1>7. ASSUME NEW u \in Tasks, u \notin gone PROVE HeadTask(u)' /\ PinTask(u)' /\ JobTask(u)'
  <2>1. HeadTask(u) /\ PinTask(u) /\ task'[u] = task[u]
    BY <1>1, <1>7 DEF Heads, Pins
  <2>2. HeadTask(u)'
    <3>1. task[u].step \in Waiting => \A v \in Tasks : Home[v] = Home[u] /\ task'[v].step \in Waiting => v = u
      BY <2>1 DEF HeadTask
    <3>2. head <= head' /\ \A i \in Instances : current[i] <= current'[i]
      <4>1. head \in Nat /\ \A i \in Instances : current[i] \in Nat
        BY <1>1, RevisionsAre DEF HeadGlobal
      <4>2. \A n \in Nat : n <= n
        OBVIOUS
      <4> QED BY <4>1, <4>2
    <3>3. There(head) => There(head)'
      BY <1>1, <1>2 DEF HeadGlobal, There
    <3>4. \A r \in Revisions : There(r)' /\ u \notin snapshots'[r].during => There(r) /\ u \notin snapshots[r].during
      BY <1>2, <1>7
    <3>5. task[u].step \in Waiting => current'[Home[u]] = current[Home[u]]
      OBVIOUS
    <3> QED BY <1>1, <1>4, <2>1, <3>1, <3>2, <3>3, <3>4, <3>5, HeadBystander
  <2>3. PinTask(u)'
    <3>1. task[u].for \in Receipts => \A v \in Tasks : task'[v].for = task[u].for => v = u
      BY <1>1, <2>1 DEF PinTask
    <3>2. task[u].step = "accept" => task[u].for \in Receipts /\ RowStays(task[u].for) /\ StaysYoung(task[u].for) /\ NotListed(task[u].for)'
      <4>1. CASE task[u].step # "accept"
        BY <4>1
      <4>2. CASE task[u].step = "accept"
        <5>1. PICK w \in Receipts : w = task[u].for /\ NotListed(w)
          BY <2>1, <4>2 DEF PinTask
        <5>2. NotListed(w)' /\ task'[u].for = w
          BY <2>1, <5>1 DEF NotListed
        <5>3. RowStays(w) /\ StaysYoung(w)
          BY <1>2 DEF StaysYoung, Keys
        <5> QED BY <5>1, <5>2, <5>3
      <4> QED BY <4>1, <4>2
    <3>3. receipts'[task[u].for] = receipts[task[u].for]
      OBVIOUS
    <3> QED BY <2>1, <3>1, <3>2, <3>3, PinBystander
  <2>4. JobTask(u)'
    <3>1. \A j \in Jobs : JobMoves(j)
      BY <1>1, <1>2, SameMoves DEF JobsSame, Keys
    <3> QED BY <1>1, <2>1, <3>1, JobTaskKept
  <2> QED BY <2>2, <2>3, <2>4
<1>8. ASSUME NEW w \in Receipts PROVE PinOf(w)'
  <2>1. PinOf(w) /\ RowStays(w)
    BY <1>1, <1>2 DEF Pins, Keys
  <2>2. NotListed(w) => NotListed(w)'
    BY DEF NotListed
  <2>3. ASSUME receipts[w].state = "live", NEW c \in Tasks PROVE Respected(w, c)'
    <3>1. Respected(w, c)
      BY <2>1, <2>3 DEF PinOf
    <3> QED BY <3>1 DEF Respected
  <2> QED BY <2>1, <2>2, <2>3 DEF PinOf, RowStays
<1>9. JobStates' /\ \A j \in Jobs : JobOf(j)'
  BY <1>1, <1>2 DEF LedgerKept, JobStates, JobOf, RowStays, Keys
<1> QED BY <1>3, <1>4, <1>5, <1>6, <1>7, <1>8, <1>9 DEF InductiveInvariant, Heads, Pins, LedgerKept

LEMMA ReturnKeeps ==
    ASSUME InductiveInvariant, NEW t \in Tasks, Return(t), UNCHANGED ledgerVars
    PROVE  InductiveInvariant'
<1>1. PICK step : Rests(t, step) /\ step \in {"over", "idle"}
  BY ReturnIs DEF InductiveInvariant
<1>2. UNCHANGED <<head, Rest>> /\ AgesSnapshots({t}) /\ AgesRows({t})
  BY ReturnIs DEF InductiveInvariant
<1>3. /\ TaskShape' /\ \A u \in Tasks : u \notin {t} => task'[u] = task[u]
      /\ task'[t].step \in {"over", "idle"} /\ task'[t].then = "idle" /\ task'[t].for = None /\ task'[t].removable = {}
  BY <1>1 DEF Rests, Moves, Others, Fields
<1> QED BY <1>2, <1>3, GoneKeeps DEF Rest

LEMMA CrashKeeps ==
    ASSUME InductiveInvariant, NEW i \in Instances, Crash(i)
    PROVE  InductiveInvariant'
<1> DEFINE mine == {t \in Tasks : Home[t] = i}
<1>1. /\ TaskShape' /\ UNCHANGED <<head, current, receipts, jobs, confirmed>>
      /\ \A t \in Tasks : task'[t] = IF t \in mine THEN Over(t) ELSE task[t]
      /\ AgesSnapshots(mine) /\ AgesRows(mine)
  BY LostIs DEF InductiveInvariant, Crash
<1> HIDE DEF mine
<1> QED BY <1>1, OverIs, GoneKeeps

-----------------------------------------------------------------------------
LEMMA RetentionStarts ==
    ASSUME Init
    PROVE  InductiveInvariant
<1>1. /\ head = 1 /\ task = [t \in Tasks |-> Resting] /\ current = [i \in Instances |-> 1]
      /\ snapshots = [r \in Revisions |-> [NoSnapshot EXCEPT !.there = (r = 1)]]
      /\ receipts = [w \in Receipts |-> [state |-> "none", rev |-> None]]
      /\ jobs = [j \in Jobs |-> "none"] /\ confirmed = [j \in Jobs |-> FALSE]
      /\ states = [k \in Keys |-> IF k \in Instances
                                  THEN [NoRow EXCEPT !.ver = 1, !.rev = 1, !.value = "alive", !.by = k] ELSE NoRow]
  BY DEF Init, ConfigInit, RuntimeInit, LedgerInit
<1>2. \A t \in Tasks : /\ DOMAIN task[t] = TaskFields /\ task[t].step = "idle" /\ task[t].then = "idle" /\ task[t].for = None
                       /\ task[t].removable = {}
  BY <1>1 DEF Resting, TaskFields
<1>3. \A r \in Revisions : DOMAIN snapshots[r] = {"there", "during"} /\ (There(r) <=> r = 1) /\ There(r) \in BOOLEAN
  <2>1. ASSUME NEW r \in Revisions
        PROVE  DOMAIN snapshots[r] = {"there", "during"} /\ There(r) = (r = 1)
    BY <1>1 DEF NoSnapshot, There
  <2> QED BY <2>1
<1>4. \A k \in Keys : DOMAIN states[k] = RowFields
  BY <1>1 DEF NoRow, RowFields
<1>5. \A k \in Instances : states[k].rev = 1
  BY <1>1 DEF NoRow, Keys
<1>6. \A k \in Receipts \cup Jobs : states[k].ver = 0 /\ states[k].rev = None /\ states[k].value = "none"
  BY <1>1, ConfigAssumption DEF NoRow, Keys
<1>7. Shapes
  BY <1>1, <1>2, <1>3, <1>4 DEF Shapes
<1>8. Heads
  <2>1. 1 \in Revisions
    BY ConfigAssumption
  <2>2. HeadGlobal
    <3>1. head \in Revisions /\ There(head)
      BY <1>1, <1>3, <2>1
    <3>4. head = 1 /\ 1 <= 1 /\ (\A i \in Instances : current[i] = 1)
      <4>1. head = 1
        BY DEF Init, ConfigInit
      <4>2. \A i \in Instances : current[i] = 1
        BY DEF Init, RuntimeInit
      <4>3. 1 <= 1
        OBVIOUS
      <4> QED BY <4>1, <4>2, <4>3
    <3>2. \A i \in Instances : current[i] \in Revisions /\ current[i] <= head
      BY <3>4, <2>1
    <3>3. \A r \in Revisions : There(r) => r <= head
      BY <3>4, <1>3
    <3> QED BY <3>1, <3>2, <3>3 DEF HeadGlobal
  <2>3. ASSUME NEW t \in Tasks PROVE HeadTask(t)
    BY <1>2 DEF HeadTask
  <2> QED BY <2>2, <2>3 DEF Heads
<1>9. Rows
  BY <1>3, <1>5, <1>6, ConfigAssumption DEF Rows, Keys
<1>10. Pins
  <2>1. None \notin Receipts
    BY ConfigAssumption
  <2>2. ASSUME NEW w \in Receipts PROVE PinOf(w)
    BY <1>1, <1>2, <1>6 DEF PinOf, NotListed
  <2>3. ASSUME NEW t \in Tasks PROVE PinTask(t)
    BY <1>2, <2>1 DEF PinTask, WillPin
  <2> QED BY <2>2, <2>3 DEF Pins
<1>11. LedgerKept
  <2>1. ASSUME NEW j \in Jobs PROVE JobOf(j) /\ jobs[j] \in {"none", "live", "completed"}
    <3>1. states[j].ver = 0 /\ states[j].rev = None /\ states[j].value = "none" /\ jobs[j] = "none"
      BY <1>1, <1>6
    <3>2. ~confirmed[j]
      BY <1>1
    <3> QED BY <3>1, <3>2 DEF JobOf
  <2>2. ASSUME NEW t \in Tasks PROVE JobTask(t)
    BY <1>2 DEF JobTask, WillReserve
  <2> QED BY <2>1, <2>2 DEF LedgerKept, JobStates
<1> QED BY <1>7, <1>8, <1>9, <1>10, <1>11 DEF InductiveInvariant

LEMMA StutterKeeps ==
    ASSUME InductiveInvariant, UNCHANGED vars
    PROVE  InductiveInvariant'
<1>1. UNCHANGED <<head, snapshots, states, current, alive, task, receipts, jobs, confirmed>>
  BY DEF vars, configVars, runtimeVars, ledgerVars
<1>2. Shapes' /\ Heads' /\ Rows'
  BY <1>1 DEF InductiveInvariant, Shapes, There, Heads, HeadGlobal, HeadTask, NothingNewerIsOld, Rows
<1>3. Pins' /\ LedgerKept'
  BY <1>1 DEF InductiveInvariant, Pins, PinOf, PinTask, WillPin, NotListed, Respected, LedgerKept, JobStates, JobOf, JobTask, WillReserve, EntryOf
<1> QED BY <1>2, <1>3 DEF InductiveInvariant

LEMMA RetentionKeeps ==
    ASSUME InductiveInvariant, [Next]_vars
    PROVE  InductiveInvariant'
<1>1. CASE UNCHANGED vars
  BY <1>1, StutterKeeps
<1>2. CASE Publish \/ PublishSnapshot
  BY <1>2, PublishKeeps, PublishSnapshotKeeps
<1>3. CASE Work
  BY <1>3, CompleteReceiptKeeps, RetryReceiptKeeps, CompleteJobKeeps DEF Work
<1>4. ASSUME NEW t \in Requests, Request(t), UNCHANGED ledgerVars PROVE InductiveInvariant'
  <2>1. t \in Tasks
    BY SnapshotAssumption
  <2> QED BY <1>4, <2>1, StartRefreshKeeps, StartAcceptKeeps, StartEnqueueKeeps DEF Request
<1>5. ASSUME NEW t \in Collectors, StartRefresh(t), UNCHANGED ledgerVars PROVE InductiveInvariant'
  BY <1>5, StartRefreshKeeps DEF Collectors
<1>6. ASSUME NEW t \in Tasks, Steps(t) PROVE InductiveInvariant'
  <2>1. CASE Return(t) /\ UNCHANGED ledgerVars
    BY <2>1, ReturnKeeps
  <2>2. CASE Admission(t) /\ UNCHANGED ledgerVars
    BY <2>2, ReadHeadKeeps, EnsureSnapshotKeeps, AdoptKeeps, AdoptFailsKeeps DEF Admission
  <2>3. CASE Pinned(t) /\ UNCHANGED ledgerVars
    BY <2>3, BeginPinKeeps, AcceptReceiptKeeps, EndPinKeeps DEF Pinned
  <2>4. CASE Sweep(t) /\ UNCHANGED ledgerVars
    BY <2>4, HeartbeatKeeps, ListStatesKeeps, PollReceiptsKeeps, RemoveRowKeeps, ListCandidatesKeeps, DeleteNextKeeps DEF Sweep
  <2>5. CASE Ledgers(t)
    BY <2>5, FindJobKeeps, ReserveKeeps, EnqueueJobKeeps, ConfirmKeeps, ListLedgerKeeps, AskJobKeeps, RetireRowKeeps DEF Ledgers
  <2> QED BY <1>6, <2>1, <2>2, <2>3, <2>4, <2>5 DEF Steps
<1>7. ASSUME NEW i \in Instances, Crash(i) PROVE InductiveInvariant'
  BY <1>7, CrashKeeps
<1> QED BY <1>1, <1>2, <1>3, <1>4, <1>5, <1>6, <1>7 DEF Next

\* The argument about heads, rows, pins and the ledger holds in every state that
\* the instances of runtime-config.ts can reach, whatever is lost or collected.
THEOREM RetentionInvariant == Spec => []InductiveInvariant
BY RetentionStarts, RetentionKeeps, PTL DEF Spec

\* Accepted work that is not done finds its snapshot, also while other work is armed
\* again: the pin of a receipt stays and refers to it, the row of a confirmed job is
\* not retired while the job is live.  Work that was armed again itself has no pin,
\* and no such theorem.
THEOREM LiveWorkIsKept == Spec => []LiveWorkKeepsSnapshot
<1>1. ASSUME InductiveInvariant PROVE LiveWorkKeepsSnapshot
  <2>1. ASSUME NEW w \in Receipts, receipts[w].state = "live" PROVE There(receipts[w].rev)
    <3>1. receipts[w].rev \in Revisions /\ states[w].rev = receipts[w].rev
      BY <1>1, <2>1 DEF InductiveInvariant, Pins, PinOf
    <3> QED BY <1>1, <3>1, RevisionsAre DEF InductiveInvariant, Rows, Keys
  <2>2. ASSUME NEW j \in Jobs, confirmed[j], jobs[j] = "live" PROVE states[j].of # None /\ There(states[j].of)
    <3>1. states[j].rev # None /\ states[j].of = states[j].rev
      BY <1>1, <2>2 DEF InductiveInvariant, LedgerKept, JobOf
    <3> QED BY <1>1, <3>1 DEF InductiveInvariant, Rows, Keys
  <2> QED BY <2>1, <2>2 DEF LiveWorkKeepsSnapshot
<1> QED BY <1>1, RetentionInvariant, PTL

AliveInstances == alive \subseteq Instances

\* A process that was lost does not come back.
LEMMA NobodyComesBack ==
    ASSUME [Next]_vars
    PROVE  alive' \subseteq alive
<1>1. CASE UNCHANGED vars \/ Publish \/ PublishSnapshot \/ Work
  BY <1>1 DEF vars, runtimeVars, Publish, PublishSnapshot, Work, CompleteReceipt, RetryReceipt, CompleteJob
<1>2. ASSUME NEW t, StartRefresh(t) \/ Request(t) PROVE alive' \subseteq alive
  BY <1>2 DEF StartRefresh, Request, StartAccept, StartEnqueue, StartWith, NothingElse
<1>3. ASSUME NEW t, Return(t) \/ Admission(t) PROVE alive' \subseteq alive
  BY <1>3 DEF Return, Admission, ReadHead, EnsureSnapshot, Adopt, AdoptFails, NothingElse
<1>4. ASSUME NEW t, Pinned(t) PROVE alive' \subseteq alive
  BY <1>4 DEF Pinned, BeginPin, AcceptReceipt, EndPin, NothingElse
<1>5. ASSUME NEW t, Sweep(t) PROVE alive' \subseteq alive
  BY <1>5 DEF Sweep, Heartbeat, ListStates, PollReceipts, RemoveRow, ListCandidates, DeleteNext, NothingElse
<1>6. ASSUME NEW t, Ledgers(t) PROVE alive' \subseteq alive
  BY <1>6 DEF Ledgers, FindJob, Reserve, EnqueueJob, Confirm, ListLedger, AskJob, RetireRow, NothingRuns
<1>7. ASSUME NEW i \in Instances, Crash(i) PROVE alive' \subseteq alive
  BY <1>7 DEF Crash, Lost
<1> QED BY <1>1, <1>2, <1>3, <1>4, <1>5, <1>6, <1>7 DEF Next, Steps

\* The snapshot of the active revision is there for every instance that has adopted
\* it, also before a row refers to it: a collection only lists what is older.
THEOREM ActiveHeadIsThere == Spec => []ActiveHeadCanAccept
<1>1. ASSUME InductiveInvariant, AliveInstances PROVE ActiveHeadCanAccept
  <2>1. \A i \in Instances : current[i] = head => There(head)
    BY <1>1 DEF InductiveInvariant, Heads, HeadGlobal
  <2> QED BY <1>1, <2>1 DEF ActiveHeadCanAccept, AliveInstances
<1>2. Init => AliveInstances
  BY DEF Init, RuntimeInit, AliveInstances
<1>3. AliveInstances /\ [Next]_vars => AliveInstances'
  BY NobodyComesBack DEF AliveInstances
<1> QED BY <1>1, <1>2, <1>3, RetentionInvariant, PTL DEF Spec
===============================================================================
