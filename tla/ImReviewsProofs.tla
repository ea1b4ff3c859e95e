---------------------------- MODULE ImReviewsProofs ----------------------------
(***************************************************************************)
(* Reviews asked for in a chat: their safety properties for every number   *)
(* of requests, drives, senders and troubles.                              *)
(*                                                                         *)
(* A drive acts on what it read earlier; only the fence of its claim keeps *)
(* it from writing, and nothing keeps it from sending.  So the invariant   *)
(* says for a request what every drive of it may still do, whether or not  *)
(* it holds the claim: ReviewOK for the worker, ReplyOK for the senders.   *)
(***************************************************************************)
EXTENDS ImReviews, TLAPS

RowType == [state : OpenStates \cup FinalStates \cup {"none"},
            by : Claimants \cup {None}, lease : Leases, due : BOOLEAN, resolved : BOOLEAN,
            attempts : Nat, op : {"none", "unknown", "confirmed", "rejected"},
            via : Strategies \cup {None}]
ReplyType == [state : {"none", "pending", "delivering", "sending", "delivered", "unknown", "dropped"},
              by : Claimants \cup {None}, lease : Leases, attempts : Nat, tells : FinalStates \cup {None}]
DriveType == [step : Steps, r : Requests \cup {None}, resume : BOOLEAN, aborted : BOOLEAN,
              final : FinalStates \cup {None}, via : Strategies \cup {None}]
SenderType == [step : {"idle", "sending", "delivered", "unknown", "refused"},
               todo : SUBSET Requests, now : Requests \cup {None}]

Types ==
    /\ requests \in [Requests -> RowType] /\ outbox \in [Requests -> ReplyType]
    /\ activeTarget \in Requests \cup {None} /\ consumed \in Requests \cup {None}
    /\ inbox \in [Deliveries -> Requests \cup {None}]
    /\ drive \in [Slots -> DriveType]
    /\ written \in [Requests -> Nat] /\ told \in [Requests -> Nat]
    /\ sender \in [Senders -> SenderType]

-----------------------------------------------------------------------------
(* What a row, a drive of it and the provider agree on. *)

NoDuplicates == "feishu_uuid"   \* the provider removes them
AtWrite == {"send", "answered", "refused"}
Writes(d) == d.step \in AtWrite

\* What a success may rest on: no write at all, or one that is known.
RestsOn(op) == op \in {"none", "confirmed"}

RowOK(row, w) ==
    /\ w \in {0, 1}
    /\ row.by # None => row.state \in OpenStates
    /\ row.state \in {"none", "accepted", "validating", "queued", "running", "retry_wait"}
          => row.op = "none" /\ w = 0
    /\ row.state \in FinalStates => row.via = None /\ RestsOn(row.op)
    /\ row.op = "none" => row.via = None /\ (row.state \in OpenStates \cup {"succeeded"} => w = 0)
    /\ row.op # "none" /\ row.state \in OpenStates => row.via \in Strategies
    /\ row.op = "confirmed" => w = 1
    /\ row.op = "rejected" /\ row.via # NoDuplicates => w = 0

\* A drive of the request, whoever has the claim.
DriveOK(d, row, w) ==
    /\ row.state # "none" /\ d.step # "idle"
    /\ d.step \in {"claimed", "validate", "resolve", "start"} => ~d.resume
    /\ d.step \in {"send", "refused"} /\ d.via # NoDuplicates => w = 0
    /\ d.step = "answered" => w = 1
    /\ d.step = "finish" => d.final # None
    /\ Writes(d) /\ row.state = "succeeded" => row.op # "none"
    /\ Writes(d) /\ row.state \in OpenStates =>
          /\ row.op # "none" /\ row.via = d.via
          /\ d.via # NoDuplicates => row.op \in {"unknown", "confirmed"}

\* The drive that has the claim.
OwnerOK(d, row) ==
    /\ d.step \in {"validate", "resolve"} => row.state \notin {"running", "publishing"}
    /\ d.step = "permit" /\ d.resume => row.state = "publishing"
    /\ d.step \in {"permit", "start"} /\ ~d.resume => row.state \notin {"running", "publishing"}
    /\ d.step = "analyse" => row.state = "running"
    /\ d.step = "publish" \/ Writes(d) => row.state = "publishing"
    /\ d.step = "finish" /\ d.final = "succeeded" => RestsOn(row.op)

ReviewOK(r) ==
    /\ RowOK(requests[r], written[r])
    /\ \A s \in Slots : drive[s].r = r =>
          /\ DriveOK(drive[s], requests[r], written[r])
          /\ Holds(r, s) => OwnerOK(drive[s], requests[r])
    /\ \A s, q \in Slots :
          /\ drive[s].r = r /\ drive[q].r = r /\ Writes(drive[s]) /\ Writes(drive[q])
          /\ drive[s].via # NoDuplicates
          => s = q

IdleOK == \A s \in Slots : drive[s].r = None => drive[s].step = "idle"

-----------------------------------------------------------------------------
(* What a reply and the senders that had it agree on. *)

Unsent == {"none", "pending", "delivering"}

ReplyOK(r) ==
    /\ told[r] \in {0, 1}
    /\ outbox[r].state \in Unsent => told[r] = 0
    /\ outbox[r].state = "none" <=> outbox[r].tells = None
    /\ outbox[r].tells # None => Final(r) /\ outbox[r].tells = requests[r].state
    /\ \A x \in Senders :
          /\ r \in sender[x].todo => outbox[r].state # "none"
          /\ r \in sender[x].todo /\ outbox[r].by = x => outbox[r].state # "sending"
          /\ sender[x].now = r => outbox[r].state \notin Unsent
          /\ sender[x].now = r /\ sender[x].step \in {"sending", "refused"} => told[r] = 0
    /\ \A x, y \in Senders : sender[x].now = r /\ sender[y].now = r => x = y

RestingOK == \A x \in Senders : sender[x].step = "idle" <=> sender[x].now = None

-----------------------------------------------------------------------------
TargetOK ==
    /\ \A r \in Requests : Open(r) <=> activeTarget = r
    /\ \A d \in Presses : inbox[d] # None => inbox[d] = consumed

SafeInv ==
    /\ Types /\ TargetOK /\ IdleOK /\ RestingOK
    /\ \A r \in Requests : ReviewOK(r) /\ ReplyOK(r)

-----------------------------------------------------------------------------
(* Facts about states, rows and drives. *)

LEMMA StatesApart ==
    /\ OpenStates \cap FinalStates = {}
    /\ "none" \notin OpenStates /\ "none" \notin FinalStates
    /\ "accepted" \in OpenStates /\ "publishing" \in OpenStates
    /\ "none" \notin AtWrite /\ "idle" \notin AtWrite /\ "finish" \notin AtWrite
BY DEF OpenStates, FinalStates, AtWrite

LEMMA SpecialRows ==
    /\ NoRequest \in RowType /\ NoReply \in ReplyType
    /\ Idle \in DriveType /\ Resting \in SenderType
    /\ \A row \in RowType, final \in FinalStates :
          /\ Ended(row, final) \in RowType
          /\ Ended(row, final).state = final /\ Ended(row, final).by = None
          /\ Ended(row, final).op = IF final = "succeeded" THEN row.op ELSE "none"
          /\ Ended(row, final).via = None
<1>1. /\ NoRequest \in RowType /\ NoReply \in ReplyType
      /\ Idle \in DriveType /\ Resting \in SenderType
  BY ImAssumption, OutcomeAssumption
     DEF NoRequest, NoReply, RowType, ReplyType, DriveType, SenderType, Idle, Resting,
         OpenStates, FinalStates, Leases, Steps
<1>2. ASSUME NEW row \in RowType, NEW final \in FinalStates
      PROVE  /\ Ended(row, final) \in RowType
             /\ Ended(row, final).state = final /\ Ended(row, final).by = None
             /\ Ended(row, final).op = IF final = "succeeded" THEN row.op ELSE "none"
             /\ Ended(row, final).via = None
  <2> DEFINE op == IF final = "succeeded" THEN row.op ELSE "none"
  <2>1. op \in {"none", "unknown", "confirmed", "rejected"}
    BY DEF RowType
  <2>2. Ended(row, final) = [NoRequest EXCEPT !.state = final, !.op = op]
    BY DEF Ended
  <2> HIDE DEF op
  <2>3. /\ Ended(row, final) \in RowType
        /\ Ended(row, final).state = final /\ Ended(row, final).by = None
        /\ Ended(row, final).op = op /\ Ended(row, final).via = None
    <3>1. NoRequest.by = None /\ NoRequest.via = None
      BY DEF NoRequest
    <3> QED BY <1>1, <2>1, <2>2, <3>1 DEF RowType
  <2> QED BY <2>3 DEF op
<1> QED BY <1>1, <1>2

\* The drive in a busy slot has a request, and its row has the type of a row.
LEMMA BusyDrive ==
    ASSUME Types, IdleOK, NEW s \in Slots, drive[s].step # "idle"
    PROVE  /\ drive[s] \in DriveType /\ drive[s].r \in Requests
           /\ Row(s) \in RowType /\ Row(s) = requests[drive[s].r]
BY ImAssumption DEF Types, IdleOK, DriveType, Row

\* The conditions under which the step of one drive s of r leaves everything well:
\* it becomes d, the row becomes row and the provider has w messages.
MovesWell(s, r, d, row, w) ==
    /\ d.r = r \/ (d.r = None /\ d.step = "idle")
    /\ RowOK(row, w)
    /\ d.r = r => DriveOK(d, row, w) /\ (row.by = s => OwnerOK(d, row))
    /\ \A q \in Slots : q # s /\ drive[q].r = r =>
          /\ DriveOK(drive[q], row, w)
          /\ row.by = q => OwnerOK(drive[q], row)
          /\ d.r = r /\ Writes(d) /\ Writes(drive[q]) =>
                d.via = NoDuplicates /\ drive[q].via = NoDuplicates

ReviewsOK == IdleOK /\ \A r \in Requests : ReviewOK(r)

LEMMA MoveKeepsReview ==
    ASSUME Types, ReviewsOK,
           NEW s \in Slots, NEW r \in Requests, NEW d \in DriveType, NEW row \in RowType, NEW w \in Nat,
           drive[s].r \in {r, None},
           drive' = [drive EXCEPT ![s] = d],
           requests' = [requests EXCEPT ![r] = row],
           written' = [written EXCEPT ![r] = w],
           MovesWell(s, r, d, row, w)
    PROVE  /\ drive' \in [Slots -> DriveType] /\ requests' \in [Requests -> RowType]
           /\ written' \in [Requests -> Nat]
           /\ ReviewsOK'
<1> USE DEF MovesWell, ReviewsOK
<1>1. /\ drive' \in [Slots -> DriveType] /\ requests' \in [Requests -> RowType]
      /\ written' \in [Requests -> Nat]
      /\ drive'[s] = d /\ \A q \in Slots : q # s => drive'[q] = drive[q]
      /\ requests'[r] = row /\ \A q \in Requests : q # r => requests'[q] = requests[q]
      /\ written'[r] = w /\ \A q \in Requests : q # r => written'[q] = written[q]
  BY DEF Types
<1>2. IdleOK'
  BY <1>1, ImAssumption DEF IdleOK
<1>3. ASSUME NEW q \in Requests, q # r PROVE ReviewOK(q)'
  <2>1. drive'[s].r # q
    BY <1>1, <1>3, ImAssumption
  <2>2. \A p \in Slots : drive'[p].r = q => p # s /\ drive'[p] = drive[p]
    BY <1>1, <2>1
  <2>3. ReviewOK(q)
    OBVIOUS
  <2> QED BY <1>1, <1>3, <2>2, <2>3 DEF ReviewOK, Holds
<1>4. ReviewOK(r)'
  <2>1. ReviewOK(r)
    OBVIOUS
  <2>2. RowOK(requests'[r], written'[r])
    BY <1>1
  <2>3. ASSUME NEW p \in Slots, drive'[p].r = r
        PROVE  /\ DriveOK(drive'[p], requests'[r], written'[r])
               /\ requests'[r].by = p => OwnerOK(drive'[p], requests'[r])
    BY <1>1, <2>3
  <2>4. ASSUME NEW p \in Slots, NEW q \in Slots, drive'[p].r = r, drive'[q].r = r,
               Writes(drive'[p]), Writes(drive'[q]), drive'[p].via # NoDuplicates
        PROVE  p = q
    BY <1>1, <2>1, <2>4 DEF ReviewOK
  <2> QED BY <2>2, <2>3, <2>4 DEF ReviewOK, Holds
<1> QED BY <1>1, <1>2, <1>3, <1>4

-----------------------------------------------------------------------------
(* The tables of the store. *)

OutcomeKept == \A r \in Requests : Final(r) =>
                  /\ requests'[r].state = requests[r].state
                  /\ outbox'[r].tells = outbox[r].tells

\* A sound step keeps the invariant and no outcome changes.
Sound == SafeInv' /\ OutcomeKept

\* A step of the tables that ends no request.
LEMMA QuietTables ==
    ASSUME SafeInv, UNCHANGED <<activeTarget, inbox, consumed, outbox>>, UNCHANGED replyVars,
           \A r \in Requests : /\ requests'[r].state \in OpenStates <=> Open(r)
                               /\ Final(r) => requests'[r].state = requests[r].state
    PROVE  /\ TargetOK' /\ RestingOK' /\ OutcomeKept
           /\ \A r \in Requests : ReplyOK(r)'
<1>1. TargetOK' /\ RestingOK'
  BY DEF SafeInv, TargetOK, RestingOK, Open, replyVars
<1>2. OutcomeKept
  BY DEF OutcomeKept
<1>3. ASSUME NEW r \in Requests PROVE ReplyOK(r)'
  <2>1. ReplyOK(r)
    BY DEF SafeInv
  <2> QED BY <2>1 DEF ReplyOK, Final, replyVars
<1> QED BY <1>1, <1>2, <1>3

\* A request that is open ends.  Nothing was told of it, and no sender knows it.
LEMMA EndTables ==
    ASSUME SafeInv, NEW r \in Requests, Open(r), NEW final \in FinalStates, NEW tells,
           End(r, final, tells), UNCHANGED replyVars
    PROVE  /\ TargetOK' /\ RestingOK' /\ OutcomeKept
           /\ requests' = [requests EXCEPT ![r] = Ended(requests[r], final)]
           /\ activeTarget' \in Requests \cup {None} /\ outbox' \in [Requests -> ReplyType]
           /\ \A q \in Requests : ReplyOK(q)'
<1> USE DEF End
<1>1. Types /\ TargetOK /\ RestingOK /\ \A q \in Requests : ReplyOK(q)
  BY DEF SafeInv
<1>2. /\ requests[r] \in RowType
      /\ requests' = [requests EXCEPT ![r] = Ended(requests[r], final)]
      /\ requests'[r] = Ended(requests[r], final)
      /\ \A q \in Requests : q # r => requests'[q] = requests[q]
  BY <1>1 DEF Types
<1> DEFINE reply == [NoReply EXCEPT !.state = "pending", !.tells = final]
<1>3. /\ reply \in ReplyType /\ reply.state = "pending" /\ reply.tells = final /\ reply.by = None
  BY ImAssumption DEF ReplyType, NoReply, Leases
<1>4. /\ outbox' \in [Requests -> ReplyType]
      /\ outbox'[r] \in {outbox[r], reply}
      /\ \A q \in Requests : q # r => outbox'[q] = outbox[q]
  BY <1>1, <1>3 DEF Types
<1>5. ~Final(r)
  BY StatesApart DEF Open, Final
<1>6. OutcomeKept
  BY <1>2, <1>4, <1>5 DEF OutcomeKept, Final
<1>7. TargetOK'
  <2>1. activeTarget = r /\ activeTarget' = None /\ UNCHANGED <<inbox, consumed>>
    BY <1>1 DEF TargetOK
  <2>2. Ended(requests[r], final).state \notin OpenStates
    BY <1>2, SpecialRows, StatesApart
  <2> QED BY <1>1, <1>2, <2>1, <2>2, ImAssumption DEF TargetOK, Open
<1>8. ASSUME NEW q \in Requests, q # r PROVE ReplyOK(q)'
  <2>1. ReplyOK(q)
    BY <1>1
  <2> QED BY <1>2, <1>4, <1>8, <2>1 DEF ReplyOK, Final, replyVars
<1>9. ReplyOK(r)'
  <2>1. ReplyOK(r)
    BY <1>1
  <2>2. outbox[r].tells = None /\ outbox[r].state = "none" /\ told[r] = 0
    BY <1>5, <2>1 DEF ReplyOK, Unsent
  <2>3. \A x \in Senders : r \notin sender[x].todo /\ sender[x].now # r
    BY <2>1, <2>2 DEF ReplyOK, Unsent
  <2>4. Final(r)' /\ requests'[r].state = final
    BY <1>2, SpecialRows DEF Final
  <2>5. final # None
    BY OutcomeAssumption
  <2>6. outbox'[r].state \in Unsent /\ told'[r] = 0 /\ sender' = sender
    BY <1>3, <1>4, <2>2 DEF Unsent, replyVars
  <2>7. CASE outbox'[r] = reply
    BY <1>3, <2>3, <2>4, <2>5, <2>6, <2>7 DEF ReplyOK
  <2>8. CASE outbox'[r] = outbox[r]
    BY <2>2, <2>3, <2>4, <2>6, <2>8 DEF ReplyOK
  <2> QED BY <1>4, <2>7, <2>8
<1>10. RestingOK' /\ activeTarget' \in Requests \cup {None}
  BY <1>1 DEF RestingOK, replyVars, Types
<1> QED BY <1>2, <1>4, <1>6, <1>7, <1>8, <1>9, <1>10

-----------------------------------------------------------------------------
(* The kinds of steps a drive takes. *)

\* It writes its row, under its claim, and the request stays open.
LEMMA ClaimantWrites ==
    ASSUME SafeInv, NEW s \in Slots, NEW r \in Requests, NEW d \in DriveType, NEW row \in RowType,
           drive[s].r \in {r, None}, d.r = r \/ (d.r = None /\ d.step = "idle"),
           Open(r), row.state \in OpenStates, row.by = s,
           requests' = [requests EXCEPT ![r] = row],
           UNCHANGED <<activeTarget, inbox, consumed, outbox, written>>, UNCHANGED replyVars,
           drive' = [drive EXCEPT ![s] = d],
           RowOK(row, written[r]),
           d.r = r => DriveOK(d, row, written[r]) /\ OwnerOK(d, row),
           \A q \in Slots : q # s /\ drive[q].r = r =>
              /\ DriveOK(drive[q], row, written[r])
              /\ d.r = r /\ Writes(d) /\ Writes(drive[q]) =>
                    d.via = NoDuplicates /\ drive[q].via = NoDuplicates
    PROVE  Sound
<1>1. Types /\ ReviewsOK
  BY DEF SafeInv, ReviewsOK
<1>2. written[r] \in Nat /\ written' = [written EXCEPT ![r] = written[r]]
  BY <1>1 DEF Types
<1>3. MovesWell(s, r, d, row, written[r])
  BY DEF MovesWell
<1>4. /\ drive' \in [Slots -> DriveType] /\ requests' \in [Requests -> RowType]
      /\ written' \in [Requests -> Nat] /\ ReviewsOK'
  BY <1>1, <1>2, <1>3, MoveKeepsReview
<1>5. \A q \in Requests : /\ requests'[q].state \in OpenStates <=> Open(q)
                          /\ Final(q) => requests'[q].state = requests[q].state
  BY <1>1, StatesApart DEF Types, Open, Final
<1>6. /\ TargetOK' /\ RestingOK' /\ OutcomeKept
      /\ \A q \in Requests : ReplyOK(q)'
  BY <1>5, QuietTables
<1>7. Types'
  BY <1>1, <1>4 DEF Types, replyVars
<1> QED BY <1>4, <1>6, <1>7 DEF SafeInv, ReviewsOK, Sound

\* It writes no row; the provider may get its message.
LEMMA DriveMoves ==
    ASSUME SafeInv, NEW s \in Slots, drive[s].step # "idle", NEW d \in DriveType, NEW w \in {0, 1},
           d.r = drive[s].r \/ (d.r = None /\ d.step = "idle"),
           UNCHANGED imVars, UNCHANGED replyVars,
           drive' = [drive EXCEPT ![s] = d],
           written' = [written EXCEPT ![drive[s].r] = w],
           RowOK(Row(s), w),
           d.r = drive[s].r => DriveOK(d, Row(s), w) /\ (Owned(s) => OwnerOK(d, Row(s))),
           \A q \in Slots : q # s /\ drive[q].r = drive[s].r => DriveOK(drive[q], Row(s), w),
           Writes(d) => Writes(drive[s]) /\ d.via = drive[s].via
    PROVE  Sound
<1> DEFINE r == drive[s].r
<1>1. Types /\ ReviewsOK
  BY DEF SafeInv, ReviewsOK
<1>2. r \in Requests /\ Row(s) \in RowType /\ Row(s) = requests[r]
  BY <1>1, BusyDrive DEF ReviewsOK
<1>3. requests' = [requests EXCEPT ![r] = Row(s)] /\ w \in Nat
  BY <1>1, <1>2 DEF Types, imVars
<1>4. \A q \in Slots : q # s /\ drive[q].r = r =>
              /\ DriveOK(drive[q], Row(s), w)
              /\ Row(s).by = q => OwnerOK(drive[q], Row(s))
              /\ d.r = r /\ Writes(d) /\ Writes(drive[q]) =>
                    d.via = NoDuplicates /\ drive[q].via = NoDuplicates
  BY <1>1, <1>2 DEF ReviewsOK, ReviewOK, Holds
<1>5. d.r = r => DriveOK(d, Row(s), w) /\ (Row(s).by = s => OwnerOK(d, Row(s)))
  BY <1>2 DEF Holds, Owned
<1>6. /\ drive' \in [Slots -> DriveType] /\ requests' \in [Requests -> RowType]
      /\ written' \in [Requests -> Nat] /\ ReviewsOK'
  <2>1. MovesWell(s, r, d, Row(s), w)
    BY <1>4, <1>5 DEF MovesWell
  <2> QED BY <1>1, <1>2, <1>3, <2>1, MoveKeepsReview
<1>7. \A q \in Requests : /\ requests'[q].state \in OpenStates <=> Open(q)
                          /\ Final(q) => requests'[q].state = requests[q].state
  BY DEF Open, Final, imVars
<1>8. /\ TargetOK' /\ RestingOK' /\ OutcomeKept
      /\ \A q \in Requests : ReplyOK(q)'
  BY <1>7, QuietTables DEF imVars
<1>9. Types'
  BY <1>1, <1>6 DEF Types, replyVars, imVars
<1> QED BY <1>6, <1>8, <1>9 DEF SafeInv, ReviewsOK, Sound

\* A busy drive and what it knows.
LEMMA BusyOK ==
    ASSUME SafeInv, NEW s \in Slots, drive[s].step # "idle"
    PROVE  /\ drive[s] \in DriveType /\ drive[s].r \in Requests
           /\ Row(s) \in RowType /\ Row(s) = requests[drive[s].r]
           /\ written[drive[s].r] \in {0, 1}
           /\ written = [written EXCEPT ![drive[s].r] = written[drive[s].r]]
           /\ RowOK(Row(s), written[drive[s].r])
           /\ DriveOK(drive[s], Row(s), written[drive[s].r])
           /\ Owned(s) => OwnerOK(drive[s], Row(s)) /\ Row(s).by = s /\ Row(s).state \in OpenStates
           /\ \A q \in Slots : q # s /\ drive[q].r = drive[s].r =>
                 DriveOK(drive[q], Row(s), written[drive[s].r])
<1>1. Types /\ IdleOK
  BY DEF SafeInv
<1>2. /\ drive[s] \in DriveType /\ drive[s].r \in Requests
      /\ Row(s) \in RowType /\ Row(s) = requests[drive[s].r]
  BY <1>1, BusyDrive
<1>3. ReviewOK(drive[s].r)
  BY <1>2 DEF SafeInv
<1>4. /\ RowOK(Row(s), written[drive[s].r])
      /\ DriveOK(drive[s], Row(s), written[drive[s].r])
      /\ Owned(s) => OwnerOK(drive[s], Row(s)) /\ Row(s).by = s
      /\ \A q \in Slots : q # s /\ drive[q].r = drive[s].r =>
            DriveOK(drive[q], Row(s), written[drive[s].r])
  BY <1>2, <1>3 DEF ReviewOK, Holds, Owned
<1>5. Owned(s) => Row(s).state \in OpenStates
  BY <1>4, ReviewAssumption, ImAssumption DEF RowOK
<1>6. written[drive[s].r] \in {0, 1}
      /\ written = [written EXCEPT ![drive[s].r] = written[drive[s].r]]
  BY <1>1, <1>2, <1>4 DEF Types, RowOK
<1> QED BY <1>2, <1>4, <1>5, <1>6

\* It gives up.
LEMMA Leaves ==
    ASSUME SafeInv, NEW s \in Slots, drive[s].step # "idle",
           drive' = [drive EXCEPT ![s] = Idle],
           UNCHANGED imVars, UNCHANGED replyVars, UNCHANGED written
    PROVE  Sound
<1>1. Idle \in DriveType /\ Idle.r = None /\ Idle.step = "idle" /\ ~Writes(Idle)
  BY SpecialRows, StatesApart DEF Idle, Writes
<1>2. None # drive[s].r
  BY BusyOK, ImAssumption
<1> QED BY ZenonT(40), <1>1, <1>2, BusyOK, DriveMoves

\* It ends the request, unless it has lost the claim.
LEMMA Finishes ==
    ASSUME SafeInv, NEW s \in Slots, drive[s].step # "idle", NEW final \in FinalStates, NEW tells,
           final = "succeeded" /\ Owned(s) => RestsOn(Row(s).op),
           FinishAs(s, final, tells), UNCHANGED replyVars, UNCHANGED written
    PROVE  Sound
<1> DEFINE r == drive[s].r
           ended == Ended(requests[r], final)
<1>1. drive' = [drive EXCEPT ![s] = Idle] /\ Finish(r, s, final, tells)
  BY DEF FinishAs, Leave
<1>2. CASE ~(Holds(r, s) /\ Open(r))
  BY <1>1, <1>2, Leaves DEF Finish
<1>3. CASE Holds(r, s) /\ Open(r)
  <2>1. r \in Requests /\ End(r, final, tells)
    BY <1>1, <1>3, BusyOK DEF Finish
  <2>2. /\ TargetOK' /\ RestingOK' /\ OutcomeKept
        /\ requests' = [requests EXCEPT ![r] = ended]
        /\ activeTarget' \in Requests \cup {None} /\ outbox' \in [Requests -> ReplyType]
        /\ \A q \in Requests : ReplyOK(q)'
    <3> HIDE DEF r
    <3> QED BY <1>3, <2>1, EndTables
  <2>a. /\ ended \in RowType /\ ended.state = final /\ ended.by = None /\ ended.via = None
        /\ ended.op = IF final = "succeeded" THEN Row(s).op ELSE "none"
        /\ final = "succeeded" => RestsOn(Row(s).op)
        /\ Row(s).state \in OpenStates
    BY <1>3, SpecialRows, BusyOK DEF Owned
  <2> HIDE DEF ended
  <2>3. RowOK(ended, written[r])
    <3>1. written[r] \in {0, 1} /\ RowOK(Row(s), written[r])
      BY BusyOK
    <3>2. final \notin OpenStates \cup {"none"} /\ RestsOn("none")
      BY StatesApart DEF RestsOn
    <3> QED BY <2>a, <3>1, <3>2 DEF RowOK, RestsOn, OpenStates
  <2>4. \A q \in Slots : q # s /\ drive[q].r = r => DriveOK(drive[q], ended, written[r])
    <3>1. \A q \in Slots : q # s /\ drive[q].r = r => DriveOK(drive[q], Row(s), written[r])
      BY BusyOK
    <3>2. ended.state # "none" /\ ended.state \notin OpenStates
      BY <2>a, StatesApart
    <3> QED BY <2>a, <3>1, <3>2 DEF DriveOK
  <2>5. Idle \in DriveType /\ Idle.r = None /\ Idle.step = "idle" /\ r # None
    BY SpecialRows, BusyOK, ImAssumption DEF Idle
  <2>6. ended.by = None /\ \A q \in Slots : q # None
    BY <2>a, ImAssumption, ReviewAssumption
  <2>7. Types /\ ReviewsOK
    BY DEF SafeInv, ReviewsOK
  <2>8. ended \in RowType /\ written[r] \in Nat /\ written' = [written EXCEPT ![r] = written[r]]
    BY <2>a, <2>1, <2>7 DEF Types
  <2>9. /\ drive' \in [Slots -> DriveType] /\ requests' \in [Requests -> RowType]
        /\ written' \in [Requests -> Nat] /\ ReviewsOK'
    <3>1. MovesWell(s, r, Idle, ended, written[r])
      BY <2>3, <2>4, <2>5, <2>6 DEF MovesWell
    <3> QED BY <1>1, <2>1, <2>2, <2>5, <2>7, <2>8, <3>1, MoveKeepsReview
  <2>10. Types'
    BY <2>1, <2>2, <2>7, <2>9 DEF Types, End, replyVars
  <2> QED BY <2>2, <2>9, <2>10 DEF SafeInv, ReviewsOK, Sound
<1> QED BY <1>2, <1>3

\* It goes on, without a write and without a request to the provider.
LEMMA GoesOn ==
    ASSUME SafeInv, NEW s \in Slots, drive[s].step # "idle", NEW d \in DriveType,
           d.r = drive[s].r, d.step \notin {"idle", "finish"}, ~Writes(d),
           d.step \in {"claimed", "validate", "resolve", "start"} => ~d.resume,
           Owned(s) => OwnerOK(d, Row(s)),
           drive' = [drive EXCEPT ![s] = d],
           UNCHANGED imVars, UNCHANGED replyVars, UNCHANGED written
    PROVE  Sound
<1> DEFINE w == written[drive[s].r]
<1>1. /\ w \in {0, 1} /\ written = [written EXCEPT ![drive[s].r] = w]
      /\ RowOK(Row(s), w) /\ DriveOK(drive[s], Row(s), w)
      /\ \A q \in Slots : q # s /\ drive[q].r = drive[s].r => DriveOK(drive[q], Row(s), w)
  BY BusyOK
<1>2. DriveOK(d, Row(s), w)
  BY <1>1 DEF DriveOK, Writes, AtWrite
<1>3. written' = [written EXCEPT ![drive[s].r] = w]
  BY <1>1
<1> HIDE DEF w
<1> QED BY <1>1, <1>2, <1>3, DriveMoves

\* It has the result of the review.
LEMMA HasResult ==
    ASSUME SafeInv, NEW s \in Slots, drive[s].step # "idle", NEW final \in FinalStates,
           final = "succeeded" /\ Owned(s) => RestsOn(Row(s).op),
           Result(s, final), UNCHANGED imVars, UNCHANGED replyVars, UNCHANGED written
    PROVE  Sound
<1> DEFINE d == [drive[s] EXCEPT !.step = "finish", !.final = final, !.via = None]
           w == written[drive[s].r]
<1>1. drive[s] \in DriveType /\ drive \in [Slots -> DriveType]
  BY BusyOK DEF SafeInv, Types
<1>2. /\ d \in DriveType /\ d.r = drive[s].r /\ d.step = "finish" /\ d.final = final
      /\ drive' = [drive EXCEPT ![s] = d]
  BY <1>1 DEF DriveType, Steps, Result
<1> HIDE DEF d
<1>3. ~Writes(d) /\ final # None
  BY <1>2, OutcomeAssumption DEF Writes, AtWrite
<1>4. /\ w \in {0, 1} /\ written = [written EXCEPT ![drive[s].r] = w]
      /\ RowOK(Row(s), w) /\ DriveOK(drive[s], Row(s), w)
      /\ \A q \in Slots : q # s /\ drive[q].r = drive[s].r => DriveOK(drive[q], Row(s), w)
  BY BusyOK
<1>5. DriveOK(d, Row(s), w) /\ (Owned(s) => OwnerOK(d, Row(s)))
  BY <1>2, <1>3, <1>4 DEF DriveOK, OwnerOK, Writes, AtWrite
<1>6. written' = [written EXCEPT ![drive[s].r] = w]
  BY <1>4
<1> HIDE DEF w
<1> QED BY <1>2, <1>3, <1>4, <1>5, <1>6, DriveMoves

\* A write of the row that says nothing new about the message.
PlainRow(s, row) ==
    /\ row \in RowType /\ row.by = Row(s).by /\ row.op = Row(s).op /\ row.via = Row(s).via
    /\ row.state \in OpenStates
    /\ row.state \in {"publishing", Row(s).state} \/ Row(s).op = "none"

LEMMA PlainWrite ==
    ASSUME SafeInv, NEW s \in Slots, drive[s].step # "idle", Owned(s), NEW d \in DriveType, NEW row,
           d.r = drive[s].r \/ (d.r = None /\ d.step = "idle"),
           d.r = drive[s].r =>
              /\ d.step \notin {"idle", "finish"}
              /\ d.step \in {"claimed", "validate", "resolve", "start"} => ~d.resume
              /\ OwnerOK(d, row),
           ~Writes(d), PlainRow(s, row),
           drive' = [drive EXCEPT ![s] = d],
           Update(drive[s].r, s, row), UNCHANGED replyVars, UNCHANGED written
    PROVE  Sound
<1> DEFINE r == drive[s].r
           w == written[r]
<1>1. /\ r \in Requests /\ Row(s) = requests[r] /\ RowOK(Row(s), w) /\ Row(s).by = s
      /\ Row(s).state \in OpenStates
      /\ \A q \in Slots : q # s /\ drive[q].r = r => DriveOK(drive[q], Row(s), w)
  BY BusyOK
<1>2. /\ row \in RowType /\ row.by = s /\ row.op = Row(s).op /\ row.via = Row(s).via
      /\ row.state \in OpenStates
  BY <1>1 DEF PlainRow
<1>3. RowOK(row, w)
  <2>1. row.state \in {"publishing", Row(s).state} \/ Row(s).op = "none"
    BY DEF PlainRow
  <2>2. "publishing" \in OpenStates /\ "succeeded" \notin OpenStates
        /\ row.state \notin FinalStates
    BY <1>2, StatesApart DEF OpenStates
  <2> QED BY <1>1, <1>2, <2>1, <2>2 DEF RowOK
<1>4. \A q \in Slots : q # s /\ drive[q].r = r => DriveOK(drive[q], row, w)
  <2>1. row.state # "none"
    BY <1>2, StatesApart
  <2> QED BY <1>1, <1>2, <2>1 DEF DriveOK
<1>5. d.r = r => DriveOK(d, row, w)
  <2>1. row.state # "none"
    BY <1>2, StatesApart
  <2> QED BY <2>1 DEF DriveOK, Writes, AtWrite
<1>6. /\ requests' = [requests EXCEPT ![r] = row]
      /\ UNCHANGED <<activeTarget, inbox, consumed, outbox, written>>
  BY DEF Update, Owned
<1> QED BY <1>1, <1>2, <1>3, <1>4, <1>5, <1>6, ClaimantWrites DEF Open

\* The three ways in which the code goes on after a fenced write.
LEMMA Moved ==
    ASSUME SafeInv, NEW s \in Slots, drive[s].step # "idle", NEW step \in Steps
    PROVE  LET d == [drive[s] EXCEPT !.step = step]
           IN  /\ d \in DriveType /\ d.r = drive[s].r /\ d.step = step
               /\ d.resume = drive[s].resume /\ d.via = drive[s].via /\ d.final = drive[s].final
               /\ Goto(s, step) => drive' = [drive EXCEPT ![s] = d]
<1>1. drive[s] \in DriveType /\ drive \in [Slots -> DriveType]
  BY BusyOK DEF SafeInv, Types
<1> QED BY <1>1 DEF DriveType, Goto

PlainSteps == {"claimed", "validate", "resolve", "permit", "start", "analyse", "publish"}

LEMMA WritesOrLeaves ==
    ASSUME SafeInv, NEW s \in Slots, drive[s].step # "idle", NEW step \in PlainSteps, NEW row,
           step \in {"claimed", "validate", "resolve", "start"} => ~drive[s].resume,
           Owned(s) => PlainRow(s, row) /\ OwnerOK([drive[s] EXCEPT !.step = step], row),
           WriteOrLeave(s, row, step) \/ WriteAnyway(s, row, step),
           UNCHANGED replyVars, UNCHANGED written
    PROVE  Sound
<1> DEFINE d == [drive[s] EXCEPT !.step = step]
<1>1. step \in Steps /\ step \notin {"idle", "finish"} \cup AtWrite
  BY DEF PlainSteps, Steps, AtWrite
<1>2. /\ d \in DriveType /\ d.r = drive[s].r /\ d.step = step /\ d.resume = drive[s].resume
      /\ Goto(s, step) => drive' = [drive EXCEPT ![s] = d]
  BY <1>1, Moved
<1>3. ~Writes(d)
  BY <1>1, <1>2 DEF Writes
<1>4. Owned(s) => PlainRow(s, row) /\ OwnerOK(d, row)
  OBVIOUS
<1> HIDE DEF d
<1>5. CASE Owned(s)
  <2>1. Update(drive[s].r, s, row) /\ drive' = [drive EXCEPT ![s] = d]
    BY <1>2, <1>5 DEF WriteOrLeave, WriteAnyway
  <2> QED BY <1>1, <1>2, <1>3, <1>4, <1>5, <2>1, PlainWrite
<1>6. CASE ~Owned(s)
  <2>1. UNCHANGED imVars
    BY <1>6 DEF WriteOrLeave, WriteAnyway, Update, Owned, imVars
  <2>2. CASE WriteOrLeave(s, row, step)
    BY <1>6, <2>1, <2>2, Leaves DEF WriteOrLeave, Leave
  <2>3. CASE WriteAnyway(s, row, step)
    <3>1. drive' = [drive EXCEPT ![s] = d]
      BY <1>2, <2>3 DEF WriteAnyway
    <3> QED BY <1>1, <1>2, <1>3, <1>6, <2>1, <3>1, GoesOn
  <2> QED BY <2>2, <2>3
<1> QED BY <1>5, <1>6

LEMMA WritesAndLeaves ==
    ASSUME SafeInv, NEW s \in Slots, drive[s].step # "idle", NEW row,
           Owned(s) => PlainRow(s, row),
           WriteAndLeave(s, row), UNCHANGED replyVars, UNCHANGED written
    PROVE  Sound
<1>1. drive' = [drive EXCEPT ![s] = Idle] /\ Update(drive[s].r, s, row)
  BY DEF WriteAndLeave, Leave
<1>2. CASE Owned(s)
  <2>1. Idle \in DriveType /\ Idle.r = None /\ Idle.step = "idle" /\ ~Writes(Idle)
    BY SpecialRows, StatesApart DEF Idle, Writes
  <2>2. None # drive[s].r
    BY BusyOK, ImAssumption
  <2> QED BY <1>1, <1>2, <2>1, <2>2, PlainWrite
<1>3. CASE ~Owned(s)
  BY <1>1, <1>3, Leaves DEF Update, Owned, imVars
<1> QED BY <1>2, <1>3

-----------------------------------------------------------------------------
(* The steps of a drive, one after the other. *)

\* The rows a drive writes, up to the publication.
LEMMA PlainRows ==
    ASSUME SafeInv, NEW s \in Slots, drive[s].step # "idle", Owned(s)
    PROVE  /\ PlainRow(s, Released(Row(s)))
           /\ Row(s).op = "none" => PlainRow(s, Released([Row(s) EXCEPT !.state = "retry_wait"]))
           /\ PlainRow(s, [Row(s) EXCEPT !.attempts = @ + 1])
           /\ [Row(s) EXCEPT !.attempts = @ + 1].state = Row(s).state
           /\ Row(s).op = "none" => PlainRow(s, [Row(s) EXCEPT !.state = "validating"])
           /\ Row(s).op = "none" =>
                 PlainRow(s, [Row(s) EXCEPT !.state = "queued", !.resolved = TRUE, !.attempts = 0])
           /\ Row(s).op = "none" => PlainRow(s, [Row(s) EXCEPT !.state = "running"])
           /\ PlainRow(s, FirstCheckpoint(s)) /\ FirstCheckpoint(s).state = "publishing"
<1>1. Row(s) \in RowType /\ Row(s).state \in OpenStates
  BY BusyOK
<1>2. {"retry_wait", "validating", "queued", "running", "publishing"} \subseteq OpenStates
  BY DEF OpenStates
<1>3. PlainRow(s, Released(Row(s)))
  BY <1>1 DEF PlainRow, RowType, Released, Leases
<1>4. Row(s).op = "none" => PlainRow(s, Released([Row(s) EXCEPT !.state = "retry_wait"]))
  BY <1>1, <1>2 DEF PlainRow, RowType, Released, Leases
<1>5. PlainRow(s, [Row(s) EXCEPT !.attempts = @ + 1])
      /\ [Row(s) EXCEPT !.attempts = @ + 1].state = Row(s).state
  BY <1>1 DEF PlainRow, RowType
<1>6. Row(s).op = "none" => PlainRow(s, [Row(s) EXCEPT !.state = "validating"])
  BY <1>1, <1>2 DEF PlainRow, RowType
<1>7. Row(s).op = "none" =>
         PlainRow(s, [Row(s) EXCEPT !.state = "queued", !.resolved = TRUE, !.attempts = 0])
  BY <1>1, <1>2 DEF PlainRow, RowType
<1>8. Row(s).op = "none" => PlainRow(s, [Row(s) EXCEPT !.state = "running"])
  BY <1>1, <1>2 DEF PlainRow, RowType
<1>9. PlainRow(s, FirstCheckpoint(s)) /\ FirstCheckpoint(s).state = "publishing"
  BY <1>1, <1>2 DEF PlainRow, RowType, FirstCheckpoint
<1> QED BY <1>3, <1>4, <1>5, <1>6, <1>7, <1>8, <1>9

\* Before the publication nothing is known of a message.
LEMMA NothingYet ==
    ASSUME SafeInv, NEW s \in Slots, drive[s].step # "idle", Owned(s), Row(s).state # "publishing"
    PROVE  Row(s).op = "none"
<1>1. RowOK(Row(s), written[drive[s].r]) /\ Row(s).state \in OpenStates
  BY BusyOK
<1> QED BY <1>1 DEF RowOK, OpenStates

LEMMA GoesTo ==
    ASSUME SafeInv, NEW s \in Slots, drive[s].step # "idle", NEW step \in PlainSteps,
           step \in {"claimed", "validate", "resolve", "start"} => ~drive[s].resume,
           Owned(s) => OwnerOK([drive[s] EXCEPT !.step = step], Row(s)),
           Goto(s, step), UNCHANGED imVars, UNCHANGED replyVars, UNCHANGED written
    PROVE  Sound
<1> DEFINE d == [drive[s] EXCEPT !.step = step]
<1>1. step \in Steps /\ step \notin {"idle", "finish"} \cup AtWrite
  BY DEF PlainSteps, Steps, AtWrite
<1>2. /\ d \in DriveType /\ d.r = drive[s].r /\ d.step = step /\ d.resume = drive[s].resume
      /\ drive' = [drive EXCEPT ![s] = d]
  BY <1>1, Moved
<1>3. ~Writes(d)
  BY <1>1, <1>2 DEF Writes
<1>4. Owned(s) => OwnerOK(d, Row(s))
  OBVIOUS
<1> HIDE DEF d
<1> QED BY <1>1, <1>2, <1>3, <1>4, GoesOn

LEMMA Outcomes ==
    {"succeeded", "publication_unknown", "failed", "rejected"} = FinalStates
BY DEF FinalStates

LEMMA UnauthorizedSound ==
    ASSUME SafeInv, NEW s \in Slots, Unauthorized(s), UNCHANGED replyVars
    PROVE  Sound
BY Finishes, Outcomes DEF Unauthorized

LEMMA OutsideWindowSound ==
    ASSUME SafeInv, NEW s \in Slots, OutsideWindow(s), UNCHANGED replyVars
    PROVE  Sound
<1>1. drive[s].step # "idle" /\ UNCHANGED written
  BY DEF OutsideWindow, At
<1> QED BY <1>1, PlainRows, WritesAndLeaves DEF OutsideWindow

LEMMA ProcessClaimSound ==
    ASSUME SafeInv, NEW s \in Slots, ProcessClaim(s), UNCHANGED replyVars
    PROVE  Sound
<1> DEFINE d(step) == [drive[s] EXCEPT !.step = step]
<1>1. drive[s].step = "claimed" /\ drive[s].step # "idle" /\ UNCHANGED written
  BY DEF ProcessClaim, At
<1>2. ~drive[s].resume /\ drive[s] \in DriveType /\ Row(s) \in RowType
  BY <1>1, BusyOK DEF DriveOK
<1>3. CASE drive[s].aborted \/ ~Owned(s)
  BY <1>1, <1>3, Leaves DEF ProcessClaim, Leave
<1>4. CASE Owned(s) /\ ~drive[s].aborted /\ Interrupted(s)
  <2>1. RecoverInterrupted(s)
    BY <1>4 DEF ProcessClaim
  <2>2. CASE Row(s).state = "publishing" /\ FinishAs(s, "publication_unknown", TRUE)
    BY <1>1, <2>2, Finishes, Outcomes
  <2>3. CASE /\ Row(s).state = "publishing"
             /\ drive' = [drive EXCEPT ![s].step = "permit", ![s].resume = TRUE]
             /\ UNCHANGED imVars
    <3> DEFINE e == [drive[s] EXCEPT !.step = "permit", !.resume = TRUE]
    <3>1. /\ drive' = [drive EXCEPT ![s].step = "permit", ![s].resume = TRUE]
          /\ UNCHANGED imVars
      BY <2>3
    <3>2. drive \in [Slots -> DriveType]
      BY DEF SafeInv, Types
    <3>3. /\ e \in DriveType /\ e.r = drive[s].r /\ e.step = "permit" /\ e.resume
          /\ drive' = [drive EXCEPT ![s] = e]
      BY <1>2, <3>1, <3>2 DEF DriveType, Steps
    <3> HIDE DEF e
    <3>4. ~Writes(e) /\ OwnerOK(e, Row(s))
      BY <2>3, <3>3 DEF Writes, AtWrite, OwnerOK
    <3> QED BY <1>1, <3>1, <3>3, <3>4, GoesOn
  <2>4. CASE Row(s).state # "publishing" /\ Row(s).attempts >= MaxAttempts
    BY <1>1, <2>1, <2>4, Finishes, Outcomes DEF RecoverInterrupted
  <2>5. CASE Row(s).state # "publishing" /\ ~(Row(s).attempts >= MaxAttempts)
    <3>1. WriteAndLeave(s, Released([Row(s) EXCEPT !.state = "retry_wait"]))
      BY <2>1, <2>5 DEF RecoverInterrupted
    <3>2. Row(s).op = "none"
      BY <1>1, <1>4, <2>5, NothingYet
    <3> QED BY <1>1, <1>4, <3>1, <3>2, PlainRows, WritesAndLeaves
  <2> QED BY <2>1, <2>2, <2>3, <2>4, <2>5 DEF RecoverInterrupted
<1>5. CASE Owned(s) /\ ~drive[s].aborted /\ ~Interrupted(s)
  <2>1. Row(s).state \notin {"running", "publishing"}
    BY <1>5 DEF Interrupted
  <2>2. CASE ~Unresolved(s)
    <3>1. Goto(s, "permit") /\ UNCHANGED imVars
      BY <1>5, <2>2 DEF ProcessClaim
    <3>2. OwnerOK(d("permit"), Row(s))
      BY <1>2, <2>1 DEF OwnerOK, DriveType, Writes, AtWrite
    <3> QED BY <1>1, <3>1, <3>2, GoesTo DEF PlainSteps
  <2>3. CASE Unresolved(s) /\ Row(s).attempts >= MaxAttempts
    BY <1>1, <1>5, <2>3, Finishes, Outcomes DEF ProcessClaim
  <2>4. CASE Unresolved(s) /\ ~(Row(s).attempts >= MaxAttempts)
    <3> DEFINE row == [Row(s) EXCEPT !.attempts = @ + 1]
    <3>1. WriteOrLeave(s, row, "validate")
      BY <1>5, <2>4 DEF ProcessClaim
    <3>2. PlainRow(s, row) /\ row.state = Row(s).state
      BY <1>1, <1>5, PlainRows
    <3> HIDE DEF row
    <3>3. OwnerOK(d("validate"), row)
      BY <1>2, <2>1, <3>2 DEF OwnerOK, DriveType, Writes, AtWrite
    <3> QED BY <1>1, <1>2, <3>1, <3>2, <3>3, WritesOrLeaves DEF PlainSteps
  <2> QED BY <2>2, <2>3, <2>4
<1> QED BY <1>3, <1>4, <1>5

LEMMA ValidateSound ==
    ASSUME SafeInv, NEW s \in Slots, Validate(s), UNCHANGED replyVars
    PROVE  Sound
<1>1. drive[s].step = "validate" /\ drive[s].step # "idle" /\ UNCHANGED written
  BY DEF Validate, At
<1>2. ~drive[s].resume /\ drive[s] \in DriveType /\ Row(s) \in RowType
  BY <1>1, BusyOK DEF DriveOK
<1> DEFINE row == [Row(s) EXCEPT !.state = "validating"]
           d == [drive[s] EXCEPT !.step = "resolve"]
<1>3. CASE WriteAnyway(s, row, "resolve")
  <2>1. ASSUME Owned(s) PROVE PlainRow(s, row) /\ OwnerOK(d, row)
    <3>1. Row(s).state # "publishing"
      BY <1>1, <2>1, BusyOK DEF OwnerOK
    <3>2. PlainRow(s, row)
      BY <1>1, <2>1, <3>1, NothingYet, PlainRows
    <3>3. row.state = "validating" /\ d.step = "resolve"
      BY <1>2 DEF RowType, DriveType
    <3> QED BY <3>2, <3>3 DEF OwnerOK, Writes, AtWrite
  <2> HIDE DEF row
  <2> QED BY <1>1, <1>2, <1>3, <2>1, WritesOrLeaves DEF PlainSteps
<1>4. CASE FinishAs(s, "rejected", TRUE)
  BY <1>1, <1>4, Finishes, Outcomes
<1> QED BY <1>3, <1>4 DEF Validate

LEMMA ResolveSound ==
    ASSUME SafeInv, NEW s \in Slots, Resolve(s), UNCHANGED replyVars
    PROVE  Sound
<1>1. drive[s].step = "resolve" /\ drive[s].step # "idle" /\ UNCHANGED written
  BY DEF Resolve, At
<1>2. ~drive[s].resume /\ drive[s] \in DriveType /\ Row(s) \in RowType
  BY <1>1, BusyOK DEF DriveOK
<1> DEFINE row == [Row(s) EXCEPT !.state = "queued", !.resolved = TRUE, !.attempts = 0]
           d == [drive[s] EXCEPT !.step = "permit"]
<1>3. Owned(s) => Row(s).op = "none"
  <2>1. Owned(s) => Row(s).state # "publishing"
    BY <1>1, BusyOK DEF OwnerOK
  <2> QED BY <1>1, <2>1, NothingYet
<1>4. CASE drive[s].aborted
  BY <1>1, <1>4, Leaves DEF Resolve, Leave
<1>5. CASE WriteAndLeave(s, Released([Row(s) EXCEPT !.state = "retry_wait"]))
  BY <1>1, <1>3, <1>5, PlainRows, WritesAndLeaves
<1>6. CASE FinishAs(s, "rejected", TRUE)
  BY <1>1, <1>6, Finishes, Outcomes
<1>7. CASE WriteAnyway(s, row, "permit")
  <2>1. ASSUME Owned(s) PROVE PlainRow(s, row) /\ OwnerOK(d, row)
    <3>1. PlainRow(s, row)
      BY <1>1, <1>3, <2>1, PlainRows
    <3>2. row.state = "queued" /\ d.step = "permit" /\ ~d.resume
      BY <1>2 DEF RowType, DriveType
    <3> QED BY <3>1, <3>2 DEF OwnerOK, Writes, AtWrite
  <2> HIDE DEF row
  <2> QED BY <1>1, <1>2, <1>7, <2>1, WritesOrLeaves DEF PlainSteps
<1> QED BY <1>4, <1>5, <1>6, <1>7 DEF Resolve

LEMMA ExecuteSound ==
    ASSUME SafeInv, NEW s \in Slots, Execute(s), UNCHANGED replyVars
    PROVE  Sound
<1>1. drive[s].step = "permit" /\ drive[s].step # "idle" /\ UNCHANGED written
  BY DEF Execute, At
<1>2. drive[s] \in DriveType /\ Row(s) \in RowType
  BY <1>1, BusyOK
<1> DEFINE row == [Row(s) EXCEPT !.attempts = @ + 1]
           step == IF drive[s].resume THEN "publish" ELSE "start"
           d == [drive[s] EXCEPT !.step = step]
<1>3. CASE ~Owned(s)
  BY <1>1, <1>3, Leaves DEF Execute, Leave
<1>4. CASE Owned(s) /\ Row(s).attempts >= MaxAttempts
  BY <1>1, <1>4, Finishes, Outcomes DEF Execute
<1>5. CASE Owned(s) /\ ~(Row(s).attempts >= MaxAttempts)
  <2>1. WriteOrLeave(s, row, step)
    BY <1>5 DEF Execute
  <2>2. PlainRow(s, row) /\ row.state = Row(s).state
    BY <1>1, <1>5, PlainRows
  <2>3. OwnerOK(drive[s], Row(s))
    BY <1>1, <1>5, BusyOK
  <2>4. d.step = step /\ d.resume = drive[s].resume
    BY <1>2 DEF DriveType
  <2> HIDE DEF row
  <2>5. OwnerOK(d, row)
    BY <1>1, <2>2, <2>3, <2>4 DEF OwnerOK, Writes, AtWrite
  <2> QED BY <1>1, <2>1, <2>2, <2>5, WritesOrLeaves DEF PlainSteps
<1> QED BY <1>3, <1>4, <1>5

LEMMA StartSound ==
    ASSUME SafeInv, NEW s \in Slots, Start(s), UNCHANGED replyVars
    PROVE  Sound
<1>1. drive[s].step = "start" /\ drive[s].step # "idle" /\ UNCHANGED written
  BY DEF Start, At
<1>2. ~drive[s].resume /\ drive[s] \in DriveType /\ Row(s) \in RowType
  BY <1>1, BusyOK DEF DriveOK
<1> DEFINE row == [Row(s) EXCEPT !.state = "running"]
           d == [drive[s] EXCEPT !.step = "analyse"]
<1>3. ASSUME Owned(s) PROVE PlainRow(s, row) /\ OwnerOK(d, row)
  <2>1. Row(s).state # "publishing"
    BY <1>1, <1>2, <1>3, BusyOK DEF OwnerOK
  <2>2. PlainRow(s, row)
    BY <1>1, <1>3, <2>1, NothingYet, PlainRows
  <2>3. row.state = "running" /\ d.step = "analyse"
    BY <1>2 DEF RowType, DriveType
  <2> QED BY <2>2, <2>3 DEF OwnerOK, Writes, AtWrite
<1>4. WriteOrLeave(s, row, "analyse")
  BY DEF Start
<1> HIDE DEF row
<1> QED BY <1>1, <1>3, <1>4, WritesOrLeaves DEF PlainSteps

LEMMA AnalyseSound ==
    ASSUME SafeInv, NEW s \in Slots, Analyse(s), UNCHANGED replyVars
    PROVE  Sound
<1>1. drive[s].step = "analyse" /\ drive[s].step # "idle" /\ UNCHANGED written
  BY DEF Analyse, At
<1>2. drive[s] \in DriveType
  BY <1>1, BusyOK
<1> DEFINE d == [drive[s] EXCEPT !.step = "publish"]
<1>3. CASE Owned(s) /\ WriteOrLeave(s, FirstCheckpoint(s), "publish")
  <2>1. PlainRow(s, FirstCheckpoint(s)) /\ FirstCheckpoint(s).state = "publishing"
    BY <1>1, <1>3, PlainRows
  <2>2. d.step = "publish"
    BY <1>2 DEF DriveType
  <2>3. OwnerOK(d, FirstCheckpoint(s))
    BY <2>1, <2>2 DEF OwnerOK, Writes, AtWrite
  <2> QED BY <1>1, <1>3, <2>1, <2>3, WritesOrLeaves DEF PlainSteps
<1>4. CASE UNCHANGED imVars /\ \E final \in {"publication_unknown", "rejected"} : Result(s, final)
  BY <1>1, <1>4, HasResult, Outcomes
<1>5. CASE UNCHANGED imVars /\ Result(s, "succeeded")
  <2>1. Owned(s) => Row(s).op = "none"
    <3>1. Owned(s) => Row(s).state = "running"
      BY <1>1, BusyOK DEF OwnerOK
    <3> QED BY <1>1, <3>1, NothingYet
  <2> QED BY <1>1, <1>5, <2>1, HasResult, Outcomes DEF RestsOn
<1> QED BY <1>3, <1>4, <1>5 DEF Analyse

\* What the journal says of an operation that is saved under the claim: the row
\* differs from the drive's in op and via, and the drive goes on as d.
LEMMA JournalWrites ==
    ASSUME SafeInv, NEW s \in Slots, drive[s].step # "idle", Owned(s), Row(s).state = "publishing",
           NEW d \in DriveType, NEW row \in RowType, d.r = drive[s].r,
           row.by = Row(s).by, row.state = Row(s).state, row.op # "none", row.via \in Strategies,
           row.op = "confirmed" => written[drive[s].r] = 1,
           row.op = "rejected" /\ row.via # NoDuplicates => written[drive[s].r] = 0,
           DriveOK(d, row, written[drive[s].r]), OwnerOK(d, row),
           \A q \in Slots : q # s /\ drive[q].r = drive[s].r /\ Writes(drive[q]) =>
              /\ row.via = drive[q].via
              /\ drive[q].via # NoDuplicates => row.op \in {"unknown", "confirmed"}
              /\ Writes(d) => d.via = NoDuplicates /\ drive[q].via = NoDuplicates,
           drive' = [drive EXCEPT ![s] = d],
           Update(drive[s].r, s, row), UNCHANGED replyVars, UNCHANGED written
    PROVE  Sound
<1> DEFINE r == drive[s].r
           w == written[r]
<1>1. /\ r \in Requests /\ Row(s) = requests[r] /\ RowOK(Row(s), w) /\ Row(s).by = s
      /\ Row(s).state \in OpenStates
      /\ \A q \in Slots : q # s /\ drive[q].r = r => DriveOK(drive[q], Row(s), w)
  BY BusyOK
<1>2. row.by = s /\ row.state = "publishing" /\ row.state \in OpenStates
  BY <1>1
<1>3. RowOK(row, w)
  BY <1>1, <1>2, StatesApart DEF RowOK, OpenStates
<1>4. \A q \in Slots : q # s /\ drive[q].r = r =>
         /\ DriveOK(drive[q], row, w)
         /\ d.r = r /\ Writes(d) /\ Writes(drive[q]) =>
               d.via = NoDuplicates /\ drive[q].via = NoDuplicates
  BY <1>1, <1>2 DEF DriveOK
<1>5. /\ requests' = [requests EXCEPT ![r] = row]
      /\ UNCHANGED <<activeTarget, inbox, consumed, outbox, written>>
  BY DEF Update, Owned
<1>6. d.r = r => DriveOK(d, row, w) /\ OwnerOK(d, row)
  OBVIOUS
<1>7. drive[s].r \in {r, None} /\ Open(r)
  BY <1>1 DEF Open
<1> HIDE DEF r, w
<1> QED BY <1>1, <1>2, <1>3, <1>4, <1>5, <1>6, <1>7, ClaimantWrites DEF r, w

\* The other drives of a request that may have sent something.
LEMMA OtherWriters ==
    ASSUME SafeInv, NEW s \in Slots, drive[s].step # "idle",
           NEW q \in Slots, q # s, drive[q].r = drive[s].r, Writes(drive[q])
    PROVE  /\ Open(drive[s].r) =>
                /\ Row(s).op # "none" /\ Row(s).via = drive[q].via
                /\ drive[q].via # NoDuplicates => Row(s).op \in {"unknown", "confirmed"}
           /\ Writes(drive[s]) => drive[s].via = NoDuplicates /\ drive[q].via = NoDuplicates
<1>1. Row(s) = requests[drive[s].r] /\ drive[s].r \in Requests
      /\ DriveOK(drive[q], Row(s), written[drive[s].r])
  BY BusyOK
<1>2. ReviewOK(drive[s].r)
  BY <1>1 DEF SafeInv
<1> QED BY <1>1, <1>2 DEF ReviewOK, DriveOK, Open

LEMMA PublishSound ==
    ASSUME SafeInv, NEW s \in Slots, Publish(s), UNCHANGED replyVars
    PROVE  Sound
<1> DEFINE r == drive[s].r
           w == written[r]
<1>1. drive[s].step = "publish" /\ drive[s].step # "idle" /\ UNCHANGED written
  BY DEF Publish, At
<1>2. /\ drive[s] \in DriveType /\ Row(s) \in RowType /\ drive \in [Slots -> DriveType]
      /\ Row(s) = requests[r] /\ RowOK(Row(s), w)
  BY <1>1, BusyOK DEF SafeInv, Types
<1>3. CASE Unsure(s)
  BY <1>1, <1>3, HasResult, Outcomes DEF Unsure
<1>4. CASE UNCHANGED imVars /\ Result(s, "rejected")
  BY <1>1, <1>4, HasResult, Outcomes
<1>5. ASSUME Owned(s), NEW via \in Strategies, Row(s).via \in {None, via},
             JournalStep(s, Row(s).op, via)
      PROVE  Sound
  <2>1. Row(s).state = "publishing" /\ Row(s).by = s /\ Open(r)
    BY <1>1, <1>2, <1>5, BusyOK DEF OwnerOK, Open
  <2>2. \A q \in Slots : q # s /\ drive[q].r = r /\ Writes(drive[q]) =>
           /\ Row(s).op # "none" /\ Row(s).via = drive[q].via
           /\ drive[q].via # NoDuplicates => Row(s).op \in {"unknown", "confirmed"}
    BY <1>1, <2>1, OtherWriters
  <2>3. CASE Replays(Row(s).op) /\ UNCHANGED imVars /\ Result(s, "succeeded")
    <3>1. RestsOn(Row(s).op)
      BY <2>3 DEF Replays, RestsOn
    <3> QED BY <1>1, <2>3, <3>1, HasResult, Outcomes
  <2>4. CASE /\ Reconciles(via, Row(s).op) /\ FoundOnce(w)
             /\ Update(r, s, [Row(s) EXCEPT !.op = "confirmed"])
             /\ Result(s, "succeeded")
    <3> DEFINE d == [drive[s] EXCEPT !.step = "finish", !.final = "succeeded", !.via = None]
               row == [Row(s) EXCEPT !.op = "confirmed"]
    <3>1. /\ d \in DriveType /\ d.r = r /\ d.step = "finish" /\ d.final = "succeeded"
          /\ drive' = [drive EXCEPT ![s] = d]
      BY <1>2, <2>4, Outcomes DEF DriveType, Steps, Result
    <3>2. /\ row \in RowType /\ row.op = "confirmed" /\ row.via = Row(s).via
          /\ row.by = Row(s).by /\ row.state = Row(s).state
      BY <1>2 DEF RowType
    <3>3. Row(s).op = "unknown" /\ Row(s).via \in Strategies /\ w = 1
      BY <1>2, <2>1, <2>4 DEF Reconciles, FoundOnce, RowOK, Open
    <3>4. Update(r, s, row)
      BY <2>4
    <3> HIDE DEF d, row
    <3>5. ~Writes(d) /\ DriveOK(d, row, w) /\ OwnerOK(d, row)
      BY <2>1, <3>1, <3>2, <3>3, OutcomeAssumption, Outcomes
         DEF DriveOK, OwnerOK, Writes, AtWrite, RestsOn
    <3>6. \A q \in Slots : q # s /\ drive[q].r = r /\ Writes(drive[q]) =>
              /\ row.via = drive[q].via
              /\ drive[q].via # NoDuplicates => row.op \in {"unknown", "confirmed"}
              /\ Writes(d) => d.via = NoDuplicates /\ drive[q].via = NoDuplicates
      BY <2>2, <3>2, <3>5
    <3> QED BY <1>1, <1>5, <2>1, <3>1, <3>2, <3>3, <3>4, <3>5, <3>6, JournalWrites
  <2>5. CASE /\ Sends(via, Row(s).op)
             /\ Update(r, s, [Row(s) EXCEPT !.op = "unknown", !.via = via])
             /\ drive' = [drive EXCEPT ![s].step = "send", ![s].via = via]
    <3> DEFINE d == [drive[s] EXCEPT !.step = "send", !.via = via]
               row == [Row(s) EXCEPT !.op = "unknown", !.via = via]
    <3>1. /\ d \in DriveType /\ d.r = r /\ d.step = "send" /\ d.via = via
          /\ drive' = [drive EXCEPT ![s] = d]
      BY <1>2, <2>5 DEF DriveType, Steps
    <3>2. /\ row \in RowType /\ row.op = "unknown" /\ row.via = via
          /\ row.by = Row(s).by /\ row.state = Row(s).state
      BY <1>2 DEF RowType
    <3>3. Update(r, s, row)
      BY <2>5
    <3>4. Row(s).op # "none" => Row(s).via = via
      BY <1>2, <1>5, <2>1, ImAssumption DEF RowOK, Open
    <3>5. via # NoDuplicates => Row(s).op \in {"none", "rejected"} /\ w = 0
      BY <1>2, <2>1, <2>5, <3>4, StatesApart DEF Sends, RowOK, NoDuplicates
    <3> HIDE DEF d, row
    <3>6. DriveOK(d, row, w) /\ OwnerOK(d, row)
      BY <2>1, <3>1, <3>2, <3>5 DEF DriveOK, OwnerOK, Writes, AtWrite
    <3>7. \A q \in Slots : q # s /\ drive[q].r = r /\ Writes(drive[q]) =>
              /\ row.via = drive[q].via
              /\ drive[q].via # NoDuplicates => row.op \in {"unknown", "confirmed"}
              /\ Writes(d) => d.via = NoDuplicates /\ drive[q].via = NoDuplicates
      BY <2>2, <3>1, <3>2, <3>4, <3>5
    <3> QED BY <1>1, <1>5, <2>1, <3>1, <3>2, <3>3, <3>6, <3>7, JournalWrites
  <2> QED BY <1>5, <2>3, <2>4, <2>5 DEF JournalStep
<1>6. CASE NothingPublished(s)
  <2>1. Owned(s) => RestsOn(Row(s).op)
    BY <1>6 DEF NothingPublished, RestsOn
  <2> QED BY <1>1, <1>6, <2>1, HasResult, Outcomes DEF NothingPublished
<1> QED BY <1>3, <1>4, <1>5, <1>6 DEF Publish

LEMMA SendSound ==
    ASSUME SafeInv, NEW s \in Slots, Send(s), UNCHANGED replyVars
    PROVE  Sound
<1> DEFINE r == drive[s].r
           w == written[r]
<1>1. drive[s].step = "send" /\ drive[s].step # "idle" /\ Writes(drive[s])
  BY DEF Send, At, Writes, AtWrite
<1>2. /\ drive[s] \in DriveType /\ Row(s) \in RowType /\ drive \in [Slots -> DriveType]
      /\ Row(s) = requests[r] /\ RowOK(Row(s), w) /\ w \in {0, 1}
      /\ DriveOK(drive[s], Row(s), w) /\ (Owned(s) => OwnerOK(drive[s], Row(s)))
      /\ r \in Requests /\ written \in [Requests -> Nat]
      /\ \A q \in Slots : q # s /\ drive[q].r = r => DriveOK(drive[q], Row(s), w)
  BY <1>1, BusyOK DEF SafeInv, Types
<1>3. CASE Unsure(s) /\ UNCHANGED written
  BY <1>1, <1>3, HasResult, Outcomes DEF Unsure
<1> DEFINE d(step) == [drive[s] EXCEPT !.step = step]
           e == [drive[s] EXCEPT !.step = "finish", !.final = "publication_unknown", !.via = None]
<1>4. ASSUME NEW step \in {"answered", "refused"}
      PROVE  /\ d(step) \in DriveType /\ d(step).r = r /\ d(step).step = step
             /\ d(step).via = drive[s].via /\ d(step).resume = drive[s].resume
             /\ Goto(s, step) => drive' = [drive EXCEPT ![s] = d(step)]
             /\ Writes(d(step))
             /\ Owned(s) => OwnerOK(d(step), Row(s))
  <2>1. step \in Steps
    BY DEF Steps
  <2>2. /\ d(step) \in DriveType /\ d(step).r = r /\ d(step).step = step
        /\ d(step).via = drive[s].via /\ d(step).resume = drive[s].resume
        /\ Goto(s, step) => drive' = [drive EXCEPT ![s] = d(step)]
    BY <1>1, <2>1, Moved
  <2>3. Writes(d(step))
    BY <2>2 DEF Writes, AtWrite
  <2> HIDE DEF d
  <2>4. Owned(s) => OwnerOK(d(step), Row(s))
    BY <1>1, <1>2, <2>2 DEF OwnerOK
  <2> QED BY <2>2, <2>3, <2>4
<1>5. CASE UNCHANGED imVars /\ Goto(s, "refused") /\ UNCHANGED written
  <2>1. DriveOK(d("refused"), Row(s), w)
    BY <1>1, <1>2, <1>4 DEF DriveOK
  <2>2. written' = [written EXCEPT ![r] = w]
    BY <1>2, <1>5
  <2>3. drive' = [drive EXCEPT ![s] = d("refused")]
    BY <1>4, <1>5
  <2> HIDE DEF d, w
  <2> QED BY <1>1, <1>2, <1>4, <1>5, <2>1, <2>2, <2>3, DriveMoves
<1>6. CASE /\ UNCHANGED imVars /\ written' = [written EXCEPT ![r] = Written(drive[s].via, @)]
           /\ Goto(s, "answered") \/ Unsure(s)
  <2>1. Written(drive[s].via, w) = 1
    BY <1>1, <1>2 DEF Written, DriveOK, NoDuplicates
  <2>2. written' = [written EXCEPT ![r] = 1]
    BY <1>2, <1>6, <2>1
  <2>3. RowOK(Row(s), 1)
    <3>1. Row(s).state \in OpenStates \cup FinalStates
      BY <1>2 DEF RowType, DriveOK
    <3>2. CASE Row(s).state \in OpenStates
      BY <1>1, <1>2, <3>2, StatesApart DEF DriveOK, RowOK
    <3>3. CASE Row(s).state \in FinalStates
      BY <1>1, <1>2, <3>3, StatesApart DEF DriveOK, RowOK, FinalStates, RestsOn
    <3> QED BY <3>1, <3>2, <3>3
  <2>4. \A q \in Slots : q # s /\ drive[q].r = r => DriveOK(drive[q], Row(s), 1)
    <3>1. \A q \in Slots : q # s /\ drive[q].r = r /\ Writes(drive[q]) => drive[q].via = NoDuplicates
      BY <1>1, OtherWriters
    <3> QED BY <1>2, <3>1 DEF DriveOK, Writes, AtWrite
  <2>5. CASE Goto(s, "answered")
    <3>1. DriveOK(d("answered"), Row(s), 1)
      BY <1>1, <1>2, <1>4 DEF DriveOK
    <3>2. drive' = [drive EXCEPT ![s] = d("answered")]
      BY <1>4, <2>5
    <3> HIDE DEF d, w
    <3> QED BY <1>1, <1>4, <1>6, <2>2, <2>3, <2>4, <3>1, <3>2, DriveMoves
  <2>6. CASE Unsure(s)
    <3>1. /\ e \in DriveType /\ e.r = r /\ e.step = "finish" /\ e.final = "publication_unknown"
          /\ drive' = [drive EXCEPT ![s] = e]
      BY <1>2, <2>6, Outcomes DEF DriveType, Steps, Unsure, Result
    <3> HIDE DEF e
    <3>2. ~Writes(e) /\ OwnerOK(e, Row(s)) /\ DriveOK(e, Row(s), 1)
      BY <1>2, <3>1, OutcomeAssumption, Outcomes DEF DriveOK, OwnerOK, Writes, AtWrite
    <3> HIDE DEF w
    <3> QED BY <1>1, <1>6, <2>2, <2>3, <2>4, <3>1, <3>2, DriveMoves
  <2> QED BY <1>6, <2>5, <2>6
<1>7. UNCHANGED imVars
  BY DEF Send, Unsure
<1> QED BY <1>3, <1>5, <1>6, <1>7 DEF Send

LEMMA AnsweredSound ==
    ASSUME SafeInv, NEW s \in Slots, Answered(s), UNCHANGED replyVars
    PROVE  Sound
<1> DEFINE r == drive[s].r
           w == written[r]
           op == IF At(s, "answered") THEN "confirmed" ELSE "rejected"
           final == IF At(s, "answered") THEN "succeeded" ELSE "failed"
           row == [Row(s) EXCEPT !.op = op]
           d == [drive[s] EXCEPT !.step = "finish", !.final = final, !.via = None]
<1>1. /\ drive[s].step \in {"answered", "refused"} /\ drive[s].step # "idle" /\ Writes(drive[s])
      /\ UNCHANGED written
  BY DEF Answered, Writes, AtWrite
<1>2. /\ drive[s] \in DriveType /\ Row(s) \in RowType /\ drive \in [Slots -> DriveType]
      /\ RowOK(Row(s), w) /\ w \in {0, 1} /\ DriveOK(drive[s], Row(s), w)
      /\ Owned(s) => OwnerOK(drive[s], Row(s)) /\ Row(s).state \in OpenStates
      /\ Row(s) = requests[r]
  BY <1>1, BusyOK DEF SafeInv, Types
<1>3. CASE drive[s].aborted \/ ~Owned(s)
  <2>1. Unsure(s)
    BY <1>3 DEF Answered
  <2> QED BY <1>1, <2>1, HasResult, Outcomes DEF Unsure
<1>4. CASE ~drive[s].aborted /\ Owned(s)
  <2>1. Update(r, s, row) /\ Result(s, final)
    BY <1>4 DEF Answered
  <2>2. /\ final \in FinalStates /\ op \in {"confirmed", "rejected"}
        /\ op = "confirmed" \/ final = "succeeded" => w = 1
        /\ op = "rejected" /\ drive[s].via # NoDuplicates => w = 0
        /\ final = "succeeded" => op = "confirmed"
    BY <1>1, <1>2, Outcomes DEF DriveOK, At
  <2>3. /\ row \in RowType /\ row.op = op /\ row.via = Row(s).via
        /\ row.by = Row(s).by /\ row.state = Row(s).state
    BY <1>2, <2>2 DEF RowType
  <2> HIDE DEF final, op
  <2>4. /\ d \in DriveType /\ d.r = r /\ d.step = "finish" /\ d.final = final
        /\ drive' = [drive EXCEPT ![s] = d]
    BY <1>2, <2>1, <2>2 DEF DriveType, Steps, Result
  <2> HIDE DEF d, row
  <2>5. Row(s).state = "publishing" /\ Open(r)
    BY <1>1, <1>2, <1>4 DEF OwnerOK, Open
  <2>6. Row(s).via = drive[s].via /\ Row(s).via \in Strategies
    BY <1>1, <1>2, <1>4 DEF DriveOK, RowOK
  <2>7. ~Writes(d) /\ DriveOK(d, row, w) /\ OwnerOK(d, row)
    BY <2>2, <2>3, <2>4, <2>5, OutcomeAssumption DEF DriveOK, OwnerOK, Writes, AtWrite, RestsOn
  <2>8. \A q \in Slots : q # s /\ drive[q].r = r /\ Writes(drive[q]) =>
              /\ row.via = drive[q].via
              /\ drive[q].via # NoDuplicates => row.op \in {"unknown", "confirmed"}
              /\ Writes(d) => d.via = NoDuplicates /\ drive[q].via = NoDuplicates
    BY <1>1, <2>3, <2>5, <2>7, OtherWriters
  <2>9. /\ row.op # "none" /\ row.via \in Strategies
        /\ row.op = "confirmed" => w = 1
        /\ row.op = "rejected" /\ row.via # NoDuplicates => w = 0
    BY <2>2, <2>3, <2>6
  <2> QED BY <1>1, <1>4, <2>1, <2>3, <2>4, <2>5, <2>7, <2>8, <2>9, JournalWrites
<1> QED BY <1>3, <1>4

LEMMA FinishReviewSound ==
    ASSUME SafeInv, NEW s \in Slots, FinishReview(s), UNCHANGED replyVars
    PROVE  Sound
<1>1. drive[s].step = "finish" /\ drive[s].step # "idle" /\ UNCHANGED written
  BY DEF FinishReview, At
<1>2. /\ drive[s].final \in FinalStates
      /\ drive[s].final = "succeeded" /\ Owned(s) => RestsOn(Row(s).op)
  BY <1>1, BusyOK DEF DriveOK, OwnerOK, DriveType
<1>3. CASE drive[s].aborted
  BY <1>1, <1>3, Leaves DEF FinishReview, Leave
<1>4. CASE ~drive[s].aborted
  BY <1>1, <1>2, <1>4, Finishes DEF FinishReview
<1> QED BY <1>3, <1>4

LEMMA ThrowsSound ==
    ASSUME SafeInv, NEW s \in Slots, Throws(s), UNCHANGED replyVars
    PROVE  Sound
<1>1. drive[s].step # "idle" /\ UNCHANGED written
  BY DEF Throws
<1>2. CASE drive[s].aborted
  BY <1>1, <1>2, Leaves DEF Throws, Leave
<1>3. CASE ~drive[s].aborted
  BY <1>1, <1>3, Finishes, Outcomes DEF Throws
<1> QED BY <1>2, <1>3

LEMMA DriveStepSound ==
    ASSUME SafeInv, NEW s \in Slots, DriveStep(s), UNCHANGED replyVars
    PROVE  Sound
BY UnauthorizedSound, ProcessClaimSound, ValidateSound, ResolveSound, ExecuteSound, StartSound,
   AnalyseSound, PublishSound, SendSound, AnsweredSound, FinishReviewSound, ThrowsSound DEF DriveStep

-----------------------------------------------------------------------------
(* The steps of others: claims, signals, time, cancellations, crashes. *)

LEMMA FreeSlotIsIdle == \A s \in FreeSlot : s \in Slots /\ At(s, "idle")
<1> DEFINE free == {s \in Slots : At(s, "idle")}
<1>1. CASE free = {}
  BY <1>1 DEF FreeSlot
<1>2. CASE free # {}
  <2>1. (CHOOSE s \in free : TRUE) \in free
    BY <1>2
  <2> QED BY <1>2, <2>1 DEF FreeSlot
<1> QED BY <1>1, <1>2

LEMMA StartDriveSound ==
    ASSUME SafeInv, NEW s \in Slots, NEW r \in Requests, StartDrive(s, r), UNCHANGED replyVars
    PROVE  Sound
<1> DEFINE row == [requests[r] EXCEPT !.by = s, !.lease = "live"]
           d == [Idle EXCEPT !.step = "claimed", !.r = r]
           w == written[r]
<1>1. Types /\ ReviewOK(r) /\ drive[s].step = "idle" /\ Open(r)
  BY FreeSlotIsIdle DEF SafeInv, StartDrive, At, Claim, Claimable
<1>2. drive[s].r \in {r, None}
  <2>1. drive[s].r \in Requests \cup {None}
    BY <1>1 DEF Types, DriveType
  <2>2. ASSUME drive[s].r \in Requests PROVE FALSE
    <3>1. ReviewOK(drive[s].r)
      BY <2>2 DEF SafeInv
    <3> QED BY <1>1, <3>1 DEF ReviewOK, DriveOK
  <2> QED BY <2>1, <2>2
<1>3. requests[r] \in RowType /\ s \in Claimants
  BY <1>1, ReviewAssumption DEF Types
<1>4. /\ row \in RowType /\ row.by = s /\ row.state = requests[r].state
      /\ row.op = requests[r].op /\ row.via = requests[r].via
  BY <1>3 DEF RowType, Leases
<1>5. /\ d \in DriveType /\ d.r = r /\ d.step = "claimed" /\ ~d.resume
  BY SpecialRows DEF DriveType, Idle, Steps
<1>6. /\ requests' = [requests EXCEPT ![r] = row]
      /\ UNCHANGED <<activeTarget, inbox, consumed, outbox, written>>
      /\ drive' = [drive EXCEPT ![s] = d]
  BY <1>1 DEF Types, StartDrive, Claim
<1>7. RowOK(requests[r], w) /\ requests[r].state \in OpenStates
      /\ \A q \in Slots : drive[q].r = r => DriveOK(drive[q], requests[r], w)
  BY <1>1 DEF ReviewOK, Open
<1> HIDE DEF d, row, w
<1>8. RowOK(row, w)
  BY <1>4, <1>7 DEF RowOK
<1>9. ~Writes(d) /\ DriveOK(d, row, w) /\ OwnerOK(d, row)
  BY <1>4, <1>5, <1>7, StatesApart DEF DriveOK, OwnerOK, Writes, AtWrite
<1>10. \A q \in Slots : q # s /\ drive[q].r = r => DriveOK(drive[q], row, w)
  BY <1>4, <1>7 DEF DriveOK
<1> QED BY <1>1, <1>2, <1>4, <1>5, <1>6, <1>7, <1>8, <1>9, <1>10, ClaimantWrites DEF w

\* Rows and drives that differ only in what the invariant does not look at, and
\* drives that are gone.
SameRow(r) == /\ requests'[r].state = requests[r].state /\ requests'[r].by = requests[r].by
              /\ requests'[r].op = requests[r].op /\ requests'[r].via = requests[r].via
SameDrive(s) == /\ drive'[s].step = drive[s].step /\ drive'[s].r = drive[s].r
                /\ drive'[s].resume = drive[s].resume /\ drive'[s].final = drive[s].final
                /\ drive'[s].via = drive[s].via
GoneDrive(s) == drive'[s].step = "idle" /\ drive'[s].r = None

LEMMA SameKeepsReview ==
    ASSUME SafeInv, UNCHANGED written, \A r \in Requests : SameRow(r),
           \A s \in Slots : SameDrive(s) \/ GoneDrive(s)
    PROVE  IdleOK' /\ \A r \in Requests : ReviewOK(r)'
<1>1. IdleOK'
  BY DEF SafeInv, IdleOK, SameDrive, GoneDrive
<1>2. ASSUME NEW r \in Requests PROVE ReviewOK(r)'
  <2>1. ReviewOK(r) /\ SameRow(r)
    BY DEF SafeInv
  <2>2. \A s \in Slots : drive'[s].r = r => SameDrive(s) /\ drive[s].r = r
    BY ImAssumption DEF GoneDrive, SameDrive
  <2>3. RowOK(requests'[r], written'[r])
    BY <2>1 DEF ReviewOK, SameRow, RowOK
  <2>4. ASSUME NEW s \in Slots, drive'[s].r = r
        PROVE  /\ DriveOK(drive'[s], requests'[r], written'[r])
               /\ requests'[r].by = s => OwnerOK(drive'[s], requests'[r])
    <3>1. /\ DriveOK(drive[s], requests[r], written[r])
          /\ requests[r].by = s => OwnerOK(drive[s], requests[r])
      BY <2>1, <2>2, <2>4 DEF ReviewOK, Holds
    <3>2. SameDrive(s)
      BY <2>2, <2>4
    <3>3. DriveOK(drive'[s], requests'[r], written'[r])
      BY <2>1, <3>1, <3>2 DEF SameDrive, SameRow, DriveOK, Writes
    <3>4. requests'[r].by = s => OwnerOK(drive'[s], requests'[r])
      BY <2>1, <3>1, <3>2 DEF SameDrive, SameRow, OwnerOK, Writes
    <3> QED BY <3>3, <3>4
  <2>5. ASSUME NEW s \in Slots, NEW q \in Slots, drive'[s].r = r, drive'[q].r = r,
               Writes(drive'[s]), Writes(drive'[q]), drive'[s].via # NoDuplicates
        PROVE  s = q
    BY <2>1, <2>2, <2>5 DEF ReviewOK, SameDrive, Writes
  <2> QED BY <2>3, <2>4, <2>5 DEF ReviewOK, Holds
<1> QED BY <1>1, <1>2

\* Such a step is sound when it leaves the other tables and the senders alone.
LEMMA SameSound ==
    ASSUME SafeInv, UNCHANGED written, \A r \in Requests : SameRow(r),
           \A s \in Slots : SameDrive(s) \/ GoneDrive(s),
           drive' \in [Slots -> DriveType], requests' \in [Requests -> RowType],
           UNCHANGED <<activeTarget, inbox, consumed, outbox>>, UNCHANGED replyVars
    PROVE  Sound
<1>1. IdleOK' /\ \A r \in Requests : ReviewOK(r)'
  BY SameKeepsReview
<1>2. \A r \in Requests : /\ requests'[r].state \in OpenStates <=> Open(r)
                          /\ Final(r) => requests'[r].state = requests[r].state
  BY DEF SameRow, Open
<1>3. TargetOK' /\ RestingOK' /\ OutcomeKept /\ \A r \in Requests : ReplyOK(r)'
  BY <1>2, QuietTables
<1>4. Types'
  BY DEF SafeInv, Types, replyVars
<1> QED BY <1>1, <1>3, <1>4 DEF SafeInv, Sound

\* One field of a row that the invariant does not look at.
LEMMA RowTouched ==
    ASSUME SafeInv, NEW r \in Requests, NEW row,
           requests' = [requests EXCEPT ![r] = row],
           row \in RowType, row.state = requests[r].state, row.by = requests[r].by,
           row.op = requests[r].op, row.via = requests[r].via,
           UNCHANGED <<activeTarget, inbox, consumed, outbox, drive, written>>, UNCHANGED replyVars
    PROVE  Sound
<1>1. Types
  BY DEF SafeInv
<1>2. requests' \in [Requests -> RowType] /\ \A q \in Requests : SameRow(q)
  BY <1>1 DEF Types, SameRow
<1>3. \A s \in Slots : SameDrive(s)
  BY DEF SameDrive
<1> QED BY <1>1, <1>2, <1>3, SameSound DEF Types

LEMMA LeaseLapsesSound ==
    ASSUME SafeInv, NEW r \in Requests, LeaseLapses(r), UNCHANGED <<drive, written>>, UNCHANGED replyVars
    PROVE  Sound
<1> DEFINE row == [requests[r] EXCEPT !.lease = "lapsed"]
<1>1. Types
  BY DEF SafeInv
<1>2. requests' = [requests EXCEPT ![r] = row] /\ requests[r] \in RowType
  BY <1>1 DEF Types, LeaseLapses
<1>3. /\ row \in RowType /\ row.state = requests[r].state /\ row.by = requests[r].by
      /\ row.op = requests[r].op /\ row.via = requests[r].via
  BY <1>2 DEF RowType, Leases
<1> HIDE DEF row
<1> QED BY <1>2, <1>3, RowTouched DEF LeaseLapses

LEMMA ComesDueSound ==
    ASSUME SafeInv, NEW r \in Requests, ComesDue(r), UNCHANGED <<drive, written>>, UNCHANGED replyVars
    PROVE  Sound
<1> DEFINE row == [requests[r] EXCEPT !.due = TRUE]
<1>1. Types
  BY DEF SafeInv
<1>2. requests' = [requests EXCEPT ![r] = row] /\ requests[r] \in RowType
  BY <1>1 DEF Types, ComesDue
<1>3. /\ row \in RowType /\ row.state = requests[r].state /\ row.by = requests[r].by
      /\ row.op = requests[r].op /\ row.via = requests[r].via
  BY <1>2 DEF RowType
<1> HIDE DEF row
<1> QED BY <1>2, <1>3, RowTouched DEF ComesDue

\* Signals, a stop and a restart touch no row.
LEMMA SignalsSound ==
    ASSUME SafeInv, UNCHANGED imVars, UNCHANGED written, UNCHANGED replyVars,
           drive' \in [Slots -> DriveType], \A s \in Slots : SameDrive(s)
    PROVE  Sound
<1>1. Types /\ UNCHANGED <<requests, activeTarget, inbox, consumed, outbox>>
  BY DEF SafeInv, imVars
<1>2. \A r \in Requests : SameRow(r)
  BY <1>1 DEF SameRow
<1> QED BY <1>1, <1>2, SameSound DEF Types

LEMMA RenewFailsSound ==
    ASSUME SafeInv, NEW s \in Slots, RenewFails(s), UNCHANGED replyVars
    PROVE  Sound
<1>1. Types /\ drive' = [drive EXCEPT ![s].aborted = TRUE]
  BY DEF SafeInv, RenewFails
<1>2. drive' \in [Slots -> DriveType] /\ \A q \in Slots : SameDrive(q)
  BY ZenonT(40), <1>1 DEF Types, DriveType, SameDrive
<1> QED BY <1>2, SignalsSound DEF RenewFails

LEMMA AbortTouches ==
    ASSUME Types, NEW slots, Abort(slots)
    PROVE  drive' \in [Slots -> DriveType] /\ \A q \in Slots : SameDrive(q)
BY ZenonT(40) DEF Abort, Types, DriveType, SameDrive

LEMMA StopSound ==
    ASSUME SafeInv, Stop, UNCHANGED replyVars
    PROVE  Sound
<1>1. drive' \in [Slots -> DriveType] /\ \A q \in Slots : SameDrive(q)
  BY AbortTouches DEF SafeInv, Stop
<1> QED BY <1>1, SignalsSound DEF Stop

LEMMA RestartSound ==
    ASSUME SafeInv, Restart, UNCHANGED replyVars
    PROVE  Sound
<1>1. drive' \in [Slots -> DriveType] /\ \A q \in Slots : SameDrive(q)
  BY DEF Restart, SafeInv, Types, SameDrive
<1> QED BY <1>1, SignalsSound DEF Restart

\* A cancelled request ends whoever has claimed it, and its drive hears of it.
LEMMA CancelSound ==
    ASSUME SafeInv, NEW r \in Requests, Cancel(r), UNCHANGED replyVars
    PROVE  Sound
<1>1. Types /\ IdleOK /\ \A q \in Requests : ReviewOK(q)
  BY DEF SafeInv
<1>2. "rejected" \in FinalStates
  BY DEF FinalStates
<1>3. Open(r) /\ End(r, "rejected", TRUE)
  BY DEF Cancel, CancelRequest, Open, OpenStates
<1>4. /\ TargetOK' /\ RestingOK' /\ OutcomeKept
      /\ requests' = [requests EXCEPT ![r] = Ended(requests[r], "rejected")]
      /\ activeTarget' \in Requests \cup {None} /\ outbox' \in [Requests -> ReplyType]
      /\ \A q \in Requests : ReplyOK(q)'
  BY <1>2, <1>3, EndTables
<1>5. drive' \in [Slots -> DriveType] /\ \A s \in Slots : SameDrive(s)
  BY <1>1, AbortTouches DEF Cancel
<1>6. UNCHANGED written /\ UNCHANGED <<inbox, consumed, sender, told>>
  BY <1>3 DEF Cancel, End, replyVars
<1>7. requests' \in [Requests -> RowType] /\ requests'[r] = Ended(requests[r], "rejected")
      /\ \A q \in Requests : q # r => requests'[q] = requests[q]
  BY <1>1, <1>2, <1>4, SpecialRows DEF Types
<1>8. Types'
  BY <1>1, <1>4, <1>5, <1>6, <1>7 DEF Types
<1>9. IdleOK'
  BY <1>1, <1>5 DEF IdleOK, SameDrive
<1>10. ASSUME NEW q \in Requests, q # r PROVE ReviewOK(q)'
  <2>1. ReviewOK(q) /\ requests'[q] = requests[q] /\ written'[q] = written[q]
    BY <1>1, <1>6, <1>7, <1>10
  <2>2. ASSUME NEW s \in Slots, drive'[s].r = q
        PROVE  /\ DriveOK(drive'[s], requests'[q], written'[q])
               /\ requests'[q].by = s => OwnerOK(drive'[s], requests'[q])
    <3>1. SameDrive(s)
      BY <1>5
    <3>2. /\ DriveOK(drive[s], requests[q], written[q])
          /\ requests[q].by = s => OwnerOK(drive[s], requests[q])
      BY <2>1, <2>2, <3>1 DEF ReviewOK, Holds, SameDrive
    <3>3. DriveOK(drive'[s], requests'[q], written'[q])
      BY <2>1, <3>1, <3>2 DEF DriveOK, SameDrive, Writes
    <3>4. requests'[q].by = s => OwnerOK(drive'[s], requests'[q])
      BY <2>1, <3>1, <3>2 DEF OwnerOK, SameDrive, Writes
    <3> QED BY <3>3, <3>4
  <2>3. ASSUME NEW s \in Slots, NEW p \in Slots, drive'[s].r = q, drive'[p].r = q,
               Writes(drive'[s]), Writes(drive'[p]), drive'[s].via # NoDuplicates
        PROVE  s = p
    <3>1. SameDrive(s) /\ SameDrive(p)
      BY <1>5
    <3> QED BY <2>1, <2>3, <3>1 DEF ReviewOK, SameDrive, Writes
  <2> QED BY <2>1, <2>2, <2>3 DEF ReviewOK, Holds
<1>11. ReviewOK(r)'
  <2>1. ReviewOK(r) /\ written'[r] = written[r]
    BY <1>1, <1>6
  <2>2. /\ Ended(requests[r], "rejected").state = "rejected" /\ Ended(requests[r], "rejected").by = None
        /\ Ended(requests[r], "rejected").op = "none" /\ Ended(requests[r], "rejected").via = None
    BY <1>1, <1>2, SpecialRows DEF Types
  <2>3. RowOK(requests'[r], written'[r])
    BY <1>7, <2>1, <2>2 DEF ReviewOK, RowOK, OpenStates, RestsOn
  <2>4. ASSUME NEW s \in Slots, drive'[s].r = r
        PROVE  /\ DriveOK(drive'[s], requests'[r], written'[r])
               /\ requests'[r].by # s
    <3>1. SameDrive(s)
      BY <1>5
    <3>2. DriveOK(drive[s], requests[r], written[r])
      BY <2>1, <2>4, <3>1 DEF ReviewOK, SameDrive
    <3>3. DriveOK(drive'[s], requests'[r], written'[r])
      BY <1>7, <2>1, <2>2, <3>1, <3>2 DEF DriveOK, SameDrive, Writes, OpenStates
    <3>4. requests'[r].by # s
      BY <1>7, <2>2, ImAssumption, ReviewAssumption
    <3> QED BY <3>3, <3>4
  <2>5. ASSUME NEW s \in Slots, NEW p \in Slots, drive'[s].r = r, drive'[p].r = r,
               Writes(drive'[s]), Writes(drive'[p]), drive'[s].via # NoDuplicates
        PROVE  s = p
    <3>1. SameDrive(s) /\ SameDrive(p)
      BY <1>5
    <3> QED BY <2>1, <2>5, <3>1 DEF ReviewOK, SameDrive, Writes
  <2> QED BY <2>3, <2>4, <2>5 DEF ReviewOK, Holds
<1> QED BY <1>4, <1>8, <1>9, <1>10, <1>11 DEF SafeInv, Sound

-----------------------------------------------------------------------------
(* Deliveries. *)

\* A delivery that is answered with a request there already is.
LEMMA AnsweredSame ==
    ASSUME SafeInv, NEW d \in Deliveries, NEW r \in Requests,
           inbox' = [inbox EXCEPT ![d] = r], consumed' \in {consumed, r},
           d \in Presses => consumed' = r,
           consumed' # consumed => \A e \in Presses : inbox[e] = None,
           UNCHANGED <<requests, activeTarget, outbox>>,
           UNCHANGED reviewVars, UNCHANGED replyVars
    PROVE  Sound
<1>1. Types /\ TargetOK
  BY DEF SafeInv
<1>2. TargetOK'
  <2>1. \A q \in Requests : Open(q)' <=> activeTarget' = q
    BY <1>1 DEF TargetOK, Open
  <2>2. ASSUME NEW e \in Presses, inbox'[e] # None PROVE inbox'[e] = consumed'
    <3>1. e \in Deliveries
      BY ImAssumption
    <3>2. CASE e = d
      BY <1>1, <3>2 DEF Types
    <3>3. CASE e # d
      BY <1>1, <2>2, <3>1, <3>3 DEF Types, TargetOK
    <3> QED BY <3>2, <3>3
  <2> QED BY <2>1, <2>2 DEF TargetOK
<1>3. IdleOK' /\ \A q \in Requests : ReviewOK(q)'
  BY SameKeepsReview DEF SameRow, SameDrive, reviewVars
<1>4. RestingOK' /\ OutcomeKept
  BY DEF SafeInv, RestingOK, OutcomeKept, replyVars
<1>5. ASSUME NEW q \in Requests PROVE ReplyOK(q)'
  <2>1. ReplyOK(q)
    BY DEF SafeInv
  <2> QED BY <2>1 DEF ReplyOK, Final, replyVars
<1>6. Types'
  BY <1>1 DEF Types, reviewVars, replyVars
<1> QED BY <1>2, <1>3, <1>4, <1>5, <1>6 DEF SafeInv, Sound

\* A delivery that makes a request: the row was free, so nobody drives or tells it.
LEMMA CreatedSound ==
    ASSUME SafeInv, NEW d \in Deliveries, NEW r \in Requests, AcceptCreated(d, r),
           UNCHANGED reviewVars, UNCHANGED replyVars
    PROVE  Sound
<1> DEFINE row == [requests[r] EXCEPT !.state = "accepted"]
<1>1. Types /\ TargetOK /\ IdleOK /\ \A q \in Requests : ReviewOK(q) /\ ReplyOK(q)
  BY DEF SafeInv
<1>2. /\ requests' = [requests EXCEPT ![r] = row] /\ requests[r] \in RowType
      /\ requests[r].state = "none" /\ activeTarget = None /\ activeTarget' = r
      /\ inbox' = [inbox EXCEPT ![d] = r] /\ Consume(d, r) /\ ~(d \in Presses /\ consumed # None)
      /\ UNCHANGED <<outbox, drive, written, sender, told>>
  BY <1>1 DEF Types, AcceptCreated, reviewVars, replyVars
<1>3. /\ row \in RowType /\ row.state = "accepted" /\ row.by = requests[r].by
      /\ row.op = requests[r].op /\ row.via = requests[r].via
  BY <1>2 DEF RowType, OpenStates
<1> HIDE DEF row
<1>4. /\ requests' \in [Requests -> RowType] /\ requests'[r] = row
      /\ \A q \in Requests : q # r => requests'[q] = requests[q]
  BY <1>1, <1>2, <1>3 DEF Types
<1>5. Types'
  BY <1>1, <1>2, <1>4 DEF Types, Consume
<1>6. TargetOK'
  <2>1. \A q \in Requests : Open(q)' <=> activeTarget' = q
    BY <1>1, <1>2, <1>3, <1>4, ImAssumption, StatesApart DEF TargetOK, Open
  <2>2. ASSUME NEW e \in Presses, inbox'[e] # None PROVE inbox'[e] = consumed'
    <3>1. e \in Deliveries
      BY ImAssumption
    <3>2. CASE e = d
      BY <1>1, <1>2, <3>1, <3>2 DEF Types, Consume
    <3>3. CASE e # d
      BY <1>1, <1>2, <2>2, <3>1, <3>3 DEF Types, TargetOK, Consume
    <3> QED BY <3>2, <3>3
  <2> QED BY <2>1, <2>2 DEF TargetOK
<1>7. OutcomeKept
  BY <1>2, <1>4, StatesApart DEF OutcomeKept, Final
<1>8. IdleOK' /\ RestingOK'
  BY <1>2 DEF SafeInv, IdleOK, RestingOK
<1>9. ASSUME NEW q \in Requests, q # r PROVE ReviewOK(q)' /\ ReplyOK(q)'
  <2>1. ReviewOK(q) /\ ReplyOK(q) /\ requests'[q] = requests[q]
    BY <1>1, <1>4, <1>9
  <2>2. ReviewOK(q)'
    BY <1>2, <2>1 DEF ReviewOK, Holds
  <2>3. ReplyOK(q)'
    BY <1>2, <2>1 DEF ReplyOK, Final
  <2> QED BY <2>2, <2>3
<1>10. ReviewOK(r)'
  <2>1. RowOK(requests[r], written[r])
    BY <1>1 DEF ReviewOK
  <2>2. RowOK(row, written[r])
    BY <1>2, <1>3, <2>1, StatesApart DEF RowOK, OpenStates
  <2>3. \A s \in Slots : drive[s].r # r
    BY <1>1, <1>2 DEF ReviewOK, DriveOK
  <2> QED BY <1>2, <1>4, <2>2, <2>3 DEF ReviewOK
<1>11. ReplyOK(r)'
  <2>1. ReplyOK(r) /\ outbox[r].tells = None
    BY <1>1, <1>2, StatesApart DEF ReplyOK, Final
  <2> QED BY <1>2, <2>1 DEF ReplyOK
<1> QED BY <1>5, <1>6, <1>7, <1>8, <1>9, <1>10, <1>11 DEF SafeInv, Sound

LEMMA AcceptSound ==
    ASSUME SafeInv, NEW d \in Deliveries, Accept(d), UNCHANGED reviewVars, UNCHANGED replyVars
    PROVE  Sound
<1>1. Types /\ TargetOK
  BY DEF SafeInv
<1>2. CASE AcceptReplayed(d)
  <2>1. consumed \in Requests
    BY <1>1, <1>2 DEF Types, AcceptReplayed
  <2> QED BY <1>2, <2>1, AnsweredSame DEF AcceptReplayed
<1>3. CASE AcceptMerged(d)
  <2>1. activeTarget \in Requests
    BY <1>1, <1>3 DEF Types, AcceptMerged
  <2>2. consumed' # consumed => \A e \in Presses : inbox[e] = None
    BY <1>1, <1>3 DEF AcceptMerged, Consume, TargetOK
  <2>3. consumed' \in {consumed, activeTarget} /\ (d \in Presses => consumed' = activeTarget)
    BY <1>3 DEF AcceptMerged, Consume
  <2> QED BY <1>3, <2>1, <2>2, <2>3, AnsweredSame DEF AcceptMerged
<1>4. CASE \E r \in Requests : AcceptCreated(d, r)
  BY <1>4, CreatedSound
<1> QED BY <1>2, <1>3, <1>4 DEF Accept

-----------------------------------------------------------------------------
(* Replies. *)

OthersTables == UNCHANGED <<requests, activeTarget, inbox, consumed, drive, written>>

\* A step of the senders: what it has to show.
LEMMA RepliesSound ==
    ASSUME SafeInv, OthersTables,
           outbox' \in [Requests -> ReplyType], sender' \in [Senders -> SenderType],
           told' \in [Requests -> Nat],
           \A r \in Requests : outbox'[r].tells = outbox[r].tells,
           RestingOK', \A r \in Requests : ReplyOK(r)'
    PROVE  Sound
<1>1. Types /\ TargetOK
  BY DEF SafeInv
<1>2. IdleOK' /\ \A r \in Requests : ReviewOK(r)'
  BY SameKeepsReview DEF OthersTables, SameRow, SameDrive
<1>3. TargetOK' /\ OutcomeKept
  BY <1>1 DEF TargetOK, Open, OutcomeKept, OthersTables
<1>4. Types'
  BY <1>1 DEF Types, OthersTables
<1> QED BY <1>2, <1>3, <1>4 DEF SafeInv, Sound

\* What sender x may come to for the reply of r: the row, its own pass, what is told.
ReplyMoves(x, r, row, pass, n) ==
    /\ row.tells = outbox[r].tells /\ row.by = outbox[r].by
    /\ row.state = "none" <=> outbox[r].state = "none"
    /\ row.state \in Unsent => n = 0
    /\ pass.todo \subseteq sender[x].todo /\ pass.now \in {None, r}
    /\ pass.step = "idle" <=> pass.now = None
    /\ r \in pass.todo /\ row.by = x => row.state # "sending"
    /\ pass.now = r => row.state \notin Unsent /\ (pass.step \in {"sending", "refused"} => n = 0)
    /\ \A y \in Senders : y # x =>
          /\ r \in sender[y].todo /\ row.by = y => row.state # "sending"
          /\ sender[y].now # r \/ (row = outbox[r] /\ n = told[r] /\ pass.now # r)

LEMMA MoveKeepsReply ==
    ASSUME SafeInv, OthersTables, NEW x \in Senders, NEW r \in Requests,
           NEW row \in ReplyType, NEW pass \in SenderType, NEW n \in {0, 1},
           outbox' = [outbox EXCEPT ![r] = row], sender' = [sender EXCEPT ![x] = pass],
           told' = [told EXCEPT ![r] = n], ReplyMoves(x, r, row, pass, n)
    PROVE  Sound
<1> USE DEF ReplyMoves
<1>1. Types /\ RestingOK /\ \A q \in Requests : ReplyOK(q)
  BY DEF SafeInv
<1>2. /\ outbox' \in [Requests -> ReplyType] /\ sender' \in [Senders -> SenderType]
      /\ told' \in [Requests -> Nat]
      /\ outbox'[r] = row /\ sender'[x] = pass /\ told'[r] = n
      /\ \A q \in Requests : q # r => outbox'[q] = outbox[q] /\ told'[q] = told[q]
      /\ \A y \in Senders : y # x => sender'[y] = sender[y]
  BY <1>1 DEF Types
<1>3. \A q \in Requests : outbox'[q].tells = outbox[q].tells
  BY <1>2
<1>4. RestingOK'
  BY <1>1, <1>2 DEF RestingOK
<1>5. ASSUME NEW q \in Requests, q # r PROVE ReplyOK(q)'
  <2>1. ReplyOK(q) /\ outbox'[q] = outbox[q] /\ told'[q] = told[q]
    BY <1>1, <1>2, <1>5
  <2>2. \A y \in Senders : /\ q \in sender'[y].todo => q \in sender[y].todo
                           /\ sender'[y].now = q => sender' [y] = sender[y]
    BY <1>2, <1>5, ImAssumption
  <2> QED BY <2>1, <2>2 DEF ReplyOK, Final, OthersTables
<1>6. ReplyOK(r)'
  <2>1. ReplyOK(r)
    BY <1>1
  <2>2. /\ told'[r] \in {0, 1}
        /\ outbox'[r].state \in Unsent => told'[r] = 0
        /\ outbox'[r].state = "none" <=> outbox'[r].tells = None
        /\ outbox'[r].tells # None => Final(r)' /\ outbox'[r].tells = requests'[r].state
    BY <1>2, <2>1 DEF ReplyOK, Final, OthersTables
  <2>3. ASSUME NEW y \in Senders
        PROVE  /\ r \in sender'[y].todo => outbox'[r].state # "none"
               /\ r \in sender'[y].todo /\ outbox'[r].by = y => outbox'[r].state # "sending"
               /\ sender'[y].now = r => outbox'[r].state \notin Unsent
               /\ sender'[y].now = r /\ sender'[y].step \in {"sending", "refused"} => told'[r] = 0
    <3>1. CASE y = x
      BY <1>2, <2>1, <3>1 DEF ReplyOK
    <3>2. CASE y # x
      BY <1>2, <2>1, <3>2 DEF ReplyOK
    <3> QED BY <3>1, <3>2
  <2>4. ASSUME NEW y \in Senders, NEW z \in Senders, sender'[y].now = r, sender'[z].now = r
        PROVE  y = z
    BY <1>2, <2>1, <2>4 DEF ReplyOK
  <2> QED BY <2>2, <2>3, <2>4 DEF ReplyOK
<1> QED BY <1>2, <1>3, <1>4, <1>5, <1>6, RepliesSound

\* The row that a fenced write of a sender leaves.
ReplyStates == {"none", "pending", "delivering", "sending", "delivered", "unknown", "dropped"}

LEMMA SettledRow ==
    ASSUME Types, NEW x \in Senders, NEW r \in Requests, NEW from, NEW to \in ReplyStates,
           Settled(x, r, from, to)
    PROVE  \E row \in ReplyType :
              /\ outbox' = [outbox EXCEPT ![r] = row]
              /\ row.tells = outbox[r].tells /\ row.by = outbox[r].by
              /\ Applies(x, r, from) => row.state = to
              /\ ~Applies(x, r, from) => row = outbox[r]
<1>1. outbox[r] \in ReplyType /\ outbox = [outbox EXCEPT ![r] = outbox[r]]
  BY DEF Types
<1>2. CASE Applies(x, r, from)
  <2> DEFINE row == [outbox[r] EXCEPT !.state = to,
                                      !.lease = IF to = "sending" THEN @ ELSE "none"]
  <2>1. outbox' = [outbox EXCEPT ![r] = row]
    BY <1>2 DEF Settled, Types
  <2>2. row \in ReplyType /\ row.tells = outbox[r].tells /\ row.by = outbox[r].by /\ row.state = to
    BY <1>1 DEF ReplyType, Leases, ReplyStates
  <2> HIDE DEF row
  <2> QED BY <1>2, <2>1, <2>2
<1>3. CASE ~Applies(x, r, from)
  BY <1>1, <1>3 DEF Settled
<1> QED BY <1>2, <1>3

\* What a sender that is at a reply knows of it.
LEMMA SenderKnows ==
    ASSUME SafeInv, NEW x \in Senders
    PROVE  /\ sender[x] \in SenderType
           /\ sender[x].step = "idle" <=> sender[x].now = None
           /\ \A r \in Requests :
                 /\ ReplyOK(r) /\ outbox[r] \in ReplyType /\ told[r] \in {0, 1}
                 /\ told = [told EXCEPT ![r] = told[r]]
                 /\ outbox = [outbox EXCEPT ![r] = outbox[r]]
                 /\ \A y \in Senders : y # x /\ sender[x].now = r => sender[y].now # r
           /\ sender[x].step # "idle" => Job(x) \in Requests
<1>1. Types /\ RestingOK /\ \A q \in Requests : ReplyOK(q)
  BY DEF SafeInv
<1>2. sender[x] \in SenderType /\ (sender[x].step = "idle" <=> sender[x].now = None)
  BY <1>1 DEF Types, RestingOK
<1>3. sender[x].step # "idle" => Job(x) \in Requests
  BY <1>2 DEF SenderType, Job
<1>4. ASSUME NEW r \in Requests
      PROVE  /\ ReplyOK(r) /\ outbox[r] \in ReplyType /\ told[r] \in {0, 1}
             /\ told = [told EXCEPT ![r] = told[r]]
             /\ outbox = [outbox EXCEPT ![r] = outbox[r]]
             /\ \A y \in Senders : y # x /\ sender[x].now = r => sender[y].now # r
  <2>1. ReplyOK(r)
    BY <1>1
  <2>2. /\ told = [told EXCEPT ![r] = told[r]]
        /\ outbox = [outbox EXCEPT ![r] = outbox[r]] /\ outbox[r] \in ReplyType
    BY <1>1 DEF Types
  <2> QED BY <2>1, <2>2 DEF ReplyOK
<1> QED BY <1>2, <1>3, <1>4

\* A sender that is between two replies writes one of its pass.
LEMMA PrepareSound ==
    ASSUME SafeInv, NEW x \in Senders, Prepare(x), UNCHANGED reviewVars
    PROVE  Sound
<1>1. ReplyAt(x, "idle") /\ sender[x].step = "idle" /\ sender[x].now = None
  BY SenderKnows DEF Prepare, ReplyAt
<1>2. PICK r \in sender[x].todo :
        LET rest == [sender[x] EXCEPT !.todo = @ \ {r}]
        IN  \/ /\ outbox[r].attempts <= MaxReplies
               /\ Settled(x, r, {"delivering"}, "sending")
               /\ sender' = [sender EXCEPT ![x] = IF Applies(x, r, {"delivering"})
                                                  THEN [rest EXCEPT !.step = "sending", !.now = r] ELSE rest]
            \/ /\ \E to \in AgainOrNever(r) : Settled(x, r, {"delivering", "sending"}, to)
               /\ sender' = [sender EXCEPT ![x] = rest]
  BY DEF Prepare
<1> DEFINE rest == [sender[x] EXCEPT !.todo = @ \ {r}]
           busy == [rest EXCEPT !.step = "sending", !.now = r]
<1>3. sender[x] \in SenderType /\ r \in Requests
  BY SenderKnows DEF SenderType
<1>4. /\ ReplyOK(r) /\ outbox[r] \in ReplyType /\ told[r] \in {0, 1} /\ Types
      /\ told = [told EXCEPT ![r] = told[r]] /\ outbox[r].state # "none"
      /\ outbox[r].by = x => outbox[r].state # "sending"
  BY <1>2, <1>3, SenderKnows DEF ReplyOK, SafeInv
<1>5. /\ rest \in SenderType /\ rest.todo \subseteq sender[x].todo /\ r \notin rest.todo
      /\ rest.step = "idle" /\ rest.now = None
  BY <1>1, <1>3 DEF SenderType
<1>6. /\ busy \in SenderType /\ busy.todo \subseteq sender[x].todo /\ r \notin busy.todo
      /\ busy.step = "sending" /\ busy.now = r
  BY <1>3 DEF SenderType
<1>7. told' = [told EXCEPT ![r] = told[r]] /\ r # None
  BY <1>3, <1>4, ImAssumption DEF Prepare
<1>8. outbox[r].state = "delivering" => told[r] = 0 /\ \A y \in Senders : sender[y].now # r
  BY <1>4 DEF ReplyOK, Unsent
<1>9. \A y \in Senders : r \in sender[y].todo /\ outbox[r].by = y => outbox[r].state # "sending"
  BY <1>4 DEF ReplyOK
<1>10. outbox[r].state \in Unsent => told[r] = 0
  BY <1>4 DEF ReplyOK
<1>11. OthersTables
  BY <1>2 DEF Settled, OthersTables, reviewVars
<1>12. CASE Settled(x, r, {"delivering"}, "sending")
            /\ sender' = [sender EXCEPT ![x] = IF Applies(x, r, {"delivering"}) THEN busy ELSE rest]
  <2>1. PICK row \in ReplyType :
              /\ outbox' = [outbox EXCEPT ![r] = row]
              /\ row.tells = outbox[r].tells /\ row.by = outbox[r].by
              /\ Applies(x, r, {"delivering"}) => row.state = "sending"
              /\ ~Applies(x, r, {"delivering"}) => row = outbox[r]
    <3>1. "sending" \in ReplyStates
      BY DEF ReplyStates
    <3> QED BY <1>3, <1>4, <1>12, <3>1, SettledRow
  <2> HIDE DEF rest, busy
  <2>2. CASE Applies(x, r, {"delivering"})
    <3>1. outbox[r].state = "delivering" /\ outbox[r].by = x
      BY <2>2 DEF Applies
    <3>2. ReplyMoves(x, r, row, busy, told[r])
      BY <1>4, <1>6, <1>7, <1>8, <2>1, <2>2, <3>1 DEF ReplyMoves, Unsent
    <3> QED BY <1>3, <1>4, <1>6, <1>7, <1>11, <1>12, <2>1, <2>2, <3>2, MoveKeepsReply
  <2>3. CASE ~Applies(x, r, {"delivering"})
    <3>1. ReplyMoves(x, r, row, rest, told[r])
      BY <1>4, <1>5, <1>7, <1>9, <1>10, <2>1, <2>3 DEF ReplyMoves
    <3> QED BY <1>3, <1>4, <1>5, <1>7, <1>11, <1>12, <2>1, <2>3, <3>1, MoveKeepsReply
  <2> QED BY <2>2, <2>3
<1>13. CASE /\ \E to \in AgainOrNever(r) : Settled(x, r, {"delivering", "sending"}, to)
            /\ sender' = [sender EXCEPT ![x] = rest]
  <2>1. PICK to \in {"pending", "dropped"} : Settled(x, r, {"delivering", "sending"}, to)
    BY <1>13 DEF AgainOrNever
  <2>2. PICK row \in ReplyType :
              /\ outbox' = [outbox EXCEPT ![r] = row]
              /\ row.tells = outbox[r].tells /\ row.by = outbox[r].by
              /\ Applies(x, r, {"delivering", "sending"}) => row.state = to
              /\ ~Applies(x, r, {"delivering", "sending"}) => row = outbox[r]
    <3>1. to \in ReplyStates
      BY DEF ReplyStates
    <3> QED BY <1>3, <1>4, <2>1, <3>1, SettledRow
  <2> HIDE DEF rest
  <2>3. CASE Applies(x, r, {"delivering", "sending"})
    <3>1. outbox[r].state = "delivering"
      BY <1>4, <2>3 DEF Applies
    <3>2. ReplyMoves(x, r, row, rest, told[r])
      BY <1>4, <1>5, <1>7, <1>8, <2>2, <2>3, <3>1 DEF ReplyMoves
    <3> QED BY <1>3, <1>4, <1>5, <1>7, <1>11, <1>13, <2>2, <3>2, MoveKeepsReply
  <2>4. CASE ~Applies(x, r, {"delivering", "sending"})
    <3>1. ReplyMoves(x, r, row, rest, told[r])
      BY <1>4, <1>5, <1>7, <1>9, <1>10, <2>2, <2>4 DEF ReplyMoves
    <3> QED BY <1>3, <1>4, <1>5, <1>7, <1>11, <1>13, <2>2, <3>1, MoveKeepsReply
  <2> QED BY <2>3, <2>4
<1> QED BY <1>2, <1>12, <1>13

\* A sender that is done with its reply, whether or not its last write applies.
LEMMA DoneSound ==
    ASSUME SafeInv, NEW x \in Senders, sender[x].step # "idle", Rest(x), OthersTables, UNCHANGED told,
           NEW row \in ReplyType, outbox' = [outbox EXCEPT ![Job(x)] = row],
           row.tells = outbox[Job(x)].tells, row.by = outbox[Job(x)].by,
           \/ row = outbox[Job(x)]
           \/ row.state \in {"delivered", "unknown", "dropped"}
           \/ row.state = "pending" /\ sender[x].step \in {"sending", "refused"}
    PROVE  Sound
<1> DEFINE r == Job(x)
           pass == [sender[x] EXCEPT !.step = "idle", !.now = None]
<1>1. /\ sender[x] \in SenderType /\ r \in Requests /\ sender[x].now = r
      /\ ReplyOK(r) /\ told[r] \in {0, 1} /\ told = [told EXCEPT ![r] = told[r]]
      /\ \A y \in Senders : y # x => sender[y].now # r
  BY SenderKnows DEF Job
<1>2. /\ outbox[r].state \notin Unsent /\ outbox[r].state # "none"
      /\ sender[x].step \in {"sending", "refused"} => told[r] = 0
      /\ outbox[r].state \in Unsent => told[r] = 0
      /\ \A y \in Senders : r \in sender[y].todo /\ outbox[r].by = y => outbox[r].state # "sending"
  BY <1>1 DEF ReplyOK, Unsent
<1>3. /\ pass \in SenderType /\ pass.todo = sender[x].todo
      /\ pass.step = "idle" /\ pass.now = None /\ sender' = [sender EXCEPT ![x] = pass]
  <2>1. sender \in [Senders -> SenderType]
    BY DEF SafeInv, Types
  <2> QED BY <1>1, <2>1 DEF SenderType, Rest
<1> HIDE DEF pass
<1>4. r # None /\ told' = [told EXCEPT ![r] = told[r]]
  BY <1>1, ImAssumption
<1>5. ReplyMoves(x, r, row, pass, told[r])
  <2>1. CASE row = outbox[r]
    BY <1>1, <1>2, <1>3, <1>4, <2>1 DEF ReplyMoves
  <2>2. CASE row.state \in {"delivered", "unknown", "dropped"}
    BY <1>1, <1>2, <1>3, <1>4, <2>2 DEF ReplyMoves, Unsent
  <2>3. CASE row.state = "pending" /\ sender[x].step \in {"sending", "refused"}
    BY <1>1, <1>2, <1>3, <1>4, <2>3 DEF ReplyMoves, Unsent
  <2> QED BY <2>1, <2>2, <2>3
<1> HIDE DEF r
<1> QED BY <1>1, <1>3, <1>4, <1>5, MoveKeepsReply DEF r

\* The same, with the write of the sender.
LEMMA SettledSound ==
    ASSUME SafeInv, NEW x \in Senders, sender[x].step # "idle", Rest(x), UNCHANGED told,
           UNCHANGED reviewVars, NEW from, NEW to \in {"pending", "dropped", "delivered", "unknown"},
           Settled(x, Job(x), from, to),
           to = "pending" => sender[x].step \in {"sending", "refused"}
    PROVE  Sound
<1>1. Job(x) \in Requests /\ Types /\ to \in ReplyStates
  BY SenderKnows DEF SafeInv, ReplyStates
<1>2. PICK row \in ReplyType :
            /\ outbox' = [outbox EXCEPT ![Job(x)] = row]
            /\ row.tells = outbox[Job(x)].tells /\ row.by = outbox[Job(x)].by
            /\ Applies(x, Job(x), from) => row.state = to
            /\ ~Applies(x, Job(x), from) => row = outbox[Job(x)]
  BY <1>1, SettledRow
<1>3. OthersTables
  BY DEF Settled, OthersTables, reviewVars
<1> QED BY <1>2, <1>3, DoneSound

LEMMA UnsettledSound ==
    ASSUME SafeInv, NEW x \in Senders, sender[x].step # "idle", Rest(x), UNCHANGED told,
           UNCHANGED reviewVars, UNCHANGED imVars
    PROVE  Sound
<1>1. Job(x) \in Requests
  BY SenderKnows
<1>2. /\ outbox[Job(x)] \in ReplyType /\ outbox' = [outbox EXCEPT ![Job(x)] = outbox[Job(x)]]
  BY <1>1, SenderKnows DEF imVars
<1>3. OthersTables
  BY DEF OthersTables, reviewVars, imVars
<1> QED BY <1>2, <1>3, DoneSound

LEMMA BeforePostSound ==
    ASSUME SafeInv, NEW x \in Senders, BeforePost(x), UNCHANGED reviewVars
    PROVE  Sound
<1>1. sender[x].step = "sending" /\ sender[x].step # "idle" /\ Rest(x) /\ UNCHANGED told
  BY DEF BeforePost, ReplyAt
<1>2. CASE \E to \in AgainOrNever(Job(x)) : Settled(x, Job(x), {"delivering", "sending"}, to)
  BY <1>1, <1>2, SettledSound DEF AgainOrNever
<1>3. CASE UNCHANGED imVars
  BY <1>1, <1>3, UnsettledSound
<1> QED BY <1>2, <1>3 DEF BeforePost

LEMMA AfterPostSound ==
    ASSUME SafeInv, NEW x \in Senders, AfterPost(x), UNCHANGED reviewVars
    PROVE  Sound
<1>1. sender[x].step # "idle" /\ Rest(x) /\ UNCHANGED told
  BY DEF AfterPost, ReplyAt
<1>2. CASE Settled(x, Job(x), {"sending"}, "delivered")
  BY <1>1, <1>2, SettledSound
<1>3. CASE Settled(x, Job(x), {"sending"}, "unknown")
  BY <1>1, <1>3, SettledSound
<1>4. CASE UNCHANGED imVars
  BY <1>1, <1>4, UnsettledSound
<1>5. CASE /\ ReplyAt(x, "refused")
           /\ \E to \in AgainOrNever(Job(x)) : Settled(x, Job(x), {"delivering", "sending"}, to)
  BY <1>1, <1>5, SettledSound DEF AgainOrNever, ReplyAt
<1> QED BY <1>2, <1>3, <1>4, <1>5 DEF AfterPost

\* The one POST of a reply: nothing was told before it.
LEMMA PostSound ==
    ASSUME SafeInv, NEW x \in Senders, Post(x), UNCHANGED reviewVars
    PROVE  Sound
<1> DEFINE r == Job(x)
<1>1. sender[x].step = "sending" /\ sender[x].step # "idle"
  BY DEF Post, ReplyAt
<1>2. /\ sender[x] \in SenderType /\ r \in Requests /\ sender[x].now = r
      /\ ReplyOK(r) /\ outbox[r] \in ReplyType /\ outbox = [outbox EXCEPT ![r] = outbox[r]]
      /\ \A y \in Senders : y # x => sender[y].now # r
  BY <1>1, SenderKnows DEF Job
<1>3. /\ outbox[r].state \notin Unsent /\ told[r] = 0 /\ r # None
      /\ \A y \in Senders : r \in sender[y].todo /\ outbox[r].by = y => outbox[r].state # "sending"
  BY <1>1, <1>2, ImAssumption DEF ReplyOK, Unsent
<1>4. OthersTables /\ outbox' = [outbox EXCEPT ![r] = outbox[r]]
  BY <1>2 DEF Post, OthersTables, imVars, reviewVars
<1>5. PICK step \in {"delivered", "unknown", "refused"} :
          /\ sender' = [sender EXCEPT ![x].step = step]
          /\ \/ told' = [told EXCEPT ![r] = @ + 1] /\ step # "refused"
             \/ told' = told
  BY DEF Post
<1> DEFINE pass == [sender[x] EXCEPT !.step = step]
           n == IF told' = told THEN 0 ELSE 1
<1>6. /\ pass \in SenderType /\ pass.todo = sender[x].todo /\ pass.now = r
      /\ pass.step = step /\ sender' = [sender EXCEPT ![x] = pass]
  <2>1. sender \in [Senders -> SenderType]
    BY DEF SafeInv, Types
  <2> QED BY <1>2, <1>5, <2>1 DEF SenderType
<1>7. told' = [told EXCEPT ![r] = n] /\ n \in {0, 1} /\ (step = "refused" => n = 0)
  <2>1. told \in [Requests -> Nat]
    BY DEF SafeInv, Types
  <2> QED BY <1>2, <1>3, <1>5, <2>1
<1> HIDE DEF pass, n
<1>8. ReplyMoves(x, r, outbox[r], pass, n)
  BY <1>2, <1>3, <1>5, <1>6, <1>7 DEF ReplyMoves
<1> HIDE DEF r
<1> QED BY <1>2, <1>4, <1>6, <1>7, <1>8, MoveKeepsReply

\* The lease of a reply runs out.
LEMMA ReplyLapsesSound ==
    ASSUME SafeInv, NEW r \in Requests, ReplyLapses(r), UNCHANGED <<drive, written>>
    PROVE  Sound
<1>1. Types /\ RestingOK /\ \A q \in Requests : ReplyOK(q)
  BY DEF SafeInv
<1>2. OthersTables /\ UNCHANGED replyVars /\ outbox' = [outbox EXCEPT ![r].lease = "lapsed"]
  BY DEF ReplyLapses, OthersTables
<1>3. /\ outbox' \in [Requests -> ReplyType]
      /\ \A q \in Requests : /\ outbox'[q].state = outbox[q].state /\ outbox'[q].by = outbox[q].by
                             /\ outbox'[q].tells = outbox[q].tells
  BY <1>1, <1>2 DEF Types, ReplyType, Leases
<1>4. RestingOK'
  BY <1>1, <1>2 DEF RestingOK, replyVars
<1>5. ASSUME NEW q \in Requests PROVE ReplyOK(q)'
  <2>1. ReplyOK(q)
    BY <1>1
  <2> QED BY <1>2, <1>3, <2>1 DEF ReplyOK, Final, OthersTables, replyVars
<1>6. sender' \in [Senders -> SenderType] /\ told' \in [Requests -> Nat]
  BY <1>1, <1>2 DEF Types, replyVars
<1> QED BY <1>2, <1>3, <1>4, <1>5, <1>6, RepliesSound

LEMMA ClaimedRow ==
    ASSUME NEW row \in ReplyType, NEW x \in Claimants
    PROVE  /\ Claimed(row, x) \in ReplyType /\ Claimed(row, x).tells = row.tells
           /\ Claimed(row, x).by = x /\ Claimed(row, x).state = "delivering"
<1> DEFINE leased == [row EXCEPT !.state = "delivering", !.lease = "live"]
           n == row.attempts + 1
<1>1. leased \in ReplyType /\ leased.tells = row.tells /\ leased.state = "delivering"
  BY DEF ReplyType, Leases
<1>2. n \in Nat
  BY DEF ReplyType
<1>3. Claimed(row, x) = [leased EXCEPT !.attempts = n, !.by = x]
  BY DEF Claimed
<1> HIDE DEF leased, n
<1> QED BY <1>1, <1>2, <1>3 DEF ReplyType

\* A pass takes what is due; what a lost sender was sending is settled as unknown.
LEMMA ClaimRepliesSound ==
    ASSUME SafeInv, NEW x \in Senders, ClaimReplies(x), UNCHANGED reviewVars
    PROVE  Sound
<1> DEFINE row == [r \in Requests |-> Settle(outbox[r])]
           due == {r \in Requests : Due(row[r])}
<1>1. Types /\ RestingOK /\ \A q \in Requests : ReplyOK(q)
  BY DEF SafeInv
<1>2. PICK old \in SUBSET due :
        /\ outbox' = [r \in Requests |-> IF r \in old THEN Expired(row[r])
                                         ELSE IF r \in due THEN Claimed(row[r], x) ELSE row[r]]
        /\ sender' = [sender EXCEPT ![x].todo = due \ old]
  BY DEF ClaimReplies
<1>3. x \in Claimants
  BY ReplyAssumption
<1>4. ASSUME NEW r \in Requests
      PROVE  /\ row[r] \in ReplyType /\ row[r].tells = outbox[r].tells
             /\ row[r].by \in {outbox[r].by, None}
             /\ row[r].state = outbox[r].state \/ (outbox[r].state = "sending" /\ row[r].state = "unknown")
  BY <1>1 DEF Types, ReplyType, Settle, Leases
<1> HIDE DEF row
<1>5. ASSUME NEW r \in Requests
      PROVE  /\ outbox'[r] \in ReplyType /\ outbox'[r].tells = outbox[r].tells
             /\ outbox'[r].by \in {outbox[r].by, None, x}
             /\ r \notin due => outbox'[r] = row[r]
             /\ r \in due => /\ outbox[r].state \in {"pending", "delivering"}
                             /\ outbox'[r].state \in {"delivering", "dropped"}
  <2>1. CASE r \in old
    BY <1>2, <1>4, <2>1 DEF Expired, ReplyType, Leases, Due
  <2>2. CASE r \notin old /\ r \in due
    <3>1. outbox'[r] = Claimed(row[r], x)
      BY <1>2, <2>2
    <3>2. row[r].state \in {"pending", "delivering"}
      BY <2>2 DEF Due
    <3>3. /\ Claimed(row[r], x) \in ReplyType /\ Claimed(row[r], x).tells = row[r].tells
          /\ Claimed(row[r], x).by = x /\ Claimed(row[r], x).state = "delivering"
      BY <1>3, <1>4, ClaimedRow
    <3> QED BY <1>4, <2>2, <3>1, <3>2, <3>3
  <2>3. CASE r \notin old /\ r \notin due
    BY <1>2, <1>4, <2>3
  <2> QED BY <1>2, <2>1, <2>2, <2>3
<1>6. /\ sender' \in [Senders -> SenderType]
      /\ \A y \in Senders : /\ sender'[y].step = sender[y].step /\ sender'[y].now = sender[y].now
                            /\ sender'[y].todo = IF y = x THEN due \ old ELSE sender[y].todo
  BY <1>1, <1>2 DEF Types, SenderType
<1>7. RestingOK'
  BY <1>1, <1>6 DEF RestingOK
<1>8. OthersTables /\ UNCHANGED told
  BY DEF ClaimReplies, OthersTables, reviewVars
<1>9. ASSUME NEW r \in Requests PROVE ReplyOK(r)'
  <2>1. ReplyOK(r)
    BY <1>1
  <2>2. /\ outbox[r].state = "none" <=> outbox'[r].state = "none"
        /\ outbox'[r].state \in Unsent <=>
              outbox[r].state \in Unsent /\ outbox'[r].state # "dropped"
        /\ outbox'[r].state = "sending" => r \notin due /\ outbox[r].state = "sending"
    BY <1>4, <1>5 DEF Unsent, ReplyType
  <2>3. ASSUME NEW y \in Senders, r \in sender'[y].todo PROVE outbox'[r].state # "none"
    BY <1>5, <1>6, <2>1, <2>2, <2>3 DEF ReplyOK
  <2>4. ASSUME NEW y \in Senders, r \in sender'[y].todo, outbox'[r].by = y
        PROVE  outbox'[r].state # "sending"
    <3>1. SUFFICES ASSUME outbox'[r].state = "sending" PROVE FALSE
      OBVIOUS
    <3>2. r \notin due /\ outbox[r].state = "sending" /\ outbox'[r] = row[r]
      BY <1>5, <2>2, <3>1
    <3>3. y # x /\ r \in sender[y].todo
      BY <1>6, <2>4, <3>2
    <3>4. outbox[r].by = y
      BY <1>4, <2>4, <3>2, ImAssumption, ReplyAssumption
    <3> QED BY <2>1, <3>2, <3>3, <3>4 DEF ReplyOK
  <2>5. ASSUME NEW y \in Senders, sender'[y].now = r
        PROVE  /\ outbox'[r].state \notin Unsent
               /\ sender'[y].step \in {"sending", "refused"} => told'[r] = 0
    BY <1>6, <1>8, <2>1, <2>2, <2>5 DEF ReplyOK
  <2>6. /\ told'[r] \in {0, 1}
        /\ outbox'[r].state \in Unsent => told'[r] = 0
        /\ outbox'[r].state = "none" <=> outbox'[r].tells = None
        /\ outbox'[r].tells # None => Final(r)' /\ outbox'[r].tells = requests'[r].state
    BY <1>5, <1>8, <2>1, <2>2 DEF ReplyOK, Final, OthersTables
  <2>7. \A y, z \in Senders : sender'[y].now = r /\ sender'[z].now = r => y = z
    BY <1>6, <2>1 DEF ReplyOK
  <2> QED BY <2>3, <2>4, <2>5, <2>6, <2>7 DEF ReplyOK
<1>10. outbox' \in [Requests -> ReplyType] /\ told' \in [Requests -> Nat]
  BY <1>1, <1>2, <1>5, <1>8 DEF Types
<1> QED BY <1>5, <1>6, <1>7, <1>8, <1>9, <1>10, RepliesSound

\* The process is lost with its drives and senders; rows and messages stay.
LEMMA CrashSound ==
    ASSUME SafeInv, Crash
    PROVE  Sound
<1>1. Types /\ TargetOK /\ \A q \in Requests : ReplyOK(q)
  BY DEF SafeInv
<1>2. /\ drive' = [s \in Slots |-> Idle] /\ sender' = [x \in Senders |-> Resting]
      /\ UNCHANGED <<requests, activeTarget, inbox, consumed, outbox, written, told>>
  BY DEF Crash, DrivesLost, SendersLost, imVars
<1>3. Types'
  BY <1>1, <1>2, SpecialRows DEF Types
<1>4. IdleOK' /\ \A q \in Requests : ReviewOK(q)'
  <2>1. \A s \in Slots : GoneDrive(s)
    BY <1>2 DEF GoneDrive, Idle
  <2>2. \A q \in Requests : SameRow(q)
    BY <1>2 DEF SameRow
  <2> QED BY <1>2, <2>1, <2>2, SameKeepsReview
<1>5. TargetOK' /\ OutcomeKept
  BY <1>1, <1>2 DEF TargetOK, Open, OutcomeKept
<1>6. RestingOK' /\ \A x \in Senders : sender'[x].now = None /\ sender'[x].todo = {}
  BY <1>2 DEF RestingOK, Resting
<1>7. ASSUME NEW q \in Requests PROVE ReplyOK(q)'
  <2>1. ReplyOK(q) /\ q # None
    BY <1>1, ImAssumption
  <2> QED BY <1>2, <1>6, <2>1 DEF ReplyOK, Final
<1> QED BY <1>3, <1>4, <1>5, <1>6, <1>7 DEF SafeInv, Sound

-----------------------------------------------------------------------------
(* The invariant and what follows from it. *)

LEMMA InitSafe == Init => SafeInv
<1> SUFFICES ASSUME Init PROVE SafeInv
  OBVIOUS
<1> USE DEF Init, ImInit, ReviewInit, ReplyInit
<1>1. Types
  BY SpecialRows DEF Types
<1>2. TargetOK
  BY ImAssumption, StatesApart DEF TargetOK, Open, NoRequest
<1>3. IdleOK /\ RestingOK
  BY DEF IdleOK, RestingOK, Idle, Resting
<1>4. ASSUME NEW r \in Requests PROVE ReviewOK(r)
  <2>1. RowOK(requests[r], written[r])
    BY StatesApart DEF RowOK, NoRequest
  <2>2. \A s \in Slots : drive[s].r # r
    BY ImAssumption DEF Idle
  <2> QED BY <2>1, <2>2 DEF ReviewOK
<1>5. ASSUME NEW r \in Requests PROVE ReplyOK(r)
  <2>1. \A x \in Senders : sender[x].now # r /\ sender[x].todo = {}
    BY ImAssumption DEF Resting
  <2> QED BY <2>1 DEF ReplyOK, NoReply, Unsent
<1> QED BY <1>1, <1>2, <1>3, <1>4, <1>5 DEF SafeInv

LEMMA ReplyStepSound ==
    ASSUME SafeInv, NEW x \in Senders, ReplyStep(x), UNCHANGED reviewVars
    PROVE  Sound
BY ClaimRepliesSound, PrepareSound, BeforePostSound, PostSound, AfterPostSound DEF ReplyStep

LEMMA StutterSound == SafeInv /\ UNCHANGED vars => Sound
<1> SUFFICES ASSUME SafeInv, UNCHANGED vars PROVE Sound
  OBVIOUS
<1> USE DEF vars, imVars, reviewVars, replyVars
<1>1. \A r \in Requests : SameRow(r)
  BY DEF SameRow
<1>2. \A s \in Slots : SameDrive(s)
  BY DEF SameDrive
<1> QED BY <1>1, <1>2, SameSound DEF SafeInv, Types

\* Every step keeps the invariant, and no step changes an outcome.
LEMMA StepsSound == SafeInv /\ [Next]_vars => Sound
<1> SUFFICES ASSUME SafeInv, [Next]_vars PROVE Sound
  OBVIOUS
<1>1. ASSUME NEW s \in Slots, Drives(s) PROVE Sound
  BY <1>1, StartDriveSound, DriveStepSound DEF Drives
<1>2. ASSUME NEW x \in Senders, Replies(x) PROVE Sound
  BY <1>2, ReplyStepSound DEF Replies
<1>3. CASE Restarts
  BY <1>3, RestartSound DEF Restarts
<1>4. ASSUME NEW r \in Requests, BecomesDue(r) PROVE Sound
  BY <1>4, ComesDueSound DEF BecomesDue, reviewVars
<1>5. ASSUME NEW r \in Requests, Recovers(r) PROVE Sound
  BY <1>5, LeaseLapsesSound DEF Recovers, OrphanLapses, reviewVars
<1>6. ASSUME NEW r \in Requests, ReplyRecovers(r) PROVE Sound
  BY <1>6, ReplyLapsesSound DEF ReplyRecovers, reviewVars
<1>7. ASSUME NEW d \in Deliveries, Delivered(d) PROVE Sound
  BY <1>7, AcceptSound DEF Delivered
<1>8. CASE Beside
  <2>1. ASSUME NEW s \in Slots, RenewFails(s) PROVE Sound
    BY <1>8, <2>1, RenewFailsSound DEF Beside
  <2>2. ASSUME NEW s \in Slots, OutsideWindow(s) PROVE Sound
    BY <1>8, <2>2, OutsideWindowSound DEF Beside
  <2>3. ASSUME NEW r \in Requests, Cancel(r) PROVE Sound
    BY <1>8, <2>3, CancelSound DEF Beside
  <2>4. ASSUME NEW r \in Requests, DriveStalls(r) PROVE Sound
    BY <1>8, <2>4, LeaseLapsesSound DEF Beside, DriveStalls
  <2>5. CASE Stop
    BY <1>8, <2>5, StopSound DEF Beside
  <2> QED BY <1>8, <2>1, <2>2, <2>3, <2>4, <2>5 DEF Beside
<1>9. CASE Crash
  BY <1>9, CrashSound
<1>10. ASSUME NEW r \in Requests, SenderStalls(r) PROVE Sound
  BY <1>10, ReplyLapsesSound DEF SenderStalls
<1>11. CASE UNCHANGED vars
  BY <1>11, StutterSound
<1> QED BY <1>1, <1>2, <1>3, <1>4, <1>5, <1>6, <1>7, <1>8, <1>9, <1>10, <1>11
        DEF Next, Server, Time

\* The invariant holds in every state of every behaviour.
THEOREM ReviewsAreSafe == Spec => []SafeInv
<1>1. Init => SafeInv
  BY InitSafe
<1>2. SafeInv /\ [Next]_vars => SafeInv'
  BY StepsSound DEF Sound
<1> QED BY <1>1, <1>2, PTL DEF Spec

\* However deliveries, drives and cancellations interleave, one review of the
\* revision is open, commands join it, and one button stands for one review.
THEOREM OneReview == Spec => []OneReviewForAll
<1>1. SafeInv => OneReviewForAll
  BY DEF SafeInv, TargetOK, OneReviewForAll
<1> QED BY <1>1, ReviewsAreSafe, PTL

\* The provider gets the message of a review at most once, with whatever
\* strategies the outputs have, and a success rests on that message or on none
\* begun, never on a write whose outcome is open or was refused.
THEOREM OneMessage == Spec => []WrittenOnce
<1>1. SafeInv => WrittenOnce
  <2> SUFFICES ASSUME SafeInv, NEW r \in Requests
               PROVE  /\ written[r] <= 1
                      /\ requests[r].state = "succeeded" =>
                            \/ requests[r].op = "confirmed" /\ written[r] = 1
                            \/ requests[r].op = "none" /\ written[r] = 0
    BY DEF WrittenOnce
  <2>1. RowOK(requests[r], written[r])
    BY DEF SafeInv, ReviewOK
  <2> QED BY <2>1 DEF RowOK, RestsOn, FinalStates
<1> QED BY <1>1, ReviewsAreSafe, PTL

\* A request that may be analysed again has written nothing and is not about to.
THEOREM SafeReanalysis == Spec => []ReanalysisIsSafe
<1>1. SafeInv => ReanalysisIsSafe
  <2> SUFFICES ASSUME SafeInv, NEW r \in Requests,
                      requests[r].state \in OpenStates \ {"publishing"}
               PROVE  /\ written[r] = 0
                      /\ \A s \in Slots : drive[s].r = r => ~At(s, "send")
    BY DEF ReanalysisIsSafe
  <2>1. ReviewOK(r) /\ requests[r].op = "none" /\ written[r] = 0
    BY DEF SafeInv, ReviewOK, RowOK, OpenStates
  <2>2. ASSUME NEW s \in Slots, drive[s].r = r, At(s, "send") PROVE FALSE
    <3>1. DriveOK(drive[s], requests[r], written[r]) /\ Writes(drive[s])
      BY <2>1, <2>2 DEF ReviewOK, At, Writes, AtWrite
    <3> QED BY <2>1, <3>1 DEF DriveOK
  <2> QED BY <2>1, <2>2
<1> QED BY <1>1, ReviewsAreSafe, PTL

\* The requester hears of a review at most once, after its end, and hears how it ended.
THEOREM OneAnswer == Spec => []ToldOnce
<1>1. SafeInv => ToldOnce
  <2> SUFFICES ASSUME SafeInv, NEW r \in Requests
               PROVE  /\ told[r] <= 1
                      /\ told[r] = 1 => Final(r)
                      /\ outbox[r].tells # None => outbox[r].tells = requests[r].state
    BY DEF ToldOnce
  <2>1. ReplyOK(r)
    BY DEF SafeInv
  <2> QED BY <2>1 DEF ReplyOK, Unsent
<1> QED BY <1>1, ReviewsAreSafe, PTL

\* What a request came to is never changed, by whoever still drives it.
THEOREM OutcomesStay == Spec => OutcomeIsFinal
<1>1. SafeInv /\ [Next]_vars =>
        \A r \in Requests : Final(r) =>
          /\ requests'[r].state = requests[r].state
          /\ outbox'[r].tells = outbox[r].tells
  BY StepsSound DEF Sound, OutcomeKept
<1> QED BY <1>1, ReviewsAreSafe, PTL DEF Spec, OutcomeIsFinal
================================================================================
