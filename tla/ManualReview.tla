------------------------------ MODULE ManualReview ------------------------------
(***************************************************************************)
(* The worker of IM review requests (packages/server/src/im/manual-review- *)
(* service.ts with the executor of review-execution.ts): a timer scan or a *)
(* queue wake-up claims a due request and a drive takes it through         *)
(*                                                                         *)
(*   claimed -> validate -> resolve -> permit -> start                     *)
(*           -> analyse -> publish -> send -> answered -> finish           *)
(*                                                                         *)
(* with an await, hence an interleaving, between any two steps.  Nothing a *)
(* drive remembers decides a write: each write names the fence of its      *)
(* claim, and while the row has that fence no other drive writes it, so    *)
(* the row itself stands for the drive's copy.  A drive is named by its    *)
(* slot, which is also the claimant of the row.  The dispatch sequence only *)
(* names the wake-up job and is left out, and so are the texts of errors;  *)
(* the states succeeded and partial are one.  The attempts of a phase      *)
(* (validation, analysis, publication) are read in that phase only and a   *)
(* phase is never gone back to, so one counter is enough.                  *)
(***************************************************************************)
EXTENDS ImRequests, PublicationJournal

CONSTANTS Slots,        \* room for concurrent drives
          MaxAttempts,  \* queue.retry.attempts, for each phase
          Cancellable,  \* the requests an operator or the queue timeout may end
          MaxTrouble    \* crashes, stops, lapses of a live lease and closed windows

ASSUME ReviewAssumption == MaxAttempts \in Nat \ {0} /\ MaxTrouble \in Nat /\ Slots \subseteq Claimants
                            /\ Cancellable \subseteq Requests

VARIABLES drive,       \* slot -> the drive in it
          controller,  \* cancelAborts: request -> the drive whose controller is registered
          stopped,
          written,     \* request -> messages at the provider
          trouble

reviewVars == <<drive, controller, stopped, written, trouble>>

Steps == {"idle", "claimed", "validate", "resolve", "permit", "start", "analyse",
          "publish", "send", "answered", "refused", "finish"}

Idle == [step |-> "idle", r |-> None, resume |-> FALSE, aborted |-> FALSE, final |-> None, via |-> None]

ReviewInit ==
    /\ drive = [s \in Slots |-> Idle]
    /\ controller = [r \in Requests |-> None]
    /\ stopped = FALSE
    /\ written = [r \in Requests |-> 0]
    /\ trouble = 0

At(s, step) == drive[s].step = step
Row(s) == requests[drive[s].r]
Owned(s) == Holds(drive[s].r, s)

Goto(s, step) ==
    /\ drive' = [drive EXCEPT ![s].step = step]
    /\ UNCHANGED controller

\* The end of driveClaim; a newer drive of the request keeps its controller.
Leave(s) ==
    /\ drive' = [drive EXCEPT ![s] = Idle]
    /\ controller' = [r \in Requests |-> IF controller[r] = s THEN None ELSE controller[r]]

\* A fenced write whose refusal ends the drive, and one whose result is not read.
WriteOrLeave(s, row, step) ==
    /\ Update(drive[s].r, s, row)
    /\ IF Owned(s) THEN Goto(s, step) ELSE Leave(s)
WriteAnyway(s, row, step) == Update(drive[s].r, s, row) /\ Goto(s, step)
WriteAndLeave(s, row) == Update(drive[s].r, s, row) /\ Leave(s)
FinishAs(s, final, tells) == Finish(drive[s].r, s, final, tells) /\ Leave(s)

-----------------------------------------------------------------------------
(* scanPass, wakeRequest and processClaim. *)

\* Slots are alike: the choice among the free ones does not matter.
FreeSlot == LET free == {s \in Slots : At(s, "idle")}
            IN  IF free = {} THEN {} ELSE {CHOOSE s \in free : TRUE}

StartDrive(s, r) ==
    /\ ~stopped /\ s \in FreeSlot
    /\ Claim(r, s)
    /\ drive' = [drive EXCEPT ![s] = [Idle EXCEPT !.step = "claimed", !.r = r]]
    /\ controller' = [controller EXCEPT ![r] = s]
    /\ UNCHANGED <<stopped, written, trouble>>

\* reauthorize() says no: before processClaim, after createAdapter, before execute.
Unauthorized(s) ==
    /\ drive[s].step \in {"claimed", "validate", "permit"}
    /\ At(s, "claimed") => ~drive[s].aborted
    /\ FinishAs(s, "rejected", FALSE)
    /\ UNCHANGED <<stopped, written, trouble>>

\* Outside the execution window the claim is given back until it opens.
OutsideWindow(s) ==
    /\ At(s, "claimed") /\ ~drive[s].aborted /\ trouble < MaxTrouble
    /\ WriteAndLeave(s, Released(Row(s)))
    /\ trouble' = trouble + 1
    /\ UNCHANGED <<stopped, written>>

Interrupted(s) == Row(s).state \in {"running", "publishing"}
Unresolved(s) == Row(s).state \in {"accepted", "validating"} \/ ~Row(s).resolved

\* recoverInterrupted: a publication resumes, unless its attempts are used up or
\* its checkpoint cannot be read; an analysis is done again later.
RecoverInterrupted(s) ==
    CASE Row(s).state = "publishing" ->
            \/ FinishAs(s, "publication_unknown", TRUE)
            \/ /\ Row(s).attempts < MaxAttempts
               /\ drive' = [drive EXCEPT ![s].step = "permit", ![s].resume = TRUE]
               /\ UNCHANGED imVars /\ UNCHANGED controller
      [] OTHER ->
            IF Row(s).attempts >= MaxAttempts THEN FinishAs(s, "failed", TRUE)
            ELSE WriteAndLeave(s, Released([Row(s) EXCEPT !.state = "retry_wait"]))

\* processClaim up to the adapter.
ProcessClaim(s) ==
    /\ At(s, "claimed")
    /\ IF drive[s].aborted \/ ~Owned(s) THEN Leave(s) /\ UNCHANGED imVars
       ELSE IF Interrupted(s) THEN RecoverInterrupted(s)
       ELSE IF ~Unresolved(s) THEN Goto(s, "permit") /\ UNCHANGED imVars
       ELSE IF Row(s).attempts >= MaxAttempts THEN FinishAs(s, "failed", TRUE)
       ELSE WriteOrLeave(s, [Row(s) EXCEPT !.attempts = @ + 1], "validate")
    /\ UNCHANGED <<stopped, written, trouble>>

\* The adapter is there and the request is still authorized, or no adapter serves it.
Validate(s) ==
    /\ At(s, "validate")
    /\ \/ WriteAnyway(s, [Row(s) EXCEPT !.state = "validating"], "resolve")
       \/ FinishAs(s, "rejected", TRUE)
    /\ UNCHANGED <<stopped, written, trouble>>

\* resolveImRevision answers: try later, no such revision, or the revision.
Resolve(s) ==
    /\ At(s, "resolve")
    /\ IF drive[s].aborted THEN Leave(s) /\ UNCHANGED imVars
       ELSE \/ WriteAndLeave(s, Released([Row(s) EXCEPT !.state = "retry_wait"]))
            \/ FinishAs(s, "rejected", TRUE)
            \/ WriteAnyway(s, [Row(s) EXCEPT !.state = "queued", !.resolved = TRUE, !.attempts = 0], "permit")
    /\ UNCHANGED <<stopped, written, trouble>>

-----------------------------------------------------------------------------
(* execute() and the executor. *)

\* dispatchExecution has enqueued the wake-up job and waited for a permit.  The
\* row is read again and the attempt is counted, without looking at the signal.
Execute(s) ==
    /\ At(s, "permit")
    /\ IF ~Owned(s) THEN Leave(s) /\ UNCHANGED imVars
       ELSE IF Row(s).attempts >= MaxAttempts
       THEN FinishAs(s, IF drive[s].resume THEN "publication_unknown" ELSE "failed", TRUE)
       ELSE WriteOrLeave(s, [Row(s) EXCEPT !.attempts = @ + 1],
                         IF drive[s].resume THEN "publish" ELSE "start")
    /\ UNCHANGED <<stopped, written, trouble>>

Start(s) ==
    /\ At(s, "start")
    /\ WriteOrLeave(s, [Row(s) EXCEPT !.state = "running"], "analyse")
    /\ UNCHANGED <<stopped, written, trouble>>

\* The executor's result: finish, unless the drive was aborted meanwhile.
Result(s, final) ==
    /\ drive' = [drive EXCEPT ![s].step = "finish", ![s].final = final, ![s].via = None]
    /\ UNCHANGED controller

\* Faulty: the first checkpoint leaves the request running.
FirstCheckpointRunning(s) == [Row(s) EXCEPT !.attempts = 1]

\* saveCheckpoint of the finished analysis: publishing, counted once per drive.
FirstCheckpoint(s) == [Row(s) EXCEPT !.state = "publishing", !.attempts = 1]

\* onAnalysisComplete; or no file is left to review, which is a success without a
\* checkpoint; or the analysis fails, or the requester lost the right.
Analyse(s) ==
    /\ At(s, "analyse")
    /\ \/ ~drive[s].aborted /\ Owned(s) /\ WriteOrLeave(s, FirstCheckpoint(s), "publish")
       \/ ~drive[s].aborted /\ UNCHANGED imVars /\ Result(s, "succeeded")
       \/ UNCHANGED imVars /\ \E final \in {"publication_unknown", "rejected"} : Result(s, final)
    /\ UNCHANGED <<stopped, written, trouble>>

Unsure(s) == UNCHANGED imVars /\ Result(s, "publication_unknown")

\* The journal at the write: a known write is not repeated, an unknown one is
\* looked up, and the intent is saved before anything is sent.
JournalStep(s, op, via) ==
    \/ Replays(op) /\ UNCHANGED imVars /\ Result(s, "succeeded")
    \/ /\ Reconciles(via, op) /\ FoundOnce(written[drive[s].r])
       /\ Update(drive[s].r, s, [Row(s) EXCEPT !.op = "confirmed"])
       /\ Result(s, "succeeded")
    \/ /\ Sends(via, op)
       /\ Update(drive[s].r, s, [Row(s) EXCEPT !.op = "unknown", !.via = via])
       /\ drive' = [drive EXCEPT ![s].step = "send", ![s].via = via] /\ UNCHANGED controller

\* The review has nothing to publish (classifyImReviewResult without a dispatch
\* result), a success, or there is nobody to publish it: the journal is not asked.
NothingPublished(s) ==
    /\ Owned(s) => Row(s).op = "none"
    /\ UNCHANGED imVars
    /\ \E final \in {"succeeded", "failed"} : Result(s, final)

\* Every save is fenced: without the lease, when the journal refuses or when
\* anything fails, the executor stops here, before it sends; a resumed one asks
\* for the authorization first.
Publish(s) ==
    /\ At(s, "publish")
    /\ \/ Unsure(s)
       \/ drive[s].resume /\ UNCHANGED imVars /\ Result(s, "rejected")
       \/ ~drive[s].aborted /\ NothingPublished(s)
       \/ /\ ~drive[s].aborted /\ Owned(s)
          /\ \E via \in Strategies : Row(s).via \in {None, via} /\ JournalStep(s, Row(s).op, via)
    /\ UNCHANGED <<stopped, written, trouble>>

\* The request: it is accepted and answered, accepted but the answer is lost,
\* refused (4xx), or it never arrives.  An aborted signal sends nothing.
Send(s) ==
    /\ At(s, "send")
    /\ \/ Unsure(s) /\ UNCHANGED written
       \/ /\ ~drive[s].aborted
          /\ \/ /\ written' = [written EXCEPT ![drive[s].r] = Written(drive[s].via, @)]
                /\ \/ Goto(s, "answered") /\ UNCHANGED imVars
                   \/ Unsure(s)
             \/ /\ written' = written
                /\ Goto(s, "refused") /\ UNCHANGED imVars
    /\ UNCHANGED <<stopped, trouble>>

\* The answer is saved; the guard of save() stops an aborted run.
Answered(s) ==
    /\ drive[s].step \in {"answered", "refused"}
    /\ IF drive[s].aborted \/ ~Owned(s) THEN Unsure(s)
       ELSE /\ Update(drive[s].r, s,
                      [Row(s) EXCEPT !.op = IF At(s, "answered") THEN "confirmed" ELSE "rejected"])
            /\ Result(s, IF At(s, "answered") THEN "succeeded" ELSE "failed")
    /\ UNCHANGED <<stopped, written, trouble>>

FinishReview(s) ==
    /\ At(s, "finish")
    /\ IF drive[s].aborted THEN Leave(s) /\ UNCHANGED imVars ELSE FinishAs(s, drive[s].final, TRUE)
    /\ UNCHANGED <<stopped, written, trouble>>

\* An exception outside the executor (configuration, adapter, store, pool).
Throws(s) ==
    /\ drive[s].step \in {"claimed", "validate", "resolve", "permit", "start", "finish"}
    /\ IF drive[s].aborted THEN Leave(s) /\ UNCHANGED imVars ELSE FinishAs(s, "failed", TRUE)
    /\ UNCHANGED <<stopped, written, trouble>>

-----------------------------------------------------------------------------
(* Beside the drives. *)

\* The renewal timer finds the lease lost.
RenewFails(s) ==
    /\ ~At(s, "idle") /\ ~drive[s].aborted
    /\ ~Renewable(drive[s].r, s)
    /\ drive' = [drive EXCEPT ![s].aborted = TRUE]
    /\ UNCHANGED imVars /\ UNCHANGED <<controller, stopped, written, trouble>>

Abort(slots) == drive' = [s \in Slots |-> IF s \in slots THEN [drive[s] EXCEPT !.aborted = TRUE] ELSE drive[s]]

\* cancelImRequest of an operator, and expireQueued: the store first, then cancelRunning.
Cancel(r) ==
    /\ r \in Cancellable
    /\ \E states \in {OpenStates, {"accepted", "validating", "queued", "retry_wait"}} : CancelRequest(r, states)
    /\ Abort({controller[r]} \ {None})
    /\ UNCHANGED <<controller, stopped, written, trouble>>

\* A lease nobody renews runs out; that of a live drive only if it stalls.
Orphan(r) == \A s \in Slots : ~(drive[s].r = r /\ Owned(s))
OrphanLapses(r) == Orphan(r) /\ LeaseLapses(r) /\ UNCHANGED reviewVars
DriveStalls(r) ==
    /\ ~Orphan(r) /\ trouble < MaxTrouble /\ trouble' = trouble + 1
    /\ LeaseLapses(r)
    /\ UNCHANGED <<drive, controller, stopped, written>>

\* stop(): no more claims, live drives are aborted and drained, then a new start.
Stop ==
    /\ ~stopped /\ trouble < MaxTrouble /\ trouble' = trouble + 1
    /\ stopped' = TRUE
    /\ Abort({s \in Slots : \E r \in Requests : controller[r] = s})
    /\ UNCHANGED imVars /\ UNCHANGED <<controller, written>>
Restart ==
    /\ stopped /\ \A s \in Slots : At(s, "idle")
    /\ stopped' = FALSE
    /\ UNCHANGED imVars /\ UNCHANGED <<drive, controller, written, trouble>>

\* The process is lost; the store and the provider stay.
DrivesLost ==
    /\ drive' = [s \in Slots |-> Idle] /\ controller' = [r \in Requests |-> None]
    /\ stopped' = FALSE
    /\ UNCHANGED <<written>>

DriveStep(s) ==
    \/ Unauthorized(s) \/ ProcessClaim(s) \/ Validate(s) \/ Resolve(s)
    \/ Execute(s) \/ Start(s) \/ Analyse(s) \/ Publish(s) \/ Send(s) \/ Answered(s)
    \/ FinishReview(s) \/ Throws(s)

ReviewTypeOK ==
    /\ drive \in [Slots -> [step : Steps, r : Requests \cup {None}, resume : BOOLEAN,
                            aborted : BOOLEAN, final : FinalStates \cup {None},
                            via : Strategies \cup {None}]]
    /\ controller \in [Requests -> Slots \cup {None}]
    /\ stopped \in BOOLEAN
    /\ written \in [Requests -> Nat] /\ trouble \in 0..MaxTrouble
===============================================================================
