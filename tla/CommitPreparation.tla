-------------------------- MODULE CommitPreparation --------------------------
(***************************************************************************)
(* How schedulers expand receipts and seal batches: processStream,         *)
(* expandStream, expandReceipt, noteExpansionFailure and assembleStream    *)
(* (packages/server/src/auto-commit-scheduler.ts), several processes on    *)
(* one store.                                                              *)
(*                                                                         *)
(* A step is the stretch from one write to the next; between two steps     *)
(* other processes run, time passes, receipts and policies arrive.  A read *)
(* of the stream head and the write checked against its version are one    *)
(* step, which other writers may make fail.  Trouble is such a refusal, a  *)
(* read of the history that fails, a reservation that runs out under its   *)
(* holder, an exception, stop(), and the end of a process; its sum is      *)
(* bounded.  All backoffs are one instant.                                 *)
(***************************************************************************)
EXTENDS CommitCuts

CONSTANTS ReceiptPage, PageSize, MaxPages, MaxAttempts,  \* options of the scheduler
          MaxTrouble                                     \* bound of the instance

ASSUME PreparationAssumption ==
    /\ {ReceiptPage, PageSize, MaxPages, MaxAttempts} \subseteq Nat \ {0}
    /\ MaxTrouble \in Nat

VARIABLES prep,    \* preparer -> its processStream in progress
          trouble

prepVars == <<receiptVars, prep, trouble>>

Idle == [step |-> "idle", t0 |-> 0, policy |-> 1, at |-> 0, todo |-> {}, more |-> FALSE,
         rows |-> <<>>, r |-> 0, page |-> 0, pages |-> 0, got |-> {}, failures |-> 0, back |-> "cross",
         chosen |-> {}, doomed |-> {}]

PreparationInit == ReceiptInit /\ prep = [p \in Preparers |-> Idle] /\ trouble = 0

At(p, step) == prep[p].step = step
Go(p, step) == prep' = [prep EXCEPT ![p].step = step]
Smooth == trouble' = trouble
Trouble == trouble < MaxTrouble /\ trouble' = trouble + 1
Open(t) == t \in world.window
NextOpen == Min({t \in world.window : t >= now})

\* updateStreamHead under the version just read.
WriteHead(head) ==
    /\ (stream' = head /\ Smooth) \/ (UNCHANGED stream /\ Trouble)
    /\ UNCHANGED <<world, now, policy, receipts, commits, of>>

NoWrite == UNCHANGED receiptVars

\* The reservation is this preparer's and has not run out.
Holds(p) == stream.by = p /\ stream.live

-----------------------------------------------------------------------------
\* prepareWorkspace: a stream is looked at when it is due.
Wake(p) ==
    /\ p \in world.preparers /\ At(p, "idle") /\ Due /\ stream.active = {}
    /\ prep' = [prep EXCEPT ![p] = [Idle EXCEPT !.step = "awake", !.t0 = now]]
    /\ NoWrite /\ Smooth

\* processStream takes the current policy, minds the calendar and reserves the stream.
Acquire(p) ==
    /\ At(p, "awake")
    /\ \/ /\ ~Open(now) /\ prep' = [prep EXCEPT ![p] = Idle]
          /\ WriteHead([stream EXCEPT !.resume = NextOpen])
       \/ /\ Open(now) /\ ~MayReserve /\ prep' = [prep EXCEPT ![p] = Idle] /\ NoWrite /\ Smooth
       \/ /\ Open(now) /\ MayReserve
          /\ stream' = Reserved(p) /\ Smooth
          /\ prep' = [prep EXCEPT ![p].step = "frontier", ![p].policy = policy]
          /\ UNCHANGED <<world, now, policy, receipts, commits, of>>

\* The receive frontier of an assembly is fixed once, whoever finishes the assembly.
\* expandStream then reads one page of the receipts up to it, and one more.
Listed(p, head) ==
    LET open == {r \in Accepted : head.cursor < r /\ r <= head.cut}
        todo == FirstOf(ReceiptPage, open)
    IN  [prep[p] EXCEPT !.step = IF open = {} THEN "caught" ELSE "next",
                        !.todo = todo, !.more = open # todo,
                        !.rows = [r \in todo |-> receipts[r]], !.at = head.cutAt]

Frontier(p) ==
    /\ At(p, "frontier")
    /\ LET fixed == [stream EXCEPT !.cut = Latest, !.cutAt = prep[p].t0, !.resume = None]
       IN  \/ stream.active # {} /\ Go(p, "release") /\ NoWrite /\ Smooth
           \/ /\ stream.active = {} /\ stream.cut # None /\ NoWrite /\ Smooth
              /\ prep' = [prep EXCEPT ![p] = Listed(p, stream)]
           \/ /\ stream.active = {} /\ stream.cut = None /\ WriteHead(fixed)
              /\ prep' = [prep EXCEPT ![p] = IF stream' = fixed THEN Listed(p, fixed)
                                             ELSE [@ EXCEPT !.step = "release"]]

\* Where expandReceipt begins with the row it is given.
Expanding(p, r, row, back) ==
    [prep[p] EXCEPT !.step = IF row.dead THEN "fail" ELSE "read",
                    !.r = r, !.page = row.page, !.pages = 0, !.back = back]

Gated(row) == row.next # None /\ row.next > now

NextReceipt(p) ==
    /\ At(p, "next")
    /\ LET r == Min(prep[p].todo)
           row == prep[p].rows[r]
       IN  IF prep[p].todo = {}
           THEN prep' = [prep EXCEPT ![p].step = IF prep[p].more THEN "release" ELSE "caught",
                                     ![p].rows = <<>>]
           ELSE IF ~Open(now) \/ Gated(row) THEN Go(p, "release")
           ELSE prep' = [prep EXCEPT ![p] = Expanding(p, r, row, "cross")]
    /\ NoWrite /\ Smooth

-----------------------------------------------------------------------------
\* expandReceipt that does not end: back to processStream.
NotExpanded(p) == IF prep[p].back = "cross" THEN "release" ELSE "clear"
Rest(p) == {c \in world.covers[prep[p].r] : c > prep[p].page}

ReadPage(p) ==
    /\ At(p, "read") /\ NoWrite
    /\ \/ /\ prep[p].pages = MaxPages \/ ~Open(now)
          /\ Go(p, NotExpanded(p)) /\ Smooth
       \/ /\ prep[p].pages < MaxPages /\ Open(now)
          /\ \/ /\ Smooth
                /\ prep' = [prep EXCEPT ![p].step = "apply", ![p].got = FirstOf(PageSize, Rest(p))]
             \/ Go(p, "note") /\ Trouble

ApplyPage(p) ==
    /\ At(p, "apply") /\ Smooth
    /\ ApplyMetadataPage(prep[p].r, prep[p].got)
    /\ Go(p, "decide")

DecidePage(p) ==
    /\ At(p, "decide") /\ Smooth
    /\ DecideMembers(prep[p].got, prep[p].policy)
    /\ Go(p, IF \E c \in prep[p].got \cap Pending : Verdict(c, prep[p].policy) = "undecided"
             THEN "note" ELSE "cursor")

SetPage(p) ==
    /\ At(p, "cursor") /\ Smooth
    /\ LET last == prep[p].got = Rest(p)
           page == IF last THEN 0 ELSE Max(prep[p].got)
       IN  /\ SetCursor(prep[p].r, page)
           /\ prep' = [prep EXCEPT ![p].step = IF last THEN prep[p].back ELSE "read",
                                   ![p].page = page, ![p].got = {},
                                   ![p].pages = IF last THEN 0 ELSE @ + 1]

\* noteExpansionFailure: after a bounded number of attempts the receipt is given up.
\* The number is read first; the write that follows does not check it.
CountFailure(p) ==
    /\ At(p, "note") /\ NoWrite /\ Smooth
    /\ prep' = [prep EXCEPT ![p].step = "record", ![p].failures = receipts[prep[p].r].attempts + 1]

NoteFailure(p) ==
    /\ At(p, "record")
    /\ LET r == prep[p].r
       IN  \/ /\ prep[p].failures >= MaxAttempts
              /\ RecordFailure(r, None) /\ UNCHANGED stream /\ Smooth
              /\ Go(p, "fail")
           \/ /\ prep[p].failures < MaxAttempts
              /\ \E base \in {prep[p].t0, now} :
                    /\ RecordFailure(r, Soon(base))
                    /\ \/ stream' = [stream EXCEPT !.resume = Soon(base)] /\ Smooth
                       \/ UNCHANGED stream /\ Trouble
              /\ Go(p, NotExpanded(p))
    /\ UNCHANGED <<world, now, policy, commits, of>>

FailReceipt(p) ==
    /\ At(p, "fail") /\ Smooth
    /\ FailMembers(prep[p].r)
    /\ Go(p, prep[p].back)

\* Faulty: the cursor crosses all receipts of the page at once.
CrossPage(p) ==
    /\ At(p, "cross")
    /\ WriteHead([stream EXCEPT !.cursor = Max(prep[p].todo)])
    /\ prep' = [prep EXCEPT ![p].step = "next", ![p].todo = @ \ {prep[p].r}, ![p].r = 0]

\* The coverage cursor crosses an expanded receipt.
Cross(p) ==
    /\ At(p, "cross")
    /\ WriteHead([stream EXCEPT !.cursor = prep[p].r])
    /\ prep' = [prep EXCEPT ![p].step = "next", ![p].todo = @ \ {prep[p].r}, ![p].r = 0]

-----------------------------------------------------------------------------
\* readAssemblyPending.  For other systems than git the code reads the first 512; a
\* world here has fewer commits than that.
Seen == IF world.kind = "git" THEN FirstOf(MaxMembers + 1, Pending) ELSE Pending

\* assembleStream: a lost lease is seen when its renewal fails, before that it is not;
\* outside the window the calendar becomes the floor; stale verdicts are renewed.
Caught(p) ==
    /\ At(p, "caught")
    /\ LET stale == {c \in Seen : commits[c].policy # prep[p].policy}
       IN  \/ ~Holds(p) /\ Go(p, "release") /\ NoWrite /\ Smooth
           \/ /\ ~Open(now) /\ Go(p, "clear")
              /\ WriteHead([stream EXCEPT !.resume = NextOpen])
           \/ /\ Open(now) /\ Go(p, "resolve") /\ Smooth
              /\ DecideMembers(stale, prep[p].policy)

\* What is cut from the pending commits read now: a set to seal, or receipts to fail.
TailDropped(V) ==
    LET tail == Cover(Max(V))
    IN  IF world.kind # "git" \/ Cardinality(Seen) <= MaxMembers \/ tail = Cover(Min(V)) THEN V
        ELSE {c \in V : Cover(c) # tail}

Allowed == {c \in Seen : commits[c].verdict = "allowed"}
Candidates == IF Allowed = {} THEN {} ELSE TailDropped(Allowed)

Unfit(r) ==
    /\ r \in world.rewrites
    /\ \/ \E c \in of[r] : commits[c].status \in {"skipped", "failed", "completed"}
       \/ Cardinality(of[r] \cap Pending) > MaxMembers

Doomed(V) ==
    LET unfit == {c \in V : Unfit(Cover(c))}
    IN  IF unfit # {} THEN {Cover(Min(unfit))}
        ELSE IF world.kind = "git" THEN {Cover(c) : c \in Blocked(V)} ELSE {}

\* Faulty: the commits of a push may be cut apart, as those of a P4 or SVN run.
CutAnywhere(V, at) == IF V = {} THEN {} ELSE RunCut(V, at)

Cut(V, at) ==
    IF V = {} THEN {} ELSE IF world.kind = "git" THEN PushCut(V, at) ELSE RunCut(V, at)

Assemble(p) ==
    \E V \in {Candidates} : \E doomed \in {Doomed(V)} :
    \E chosen \in {IF doomed = {} THEN Cut(V, prep[p].at) ELSE {}} :
        prep' = [prep EXCEPT ![p].doomed = doomed, ![p].chosen = chosen,
                             ![p].step = IF doomed # {} THEN "doom"
                                         ELSE IF chosen # {} THEN "seal" ELSE "clear"]

\* The first undecided commit sends its receipt back through the expansion.
Resolve(p) ==
    /\ At(p, "resolve")
    /\ LET undecided == {c \in Seen : commits[c].verdict = "undecided"}
           r == Cover(Min(undecided))
       IN  \/ undecided = {} /\ Assemble(p) /\ NoWrite /\ Smooth
           \/ /\ undecided # {} /\ Gated(receipts[r]) /\ Go(p, "clear")
              /\ WriteHead([stream EXCEPT !.resume = receipts[r].next])
           \/ /\ undecided # {} /\ ~Gated(receipts[r]) /\ NoWrite /\ Smooth
              /\ prep' = [prep EXCEPT ![p] = Expanding(p, r, receipts[r], "cut")]

CutPending(p) ==
    /\ At(p, "cut") /\ Assemble(p) /\ NoWrite /\ Smooth

\* A push that cannot be reviewed whole is failed whole.
DoomReceipt(p) ==
    /\ At(p, "doom") /\ Smooth
    /\ LET r == Min(prep[p].doomed)
       IN  /\ FailMembers(r)
           /\ prep' = [prep EXCEPT ![p].doomed = @ \ {r},
                                   ![p].step = IF prep[p].doomed = {r} THEN "clear" ELSE "doom"]

SealCut(p) ==
    /\ At(p, "seal") /\ Go(p, "clear")
    /\ \/ Sealable(p, prep[p].chosen) /\ Seal(p, prep[p].chosen) /\ Smooth
       \/ ~Sealable(p, prep[p].chosen) /\ NoWrite /\ Smooth
       \/ NoWrite /\ Trouble

ClearFrontier(p) ==
    /\ At(p, "clear") /\ Go(p, "release")
    /\ IF stream.by = p \/ stream.active # {}
       THEN WriteHead([stream EXCEPT !.cut = None, !.cutAt = None])
       ELSE NoWrite /\ Smooth

Release(p) ==
    /\ At(p, "release") /\ Smooth
    /\ stream' = Released(p)
    /\ prep' = [prep EXCEPT ![p] = Idle]
    /\ UNCHANGED <<world, now, policy, receipts, commits, of>>

-----------------------------------------------------------------------------
\* stop() is seen before a receipt, before a page and before the assembly.
Interrupt(p) ==
    /\ prep[p].step \in {"next", "read", "caught"} /\ NoWrite /\ Trouble
    /\ Go(p, IF At(p, "read") THEN NotExpanded(p) ELSE "release")

\* An exception: the reservation is released and the stream waits for a while.
Throws(p) ==
    /\ ~At(p, "idle") /\ ~At(p, "awake") /\ Trouble
    /\ stream' = IF Wakes = {} THEN Released(p) ELSE [Released(p) EXCEPT !.resume = Soon(now)]
    /\ prep' = [prep EXCEPT ![p] = Idle]
    /\ UNCHANGED <<world, now, policy, receipts, commits, of>>

\* The process ends; its reservation stays.
Crash(p) ==
    /\ ~At(p, "idle") /\ Trouble /\ NoWrite
    /\ prep' = [prep EXCEPT ![p] = Idle]

Orphaned == stream.by # None /\ (At(stream.by, "idle") \/ At(stream.by, "awake"))

Lapse ==
    /\ stream.by # None /\ stream.live
    /\ (Orphaned /\ Smooth) \/ (~Orphaned /\ Trouble)
    /\ stream' = [stream EXCEPT !.live = FALSE]
    /\ UNCHANGED <<world, now, policy, receipts, commits, of, prep>>

Tick ==
    /\ now < MaxTime /\ now' = now + 1
    /\ UNCHANGED <<world, policy, receipts, commits, of, stream, prep, trouble>>

ChangePolicy ==
    /\ policy + 1 \in Policies /\ policy' = policy + 1
    /\ UNCHANGED <<world, now, receipts, commits, of, stream, prep, trouble>>

Arrive == \E r \in Receipts : AcceptReceipt(r) /\ UNCHANGED <<prep, trouble>>
SettleActive == Settle /\ UNCHANGED <<prep, trouble>>

Prepare(p) ==
    \/ Acquire(p) \/ Frontier(p) \/ NextReceipt(p)
    \/ ReadPage(p) \/ ApplyPage(p) \/ DecidePage(p) \/ SetPage(p)
    \/ CountFailure(p) \/ NoteFailure(p) \/ FailReceipt(p) \/ Cross(p)
    \/ Caught(p) \/ Resolve(p) \/ CutPending(p) \/ DoomReceipt(p)
    \/ SealCut(p) \/ ClearFrontier(p) \/ Release(p)

PreparationNext ==
    \/ \E p \in Preparers : Wake(p) \/ Prepare(p) \/ Interrupt(p) \/ Throws(p) \/ Crash(p)
    \/ Lapse \/ Tick \/ ChangePolicy \/ Arrive \/ SettleActive

PreparationSpec == PreparationInit /\ [][PreparationNext]_prepVars

\* Timers fire, stores and version control answer, batches end, clocks move.
FairPreparation ==
    /\ PreparationSpec
    /\ \A p \in Preparers : WF_prepVars(Wake(p)) /\ WF_prepVars(Prepare(p))
    /\ WF_prepVars(Lapse /\ Orphaned) /\ WF_prepVars(Tick) /\ WF_prepVars(SettleActive)

-----------------------------------------------------------------------------
Final == {"completed", "skipped", "failed"}

\* A batch takes a push whole: while it is open, no commit of a push in it is still
\* pending (docs/ai/architecture.md:122-126).
PushesStayWhole ==
    world.kind = "git" =>
        \A c \in stream.active : \A d \in Pending : Cover(d) # Cover(c)

\* A receipt is crossed only when all it covers are commits, or its attempts are spent:
\* a crossed receipt is never read again, so that what it left out would not be reviewed.
CoveredIsExpanded ==
    \A r \in Accepted :
        r <= stream.cursor => receipts[r].attempts >= MaxAttempts \/ world.covers[r] \subseteq of[r]

\* Commits that may be one batch: they were accepted under one configuration; they
\* follow one another, and if they come from several pushes, or from P4 or SVN, they
\* have one author.  A rewrite is a batch of its own.
Coherent(B) ==
    B # {} /\ ~Rewrites(B) =>
        /\ \A c, d \in B : Pin(c) = Pin(d)
        /\ Interval(B)
        /\ (world.kind # "git" \/ \E c, d \in B : Cover(c) # Cover(d))
              => \A c, d \in B : Author(c) = Author(d)

\* One process prepares the stream.
OneProcess == \A p, q \in world.preparers : p = q

\* With one process, the commits of the open batch are coherent as long as it is open
\* (sealBatch).  A late page of another process may change the receipt of a commit between
\* the cut and the seal.
BatchesAreCoherent == OneProcess => Coherent(stream.active)

\* What is cut: allowed commits that are due, no more than the limit, coherent, and of a
\* push all candidates or none (cutPushUnits, cutAutoCommitBatches).
SoundCut(B, at) ==
    /\ B # {} /\ B \subseteq Candidates /\ Cardinality(B) <= MaxMembers
    /\ EligibleAt(B, at) /\ Coherent(B)
    /\ world.kind = "git" => \A c \in B : \A d \in Candidates : Cover(d) = Cover(c) => d \in B

\* Whatever a preparer is about to seal was a sound cut of the commits that were pending
\* when it was cut, with any number of processes (assembleStream).
CutsAreSound ==
    [][\A p \in Preparers :
          ~At(p, "seal") /\ At(p, "seal")' => SoundCut(prep'[p].chosen, prep[p].at)]_prepVars

\* Every accepted receipt is expanded or given up, and every commit of it ends.
CommitsSettle ==
    \A r \in UNION {DOMAIN w.covers : w \in Worlds} :
        r \in Accepted ~> /\ r \in Accepted /\ (r <= stream.cursor \/ receipts[r].dead)
                          /\ \A c \in of[r] : commits[c].status \in Final
==============================================================================
