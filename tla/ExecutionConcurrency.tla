------------------------- MODULE ExecutionConcurrency -------------------------
(***************************************************************************)
(* Process-wide admission of executions                                    *)
(* (packages/core/src/execution-concurrency.ts): one pool of permits shared*)
(* by the queue worker, the scheduler, deferral continuations and reviews  *)
(* started by an operator.  The limits are read live from the              *)
(* configuration; whoever cannot start waits in one first-in first-out     *)
(* list from which a caller of an idle workspace may be taken early.       *)
(*                                                                         *)
(* The counters are kept as the code keeps them, beside the phase of every *)
(* caller, so that they can disagree.  A promise continuation is a step of *)
(* its own: between the permit and the start of the task another callback  *)
(* may abort the caller.                                                   *)
(***************************************************************************)
EXTENDS Integers, Sequences, FiniteSets, SequencesExt, Functions

CONSTANTS Callers, Workspaces,
          CallerWorkspace,  \* the workspace a caller asks for
          Limits,           \* the values limits() may return
          MaxChanges        \* bound on configuration changes

ASSUME ConcurrencyAssumption ==
    /\ CallerWorkspace \in [Callers -> Workspaces]
    /\ Limits \subseteq [global : Nat \ {0}, workspace : Nat \ {0}]
    /\ MaxChanges \in Nat

VARIABLES limits,      \* what the configuration holds now
          permits,     \* the counters: active, and one per workspace
          waiting,     \* the entries of run() that have no permit yet
          caller,      \* caller -> idle, waiting, admitted, running
          aborted,     \* callers whose signal fired after they got a permit
          unread,      \* the limits changed after the last refresh
          changes

poolVars == <<limits, permits, waiting, caller, aborted, unread, changes>>

Holders == {c \in Callers : caller[c] \in {"admitted", "running"}}
HoldersIn(w) == {c \in Holders : CallerWorkspace[c] = w}

PoolInit ==
    /\ limits \in Limits
    /\ permits = [active |-> 0, workspaces |-> [w \in Workspaces |-> 0]]
    /\ waiting = <<>>
    /\ caller = [c \in Callers |-> "idle"]
    /\ aborted = {} /\ unread = FALSE /\ changes = 0

-----------------------------------------------------------------------------
\* tryAcquire: a permit is free, globally and in the workspace.
Fits(p, c) ==
    /\ p.active < limits.global
    /\ p.workspaces[CallerWorkspace[c]] < limits.workspace

Take(p, c) == [active |-> p.active + 1,
               workspaces |-> [p.workspaces EXCEPT ![CallerWorkspace[c]] = @ + 1]]
Give(p, c) == [active |-> p.active - 1,
               workspaces |-> [p.workspaces EXCEPT ![CallerWorkspace[c]] = @ - 1]]

\* Nobody started yet; a scan that is at caller c next starts it or keeps it.
Unscanned(p) == [permits |-> p, kept |-> <<>>, started |-> {}]
Started(scan, c) == [scan EXCEPT !.permits = Take(@, c), !.started = @ \cup {c}]
Kept(scan, c) == [scan EXCEPT !.kept = Append(@, c)]

\* Faulty: the scan ends at the first waiting caller that does not fit.
RefreshBlocked(p, queue) ==
    LET scan[i \in 0..Len(queue)] ==
            IF i = 0 THEN Unscanned(p)
            ELSE IF scan[i - 1].kept = <<>> /\ Fits(scan[i - 1].permits, queue[i])
                 THEN Started(scan[i - 1], queue[i]) ELSE Kept(scan[i - 1], queue[i])
    IN  scan[Len(queue)]

\* refresh(): one pass over the list in order; callers that do not fit stay.
Refresh(p, queue) ==
    LET scan[i \in 0..Len(queue)] ==
            IF i = 0 THEN Unscanned(p)
            ELSE IF Fits(scan[i - 1].permits, queue[i])
                 THEN Started(scan[i - 1], queue[i]) ELSE Kept(scan[i - 1], queue[i])
    IN  scan[Len(queue)]

\* The result of a refresh, with the caller c moved to the given phase first.
Refreshed(p, queue, phases) ==
    LET scan == Refresh(p, queue)
    IN  /\ permits' = scan.permits
        /\ waiting' = scan.kept
        /\ caller' = [d \in Callers |-> IF d \in scan.started THEN "admitted" ELSE phases[d]]
        /\ unread' = FALSE

-----------------------------------------------------------------------------
\* Faulty: the entry is put before the others.
RunAtFront(c) ==
    /\ caller[c] = "idle"
    /\ Refreshed(permits, <<c>> \o waiting, [caller EXCEPT ![c] = "waiting"])
    /\ UNCHANGED <<limits, aborted, changes>>

\* run(): the entry is pushed and the list refreshed.
Run(c) ==
    /\ caller[c] = "idle"
    /\ Refreshed(permits, Append(waiting, c), [caller EXCEPT ![c] = "waiting"])
    /\ UNCHANGED <<limits, aborted, changes>>

\* tryAcquire() called by the scheduler, which never waits in the list.
TryAcquire(c) ==
    /\ caller[c] = "idle" /\ Fits(permits, c)
    /\ permits' = Take(permits, c)
    /\ caller' = [caller EXCEPT ![c] = "running"]
    /\ UNCHANGED <<limits, waiting, aborted, unread, changes>>

\* release(): once per permit, whatever became of the task.
Release(c) ==
    /\ Refreshed(Give(permits, c), waiting, [caller EXCEPT ![c] = "idle"])
    /\ aborted' = aborted \ {c}
    /\ UNCHANGED <<limits, changes>>

\* The continuation of run() after the permit.
Proceed(c) ==
    /\ caller[c] = "admitted"
    /\ IF c \in aborted THEN Release(c)
       ELSE /\ caller' = [caller EXCEPT ![c] = "running"]
            /\ UNCHANGED <<limits, permits, waiting, aborted, unread, changes>>

\* The task ended, by itself, with an error or because of its signal.
Finish(c) == caller[c] = "running" /\ Release(c)

\* Faulty: an abort rejects the promise even when the permit was given.
AbortLeaking(c) ==
    /\ caller[c] \in {"waiting", "admitted"}
    /\ waiting' = RemoveFirst(waiting, c)
    /\ caller' = [caller EXCEPT ![c] = "idle"]
    /\ UNCHANGED <<limits, permits, aborted, unread, changes>>

\* The signal fires: a waiting entry leaves the list and is rejected; one that
\* got its permit no longer listens and finds the signal when it continues.
Abort(c) ==
    /\ \/ /\ caller[c] = "waiting"
          /\ waiting' = RemoveFirst(waiting, c)
          /\ caller' = [caller EXCEPT ![c] = "idle"]
          /\ UNCHANGED aborted
       \/ /\ caller[c] = "admitted" /\ c \notin aborted
          /\ aborted' = aborted \cup {c}
          /\ UNCHANGED <<waiting, caller>>
    /\ UNCHANGED <<limits, permits, unread, changes>>

\* An operator publishes other limits; nobody tells the pool.
ChangeLimits ==
    /\ changes < MaxChanges
    /\ changes' = changes + 1
    /\ limits' \in Limits \ {limits}
    /\ unread' = TRUE
    /\ UNCHANGED <<permits, waiting, caller, aborted>>

\* bootstrap refreshes the pool every second.
RefreshTimer ==
    /\ Refreshed(permits, waiting, caller)
    /\ UNCHANGED <<limits, aborted, changes>>

PoolNext ==
    \/ \E c \in Callers : Run(c) \/ TryAcquire(c) \/ Proceed(c) \/ Finish(c) \/ Abort(c)
    \/ ChangeLimits \/ RefreshTimer

PoolSpec == PoolInit /\ [][PoolNext]_poolVars

\* Tasks end (executions have a time limit), continuations run, and the timer
\* fires; nobody has to ask, to abort or to change the limits.
PoolFairness ==
    /\ \A c \in Callers : WF_poolVars(Proceed(c)) /\ WF_poolVars(Finish(c))
    /\ WF_poolVars(RefreshTimer)

FairPoolSpec == PoolSpec /\ PoolFairness

-----------------------------------------------------------------------------
PoolTypeOK ==
    /\ limits \in Limits
    /\ permits \in [active : Nat, workspaces : [Workspaces -> Nat]]
    /\ waiting \in Seq(Callers)
    /\ caller \in [Callers -> {"idle", "waiting", "admitted", "running"}]
    /\ aborted \subseteq Callers
    /\ unread \in BOOLEAN
    /\ changes \in 0..MaxChanges

\* The counters are the permits really held, and the list is exactly the
\* callers that wait, each once: no order of aborts, releases and refreshes
\* leaks a permit or creates one.
CountersMatchHolders ==
    /\ permits.active = Cardinality(Holders)
    /\ \A w \in Workspaces : permits.workspaces[w] = Cardinality(HoldersIn(w))
    /\ Range(waiting) = {c \in Callers : caller[c] = "waiting"}
    /\ IsInjective(waiting)

\* No wake-up is lost: unless the limits changed and the timer has not fired
\* since, no caller waits that could start, so that a tryAcquire never
\* overtakes one.
NobodyWaitsForNothing ==
    ~unread => \A c \in Range(waiting) : ~Fits(permits, c)

Ahead(d, c) == \E i, j \in DOMAIN waiting : i < j /\ waiting[i] = d /\ waiting[j] = c

\* Inside a workspace the list is first come first served: nobody passes a
\* caller that keeps waiting, in the list or with a tryAcquire (which may win
\* only between a raise of the limits and the next refresh).
NobodyPasses ==
    [][\A c, d \in Callers :
          (/\ caller[c] = "waiting" /\ caller'[c] = "waiting"
           /\ CallerWorkspace[c] = CallerWorkspace[d] /\ ~Ahead(d, c))
          => /\ ~Ahead(d, c)'
             /\ d \in Holders' \ Holders => unread]_poolVars

\* Whoever waits is admitted (or aborted), although other callers keep coming
\* and may be taken early.
WaitersAreServed ==
    \A c \in Callers : caller[c] = "waiting" ~> caller[c] # "waiting"
=============================================================================
