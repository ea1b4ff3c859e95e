------------------------------ MODULE ImRequests ------------------------------
(***************************************************************************)
(* The tables of the IM review requests (packages/store/src/im-store.ts):  *)
(* the inbox of platform deliveries, the one-time action of a button, the  *)
(* requests with their lease and fence, the active target and the outbox   *)
(* of terminal replies.  All deliveries here ask for one revision of one   *)
(* repository, so there is one active target.                              *)
(*                                                                         *)
(* Every operator is one store transaction.  A write that names a fence    *)
(* applies only while the row still carries it; a claim raises the fence,  *)
(* and so do the two ways to end a request (finish, under the fence, and   *)
(* cancel, without).  Fences are only ever raised and compared for         *)
(* equality, so the model keeps in by who, if anybody, has the current     *)
(* fence of a row: a claim gives it to the claimant, an end to nobody.     *)
(***************************************************************************)
EXTENDS Naturals, FiniteSets

CONSTANTS Strategies,  \* how a remote write of unknown outcome can be settled
          Requests,    \* 1..n, in the order of their creation
          Deliveries,  \* 1..m, in the order of their arrival
          Presses,     \* the deliveries that press one and the same button
          Answerable,  \* the requests whose conversation can be answered
          Claimants,
          None

ASSUME ImAssumption ==
    /\ Requests = 1..Cardinality(Requests) /\ IsFiniteSet(Requests)
    /\ Deliveries = 1..Cardinality(Deliveries) /\ IsFiniteSet(Deliveries)
    /\ Presses \subseteq Deliveries /\ Answerable \subseteq Requests
    /\ None \notin Requests \cup Claimants /\ None \notin Strategies

VARIABLES requests,      \* im_review_requests
          activeTarget,  \* im_active_targets
          inbox,         \* im_inbox: delivery -> the request it was answered with
          consumed,      \* im_actions.consumedRequestId of the button
          outbox         \* im_reply_outbox: the terminal reply of each request

imVars == <<requests, activeTarget, inbox, consumed, outbox>>

OpenStates == {"accepted", "validating", "queued", "running", "publishing", "retry_wait"}
FinalStates == {"succeeded", "publication_unknown", "failed", "rejected"}
ASSUME OutcomeAssumption == None \notin FinalStates

Leases == {"none", "live", "lapsed"}

NoRequest == [state |-> "none", by |-> None, lease |-> "none", due |-> TRUE, resolved |-> FALSE,
              attempts |-> 0, op |-> "none", via |-> None]
NoReply == [state |-> "none", by |-> None, lease |-> "none", attempts |-> 0, tells |-> None]

ImInit ==
    /\ requests = [r \in Requests |-> NoRequest]
    /\ activeTarget = None
    /\ inbox = [d \in Deliveries |-> None]
    /\ consumed = None
    /\ outbox = [r \in Requests |-> NoReply]

Open(r) == requests[r].state \in OpenStates
Final(r) == requests[r].state \in FinalStates
Holds(r, c) == requests[r].by = c

-----------------------------------------------------------------------------
(* acceptImDelivery.  A delivery that is repeated after its commit is a     *)
(* duplicate and changes nothing; one over the rate limit rolls back.       *)

\* A press of the button that was already used: answered with its request.
AcceptReplayed(d) ==
    /\ d \in Presses /\ consumed # None
    /\ inbox' = [inbox EXCEPT ![d] = consumed]
    /\ UNCHANGED <<requests, activeTarget, consumed, outbox>>

\* Faulty: a press that joins a running review leaves its button unused.
ConsumeCreatedOnly(d, r) == consumed' = IF d \in Presses /\ activeTarget = None THEN r ELSE consumed

Consume(d, r) == consumed' = IF d \in Presses THEN r ELSE consumed

AcceptMerged(d) ==
    /\ ~(d \in Presses /\ consumed # None)
    /\ activeTarget # None
    /\ inbox' = [inbox EXCEPT ![d] = activeTarget]
    /\ Consume(d, activeTarget)
    /\ UNCHANGED <<requests, activeTarget, outbox>>

AcceptCreated(d, r) ==
    /\ ~(d \in Presses /\ consumed # None)
    /\ activeTarget = None
    /\ requests[r].state = "none" /\ \A q \in 1..(r - 1) : requests[q].state # "none"
    /\ requests' = [requests EXCEPT ![r].state = "accepted"]
    /\ activeTarget' = r
    /\ inbox' = [inbox EXCEPT ![d] = r]
    /\ Consume(d, r)
    /\ UNCHANGED outbox

\* A delivery that has no row in the inbox yet.
Accept(d) ==
    /\ inbox[d] = None /\ \A e \in 1..(d - 1) : inbox[e] # None
    /\ \/ AcceptReplayed(d)
       \/ AcceptMerged(d)
       \/ \E r \in Requests : AcceptCreated(d, r)

-----------------------------------------------------------------------------
(* Claims, leases and fenced updates. *)

\* Faulty: only a released lease is free, an expired one is not.
ClaimableReleased(r) == Open(r) /\ requests[r].due /\ requests[r].lease = "none"

Claimable(r) == Open(r) /\ requests[r].due /\ requests[r].lease # "live"

\* claimDueImReviewRequests, claimImReviewRequestById
Claim(r, c) ==
    /\ Claimable(r)
    /\ requests' = [requests EXCEPT ![r].by = c, ![r].lease = "live"]
    /\ UNCHANGED <<activeTarget, inbox, consumed, outbox>>

\* updateImReviewRequest: row is the request with what the update sets.
Update(r, c, row) ==
    /\ requests' = IF Holds(r, c) THEN [requests EXCEPT ![r] = row] ELSE requests
    /\ UNCHANGED <<activeTarget, inbox, consumed, outbox>>

Released(row) == [row EXCEPT !.lease = "none", !.due = FALSE]   \* releaseLease, nextAttemptAt

\* renewImReviewLease succeeds.
Renewable(r, c) == Holds(r, c) /\ requests[r].lease = "live"

\* The terminal write of finish and cancel, with everything that goes with it.
\* What an ended row still remembers is not read again and is forgotten here,
\* but for the publication that a success rests on.
Ended(row, final) ==
    [NoRequest EXCEPT !.state = final, !.op = IF final = "succeeded" THEN row.op ELSE "none"]

End(r, final, tells) ==
    /\ requests' = [requests EXCEPT ![r] = Ended(@, final)]
    /\ activeTarget' = IF activeTarget = r THEN None ELSE activeTarget
    /\ outbox' = IF tells /\ r \in Answerable
                 THEN [outbox EXCEPT ![r] = [NoReply EXCEPT !.state = "pending", !.tells = final]]
                 ELSE outbox
    /\ UNCHANGED <<inbox, consumed>>

\* finishImReviewRequest
Finish(r, c, final, tells) ==
    IF Holds(r, c) /\ Open(r) THEN End(r, final, tells) ELSE UNCHANGED imVars

\* Faulty: a cancelled request keeps its fence.
CancelUnfenced(r, states) ==
    /\ requests[r].state \in states
    /\ requests' = [requests EXCEPT ![r].state = "rejected", ![r].lease = "none"]
    /\ activeTarget' = IF activeTarget = r THEN None ELSE activeTarget
    /\ UNCHANGED <<inbox, consumed, outbox>>

\* cancelImReviewRequest
CancelRequest(r, states) == requests[r].state \in states /\ End(r, "rejected", TRUE)

LeaseLapses(r) ==
    /\ requests[r].lease = "live"
    /\ requests' = [requests EXCEPT ![r].lease = "lapsed"]
    /\ UNCHANGED <<activeTarget, inbox, consumed, outbox>>

ComesDue(r) ==
    /\ ~requests[r].due
    /\ requests' = [requests EXCEPT ![r].due = TRUE]
    /\ UNCHANGED <<activeTarget, inbox, consumed, outbox>>

ImTypeOK ==
    /\ requests \in [Requests -> [state : OpenStates \cup FinalStates \cup {"none"},
                                  by : Claimants \cup {None}, lease : Leases, due : BOOLEAN, resolved : BOOLEAN, attempts : Nat,
                                  op : {"none", "unknown", "confirmed", "rejected"},
                                  via : Strategies \cup {None}]]
    /\ activeTarget \in Requests \cup {None} /\ consumed \in Requests \cup {None}
    /\ inbox \in [Deliveries -> Requests \cup {None}]
    /\ outbox \in [Requests -> [state : {"none", "pending", "delivering", "sending", "delivered",
                                         "unknown", "dropped"},
                                by : Claimants \cup {None}, lease : Leases, attempts : Nat,
                                tells : FinalStates \cup {None}]]
===============================================================================
