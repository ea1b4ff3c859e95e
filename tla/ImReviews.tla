------------------------------- MODULE ImReviews -------------------------------
(***************************************************************************)
(* Reviews asked for in a chat, from the delivery of the command to the    *)
(* reply: the tables of ImRequests, the worker of ManualReview and the     *)
(* senders of ImReplies, in processes that may be lost at any step.        *)
(***************************************************************************)
EXTENDS ManualReview, ImReplies

vars == <<imVars, reviewVars, replyVars>>

Init == ImInit /\ ReviewInit /\ ReplyInit

Delivered(d) == Accept(d) /\ UNCHANGED reviewVars /\ UNCHANGED replyVars
BecomesDue(r) == ComesDue(r) /\ UNCHANGED reviewVars /\ UNCHANGED replyVars

Drives(s) == ((\E r \in Requests : StartDrive(s, r)) \/ DriveStep(s)) /\ UNCHANGED replyVars
Beside ==
    /\ \/ \E s \in Slots : RenewFails(s) \/ OutsideWindow(s)
       \/ \E r \in Requests : Cancel(r) \/ DriveStalls(r)
       \/ Stop
    /\ UNCHANGED replyVars
Recovers(r) == OrphanLapses(r) /\ UNCHANGED replyVars
Restarts == Restart /\ UNCHANGED replyVars
Replies(x) == ReplyStep(x) /\ UNCHANGED reviewVars

\* A reply lease that nobody uses runs out; one in use only when the sender stalls.
ReplyRecovers(r) == ~Delivering(r) /\ ReplyLapses(r) /\ UNCHANGED reviewVars
SenderStalls(r) ==
    /\ Delivering(r) /\ trouble < MaxTrouble /\ trouble' = trouble + 1
    /\ ReplyLapses(r)
    /\ UNCHANGED <<drive, controller, stopped, written>>

Crash ==
    /\ trouble < MaxTrouble /\ trouble' = trouble + 1
    /\ DrivesLost /\ SendersLost /\ UNCHANGED imVars

(***************************************************************************)
(* The server goes on: its scan timer claims what is due, drives and       *)
(* senders take steps, and it starts again after a stop.  Time passes: a   *)
(* retry comes due and a lease nobody renews runs out.  Which of them goes *)
(* first is left open, and no delivery, cancellation or trouble need ever  *)
(* happen.                                                                 *)
(***************************************************************************)
Server == (\E s \in Slots : Drives(s)) \/ (\E x \in Senders : Replies(x)) \/ Restarts
Time == \E r \in Requests : BecomesDue(r) \/ Recovers(r) \/ ReplyRecovers(r)

Next ==
    \/ Server \/ Time
    \/ \E d \in Deliveries : Delivered(d)
    \/ Beside \/ Crash \/ \E r \in Requests : SenderStalls(r)

Spec == Init /\ [][Next]_vars

Fairness == WF_vars(Server) /\ WF_vars(Time)

FairSpec == Spec /\ Fairness

TypeOK ==
    /\ ImTypeOK /\ ReviewTypeOK
    /\ told \in [Requests -> Nat]
    /\ sender \in [Senders -> [step : {"idle", "sending", "delivered", "unknown", "refused"},
                               todo : SUBSET Requests, now : Requests \cup {None}]]

-----------------------------------------------------------------------------
(* Properties. *)

\* At any time one review of the revision is open, and it is the one commands
\* join (im_active_targets); two presses of one button get the same review, also
\* when it had been started by somebody else and has ended in between.
OneReviewForAll ==
    /\ \A r \in Requests : Open(r) <=> activeTarget = r
    /\ \A d, e \in Presses : inbox[d] # None /\ inbox[e] # None => inbox[d] = inbox[e]

\* What a request came to is never changed by a drive that was cancelled,
\* overtaken or lost its lease: neither the state nor the reply that tells it.
OutcomeIsFinal ==
    [][\A r \in Requests : Final(r) =>
        /\ requests'[r].state = requests[r].state
        /\ outbox'[r].tells = outbox[r].tells]_vars

\* However often a review is interrupted, claimed again and resumed, the
\* provider gets its message at most once.  A success rests on a write that is
\* known, or on none begun: the provider has the message if one was ever
\* intended, and never on a write whose outcome is open or was refused.
WrittenOnce ==
    \A r \in Requests :
        /\ written[r] <= 1
        /\ requests[r].state = "succeeded" =>
              \/ requests[r].op = "confirmed" /\ written[r] = 1
              \/ requests[r].op = "none" /\ written[r] = 0

\* "No remote write can have started" (manual-review-service.ts:518): a request
\* that may be analysed again has written nothing and has no write under way.
ReanalysisIsSafe ==
    \A r \in Requests : requests[r].state \in OpenStates \ {"publishing"} =>
        /\ written[r] = 0
        /\ \A s \in Slots : drive[s].r = r => ~At(s, "send")

\* The requester hears the outcome at most once, never before it is final, and
\* hears what the request came to.
ToldOnce ==
    \A r \in Requests :
        /\ told[r] <= 1
        /\ told[r] = 1 => Final(r)
        /\ outbox[r].tells # None => outbox[r].tells = requests[r].state

\* Every accepted request ends, and its reply is settled: no crash, lapse or
\* retry leaves it waiting for ever.
RequestsSettle ==
    \A r \in Requests :
        Open(r) ~> Final(r) /\ outbox[r].state \notin {"pending", "delivering", "sending"}
===============================================================================
