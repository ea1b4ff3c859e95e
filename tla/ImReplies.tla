------------------------------- MODULE ImReplies -------------------------------
(***************************************************************************)
(* The delivery of the terminal replies (packages/server/src/im/reply-     *)
(* service.ts over im_reply_outbox).  A sender claims the due replies in   *)
(* one transaction and delivers them one after the other; a reply is       *)
(* marked sending before its one POST, and whatever is not known           *)
(* afterwards stays unknown.  The waiting time of a retry and the expiry   *)
(* of a reply are choices.  A sender stands for a server process, in which *)
(* passes never overlap (scanning).  expired, failed and rejected, the ways *)
(* to give a reply up, are one: dropped.                                   *)
(***************************************************************************)
EXTENDS ImRequests

CONSTANTS Senders, MaxReplies   \* MAX_ATTEMPTS

ASSUME ReplyAssumption == MaxReplies \in Nat \ {0} /\ Senders \subseteq Claimants

VARIABLES sender,   \* the claimed rows of the pass, todo, and the one in delivery, now
          told      \* request -> messages the requester received

replyVars == <<sender, told>>

Resting == [step |-> "idle", todo |-> {}, now |-> None]

ReplyInit ==
    /\ sender = [x \in Senders |-> Resting]
    /\ told = [r \in Requests |-> 0]

ReplyAt(x, step) == sender[x].step = step
Job(x) == sender[x].now

\* Faulty: a reply whose sender was lost while sending is offered again.
SettleResending(row) == IF row.state = "sending" /\ row.lease = "lapsed"
                        THEN [row EXCEPT !.state = "delivering"] ELSE row

\* A reply whose sender was lost while sending is settled as unknown.
Settle(row) == IF row.state = "sending" /\ row.lease = "lapsed"
               THEN [row EXCEPT !.state = "unknown", !.lease = "none", !.by = None] ELSE row

Due(row) == row.state = "pending" \/ (row.state = "delivering" /\ row.lease = "lapsed")
Claimed(row, x) == [row EXCEPT !.state = "delivering", !.lease = "live", !.attempts = @ + 1, !.by = x]
Expired(row) == [row EXCEPT !.state = "dropped", !.lease = "none", !.by = None]

\* scanPass: claimDueImReplyNotifications.
ClaimReplies(x) ==
    /\ ReplyAt(x, "idle") /\ sender[x].todo = {}
    /\ LET row == [r \in Requests |-> Settle(outbox[r])]
           due == {r \in Requests : Due(row[r])}
       IN  \E old \in SUBSET due :
            /\ outbox' = [r \in Requests |-> IF r \in old THEN Expired(row[r])
                                            ELSE IF r \in due THEN Claimed(row[r], x) ELSE row[r]]
            /\ sender' = [sender EXCEPT ![x].todo = due \ old]
    /\ outbox' # outbox
    /\ UNCHANGED <<requests, activeTarget, inbox, consumed, told>>

\* finishImReplyNotification: the claim holds and the row is in a source state.
Applies(x, r, from) == outbox[r].by = x /\ outbox[r].lease = "live" /\ outbox[r].state \in from
Settled(x, r, from, to) ==
    /\ outbox' = IF Applies(x, r, from)
                 THEN [outbox EXCEPT ![r].state = to, ![r].lease = IF to = "sending" THEN @ ELSE "none"]
                 ELSE outbox
    /\ UNCHANGED <<requests, activeTarget, inbox, consumed>>

\* backoff(): again later while attempts are left, or given up.
AgainOrNever(r) == IF outbox[r].attempts < MaxReplies THEN {"pending", "dropped"} ELSE {"dropped"}
Rest(x) == sender' = [sender EXCEPT ![x].step = "idle", ![x].now = None]

\* The next row of the pass is turned into a message: its connection is ready and
\* the row becomes sending, or it is not ready, or the reply is refused for good.
Prepare(x) ==
    /\ ReplyAt(x, "idle")
    /\ \E r \in sender[x].todo :
        LET rest == [sender[x] EXCEPT !.todo = @ \ {r}]
        IN  \/ /\ outbox[r].attempts <= MaxReplies
               /\ Settled(x, r, {"delivering"}, "sending")
               /\ sender' = [sender EXCEPT ![x] = IF Applies(x, r, {"delivering"})
                                                  THEN [rest EXCEPT !.step = "sending", !.now = r] ELSE rest]
            \/ /\ \E to \in AgainOrNever(r) : Settled(x, r, {"delivering", "sending"}, to)
               /\ sender' = [sender EXCEPT ![x] = rest]
    /\ UNCHANGED told

\* Before the POST: a stop or an expiry ends it, a lapsed lease leaves it.
BeforePost(x) ==
    /\ ReplyAt(x, "sending") /\ Rest(x)
    /\ \/ \E to \in AgainOrNever(Job(x)) : Settled(x, Job(x), {"delivering", "sending"}, to)
       \/ outbox[Job(x)].lease # "live" /\ UNCHANGED imVars
    /\ UNCHANGED told

\* The POST: received or not, answered or not; only an answer tells which.
Post(x) ==
    /\ ReplyAt(x, "sending")
    /\ \/ /\ told' = [told EXCEPT ![Job(x)] = @ + 1]
          /\ \E step \in {"delivered", "unknown"} : sender' = [sender EXCEPT ![x].step = step]
       \/ /\ told' = told
          /\ \E step \in {"refused", "unknown"} : sender' = [sender EXCEPT ![x].step = step]
    /\ UNCHANGED imVars

\* After the POST: only an explicit refusal may be tried again.
AfterPost(x) ==
    /\ Rest(x)
    /\ \/ ReplyAt(x, "delivered") /\ Settled(x, Job(x), {"sending"}, "delivered")
       \/ /\ ReplyAt(x, "unknown")
          /\ Settled(x, Job(x), {"sending"}, "unknown") \/ UNCHANGED imVars
       \/ /\ ReplyAt(x, "refused")
          /\ \E to \in AgainOrNever(Job(x)) : Settled(x, Job(x), {"delivering", "sending"}, to)
    /\ UNCHANGED told

\* The lease of 60 s runs out under a slow or a lost sender.
ReplyLapses(r) ==
    /\ outbox[r].lease = "live"
    /\ outbox' = [outbox EXCEPT ![r].lease = "lapsed"]
    /\ UNCHANGED <<requests, activeTarget, inbox, consumed>> /\ UNCHANGED replyVars
\* Some sender still has the claim under which the row is.
Delivering(r) ==
    \E x \in Senders : outbox[r].by = x /\ r \in sender[x].todo \cup {Job(x)}

SendersLost == sender' = [x \in Senders |-> Resting] /\ UNCHANGED told

ReplyStep(x) == ClaimReplies(x) \/ Prepare(x) \/ BeforePost(x) \/ Post(x) \/ AfterPost(x)
===============================================================================
