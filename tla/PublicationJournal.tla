-------------------------- MODULE PublicationJournal --------------------------
(***************************************************************************)
(* The journal of remote writes (packages/outputs/src/publication-         *)
(* journal.ts) for one write: what is known of it, kept with the run, and  *)
(* what a publication that comes to it does.  The strategy says how a      *)
(* write of unknown outcome can be settled:                                *)
(*   marker       the issue or comment carries the operation's id and the  *)
(*                provider can be asked for it;                            *)
(*   feishu_uuid  the provider refuses a second message with the same id   *)
(*                for an hour;                                             *)
(*   bot, webhook neither ("unqueryable"; a bot API also never repeats a   *)
(*                refused write).                                          *)
(* Operators only: the journal is saved by its user, here ManualReview.    *)
(***************************************************************************)
EXTENDS Naturals

AllStrategies == {"marker", "feishu_uuid", "bot", "webhook"}
OpStatus == {"none", "unknown", "confirmed", "rejected"}

\* What fetch() does at an operation.
Replays(op) == op = "confirmed"
Reconciles(strategy, op) == op = "unknown" /\ strategy = "marker"

\* Faulty: a write of unknown outcome that cannot be looked up is sent again.
SendsUnknown(strategy, op) ==
    \/ op = "none"
    \/ op = "unknown" /\ strategy # "marker"
    \/ op = "rejected" /\ strategy # "bot"

\* The intent is saved and the request is sent: never for a write whose
\* outcome is unknown, unless the provider removes duplicates.
Sends(strategy, op) ==
    \/ op = "none"
    \/ op = "unknown" /\ strategy = "feishu_uuid"
    \/ op = "rejected" /\ strategy # "bot"

\* reconcile(): exactly one remote object carries the marker.
FoundOnce(written) == written = 1

\* The remote side after a request arrived that it accepts.
Written(strategy, written) == IF strategy = "feishu_uuid" THEN 1 ELSE written + 1
===============================================================================
