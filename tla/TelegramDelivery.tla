-------------------------- MODULE TelegramDelivery --------------------------
(***************************************************************************)
(* One-shot lifecycle notifications (services/telegram_notification_       *)
(* service.py over the telegram_deliveries table).  A notifier takes the   *)
(* context-lifecycle fence without waiting, inserts the permanent claim    *)
(* row of the event, posts to Telegram, and seals the row.  Session        *)
(* deletion holds the same fence while it retires claims whose outcome     *)
(* nobody knows.  The service may die between any two of these steps; the  *)
(* fence is a flock, so it dies with the process, and the rows survive.    *)
(***************************************************************************)
EXTENDS Naturals

CONSTANTS Notifiers,  \* threads that dispatch notifications
          Events,     \* event keys "workflow:<id>:<kind>" of one Session
          Deleter,    \* the thread that deletes the Session
          Free,       \* the fence is not held
          MaxSends    \* bound on accepted posts per event, for the counters

ASSUME NotifierAssumption == /\ Deleter \notin Notifiers
                             /\ Free \notin Notifiers \cup {Deleter}
ASSUME MaxSendsAssumption == MaxSends \in Nat \ {0}

VARIABLES row,      \* telegram_deliveries.state per event key
          session,  \* "deleting" once a session_deletion_operations row exists
          channel,  \* notification_settings: enabled and configured, or not
          fence,    \* holder of context-launch.lock
          pc,       \* per notifier: where its dispatch call is
          event,    \* per notifier: the event of that call
          result,   \* per notifier: what _send_message returned
          dpc,      \* where the deletion call is
          accepted  \* history: posts Telegram accepted, per event

tvars == <<row, session, channel, fence, pc, event, result, dpc, accepted>>

RowStates == {"none", "claimed", "sent", "failed", "skipped", "retired"}
Results == {"none", "ok", "failed", "disabled"}

TTypeOK == /\ row \in [Events -> RowStates]
           /\ session \in {"live", "deleting"}
           /\ channel \in {"on", "off"}
           /\ fence \in Notifiers \cup {Deleter, Free}
           /\ pc \in [Notifiers -> {"idle", "fenced", "claimed", "posted"}]
           /\ event \in [Notifiers -> Events]
           /\ result \in [Notifiers -> Results]
           /\ dpc \in {"idle", "fenced"}
           /\ accepted \in [Events -> 0..MaxSends]

TInit == /\ row = [e \in Events |-> "none"]
         /\ session = "live"
         /\ channel \in {"on", "off"}
         /\ fence = Free
         /\ pc = [n \in Notifiers |-> "idle"]
         /\ event \in [Notifiers -> Events]
         /\ result = [n \in Notifiers |-> "none"]
         /\ dpc = "idle"
         /\ accepted = [e \in Events |-> 0]

-----------------------------------------------------------------------------
(* Mutant: the busy result of the non-blocking flock is ignored.            *)
AcquireUnfenced(n, e) ==
    /\ pc[n] = "idle"
    /\ fence' = n
    /\ pc' = [pc EXCEPT ![n] = "fenced"]
    /\ event' = [event EXCEPT ![n] = e]
    /\ result' = [result EXCEPT ![n] = "none"]
    /\ UNCHANGED <<row, session, channel, dpc, accepted>>

(* dispatch_workflow_notification.  A busy fence returns "lifecycle_busy"   *)
(* without any effect, so only the successful acquisition is a step.        *)
Acquire(n, e) ==
    /\ pc[n] = "idle"
    /\ fence = Free
    /\ fence' = n
    /\ pc' = [pc EXCEPT ![n] = "fenced"]
    /\ event' = [event EXCEPT ![n] = e]
    /\ result' = [result EXCEPT ![n] = "none"]
    /\ UNCHANGED <<row, session, channel, dpc, accepted>>

(* Mutant: a crash-left claim may be claimed again.                          *)
ReclaimAfterCrash(n) == row[event[n]] \in {"none", "claimed"} /\ session = "live"

(* claim_telegram_delivery: the primary key admits one insert per event.    *)
Unclaimed(n) == row[event[n]] = "none" /\ session = "live"

ClaimDelivery(n) ==
    /\ pc[n] = "fenced"
    /\ IF Unclaimed(n)
       THEN /\ row' = [row EXCEPT ![event[n]] = "claimed"]
            /\ pc' = [pc EXCEPT ![n] = "claimed"]
            /\ fence' = fence
       ELSE /\ row' = row
            /\ pc' = [pc EXCEPT ![n] = "idle"]
            /\ fence' = Free
    /\ UNCHANGED <<session, channel, event, result, dpc, accepted>>

(* _send_message and _telegram_request: a disabled channel is skipped; an   *)
(* error may hide an accepted post, an "ok" never hides a rejected one.     *)
SendMessage(n) ==
    /\ pc[n] = "claimed"
    /\ pc' = [pc EXCEPT ![n] = "posted"]
    /\ \/ /\ channel = "off"
          /\ result' = [result EXCEPT ![n] = "disabled"]
          /\ UNCHANGED accepted
       \/ /\ channel = "on"
          /\ accepted[event[n]] < MaxSends
          /\ accepted' = [accepted EXCEPT ![event[n]] = @ + 1]
          /\ \E r \in {"ok", "failed"} : result' = [result EXCEPT ![n] = r]
       \/ /\ channel = "on"
          /\ result' = [result EXCEPT ![n] = "failed"]
          /\ UNCHANGED accepted
    /\ UNCHANGED <<row, session, channel, fence, event, dpc>>

(* Mutant: every failure is sealed as skipped.                               *)
SealSkipped(r) == IF r = "ok" THEN "sent" ELSE "skipped"

SealOf(r) == CASE r = "ok" -> "sent" [] r = "disabled" -> "skipped" [] OTHER -> "failed"


(* finish_telegram_delivery: a compare-and-set from "claimed".              *)
FinishDelivery(n) ==
    /\ pc[n] = "posted"
    /\ row' = IF row[event[n]] = "claimed"
              THEN [row EXCEPT ![event[n]] = SealOf(result[n])] ELSE row
    /\ pc' = [pc EXCEPT ![n] = "idle"]
    /\ fence' = Free
    /\ UNCHANGED <<session, channel, event, result, dpc, accepted>>

(* update_settings, which does not take the fence.                          *)
SetEnabled ==
    /\ channel' = IF channel = "on" THEN "off" ELSE "on"
    /\ UNCHANGED <<row, session, fence, pc, event, result, dpc, accepted>>

-----------------------------------------------------------------------------
(* delete_session: fence, then cancel_session_work_for_deletion retires     *)
(* every claimed notification in one transaction, then                      *)
(* begin_session_hard_deletion commits the operation row.                   *)
DeleteBegin ==
    /\ dpc = "idle" /\ session = "live"
    /\ fence = Free
    /\ fence' = Deleter
    /\ dpc' = "fenced"
    /\ UNCHANGED <<row, session, channel, pc, event, result, accepted>>

RetireIndeterminate ==
    /\ dpc = "fenced"
    /\ \E e \in Events : row[e] = "claimed"
    /\ row' = [e \in Events |-> IF row[e] = "claimed" THEN "retired" ELSE row[e]]
    /\ UNCHANGED <<session, channel, fence, pc, event, result, dpc, accepted>>

(* The preflight refuses while an unresolved claim is left.                 *)
DeleteEnd ==
    /\ dpc = "fenced"
    /\ dpc' = "idle"
    /\ fence' = Free
    /\ session' = IF \A e \in Events : row[e] # "claimed" THEN "deleting" ELSE session
    /\ UNCHANGED <<row, channel, pc, event, result, accepted>>

(* The service process dies: calls vanish, the flock is released.           *)
ServiceDies ==
    /\ pc' = [n \in Notifiers |-> "idle"]
    /\ dpc' = "idle"
    /\ fence' = Free
    /\ UNCHANGED <<row, session, channel, event, result, accepted>>

Step(n) == ClaimDelivery(n) \/ SendMessage(n) \/ FinishDelivery(n)
TNext == \/ \E n \in Notifiers : Step(n) \/ \E e \in Events : Acquire(n, e)
         \/ SetEnabled \/ DeleteBegin \/ RetireIndeterminate \/ DeleteEnd \/ ServiceDies

(* Every step of a call in progress is straight-line code with a bounded    *)
(* network timeout, so a live thread takes it.                              *)
TFairness == /\ \A n \in Notifiers : WF_tvars(Step(n))
             /\ WF_tvars(DeleteEnd)

TSpec == TInit /\ [][TNext]_tvars /\ TFairness

-----------------------------------------------------------------------------
(* An event reaches Telegram at most once, over every interleaving of       *)
(* notifiers, crashes and deletions: "indeterminate sends are never         *)
(* replayed" (claim_telegram_delivery).                                     *)
AtMostOnePost == \A e \in Events : accepted[e] <= 1

(* A sealed row tells the truth: "sent" means Telegram accepted the post,   *)
(* "skipped" means nothing left the host.                                   *)
SealIsTruthful == \A e \in Events : /\ row[e] = "sent" => accepted[e] = 1
                                    /\ row[e] = "skipped" => accepted[e] = 0

(* dispatch_workflow_notification: a claimed row is either fenced by the    *)
(* live call that owns it or left by a crash, never an untracked concurrent *)
(* claimant - so what deletion retires is really unowned.                   *)
ClaimIsFenced == \A n \in Notifiers :
    pc[n] \in {"claimed", "posted"} => fence = n /\ row[event[n]] = "claimed"

(* Once sealed or retired by an operator, a row never changes again.        *)
SealIsFinal == [][\A e \in Events : row[e] \notin {"none", "claimed"} => row'[e] = row[e]]_tvars

(* The fence is always given back, whoever holds it and however the call    *)
(* ends.                                                                    *)
FenceReleased == (fence # Free) ~> (fence = Free)

=============================================================================
