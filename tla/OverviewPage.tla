---------------------------- MODULE OverviewPage ----------------------------
(***************************************************************************)
(* The console's start page (webassets/ui/src/pages/Overview.tsx): a poll  *)
(* that runs while the page is mounted and the tab is visible, and the     *)
(* reset of everybody's monthly quota behind a static Modal.confirm, which *)
(* outlives the page.  Of the gateway only what the page depends on is     *)
(* here: whether reservations are open; what a reset does to the counters  *)
(* is QuotaLedger's ResetMonthlyRequests, and its audit event is recorded  *)
(* as the ones of Dashboard are.                                           *)
(*                                                                         *)
(* A call's arg says whether the mount it belongs to is still there, and   *)
(* its then, for the two calls of onOk, whether its dialog is.             *)
(***************************************************************************)
EXTENDS Api

\* The page's calls: polls, and the two that an onOk makes one after the other.
Answers(op) ==
  IF op = "overview" THEN {Reply(b) : b \in BOOLEAN}
  ELSE {Reply("reset"), Envelope(409, "QUOTA_RESET_BUSY"), Envelope(500, "INTERNAL")}

CallsOf(op, thens) ==
  [op : {op}, arg : {"page", "gone"}, then : {"dialog", "cancelled"} \cup thens,
   srv : {"queued", "done"}, cli : {"waiting", "gone"}, wire : {None} \cup Answers(op)]

CallType == CallsOf("overview", {None}) \cup CallsOf("reset", {})

\* Which of the two intervals in turn the next setInterval returns.
Intervals == {1, 2}

ASSUME OverviewAssumption ==
  None \notin Intervals /\ None \notin {"dialog", "cancelled"}

VARIABLES
  open,      \* some reservation is open
  mounted,   \* App shows this page
  hidden,    \* document.hidden
  live,      \* the intervals the browser is running
  timer,     \* timer.current
  page,      \* data, loading, error and resettingQuota of the mount
  dialog     \* the confirmation: where its onOk is, and whether its page is there

tabVars == <<mounted, hidden, live, timer, page, dialog>>
vars == <<open, calls, mounted, hidden, live, timer, page, dialog>>

Shut == [step |-> "shut", mine |-> FALSE]
Fresh == [data |-> None, loading |-> TRUE, error |-> FALSE, resetting |-> FALSE]

NewInterval == CHOOSE i \in Intervals : i \notin live

\* One more call is sent, in the first free slot.
Sent(op, mount, then) ==
  \E n \in Slots :
    /\ n \notin InFlight
    /\ 1..(n - 1) \subseteq InFlight
    /\ calls' = [calls EXCEPT ![n] = Call(op, mount, then)]

Polls == Sent("overview", "page", None)

(***************************************************************************)
(* The gateway: traffic opens and closes reservations; a reset is refused  *)
(* while one is open, inside the writer's transaction.                     *)
(***************************************************************************)
Traffic == open' = ~open /\ UNCHANGED <<calls, tabVars>>

ServeOverview(n) ==
  /\ n \in Pending("overview", "queued")
  /\ calls' = Answered(n, Reply(open))
  /\ UNCHANGED <<open, tabVars>>

\* A count that cannot be read is left at zero.
CountFails(n) ==
  /\ n \in Pending("overview", "queued")
  /\ calls' = Answered(n, Reply(FALSE))
  /\ UNCHANGED <<open, tabVars>>

ServeReset(n) ==
  /\ n \in Pending("reset", "queued")
  /\ calls' = Answered(n, IF open THEN Envelope(409, "QUOTA_RESET_BUSY") ELSE Reply("reset"))
  /\ UNCHANGED <<open, tabVars>>

ResetFails(n) ==
  /\ n \in Pending("reset", "queued")
  /\ calls' = Answered(n, Envelope(500, "INTERNAL"))
  /\ UNCHANGED <<open, tabVars>>

(***************************************************************************)
(* The polling effect.                                                     *)
(***************************************************************************)
Start ==
  IF timer # None THEN UNCHANGED <<timer, live>>
  ELSE timer' = NewInterval /\ live' = live \cup {NewInterval}

\* Mutant: the interval is forgotten, not cleared.
StopForgets == timer' = None /\ UNCHANGED live

Stop == timer' = None /\ live' = live \ {timer}

\* The mount effect: refresh, and poll unless hidden.  timer is a new ref.
Mount ==
  /\ ~mounted
  /\ mounted' = TRUE
  /\ page' = Fresh
  /\ Polls
  /\ IF hidden THEN UNCHANGED <<timer, live>> ELSE Start
  /\ UNCHANGED <<open, hidden, dialog>>

\* The cleanup.  Answers to this mount change nothing any more, but onOk
\* goes on and its dialog stays.
Unmount ==
  /\ mounted
  /\ mounted' = FALSE
  /\ page' = Fresh
  /\ Stop
  /\ calls' = [n \in Slots |->
                 IF n \in InFlight /\ calls[n].then # None
                 THEN [calls[n] EXCEPT !.arg = "gone"] ELSE NoCall]
  /\ dialog' = [dialog EXCEPT !.mine = FALSE]
  /\ UNCHANGED <<open, hidden>>

\* onVisibility; the listener is there while the page is mounted.
Hide ==
  /\ ~hidden /\ hidden' = TRUE
  /\ IF mounted THEN Stop ELSE UNCHANGED <<timer, live>>
  /\ UNCHANGED <<open, calls, mounted, page, dialog>>

Show ==
  /\ hidden /\ hidden' = FALSE
  /\ IF mounted THEN Polls /\ Start
     ELSE UNCHANGED <<calls, timer, live>>
  /\ UNCHANGED <<open, mounted, page, dialog>>

\* Mutant: the poll pauses while the page shows an error.
TickUnlessError ==
  /\ live # {} /\ mounted /\ ~page.error
  /\ Polls
  /\ UNCHANGED <<open, tabVars>>

\* An interval fires.
Tick ==
  /\ live # {} /\ mounted
  /\ Polls
  /\ UNCHANGED <<open, tabVars>>

\* The refresh button, behind the dialog's mask while that is open.
Refresh ==
  /\ mounted /\ ~hidden /\ dialog = Shut
  /\ page.data # None \/ ~page.loading
  /\ Polls
  /\ UNCHANGED <<open, tabVars>>

\* refresh after its await: it never throws.
Refreshed(p, res) ==
  CASE res.kind = "ok" -> [p EXCEPT !.data = res.body, !.error = FALSE, !.loading = FALSE]
    [] res.kind = "api" /\ res.status # 401 -> [p EXCEPT !.error = TRUE, !.loading = FALSE]
    [] OTHER -> [p EXCEPT !.loading = FALSE]

PollDone(n, wire) ==
  /\ n \in Waiting("overview") /\ calls[n].then = None
  /\ page' = Refreshed(page, request(wire))
  /\ calls' = Settled(n, wire)
  /\ UNCHANGED <<open, mounted, hidden, live, timer, dialog>>

(***************************************************************************)
(* confirmQuotaReset.  The button is disabled by the count last fetched.   *)
(***************************************************************************)
AskReset ==
  /\ mounted /\ ~hidden /\ dialog = Shut
  /\ page.data = FALSE /\ ~page.resetting
  /\ dialog' = [step |-> "asking", mine |-> TRUE]
  /\ UNCHANGED <<open, calls, mounted, hidden, live, timer, page>>

\* onOk up to its first await; without a reason it only warns.
Confirm ==
  /\ dialog.step = "asking" /\ ~hidden
  /\ Sent("reset", IF dialog.mine THEN "page" ELSE "gone", "dialog")
  /\ dialog' = [dialog EXCEPT !.step = "resetting"]
  /\ page' = [page EXCEPT !.resetting = @ \/ dialog.mine]
  /\ UNCHANGED <<open, mounted, hidden, live, timer>>

\* Cancel shuts the dialog, not what onOk is doing.
Cancel ==
  /\ dialog # Shut /\ ~hidden
  /\ dialog' = Shut
  /\ calls' = [n \in Slots |->
                 IF n \in InFlight /\ calls[n].then = "dialog"
                 THEN [calls[n] EXCEPT !.then = "cancelled"] ELSE calls[n]]
  /\ UNCHANGED <<open, mounted, hidden, live, timer, page>>

\* setState on a page that is gone changes nothing.
OnPage(n, p) == IF calls[n].arg = "page" THEN p ELSE page

\* What onOk makes of its own dialog, if that is still open.
InDialog(n, d) == IF calls[n].then = "dialog" THEN d ELSE dialog

\* Mutant: the finally that frees the button is missing from a failure.
ResetFailedKeeps(n, wire) ==
  /\ n \in Waiting("reset") /\ request(wire).kind # "ok"
  /\ calls' = Settled(n, wire)
  /\ dialog' = InDialog(n, [dialog EXCEPT !.step = "asking"])
  /\ UNCHANGED <<open, mounted, hidden, live, timer, page>>

\* The reset failed, or its answer did: onOk throws, so the dialog stays.
ResetFailed(n, wire) ==
  /\ n \in Waiting("reset") /\ request(wire).kind # "ok"
  /\ calls' = Settled(n, wire)
  /\ page' = OnPage(n, [page EXCEPT !.resetting = FALSE])
  /\ dialog' = InDialog(n, [dialog EXCEPT !.step = "asking"])
  /\ UNCHANGED <<open, mounted, hidden, live, timer>>

\* The reset is done and reported; onOk goes on to refresh.
ResetDone(n, wire) ==
  /\ n \in Waiting("reset") /\ request(wire).kind = "ok"
  /\ calls' = [calls EXCEPT ![n] = Call("overview", @.arg, @.then)]
  /\ dialog' = InDialog(n, [dialog EXCEPT !.step = "refreshing"])
  /\ UNCHANGED <<open, mounted, hidden, live, timer, page>>

\* Mutant: the refresh after a reset throws, and the dialog stays for it.
ResetRefreshedThrows(n, wire) ==
  /\ n \in Waiting("overview") /\ calls[n].then # None
  /\ calls' = Settled(n, wire)
  /\ page' = OnPage(n, [Refreshed(page, request(wire)) EXCEPT !.resetting = FALSE])
  /\ dialog' = InDialog(n, IF request(wire).kind = "ok" THEN Shut
                           ELSE [dialog EXCEPT !.step = "asking"])
  /\ UNCHANGED <<open, mounted, hidden, live, timer>>

\* The refresh that follows a reset is over, whatever came of it.
ResetRefreshed(n, wire) ==
  /\ n \in Waiting("overview") /\ calls[n].then # None
  /\ calls' = Settled(n, wire)
  /\ page' = OnPage(n, [Refreshed(page, request(wire)) EXCEPT !.resetting = FALSE])
  /\ dialog' = InDialog(n, Shut)
  /\ UNCHANGED <<open, mounted, hidden, live, timer>>

-----------------------------------------------------------------------------
Init ==
  /\ open \in BOOLEAN
  /\ calls = [NoCalls EXCEPT ![1] = Call("overview", "page", None)]
  /\ mounted = TRUE
  /\ hidden \in BOOLEAN
  /\ timer = IF hidden THEN None ELSE 1
  /\ live = IF hidden THEN {} ELSE {1}
  /\ page = Fresh
  /\ dialog = Shut

Serve(n) == ServeOverview(n) \/ CountFails(n) \/ ServeReset(n) \/ ResetFails(n)

Settle(n) ==
  \E wire \in Wires(calls[n]) :
    \/ PollDone(n, wire)
    \/ ResetFailed(n, wire) \/ ResetDone(n, wire) \/ ResetRefreshed(n, wire)

Next ==
  \/ Traffic
  \/ \E n \in InFlight : Serve(n) \/ Settle(n)
  \/ Mount \/ Unmount \/ Hide \/ Show
  \/ Tick \/ Refresh
  \/ AskReset \/ Confirm \/ Cancel

(***************************************************************************)
(* Fairness.  The browser fires an interval (strongly fair, because here a *)
(* poll may have to wait for one of MaxCalls slots), the gateway answers   *)
(* what it received, every fetch ends in an answer or an error.  Of polls  *)
(* repeated for ever not all are lost before the gateway reads its count,  *)
(* and of the answers with a given count not all are lost on the way back. *)
(***************************************************************************)
Delivered(b) ==
  \E n \in Waiting("overview") : calls[n].wire = Reply(b) /\ PollDone(n, Reply(b))

Fairness ==
  /\ SF_vars(Tick)
  /\ \A n \in Slots :
       /\ WF_vars(n \in InFlight /\ Serve(n))
       /\ WF_vars(n \in InFlight /\ Settle(n))
       /\ SF_vars(n \in InFlight /\ ServeOverview(n) /\ calls[n].then = None)
  /\ \A b \in BOOLEAN : SF_vars(Delivered(b))

Spec == Init /\ [][Next]_vars
FairSpec == Spec /\ Fairness

-----------------------------------------------------------------------------
(***************************************************************************)
(* One interval runs, the one the page can clear, while the page is        *)
(* mounted in a visible tab; none runs otherwise, however often the tab is *)
(* hidden and the page left and opened again.                              *)
(***************************************************************************)
OneInterval ==
  IF mounted /\ ~hidden THEN timer # None /\ live = {timer}
                        ELSE timer = None /\ live = {}

\* The two calls of one onOk of the page now mounted.
Chain == {n \in InFlight :
            calls[n].cli = "waiting" /\ calls[n].then # None /\ calls[n].arg = "page"}

(***************************************************************************)
(* The reset button is held exactly while one reset of this page is on its *)
(* way or being followed by its refresh: it is never left spinning, and    *)
(* the page never has two resets under way, although the dialog can be     *)
(* cancelled, or outlive the page, at any moment.                          *)
(***************************************************************************)
ResetHeldOnce ==
  /\ page.resetting = (Chain # {})
  /\ Cardinality(Chain) <= 1

(***************************************************************************)
(* A dialog whose reset has succeeded never asks again: the refresh that   *)
(* follows cannot turn a done reset into one the operator is invited to    *)
(* repeat.                                                                 *)
(***************************************************************************)
ConfirmedOnce ==
  [][dialog.step = "refreshing" => dialog'.step \in {"refreshing", "shut"}]_vars

(***************************************************************************)
(* While the page stays in view and the reservations stay as they are, the *)
(* page shows how they are again and again: an answer overtaken by a newer *)
(* one, an error, a login page or a failed count is healed by a later poll.*)
(***************************************************************************)
PollingHeals ==
  \A b \in BOOLEAN :
    <>[](mounted /\ ~hidden /\ open = b) => []<>(page.data = b)
=============================================================================
