------------------------------ MODULE Console -------------------------------
(***************************************************************************)
(* The operator console as a whole: App.tsx mounts one page at a time over *)
(* one gateway.  Leaving a page discards its state and the answers it was  *)
(* waiting for, but not what its requests do.                              *)
(***************************************************************************)
EXTENDS InstallsPage, AuditPage, ConfigPage

CONSTANT Routes      \* the routes the operator visits

Names == {"installs", "audit", "config", "export"}

ASSUME RoutesAssumption == Routes \subseteq Names

vars == <<serverVars, calls, viewVars>>

\* The download page keeps one flag.
ExportMounted == [name |-> "export", clicked |-> FALSE]

Mounted(route) ==
  CASE route = "installs" -> InstallsMounted
    [] route = "audit"    -> AuditMounted
    [] route = "config"   -> ConfigMounted
    [] route = "export"   -> ExportMounted

\* The first load of a page, in its mount effect: the newest page, or all.
FirstCall(route) == IF route = "config" THEN None ELSE 0

\* onDownload: an anchor click; the browser, not the page, takes the answer.
\* One export at a time is followed here.
Download ==
  /\ view.name = "export"
  /\ export = "none"
  /\ CanSend
  /\ sent' = sent + 1
  /\ export' = "asked"
  /\ view' = [view EXCEPT !.clicked = TRUE]
  /\ UNCHANGED <<status, configVars, effects, restarts, ring, log, calls, calm, fresh>>

\* What is left of the calls when the page is unmounted.
Abandoned ==
  [n \in Slots |->
     IF /\ n \in InFlight
        /\ calls[n].op \notin Reads
        /\ calls[n].srv \notin {"done", "dead"}
     THEN [calls[n] EXCEPT !.cli = "gone"]
     ELSE NoCall]

\* A menu click, or the browser's back button.
Navigate(route) ==
  /\ view.name # route
  /\ view' = Mounted(route)
  /\ calm' = \A n \in Slots : Abandoned[n] = NoCall
  /\ fresh' = FALSE
  /\ IF route = "export"
     THEN calls' = Abandoned /\ UNCHANGED sent
     ELSE Sending(Abandoned, route, FirstCall(route), None)
  /\ UNCHANGED serverVars

\* The operator opens the console at one of its routes.
Init ==
  /\ ServerInit
  /\ \E route \in Routes :
       /\ view = Mounted(route)
       /\ IF route = "export"
          THEN calls = NoCalls /\ sent = 0
          ELSE calls = [NoCalls EXCEPT ![1] = Call(route, FirstCall(route), None)] /\ sent = 1
  /\ calm = TRUE
  /\ fresh = FALSE

Next ==
  \/ ServerStep /\ UNCHANGED viewVars
  \/ InstallsStep
  \/ AuditStep
  \/ ConfigStep
  \/ Download
  \/ \E route \in Routes : Navigate(route)

Spec == Init /\ [][Next]_vars

-----------------------------------------------------------------------------
Statuses == {"active", "banned"}

\* The shape of the console's state.
TypeOK ==
  /\ \A n \in InFlight :
       /\ calls[n].op \in Reads \cup Mutations \cup {"postConfig"}
       /\ calls[n].srv \in {"queued", "persisted", "applied", "done", "dead"}
       /\ calls[n].cli \in {"waiting", "gone"}
       /\ calls[n].srv = "done" => calls[n].wire.status \in {200, 400, 500}
  /\ sent \in 0..MaxCalls
  /\ status \in [1..Installs -> Statuses]
  /\ DOMAIN configured = Keys /\ DOMAIN overlay = Keys
  /\ export \in {"none", "asked", "opened", "streaming"}
  /\ view.name \in Names
  /\ calm \in BOOLEAN /\ fresh \in BOOLEAN

(***************************************************************************)
(* A spinner always turns for a call that is still awaited, so that the    *)
(* buttons it disables come back: the table's for a load, the modal's for  *)
(* exactly one ban, a row's save button for a save of that row.            *)
(***************************************************************************)
BusyHasCause ==
  /\ TypeOK
  /\ view.name \in {"installs", "audit", "config"} /\ view.loading =>
       Waiting(view.name) # {}
  /\ view.name = "installs" =>
       Cardinality(Waiting("ban")) = IF view.banSubmitting THEN 1 ELSE 0
  /\ view.name = "config" /\ view.savingKey # None =>
       \E n \in Waiting("postConfig") : calls[n].arg.key = view.savingKey

(***************************************************************************)
(* No install is banned, or recorded as banned, with a reason that was     *)
(* written for another one, however often the modal is opened, cancelled   *)
(* and opened for somebody else while a ban is under way.                  *)
(***************************************************************************)
ReasonMatchesTarget ==
  /\ \A n \in InFlight : calls[n].op = "ban" => calls[n].arg.reason = calls[n].arg.id
  /\ \A k \in DOMAIN log : log[k].action = "ban" => log[k].reason = log[k].target

(***************************************************************************)
(* A load that the operator starts at rest and waits for shows the truth,  *)
(* whatever overlapped, was overtaken, failed or restarted before it: the  *)
(* rows are those of the cursor on top of the stack, with the gateway's    *)
(* statuses, and the configuration shown is the configuration.  (Calls     *)
(* that overlap may leave an older page under a newer page's number; this  *)
(* says that the damage ends with the next load.)                          *)
(***************************************************************************)
CalmUseShowsTruth ==
  fresh /\ InFlight = {} =>
    /\ view.name \in {"installs", "audit"} => view.shown = Current
    /\ view.name = "installs" =>
         \A k \in DOMAIN view.rows : view.rows[k].status = status[view.rows[k].id]
    /\ view.name = "config" => view.items = configured

(***************************************************************************)
(* Every change made since the process started, and every export that      *)
(* began to stream, has its audit event, or its handler is about to record *)
(* it: a caller that hangs up, a rejected save or another handler in       *)
(* between neither loses nor adds one.                                     *)
(***************************************************************************)
EffectsAreAudited ==
  effects = Len(log) + Cardinality({n \in InFlight : calls[n].srv = "applied"})
                     + IF export = "streaming" THEN 1 ELSE 0

(***************************************************************************)
(* The settings table never holds a combination the gateway would refuse   *)
(* to start with, and outside the moment between persisting and publishing *)
(* a restart would bring up exactly the configuration now in force.        *)
(***************************************************************************)
RestartKeepsConfig ==
  /\ ValidateSemantics(LoadWithOverlay)
  /\ MutexFree => configured = LoadWithOverlay
=============================================================================
