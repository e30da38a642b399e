---------------------------- MODULE InstallsPage ----------------------------
(***************************************************************************)
(* The installs table (webassets/ui/src/pages/Installs.tsx): a page of     *)
(* rows, a stack of cursors, and the ban and unban actions.  A handler     *)
(* reads the state of the render it belongs to, so what it does after an   *)
(* await is fixed when the operator clicks: a call carries that in "then". *)
(*                                                                         *)
(* A reason is identified with the install it was written for.  The modal  *)
(* masks the page, so the page's own buttons need it closed; the row       *)
(* buttons and an open confirmation bubble are not tied to loading.        *)
(***************************************************************************)
EXTENDS Tab

InstallsMounted ==
  [name |-> "installs", rows |-> <<>>, next |-> 0, stack |-> <<0>>, shown |-> None,
   loading |-> TRUE,
   banTarget |-> None, banReason |-> None, banSubmitting |-> FALSE]

OnInstalls == view.name = "installs"
ModalShut == view.banTarget = None

\* load up to its await.
LoadInstalls(v, cursor) ==
  Sends("installs", cursor, None, [v EXCEPT !.loading = TRUE])

\* load after its await.
InstallsLoaded(n, wire) ==
  LET res == request(wire)
  IN  /\ n \in Waiting("installs") /\ OnInstalls
      /\ Settles(n, wire,
                 IF res.kind = "ok" THEN Filled(view, res.body, calls[n].arg)
                 ELSE [view EXCEPT !.loading = FALSE],
                 Fills(res))

ReloadInstalls == OnInstalls /\ ModalShut /\ LoadInstalls(view, Current)

InstallsNext ==
  /\ OnInstalls /\ ModalShut
  /\ view.next # 0 /\ ~view.loading
  /\ LoadInstalls([view EXCEPT !.stack = Append(@, view.next)], view.next)

\* Mutant: the page just left is loaded again.
InstallsPrevPopped ==
  /\ OnInstalls /\ ModalShut
  /\ Len(view.stack) > 1 /\ ~view.loading
  /\ LoadInstalls([view EXCEPT !.stack = Front(@)], Current)

InstallsPrev ==
  /\ OnInstalls /\ ModalShut
  /\ Len(view.stack) > 1 /\ ~view.loading
  /\ LET below == Front(view.stack)
     IN  LoadInstalls([view EXCEPT !.stack = below], Last(below))

\* A row of the table offers unban or ban by the status it shows.
RowShown(id, banned) ==
  \E k \in DOMAIN view.rows :
    view.rows[k].id = id /\ (view.rows[k].status = "banned") = banned

(***************************************************************************)
(* The ban modal.  Cancelling leaves the reason; opening clears it.        *)
(***************************************************************************)
\* Mutant: opening keeps the reason of the modal before.
OpenBanKeeps(id) ==
  /\ OnInstalls /\ ModalShut /\ RowShown(id, FALSE)
  /\ Shows([view EXCEPT !.banTarget = id])

OpenBan(id) ==
  /\ OnInstalls /\ ModalShut /\ RowShown(id, FALSE)
  /\ Shows([view EXCEPT !.banTarget = id, !.banReason = None])

TypeReason ==
  /\ OnInstalls /\ ~ModalShut
  /\ \E r \in {view.banTarget, None} : Shows([view EXCEPT !.banReason = r])

\* Mutant: cancelling also frees the confirm button.
CancelBanFrees ==
  /\ OnInstalls /\ ~ModalShut
  /\ Shows([view EXCEPT !.banTarget = None, !.banSubmitting = FALSE])

CancelBan ==
  /\ OnInstalls /\ ~ModalShut
  /\ Shows([view EXCEPT !.banTarget = None])

\* confirmBan up to its await.  The button takes no click while it spins, and
\* an empty reason only brings a warning.
ConfirmBan ==
  /\ OnInstalls /\ ~ModalShut /\ ~view.banSubmitting
  /\ view.banReason # None
  /\ Sends("ban", [id |-> view.banTarget, reason |-> view.banReason], Current,
           [view EXCEPT !.banSubmitting = TRUE])

\* reloadCurrent, of the render that sent call n.
ReloadThen(n, wire, v) ==
  /\ Sending(Settled(n, wire), "installs", calls[n].then, None)
  /\ calm' = (calm /\ InFlight = {n})
  /\ view' = [v EXCEPT !.loading = TRUE]
  /\ fresh' = FALSE
  /\ UNCHANGED serverVars

\* confirmBan after its await: success shuts whichever modal is open.
BanDone(n, wire) ==
  LET res == request(wire)
      idle == [view EXCEPT !.banSubmitting = FALSE]
  IN  /\ n \in Waiting("ban") /\ OnInstalls
      /\ \/ /\ res.kind = "ok"
            /\ ReloadThen(n, wire, [idle EXCEPT !.banTarget = None, !.banReason = None])
         \/ res.kind # "ok" /\ Settles(n, wire, idle, AsGood(res))

\* onUnban up to its await.
Unban(id) ==
  /\ OnInstalls /\ ModalShut /\ RowShown(id, TRUE)
  /\ Sends("unban", [id |-> id, reason |-> None], Current, view)

UnbanDone(n, wire) ==
  LET res == request(wire)
  IN  /\ n \in Waiting("unban") /\ OnInstalls
      /\ \/ res.kind = "ok" /\ ReloadThen(n, wire, view)
         \/ res.kind # "ok" /\ Settles(n, wire, view, AsGood(res))

InstallsStep ==
  \/ ReloadInstalls \/ InstallsNext \/ InstallsPrev
  \/ \E id \in 1..Installs : OpenBan(id) \/ Unban(id)
  \/ TypeReason \/ CancelBan \/ ConfirmBan
  \/ \E n \in InFlight : \E wire \in Wires(calls[n]) :
       InstallsLoaded(n, wire) \/ BanDone(n, wire) \/ UnbanDone(n, wire)
=============================================================================
