----------------------------- MODULE AuditPage ------------------------------
(***************************************************************************)
(* The audit table (webassets/ui/src/pages/Audit.tsx): the pager of the    *)
(* installs table over the ring's keyset cursors; a reload goes back to    *)
(* the newest page.                                                        *)
(***************************************************************************)
EXTENDS Tab

AuditMounted ==
  [name |-> "audit", rows |-> <<>>, next |-> 0, stack |-> <<0>>, shown |-> None,
   loading |-> TRUE]

OnAudit == view.name = "audit"

\* load up to its await.
LoadAudit(v, cursor) ==
  Sends("audit", cursor, None, [v EXCEPT !.loading = TRUE])

\* load after its await.
AuditLoaded(n, wire) ==
  LET res == request(wire)
  IN  /\ n \in Waiting("audit") /\ OnAudit
      /\ Settles(n, wire,
                 IF res.kind = "ok" THEN Filled(view, res.body, calls[n].arg)
                 ELSE [view EXCEPT !.loading = FALSE],
                 Fills(res))

ReloadAudit == OnAudit /\ LoadAudit([view EXCEPT !.stack = <<0>>], 0)

AuditNext ==
  /\ OnAudit
  /\ view.next # 0 /\ ~view.loading
  /\ LoadAudit([view EXCEPT !.stack = Append(@, view.next)], view.next)

AuditPrev ==
  /\ OnAudit
  /\ Len(view.stack) > 1 /\ ~view.loading
  /\ LET below == Front(view.stack)
     IN  LoadAudit([view EXCEPT !.stack = below], Last(below))

AuditStep ==
  \/ ReloadAudit \/ AuditNext \/ AuditPrev
  \/ \E n \in InFlight : \E wire \in Wires(calls[n]) : AuditLoaded(n, wire)
=============================================================================
