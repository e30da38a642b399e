-------------------------------- MODULE Tab ---------------------------------
(***************************************************************************)
(* The browser tab: one page of the console is mounted at a time, and view *)
(* is its React state, with the page's name.  Two history variables say    *)
(* how the tab was used, for the properties that depend on it.             *)
(***************************************************************************)
EXTENDS Dashboard

VARIABLES
  sent,      \* calls sent so far, at most MaxCalls
  view,      \* the mounted page and its state
  calm,      \* history: what is outstanding began with one call sent at rest
  fresh      \* history: a load begun at rest was answered, nothing since is doubtful

viewVars == <<sent, view, calm, fresh>>

\* The cursor of the page a table is on.
Current == Last(view.stack)

CanSend == sent < MaxCalls

\* The answer to the load of cursor, in a table.
Filled(v, body, cursor) ==
  [v EXCEPT !.rows = body.rows, !.next = body.next, !.shown = cursor, !.loading = FALSE]

\* A new call is sent, the others being cs.
Sending(cs, op, arg, then) ==
  /\ CanSend
  /\ sent' = sent + 1
  /\ calls' = [cs EXCEPT ![sent + 1] = Call(op, arg, then)]

\* An answer that fills the page is good when nothing ran beside its call.
Fills(res) == res.kind = "ok" /\ calm

\* After an unsuccessful change the page is as good as before only when the
\* answer says that nothing happened.
AsGood(res) == fresh /\ Definite(res)

\* A call is sent and the page becomes v.
Sends(op, arg, then, v) ==
  /\ Sending(calls, op, arg, then)
  /\ calm' = (InFlight = {})
  /\ view' = v
  /\ UNCHANGED <<fresh, serverVars>>

\* Call n is answered by wire, sends nothing, and the page becomes v.
Settles(n, wire, v, good) ==
  /\ calls' = Settled(n, wire)
  /\ view' = v
  /\ fresh' = good
  /\ UNCHANGED <<calm, sent, serverVars>>

\* Only the page changes.
Shows(v) ==
  /\ view' = v
  /\ UNCHANGED <<calm, fresh, calls, sent, serverVars>>
=============================================================================
