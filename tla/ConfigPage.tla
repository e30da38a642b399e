----------------------------- MODULE ConfigPage -----------------------------
(***************************************************************************)
(* The configuration editor (webassets/ui/src/pages/Config.tsx): the dump, *)
(* a draft per row, and one "saving" marker for all rows.                  *)
(* A value is a number; Empty is the empty text of a cleared input.        *)
(***************************************************************************)
EXTENDS Tab

CONSTANTS
  Drafts,    \* what the operator may type into a key's input
  Empty      \* the empty text

NoItems == [k \in Keys |-> Empty]

ConfigMounted ==
  [name |-> "config", items |-> None, drafts |-> NoItems,
   savingKey |-> None, loading |-> TRUE]

OnConfig == view.name = "config"
Listed == view.items # None

isBoundedNumeric(k) == Bounds[k] # None

\* Number(""), unlike the server's parser, is 0.
Number(text) == IF text = Empty THEN 0 ELSE text

\* load up to its await.
LoadConfig ==
  /\ OnConfig
  /\ Sends("config", None, None, [view EXCEPT !.loading = TRUE])

\* The dump replaces the rows and every draft.
WithItems(v, list) == [v EXCEPT !.items = list, !.drafts = list]

ConfigLoaded(n, wire) ==
  LET res == request(wire)
  IN  /\ n \in Waiting("config") /\ OnConfig
      /\ Settles(n, wire,
                 IF res.kind = "ok"
                 THEN [WithItems(view, res.body) EXCEPT !.loading = FALSE]
                 ELSE [view EXCEPT !.loading = FALSE],
                 Fills(res))

\* Every key of the model is editable; read-only rows have no input.
Edit(k, text) ==
  /\ OnConfig /\ Listed
  /\ view.drafts[k] # text
  /\ Shows([view EXCEPT !.drafts[k] = text])

\* The save button of a row that differs from the dump and is not spinning.
CanSave(k) ==
  /\ OnConfig /\ Listed
  /\ view.drafts[k] # view.items[k]
  /\ view.savingKey # k

\* The client-side check of save; a value that fails it is not sent.
InRange(k) ==
  isBoundedNumeric(k) => Number(view.drafts[k]) \in Bounds[k][1]..Bounds[k][2]

\* save up to its await.
Save(k) ==
  /\ CanSave(k) /\ InRange(k)
  /\ Sends("postConfig", [key |-> k, val |-> view.drafts[k]], None,
           [view EXCEPT !.savingKey = k])

\* save after its await; the marker is cleared whichever row it is on.
Saved(n, wire) ==
  LET res == request(wire)
      idle == [view EXCEPT !.savingKey = None]
  IN  /\ n \in Waiting("postConfig") /\ OnConfig
      /\ Settles(n, wire,
                 IF res.kind = "ok" THEN WithItems(idle, res.body) ELSE idle,
                 Fills(res) \/ AsGood(res))

ConfigStep ==
  \/ LoadConfig
  \/ \E k \in Keys :
       \/ \E text \in Drafts[k] : Edit(k, text)
       \/ Save(k)
  \/ \E n \in InFlight : \E wire \in Wires(calls[n]) :
       ConfigLoaded(n, wire) \/ Saved(n, wire)
=============================================================================
