------------------------ MODULE OverviewPage_proofs -------------------------
(***************************************************************************)
(* Proofs about the console's start page, for any number of calls at once. *)
(***************************************************************************)
EXTENDS OverviewPage, FiniteSetTheorems, TLAPS

(***************************************************************************)
(* The state of the page and of its dialog.  What data, loading and error  *)
(* hold matters to nothing below.                                          *)
(***************************************************************************)
Steps == {"shut", "asking", "resetting", "refreshing"}

Typed ==
  /\ calls \in [Slots -> CallType \cup {NoCall}]
  /\ open \in BOOLEAN /\ mounted \in BOOLEAN /\ hidden \in BOOLEAN
  /\ timer \in Intervals \cup {None} /\ live \subseteq Intervals
  /\ page = [data |-> page.data, loading |-> page.loading, error |-> page.error,
             resetting |-> page.resetting]
  /\ page.resetting \in BOOLEAN
  /\ dialog \in [step : Steps, mine : BOOLEAN]

(***************************************************************************)
(* A call the browser still awaits for an onOk, and one whose dialog is    *)
(* still open.                                                             *)
(***************************************************************************)
Held(n) ==
  calls[n] # NoCall /\ calls[n].cli = "waiting" /\ calls[n].then # None /\ calls[n].arg = "page"

Owns(n) == calls[n] # NoCall /\ calls[n].cli = "waiting" /\ calls[n].then = "dialog"

(***************************************************************************)
(* The button is held by exactly one chain of the mounted page, and a      *)
(* dialog of that page that asks has none beside it.                       *)
(***************************************************************************)
ButtonHeld ==
  /\ page.resetting <=> \E n \in Slots : Held(n)
  /\ \A m, n \in Slots : Held(m) /\ Held(n) => m = n
  /\ dialog.step = "asking" /\ dialog.mine => ~page.resetting

(***************************************************************************)
(* An open dialog is where the one call it waits for is, and belongs to    *)
(* the page that call belongs to; nothing of an unmounted page is left.    *)
(***************************************************************************)
DialogFollows ==
  /\ \A n \in Slots : Owns(n) =>
       /\ dialog.step = IF calls[n].op = "reset" THEN "resetting" ELSE "refreshing"
       /\ calls[n].arg = IF dialog.mine THEN "page" ELSE "gone"
  /\ \A m, n \in Slots : Owns(m) /\ Owns(n) => m = n
  /\ dialog.mine => mounted
  /\ ~mounted => \A n \in Slots : calls[n] # NoCall => calls[n].arg = "gone"

OverviewInv == Typed /\ OneInterval /\ ButtonHeld /\ DialogFollows

-----------------------------------------------------------------------------
(* Calls. *)

LEMMA SlotsFacts == Slots \subseteq Nat /\ 1 \in Slots
  BY ApiAssumption DEF ApiAssumption, Slots

LEMMA CallFacts ==
  ASSUME NEW c \in CallType
  PROVE  /\ c # NoCall
         /\ c.op \in {"overview", "reset"} /\ c.arg \in {"page", "gone"}
         /\ c.then \in {None, "dialog", "cancelled"} /\ c.cli \in {"waiting", "gone"}
         /\ c.op = "reset" => c.then # None
         /\ [c EXCEPT !.cli = "gone"] \in CallType
         /\ [c EXCEPT !.arg = "gone"] \in CallType
         /\ [c EXCEPT !.then = "cancelled"] \in CallType
  BY OverviewAssumption DEF OverviewAssumption, CallType, CallsOf, NoCall

\* The slots in use hold calls.
LEMMA InFlightCalls ==
  ASSUME OverviewInv
  PROVE  /\ InFlight = {n \in Slots : calls[n] # NoCall}
         /\ \A n \in InFlight : calls[n] \in CallType
<1>1. calls \in [Slots -> CallType \cup {NoCall}]
  BY DEF OverviewInv, Typed
<1>2. NoCall.op = "none" /\ \A c \in CallType : c.op # "none" /\ c # NoCall
  BY CallFacts DEF NoCall
<1>3. QED
  BY <1>1, <1>2 DEF InFlight

LEMMA NewCall ==
  ASSUME NEW op \in {"overview", "reset"}, NEW arg \in {"page", "gone"},
         NEW then \in {None, "dialog", "cancelled"}, op = "reset" => then # None
  PROVE  /\ Call(op, arg, then) \in CallType /\ Call(op, arg, then) # NoCall
         /\ Call(op, arg, then).op = op /\ Call(op, arg, then).arg = arg
         /\ Call(op, arg, then).then = then /\ Call(op, arg, then).cli = "waiting"
<1>1. Call(op, arg, then) \in CallType
  BY DEF Call, CallType, CallsOf
<1>2. QED
  BY <1>1, CallFacts DEF Call

LEMMA AnswerTyped ==
  ASSUME NEW c \in CallType, NEW w \in Answers(c.op)
  PROVE  [c EXCEPT !.srv = "done", !.wire = w] \in CallType
  BY DEF CallType, CallsOf

\* NewInterval finds one of the two, for there is at most the one that runs.
LEMMA FreshInterval == live = {} => NewInterval \in Intervals /\ NewInterval # None
  BY OverviewAssumption DEF OverviewAssumption, NewInterval, Intervals

\* refresh writes data, loading and error, never resettingQuota.
LEMMA RefreshedKeeps ==
  ASSUME Typed, NEW res
  PROVE  LET p == Refreshed(page, res)
         IN  /\ p = [data |-> p.data, loading |-> p.loading, error |-> p.error,
                     resetting |-> p.resetting]
             /\ p.resetting = page.resetting
  BY DEF Typed, Refreshed

-----------------------------------------------------------------------------
(* The poll and the actions of the operator. *)

\* A call sent for the page, and not for an onOk, holds nothing.
LEMMA InvPolls ==
  ASSUME OverviewInv, Polls
  PROVE  /\ calls' \in [Slots -> CallType \cup {NoCall}]
         /\ \A n \in Slots : /\ Held(n)' <=> Held(n)
                             /\ Owns(n)' <=> Owns(n)
                             /\ Owns(n) => calls'[n] = calls[n]
<1>1. PICK n \in Slots : /\ calls[n] = NoCall
                         /\ calls' = [calls EXCEPT ![n] = Call("overview", "page", None)]
  BY InFlightCalls DEF Polls, Sent
<1>2. /\ Call("overview", "page", None) \in CallType
      /\ Call("overview", "page", None).then = None
  BY NewCall
<1>3. QED
  BY <1>1, <1>2, OverviewAssumption
  DEF OverviewInv, Typed, Held, Owns, OverviewAssumption

LEMMA InvInterval ==
  ASSUME Typed, OneInterval, ~(mounted /\ ~hidden), Start
  PROVE  timer' \in Intervals /\ timer' # None /\ live' = {timer'}
  BY FreshInterval DEF OneInterval, Start, Typed

LEMMA InvStop ==
  ASSUME Typed, OneInterval, Stop
  PROVE  timer' = None /\ live' = {}
  BY DEF OneInterval, Stop, Typed

LEMMA InvMount == ASSUME OverviewInv, Mount PROVE OverviewInv'
<1>1. /\ calls' \in [Slots -> CallType \cup {NoCall}]
      /\ \A n \in Slots : /\ Held(n)' <=> Held(n)
                          /\ Owns(n)' <=> Owns(n)
                          /\ Owns(n) => calls'[n] = calls[n]
  BY InvPolls DEF Mount
<1>2. \A n \in Slots : ~Held(n)
  BY DEF OverviewInv, Held, DialogFollows, Mount
<1>3. Typed' /\ OneInterval'
  BY <1>1, InvInterval DEF OverviewInv, Typed, Mount, Fresh, OneInterval
<1>4. ButtonHeld'
  BY <1>1, <1>2 DEF ButtonHeld, Mount, Fresh
<1>5. DialogFollows'
  BY <1>1 DEF OverviewInv, Held, Owns, DialogFollows, Mount
<1>6. QED
  BY <1>3, <1>4, <1>5 DEF OverviewInv

LEMMA InvUnmount == ASSUME OverviewInv, Unmount PROVE OverviewInv'
<1>1. ASSUME NEW n \in Slots
      PROVE  /\ calls'[n] \in CallType \cup {NoCall}
             /\ calls'[n] # NoCall => /\ calls[n] # NoCall
                                    /\ calls'[n].arg = "gone" /\ calls'[n].op = calls[n].op
                                    /\ calls'[n].cli = calls[n].cli
                                    /\ calls'[n].then = calls[n].then
  <2>1. CASE n \in InFlight /\ calls[n].then # None
    <3>1. calls[n] \in CallType
      BY <2>1, InFlightCalls
    <3>2. calls'[n] = [calls[n] EXCEPT !.arg = "gone"]
      BY <2>1 DEF Unmount
    <3>3. calls'[n] \in CallType
      BY <3>1, <3>2, CallFacts
    <3>4. /\ calls'[n].arg = "gone" /\ calls'[n].op = calls[n].op
          /\ calls'[n].cli = calls[n].cli /\ calls'[n].then = calls[n].then
      BY <3>1, <3>2 DEF CallType, CallsOf
    <3>5. QED
      BY <2>1, <3>3, <3>4, InFlightCalls
  <2>2. CASE ~(n \in InFlight /\ calls[n].then # None)
    BY <2>2 DEF Unmount
  <2>3. QED
    BY <2>1, <2>2
<1>2. calls' \in [Slots -> CallType \cup {NoCall}]
  BY <1>1 DEF Unmount
<1>3. \A n \in Slots : /\ ~Held(n)'
                       /\ Owns(n)' => Owns(n) /\ calls'[n].op = calls[n].op
                                              /\ calls'[n].arg = "gone"
  BY <1>1 DEF Held, Owns
<1>4. Typed' /\ OneInterval'
  BY <1>2, InvStop DEF OverviewInv, Typed, Unmount, Fresh, OneInterval
<1>5. /\ dialog'.step = dialog.step /\ dialog'.mine = FALSE /\ mounted' = FALSE
      /\ page'.resetting = FALSE
  BY DEF Unmount, OverviewInv, Typed, Fresh
<1>6. ButtonHeld'
  BY <1>3, <1>5 DEF Held, Owns, ButtonHeld
<1>7. DialogFollows'
  BY <1>1, <1>3, <1>5 DEF OverviewInv, Held, Owns, DialogFollows
<1>8. QED
  BY <1>4, <1>6, <1>7 DEF OverviewInv

LEMMA InvVisibility == ASSUME OverviewInv, Hide \/ Show PROVE OverviewInv'
<1>1. CASE Hide
  <2>1. Typed' /\ OneInterval'
    BY <1>1, InvStop DEF OverviewInv, Typed, Hide, OneInterval
  <2>2. QED
    BY <1>1, <2>1 DEF OverviewInv, Held, Owns, ButtonHeld, DialogFollows, Hide
<1>2. CASE Show /\ ~mounted
  <2>1. Typed' /\ OneInterval'
    BY <1>2 DEF OverviewInv, Typed, Show, OneInterval
  <2>2. QED
    BY <1>2, <2>1 DEF OverviewInv, Held, Owns, ButtonHeld, DialogFollows, Show
<1>3. CASE Show /\ mounted
  <2>1. /\ calls' \in [Slots -> CallType \cup {NoCall}]
        /\ \A n \in Slots : /\ Held(n)' <=> Held(n)
                            /\ Owns(n)' <=> Owns(n)
                            /\ Owns(n) => calls'[n] = calls[n]
    BY <1>3, InvPolls DEF Show
  <2>2. Typed' /\ OneInterval'
    BY <1>3, <2>1, InvInterval DEF OverviewInv, Typed, Show, OneInterval
  <2>3. ButtonHeld' /\ DialogFollows'
    BY <1>3, <2>1 DEF OverviewInv, Held, Owns, ButtonHeld, DialogFollows, Show
  <2>4. QED
    BY <2>2, <2>3 DEF OverviewInv
<1>4. QED
  BY <1>1, <1>2, <1>3 DEF OverviewInv, Typed

LEMMA InvPoll == ASSUME OverviewInv, Tick \/ Refresh PROVE OverviewInv'
<1>1. /\ Polls /\ mounted
      /\ UNCHANGED <<open, mounted, hidden, live, timer, page, dialog>>
  BY DEF Tick, Refresh, tabVars
<1>2. /\ calls' \in [Slots -> CallType \cup {NoCall}]
      /\ \A n \in Slots : /\ Held(n)' <=> Held(n)
                          /\ Owns(n)' <=> Owns(n)
                          /\ Owns(n) => calls'[n] = calls[n]
  BY <1>1, InvPolls
<1>3. QED
  BY <1>1, <1>2 DEF OverviewInv, Typed, OneInterval, Held, Owns, ButtonHeld, DialogFollows

-----------------------------------------------------------------------------
(* The dialog. *)

LEMMA InvAskReset == ASSUME OverviewInv, AskReset PROVE OverviewInv'
<1>1. dialog.step = "shut"
  BY DEF AskReset, Shut
<1>2. Typed' /\ OneInterval'
  BY DEF OverviewInv, Typed, AskReset, OneInterval, Steps
<1>3. ButtonHeld'
  BY DEF OverviewInv, ButtonHeld, Held, AskReset
<1>4. \A n \in Slots : ~Owns(n) /\ ~Owns(n)'
  BY <1>1 DEF OverviewInv, DialogFollows, Owns, AskReset
<1>5. DialogFollows'
  BY <1>4 DEF OverviewInv, DialogFollows, AskReset
<1>6. QED
  BY <1>2, <1>3, <1>5 DEF OverviewInv

LEMMA InvConfirm == ASSUME OverviewInv, Confirm PROVE OverviewInv'
<1> DEFINE mount == IF dialog.mine THEN "page" ELSE "gone"
           new == Call("reset", mount, "dialog")
<1>1. PICK n \in Slots : calls[n] = NoCall /\ calls' = [calls EXCEPT ![n] = new]
  BY InFlightCalls DEF Confirm, Sent
<1>2. /\ new \in CallType /\ new # NoCall /\ new.op = "reset" /\ new.arg = mount
      /\ new.then = "dialog" /\ new.cli = "waiting"
  BY NewCall, OverviewAssumption DEF OverviewAssumption
<1> HIDE DEF new
<1>3. calls \in [Slots -> CallType \cup {NoCall}] /\ dialog.mine \in BOOLEAN
  BY DEF OverviewInv, Typed
<1>4. /\ calls' \in [Slots -> CallType \cup {NoCall}]
      /\ calls'[n] = new /\ \A m \in Slots \ {n} : calls'[m] = calls[m]
  BY <1>1, <1>2, <1>3
<1>5. /\ dialog' \in [step : Steps, mine : BOOLEAN]
      /\ dialog'.step = "resetting" /\ dialog'.mine = dialog.mine
      /\ page'.resetting = (page.resetting \/ dialog.mine)
  BY DEF OverviewInv, Typed, Confirm, Steps
<1>6. Typed' /\ OneInterval'
  BY <1>4, <1>5 DEF OverviewInv, Typed, Confirm, OneInterval
<1>7. /\ ~Held(n) /\ ~Owns(n) /\ Owns(n)'
      /\ Held(n)' <=> dialog.mine
      /\ \A m \in Slots \ {n} : Held(m)' <=> Held(m)
      /\ \A m \in Slots : ~Owns(m)
      /\ \A m \in Slots \ {n} : ~Owns(m)'
  <2>1. \A m \in Slots : ~Owns(m)
    BY DEF OverviewInv, DialogFollows, Confirm
  <2>2. \A m \in Slots \ {n} : (Held(m)' <=> Held(m)) /\ ~Owns(m)'
    BY <1>4, <2>1 DEF Held, Owns
  <2>3. QED
    BY <1>1, <1>2, <1>4, <2>1, <2>2, OverviewAssumption DEF Held, Owns, OverviewAssumption
<1>8. ButtonHeld'
  BY <1>3, <1>5, <1>7 DEF OverviewInv, Typed, ButtonHeld, Confirm
<1>9. DialogFollows'
  <2>1. ~mounted => \A m \in Slots : calls'[m] # NoCall => calls'[m].arg = "gone"
    BY <1>2, <1>4 DEF OverviewInv, DialogFollows
  <2>2. mounted' = mounted
    BY DEF Confirm
  <2>3. QED
    BY <1>2, <1>4, <1>5, <1>7, <2>1, <2>2 DEF OverviewInv, DialogFollows
<1>10. QED
  BY <1>6, <1>8, <1>9 DEF OverviewInv

LEMMA InvCancel == ASSUME OverviewInv, Cancel PROVE OverviewInv'
<1>1. ASSUME NEW n \in Slots
      PROVE  /\ calls'[n] \in CallType \cup {NoCall}
             /\ calls[n] = NoCall => calls'[n] = NoCall
             /\ calls[n] # NoCall =>
                  /\ calls'[n] # NoCall
                  /\ calls'[n].arg = calls[n].arg /\ calls'[n].cli = calls[n].cli
                  /\ calls'[n].then # "dialog"
                  /\ (calls'[n].then = None) <=> (calls[n].then = None)
  <2>1. calls[n] \in CallType \cup {NoCall}
    BY DEF OverviewInv, Typed
  <2>2. CASE n \in InFlight /\ calls[n].then = "dialog"
    <3>1. calls'[n] = [calls[n] EXCEPT !.then = "cancelled"]
      BY <2>2 DEF Cancel
    <3>2. calls[n] \in CallType
      BY <2>1, <2>2, InFlightCalls
    <3>3. calls'[n] \in CallType /\ calls'[n] # NoCall
      BY <3>1, <3>2, CallFacts
    <3>4. /\ calls'[n].then = "cancelled" /\ calls'[n].arg = calls[n].arg
          /\ calls'[n].cli = calls[n].cli
      BY <3>1, <3>2 DEF CallType, CallsOf
    <3>5. QED
      BY <2>2, <3>2, <3>3, <3>4, CallFacts, OverviewAssumption DEF OverviewAssumption
  <2>3. CASE ~(n \in InFlight /\ calls[n].then = "dialog")
    BY <2>1, <2>3, InFlightCalls DEF Cancel
  <2>4. QED
    BY <2>2, <2>3
<1>2. calls' \in [Slots -> CallType \cup {NoCall}]
  BY <1>1 DEF Cancel
<1>3. \A n \in Slots : (Held(n)' <=> Held(n)) /\ ~Owns(n)'
  BY <1>1 DEF Held, Owns
<1>4. dialog' = Shut /\ dialog'.step = "shut" /\ dialog'.mine = FALSE
  BY DEF Cancel, Shut
<1>5. Typed' /\ OneInterval'
  BY <1>2, <1>4 DEF OverviewInv, Typed, Cancel, OneInterval, Shut, Steps
<1>6. ButtonHeld'
  BY <1>3, <1>4 DEF OverviewInv, ButtonHeld, Cancel
<1>7. DialogFollows'
  BY <1>1, <1>3, <1>4 DEF OverviewInv, DialogFollows, Cancel
<1>8. QED
  BY <1>5, <1>6, <1>7 DEF OverviewInv

-----------------------------------------------------------------------------
(* The gateway and the answers. *)

\* The gateway's answer to call n concerns the browser only if it still waits.
LEMMA InvAnswered ==
  ASSUME OverviewInv, NEW n \in InFlight, NEW w, w \in Answers(calls[n].op),
         calls' = Answered(n, w), UNCHANGED <<open, tabVars>>
  PROVE  OverviewInv'
<1>1. n \in Slots /\ calls[n] \in CallType /\ calls \in [Slots -> CallType \cup {NoCall}]
  BY InFlightCalls DEF OverviewInv, Typed
<1>2. /\ calls'[n] \in CallType \cup {NoCall}
      /\ calls[n].cli # "gone" => /\ calls'[n] \in CallType
                                  /\ calls'[n].op = calls[n].op /\ calls'[n].arg = calls[n].arg
                                  /\ calls'[n].then = calls[n].then
                                  /\ calls'[n].cli = calls[n].cli
      /\ calls[n].cli = "gone" => calls'[n] = NoCall
  <2>1. CASE calls[n].cli = "gone"
    BY <1>1, <2>1 DEF Answered
  <2>2. CASE calls[n].cli # "gone"
    <3>1. calls'[n] = [calls[n] EXCEPT !.srv = "done", !.wire = w]
      BY <1>1, <2>2 DEF Answered, Done
    <3>2. calls'[n] \in CallType
      BY <1>1, <3>1, AnswerTyped
    <3>3. /\ calls'[n].op = calls[n].op /\ calls'[n].arg = calls[n].arg
          /\ calls'[n].then = calls[n].then /\ calls'[n].cli = calls[n].cli
      BY <1>1, <3>1 DEF CallType, CallsOf
    <3>4. QED
      BY <2>2, <3>2, <3>3
  <2>3. QED
    BY <2>1, <2>2
<1>3. \A m \in Slots \ {n} : calls'[m] = calls[m]
  BY <1>1 DEF Answered
<1>4. calls' \in [Slots -> CallType \cup {NoCall}]
  BY <1>1, <1>2, <1>3 DEF Answered
<1>5. \A m \in Slots : /\ Held(m)' <=> Held(m)
                       /\ Owns(m)' <=> Owns(m)
                       /\ calls'[m] # NoCall => /\ calls[m] # NoCall
                                              /\ calls'[m].op = calls[m].op
                                              /\ calls'[m].arg = calls[m].arg
  <2>1. calls[n] # NoCall /\ calls[n].cli \in {"waiting", "gone"}
    BY <1>1, CallFacts
  <2>2. calls[n].cli # "gone" => calls'[n] # NoCall
    BY <1>2, CallFacts
  <2>3. QED
    BY <1>2, <1>3, <2>1, <2>2 DEF Held, Owns
<1>6. Typed' /\ OneInterval'
  BY <1>4 DEF OverviewInv, Typed, OneInterval, tabVars
<1>7. ButtonHeld'
  BY <1>5 DEF OverviewInv, ButtonHeld, tabVars
<1>8. DialogFollows'
  <2>1. \A m \in Slots : Owns(m)' => calls'[m] # NoCall
    BY DEF Owns
  <2>2. QED
    BY <1>5, <2>1 DEF OverviewInv, DialogFollows, tabVars
<1>9. QED
  BY <1>6, <1>7, <1>8 DEF OverviewInv

LEMMA InvServe == ASSUME OverviewInv, NEW n \in InFlight, Serve(n) PROVE OverviewInv'
<1>1. PICK w : /\ w \in Answers(calls[n].op) /\ calls' = Answered(n, w)
               /\ UNCHANGED <<open, tabVars>>
  <2>1. open \in BOOLEAN
    BY DEF OverviewInv, Typed
  <2>2. CASE ServeOverview(n)
    BY <2>1, <2>2 DEF ServeOverview, Pending, Answers
  <2>3. CASE CountFails(n)
    BY <2>3 DEF CountFails, Pending, Answers
  <2>4. CASE ServeReset(n)
    BY <2>4 DEF ServeReset, Pending, Answers
  <2>5. CASE ResetFails(n)
    BY <2>5 DEF ResetFails, Pending, Answers
  <2>6. QED
    BY <2>2, <2>3, <2>4, <2>5 DEF Serve
<1>2. QED
  BY <1>1, InvAnswered

LEMMA InvTraffic == ASSUME OverviewInv, Traffic PROVE OverviewInv'
  BY DEF OverviewInv, Typed, OneInterval, ButtonHeld, Held, DialogFollows, Owns, Traffic, tabVars

\* The browser awaits a settled call no more.
LEMMA SettledCall ==
  ASSUME OverviewInv, NEW n \in InFlight, NEW w, calls' = Settled(n, w)
  PROVE  /\ calls' \in [Slots -> CallType \cup {NoCall}]
         /\ ~Held(n)' /\ ~Owns(n)'
         /\ calls'[n] # NoCall => calls'[n].arg = calls[n].arg
         /\ \A m \in Slots \ {n} : /\ calls'[m] = calls[m]
                                   /\ Held(m)' <=> Held(m)
                                   /\ Owns(m)' <=> Owns(m)
<1>1. n \in Slots /\ calls[n] \in CallType /\ calls \in [Slots -> CallType \cup {NoCall}]
  BY InFlightCalls DEF OverviewInv, Typed
<1>2. \/ calls'[n] = NoCall
      \/ calls'[n] = [calls[n] EXCEPT !.cli = "gone"]
  BY <1>1 DEF Settled
<1>3. calls'[n] # NoCall => /\ calls'[n] \in CallType
                          /\ calls'[n].cli = "gone" /\ calls'[n].arg = calls[n].arg
  <2>1. CASE calls'[n] = NoCall
    BY <2>1
  <2>2. CASE calls'[n] = [calls[n] EXCEPT !.cli = "gone"]
    <3>1. calls'[n] \in CallType
      BY <1>1, <2>2, CallFacts
    <3>2. calls'[n].cli = "gone" /\ calls'[n].arg = calls[n].arg
      BY <1>1, <2>2 DEF CallType, CallsOf
    <3>3. QED
      BY <3>1, <3>2
  <2>3. QED
    BY <1>2, <2>1, <2>2
<1>4. \A m \in Slots \ {n} : calls'[m] = calls[m]
  BY <1>1 DEF Settled
<1>5. calls' \in [Slots -> CallType \cup {NoCall}]
  BY <1>1, <1>3, <1>4 DEF Settled
<1>6. QED
  BY <1>3, <1>4, <1>5 DEF Held, Owns

LEMMA InvPollDone ==
  ASSUME OverviewInv, NEW n \in InFlight, NEW w, PollDone(n, w)
  PROVE  OverviewInv'
<1>1. /\ calls' \in [Slots -> CallType \cup {NoCall}]
      /\ ~Held(n)' /\ ~Owns(n)'
      /\ calls'[n] # NoCall => calls'[n].arg = calls[n].arg
      /\ \A m \in Slots \ {n} : /\ calls'[m] = calls[m]
                                /\ Held(m)' <=> Held(m)
                                /\ Owns(m)' <=> Owns(m)
  BY SettledCall DEF PollDone
<1>2. n \in Slots /\ calls[n] # NoCall
  BY InFlightCalls
<1>3. ~Held(n) /\ ~Owns(n)
  BY OverviewAssumption DEF PollDone, Held, Owns, OverviewAssumption
<1>4. /\ page'.resetting = page.resetting
      /\ page' = [data |-> page'.data, loading |-> page'.loading, error |-> page'.error,
                  resetting |-> page'.resetting]
  BY RefreshedKeeps DEF OverviewInv, PollDone
<1>5. UNCHANGED <<open, mounted, hidden, live, timer, dialog>>
  BY DEF PollDone
<1>6. Typed' /\ OneInterval'
  BY <1>1, <1>4, <1>5 DEF OverviewInv, Typed, OneInterval
<1>7. ButtonHeld'
  BY <1>1, <1>3, <1>4, <1>5 DEF OverviewInv, ButtonHeld
<1>8. DialogFollows'
  BY <1>1, <1>2, <1>3, <1>5 DEF OverviewInv, DialogFollows
<1>9. QED
  BY <1>6, <1>7, <1>8 DEF OverviewInv

(***************************************************************************)
(* onOk is over, with the dialog back at asking or shut: it is the end of  *)
(* the one chain that held its page's button.                              *)
(***************************************************************************)
LEMMA InvOnOkEnds ==
  ASSUME OverviewInv, NEW n \in InFlight, NEW w, calls' = Settled(n, w),
         calls[n].cli = "waiting", calls[n].then # None,
         calls[n].arg = "page" =>
           /\ page'.resetting = FALSE
           /\ page' = [data |-> page'.data, loading |-> page'.loading, error |-> page'.error,
                       resetting |-> page'.resetting],
         calls[n].arg # "page" => page' = page,
         calls[n].then = "dialog" => dialog' \in {Shut, [dialog EXCEPT !.step = "asking"]},
         calls[n].then # "dialog" => dialog' = dialog,
         UNCHANGED <<open, mounted, hidden, live, timer>>
  PROVE  OverviewInv'
<1>1. /\ calls' \in [Slots -> CallType \cup {NoCall}]
      /\ ~Held(n)' /\ ~Owns(n)'
      /\ calls'[n] # NoCall => calls'[n].arg = calls[n].arg
      /\ \A m \in Slots \ {n} : /\ calls'[m] = calls[m]
                                /\ Held(m)' <=> Held(m)
                                /\ Owns(m)' <=> Owns(m)
  BY SettledCall
<1>2. n \in Slots /\ calls[n] # NoCall
  BY InFlightCalls
<1>3. /\ Held(n) <=> calls[n].arg = "page"
      /\ Owns(n) <=> calls[n].then = "dialog"
  BY <1>2 DEF Held, Owns
<1>4. dialog' \in [step : Steps, mine : BOOLEAN]
  <2>1. /\ dialog \in [step : Steps, mine : BOOLEAN]
        /\ [dialog EXCEPT !.step = "asking"] \in [step : Steps, mine : BOOLEAN]
    BY DEF OverviewInv, Typed, Steps
  <2>2. Shut \in [step : Steps, mine : BOOLEAN]
    BY DEF Shut, Steps
  <2>3. QED
    BY <2>1, <2>2
<1>5. \/ ~Owns(n) /\ dialog' = dialog
      \/ Owns(n) /\ dialog'.step = "shut" /\ dialog'.mine = FALSE
      \/ Owns(n) /\ dialog'.step = "asking" /\ dialog'.mine = dialog.mine
  BY <1>3 DEF OverviewInv, Typed, Shut
<1>6. Typed' /\ OneInterval'
  BY <1>1, <1>4 DEF OverviewInv, Typed, OneInterval
<1>7. ButtonHeld'
  <2>1. Held(n) => /\ page'.resetting = FALSE /\ \A m \in Slots : ~Held(m)'
    BY <1>1, <1>2, <1>3 DEF OverviewInv, ButtonHeld
  <2>2. ~Held(n) => /\ page'.resetting = page.resetting
                    /\ \A m \in Slots : Held(m)' <=> Held(m)
    BY <1>1, <1>3
  <2>3. Owns(n) /\ ~Held(n) => ~dialog.mine
    BY <1>2, <1>3 DEF OverviewInv, DialogFollows
  <2>4. CASE Held(n)
    BY <2>1, <2>4 DEF ButtonHeld
  <2>5. CASE ~Held(n)
    BY <1>5, <2>2, <2>3, <2>5 DEF OverviewInv, ButtonHeld
  <2>6. QED
    BY <2>4, <2>5
<1>8. DialogFollows'
  <2>1. Owns(n) => \A m \in Slots : ~Owns(m)'
    BY <1>1, <1>2 DEF OverviewInv, DialogFollows
  <2>2. /\ dialog'.mine => mounted'
        /\ ~mounted' => \A m \in Slots : calls'[m] # NoCall => calls'[m].arg = "gone"
    BY <1>1, <1>2, <1>5 DEF OverviewInv, DialogFollows
  <2>3. CASE Owns(n)
    BY <2>1, <2>2, <2>3 DEF DialogFollows
  <2>4. CASE ~Owns(n)
    BY <1>1, <1>5, <2>2, <2>4 DEF OverviewInv, DialogFollows
  <2>5. QED
    BY <2>3, <2>4
<1>9. QED
  BY <1>6, <1>7, <1>8 DEF OverviewInv

LEMMA InvResetFailed ==
  ASSUME OverviewInv, NEW n \in InFlight, NEW w, ResetFailed(n, w)
  PROVE  OverviewInv'
<1>1. calls[n] \in CallType /\ calls[n].cli = "waiting" /\ calls[n].op = "reset"
  BY InFlightCalls DEF OverviewInv, Typed, ResetFailed, Waiting
<1>2. calls[n].then # None
  BY <1>1, CallFacts
<1>3. calls[n].arg = "page" =>
        /\ page'.resetting = FALSE
        /\ page' = [data |-> page'.data, loading |-> page'.loading, error |-> page'.error,
                    resetting |-> page'.resetting]
  BY DEF OverviewInv, Typed, ResetFailed, OnPage
<1>4. QED
  BY <1>1, <1>2, <1>3, InvOnOkEnds DEF ResetFailed, OnPage, InDialog

LEMMA InvResetRefreshed ==
  ASSUME OverviewInv, NEW n \in InFlight, NEW w, ResetRefreshed(n, w)
  PROVE  OverviewInv'
<1>1. calls[n].cli = "waiting" /\ calls[n].then # None
  BY DEF ResetRefreshed, Waiting
<1> DEFINE p == Refreshed(page, request(w))
<1>2. p = [data |-> p.data, loading |-> p.loading, error |-> p.error,
           resetting |-> p.resetting]
  BY RefreshedKeeps DEF OverviewInv
<1>3. calls[n].arg = "page" => page' = [p EXCEPT !.resetting = FALSE]
  BY DEF ResetRefreshed, OnPage
<1> HIDE DEF p
<1>4. calls[n].arg = "page" =>
        /\ page'.resetting = FALSE
        /\ page' = [data |-> page'.data, loading |-> page'.loading, error |-> page'.error,
                    resetting |-> page'.resetting]
  BY <1>2, <1>3
<1>5. QED
  BY <1>1, <1>4, InvOnOkEnds DEF ResetRefreshed, OnPage, InDialog

LEMMA InvResetDone ==
  ASSUME OverviewInv, NEW n \in InFlight, NEW w, ResetDone(n, w)
  PROVE  OverviewInv'
<1> DEFINE new == Call("overview", calls[n].arg, calls[n].then)
<1>1. /\ n \in Slots /\ calls[n] \in CallType /\ calls[n] # NoCall
      /\ calls[n].cli = "waiting" /\ calls[n].op = "reset"
      /\ calls \in [Slots -> CallType \cup {NoCall}]
  BY InFlightCalls DEF OverviewInv, Typed, ResetDone, Waiting
<1>2. /\ calls[n].arg \in {"page", "gone"} /\ calls[n].then \in {None, "dialog", "cancelled"}
      /\ calls[n].then # None
  BY <1>1, CallFacts
<1>3. /\ new \in CallType /\ new # NoCall /\ new.op = "overview" /\ new.arg = calls[n].arg
      /\ new.then = calls[n].then /\ new.cli = "waiting"
  BY <1>2, NewCall
<1>4. calls' = [calls EXCEPT ![n] = new]
  BY <1>1 DEF ResetDone
<1> HIDE DEF new
<1>5. /\ calls' \in [Slots -> CallType \cup {NoCall}]
      /\ calls'[n] = new /\ \A m \in Slots \ {n} : calls'[m] = calls[m]
  BY <1>1, <1>3, <1>4
<1>6. \A m \in Slots : /\ Held(m)' <=> Held(m)
                       /\ Owns(m)' <=> Owns(m)
                       /\ calls'[m] # NoCall => /\ calls[m] # NoCall
                                              /\ calls'[m].arg = calls[m].arg
  BY <1>1, <1>3, <1>5 DEF Held, Owns
<1>7. Owns(n) <=> calls[n].then = "dialog"
  BY <1>1 DEF Owns
<1>8. /\ dialog' \in [step : Steps, mine : BOOLEAN] /\ dialog'.mine = dialog.mine
      /\ Owns(n) => dialog'.step = "refreshing"
      /\ ~Owns(n) => dialog' = dialog
      /\ UNCHANGED <<open, mounted, hidden, live, timer, page>>
  BY <1>7 DEF OverviewInv, Typed, Steps, ResetDone, InDialog
<1>9. Typed' /\ OneInterval'
  BY <1>5, <1>8 DEF OverviewInv, Typed, OneInterval
<1>10. ButtonHeld'
  BY <1>6, <1>8 DEF OverviewInv, ButtonHeld
<1>11. DialogFollows'
  <2>1. \A m \in Slots : Owns(m) /\ m # n => ~Owns(n)
    BY <1>1 DEF OverviewInv, DialogFollows
  <2>2. \A m \in Slots : Owns(m)' =>
          /\ dialog'.step = IF calls'[m].op = "reset" THEN "resetting" ELSE "refreshing"
          /\ calls'[m].arg = IF dialog'.mine THEN "page" ELSE "gone"
    BY <1>3, <1>5, <1>6, <1>8, <2>1 DEF OverviewInv, DialogFollows
  <2>3. QED
    BY <1>6, <1>8, <2>2 DEF OverviewInv, DialogFollows
<1>12. QED
  BY <1>9, <1>10, <1>11 DEF OverviewInv

-----------------------------------------------------------------------------
(* The invariant. *)

LEMMA InvInit == Init => OverviewInv
<1> SUFFICES ASSUME Init PROVE OverviewInv
  OBVIOUS
<1>1. /\ Call("overview", "page", None) \in CallType
      /\ Call("overview", "page", None).then = None
  BY NewCall
<1>2. /\ calls \in [Slots -> CallType \cup {NoCall}]
      /\ \A n \in Slots : calls[n] # NoCall => calls[n].then = None
  BY <1>1, SlotsFacts DEF Init, NoCalls
<1>3. \A n \in Slots : ~Held(n) /\ ~Owns(n)
  BY <1>2, OverviewAssumption DEF Held, Owns, OverviewAssumption
<1>4. Typed /\ OneInterval
  BY <1>2, OverviewAssumption
  DEF Init, Typed, OneInterval, Fresh, Shut, Steps, Intervals, OverviewAssumption
<1>5. ButtonHeld /\ DialogFollows
  BY <1>3 DEF Init, ButtonHeld, DialogFollows, Fresh, Shut
<1>6. QED
  BY <1>4, <1>5 DEF OverviewInv

LEMMA InvSettle == ASSUME OverviewInv, NEW n \in InFlight, Settle(n) PROVE OverviewInv'
  BY InvPollDone, InvResetFailed, InvResetDone, InvResetRefreshed DEF Settle

LEMMA InvNext == OverviewInv /\ [Next]_vars => OverviewInv'
<1> SUFFICES ASSUME OverviewInv, [Next]_vars PROVE OverviewInv'
  OBVIOUS
<1>1. CASE UNCHANGED vars
  BY <1>1 DEF vars, OverviewInv, Typed, OneInterval, ButtonHeld, Held, DialogFollows, Owns
<1>2. CASE Next
  BY <1>2, InvTraffic, InvServe, InvSettle, InvMount, InvUnmount, InvVisibility, InvPoll,
     InvAskReset, InvConfirm, InvCancel
  DEF Next
<1>3. QED
  BY <1>1, <1>2

LEMMA Invariant == Spec => []OverviewInv
  BY InvInit, InvNext, PTL DEF Spec

-----------------------------------------------------------------------------
(***************************************************************************)
(* However often the tab is hidden and the page left and opened again, one *)
(* interval polls while the page is in view and none otherwise.            *)
(***************************************************************************)
THEOREM OneIntervalRuns == Spec => []OneInterval
<1>1. OverviewInv => OneInterval
  BY DEF OverviewInv
<1>2. QED
  BY <1>1, Invariant, PTL

(***************************************************************************)
(* resettingQuota is true exactly while one onOk of the mounted page is    *)
(* under way: no failure, cancellation, unmount or late answer leaves the  *)
(* button spinning or lets a second reset through.                         *)
(***************************************************************************)
THEOREM ResetIsHeldOnce == Spec => []ResetHeldOnce
<1>1. OverviewInv => ResetHeldOnce
  <2> SUFFICES ASSUME OverviewInv PROVE ResetHeldOnce
    OBVIOUS
  <2>1. Chain = {n \in Slots : Held(n)}
    BY InFlightCalls DEF Chain, Held
  <2>2. page.resetting = (Chain # {})
    BY <2>1 DEF OverviewInv, Typed, ButtonHeld
  <2>3. \A m, n \in Chain : m = n
    BY <2>1 DEF OverviewInv, ButtonHeld
  <2>4. CASE Chain = {}
    BY <2>2, <2>4, FS_EmptySet DEF ResetHeldOnce
  <2>5. CASE Chain # {}
    <3>1. PICK n : n \in Chain
      BY <2>5
    <3>2. Chain = {n}
      BY <2>3, <3>1
    <3>3. Cardinality(Chain) = 1
      BY <3>2, FS_Singleton
    <3>4. QED
      BY <2>2, <3>3 DEF ResetHeldOnce
  <2>6. QED
    BY <2>4, <2>5
<1>2. QED
  BY <1>1, Invariant, PTL

(***************************************************************************)
(* A dialog whose reset succeeded is never offered again: only the call it *)
(* waits for, or Cancel, moves it, and that call is now the refresh.       *)
(***************************************************************************)
THEOREM ResetIsConfirmedOnce == Spec => ConfirmedOnce
<1> DEFINE Keeps == dialog.step = "refreshing" => dialog'.step \in {"refreshing", "shut"}
<1>1. OverviewInv /\ [Next]_vars => [Keeps]_vars
  <2> SUFFICES ASSUME OverviewInv, Next, dialog.step = "refreshing"
               PROVE  dialog'.step \in {"refreshing", "shut"}
    BY DEF vars
  <2>1. ASSUME NEW n \in InFlight, NEW w, ResetFailed(n, w)
        PROVE  dialog' = dialog
    <3>1. n \in Slots /\ calls[n] # NoCall /\ calls[n].cli = "waiting" /\ calls[n].op = "reset"
      BY <2>1, InFlightCalls DEF ResetFailed, Waiting
    <3>2. ~Owns(n)
      BY <3>1 DEF OverviewInv, DialogFollows
    <3>3. QED
      BY <2>1, <3>1, <3>2 DEF Owns, ResetFailed, InDialog
  <2>2. ASSUME NEW n \in InFlight, Settle(n)
        PROVE  dialog'.step \in {"refreshing", "shut"}
    BY <2>1, <2>2
    DEF Settle, PollDone, ResetDone, ResetRefreshed, InDialog, Shut, OverviewInv, Typed
  <2>3. ASSUME NEW n \in InFlight, Serve(n)
        PROVE  dialog' = dialog
    BY <2>3 DEF Serve, ServeOverview, CountFails, ServeReset, ResetFails, tabVars
  <2>4. CASE Unmount
    BY <2>4 DEF Unmount, OverviewInv, Typed
  <2>5. CASE Cancel
    BY <2>5 DEF Cancel, Shut
  <2>6. CASE Traffic \/ Mount \/ Hide \/ Show \/ Tick \/ Refresh
    BY <2>6 DEF Traffic, Mount, Hide, Show, Tick, Refresh, tabVars
  <2>7. CASE AskReset \/ Confirm
    BY <2>7 DEF AskReset, Confirm, Shut
  <2>8. QED
    BY <2>2, <2>3, <2>4, <2>5, <2>6, <2>7 DEF Next
<1>2. QED
  BY <1>1, Invariant, PTL DEF Spec, ConfirmedOnce
=============================================================================
