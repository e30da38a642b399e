--------------------------- MODULE Console_proofs ---------------------------
(***************************************************************************)
(* Proofs about the operator console over its gateway, for any number of   *)
(* installs, calls, keys and restarts and any size of the audit ring.      *)
(***************************************************************************)
EXTENDS Console, FiniteSetTheorems, SequenceTheorems, TLAPS

Ops == Reads \cup Mutations \cup {"postConfig"}
Recorded == UNION {{Stamped(s, e) : e \in EventType} : s \in Nat}

(***************************************************************************)
(* A slot: its record, how far its handler can be, and what its argument   *)
(* is.  Only a handler that changes something has steps in between.        *)
(***************************************************************************)
IsCall(c) ==
  c = [op |-> c.op, arg |-> c.arg, then |-> c.then, srv |-> c.srv, cli |-> c.cli, wire |-> c.wire]

CallOK(c) ==
  /\ IsCall(c)
  /\ c.op \in Ops
  /\ c.srv \in {"queued", "persisted", "applied", "done", "dead"}
  /\ c.cli \in {"waiting", "gone"}
  /\ c.srv = "done" => c.wire.status \in {200, 400, 500}
  /\ c.srv = "persisted" => c.op = "postConfig"
  /\ c.srv = "applied" => c.op \notin Reads
  /\ c.op \in Mutations => /\ c.arg.id \in 1..Installs
                           /\ c.arg.reason = IF c.op = "ban" THEN c.arg.id ELSE None
  /\ c.op = "postConfig" => c.arg.key \in Keys

Slotted ==
  /\ calls = [n \in Slots |-> calls[n]]
  /\ \A n \in Slots : calls[n] = NoCall \/ CallOK(calls[n])
  /\ sent \in 0..MaxCalls
  /\ \A n \in Slots : n > sent => calls[n] = NoCall

(***************************************************************************)
(* The settings table is at most one accepted override ahead of what is    *)
(* published: the one whose handler holds the provider's mutex.            *)
(***************************************************************************)
Persisting(n) == calls[n].srv = "persisted"

Configuration ==
  /\ overlay = [k \in Keys |-> overlay[k]] /\ configured = [k \in Keys |-> configured[k]]
  /\ \A m, n \in Slots : Persisting(m) /\ Persisting(n) => m = n
  /\ (\A n \in Slots : ~Persisting(n)) => configured = LoadWithOverlay
  /\ \A n \in Slots : Persisting(n) => LoadWithOverlay = NextConfig(calls[n].arg)
  /\ ValidateSemantics(LoadWithOverlay)

(***************************************************************************)
(* The log, and what is still to be recorded.                              *)
(***************************************************************************)
Applied == {n \in Slots : calls[n].srv = "applied"}

Streaming == IF export = "streaming" THEN 1 ELSE 0

Recording ==
  /\ log \in Seq(Recorded)
  /\ status \in [1..Installs -> Statuses]
  /\ export \in {"none", "asked", "opened", "streaming"}
  /\ effects = Len(log) + Cardinality(Applied) + Streaming

(***************************************************************************)
(* The mounted page.  A spinner turns for a call the page awaits, one ban  *)
(* at most is awaited, and the reason in an open modal is the target's.    *)
(***************************************************************************)
Awaits(n, op) == calls[n].op = op /\ calls[n].cli = "waiting"

IsStack(s) == s \in Seq(Range(s))

InstallsShape(v) ==
  v = [name |-> "installs", rows |-> v.rows, next |-> v.next, stack |-> v.stack,
       shown |-> v.shown, loading |-> v.loading, banTarget |-> v.banTarget,
       banReason |-> v.banReason, banSubmitting |-> v.banSubmitting]

InstallsState(v) ==
  /\ InstallsShape(v) /\ IsStack(v.stack)
  /\ v.loading \in BOOLEAN /\ v.banSubmitting \in BOOLEAN
  /\ v.banTarget \in 1..Installs \cup {None}
  /\ v.banTarget # None => v.banReason \in {v.banTarget, None}

OnInstallsView ==
  OnInstalls =>
    /\ InstallsState(view)
    /\ view.banSubmitting <=> \E n \in Slots : Awaits(n, "ban")
    /\ \A m, n \in Slots : Awaits(m, "ban") /\ Awaits(n, "ban") => m = n
    /\ view.loading => \E n \in Slots : Awaits(n, "installs")

AuditState(v) ==
  /\ v = [name |-> "audit", rows |-> v.rows, next |-> v.next, stack |-> v.stack,
          shown |-> v.shown, loading |-> v.loading]
  /\ v.loading \in BOOLEAN /\ IsStack(v.stack)

OnAuditView ==
  OnAudit =>
    /\ AuditState(view)
    /\ view.loading => \E n \in Slots : Awaits(n, "audit")

ConfigState(v) ==
  /\ v = [name |-> "config", items |-> v.items, drafts |-> v.drafts,
          savingKey |-> v.savingKey, loading |-> v.loading]
  /\ v.loading \in BOOLEAN

OnConfigView ==
  OnConfig =>
    /\ ConfigState(view)
    /\ view.loading => \E n \in Slots : Awaits(n, "config")
    /\ view.savingKey # None =>
         \E n \in Slots : Awaits(n, "postConfig") /\ calls[n].arg.key = view.savingKey

Viewing ==
  /\ view.name \in Names
  /\ calm \in BOOLEAN /\ fresh \in BOOLEAN
  /\ OnInstallsView /\ OnAuditView /\ OnConfigView

ConsoleInv == Slotted /\ Configuration /\ Recording /\ Viewing

-----------------------------------------------------------------------------
(* Slots. *)

\* A free slot is in no phase of any call.
LEMMA NoCallFacts ==
  /\ NoCall.op = "none" /\ NoCall.srv = "none" /\ NoCall.cli = "none"
  BY DEF NoCall

\* A call is told from a free slot by its operation.
LEMMA CallFacts ==
  ASSUME NEW c, CallOK(c)
  PROVE  c.op # "none" /\ c # NoCall
  BY NoCallFacts DEF CallOK, Ops, Reads, Mutations

\* The slots in flight are the ones that hold a well-formed call.
LEMMA InFlightCalls ==
  ASSUME Slotted
  PROVE  \A n : n \in InFlight <=> n \in Slots /\ calls[n] # NoCall /\ CallOK(calls[n])
  BY NoCallFacts, CallFacts DEF Slotted, InFlight

\* A call as request() starts it: queued at the gateway, awaited by the page.
LEMMA NewCall ==
  ASSUME NEW op, NEW arg, NEW then
  PROVE  LET c == Call(op, arg, then)
         IN  /\ IsCall(c) /\ c.op = op /\ c.arg = arg /\ c.then = then
             /\ c.srv = "queued" /\ c.cli = "waiting"
  BY DEF Call, IsCall

\* There are finitely many slots, and at least one.
LEMMA SlotsFacts == Slots \subseteq Nat /\ 1 \in Slots /\ IsFiniteSet(Slots)
  BY ApiAssumption, FS_Interval DEF ApiAssumption, Slots

\* The changes that wait to be recorded can be counted.
LEMMA AppliedFinite == IsFiniteSet(Applied) /\ Cardinality(Applied) \in Nat
<1>1. IsFiniteSet(Applied)
  BY SlotsFacts, FS_Subset DEF Applied
<1>2. QED
  BY <1>1, FS_CardinalityType

\* The export owes the log at most one event.
LEMMA StreamingFacts == Streaming \in {0, 1}
  BY DEF Streaming

-----------------------------------------------------------------------------
(* The gateway's steps. *)

\* What a step on call n alone may make of it, for the page that awaits it.
Served(n) ==
  /\ calls' = [m \in Slots |-> calls'[m]]
  /\ \A m \in Slots \ {n} : calls'[m] = calls[m]
  /\ calls'[n] = NoCall \/ CallOK(calls'[n])
  /\ \A op \in Ops : Awaits(n, op)' <=> Awaits(n, op)
  /\ \A op \in Ops : Awaits(n, op) => calls'[n].arg = calls[n].arg

\* What no step of the gateway changes in a call.
Same(n) ==
  /\ calls'[n].op = calls[n].op /\ calls'[n].arg = calls[n].arg
  /\ calls'[n].then = calls[n].then /\ calls'[n].cli = calls[n].cli

\* A call with the gateway's answer.
LEMMA CallAnswered ==
  ASSUME NEW c, IsCall(c), NEW w
  PROVE  Done(c, w) =
           [op |-> c.op, arg |-> c.arg, then |-> c.then, srv |-> "done", cli |-> c.cli, wire |-> w]
<1>1. PICK o, a, t, s, l, v :
        c = [op |-> o, arg |-> a, then |-> t, srv |-> s, cli |-> l, wire |-> v]
  BY DEF IsCall
<1>2. PICK d : d = [c EXCEPT !.srv = "done"]
  OBVIOUS
<1>3. d = [op |-> o, arg |-> a, then |-> t, srv |-> "done", cli |-> l, wire |-> v]
  BY <1>1, <1>2
<1>4. [d EXCEPT !.wire = w] =
        [op |-> o, arg |-> a, then |-> t, srv |-> "done", cli |-> l, wire |-> w]
  BY <1>3
<1>5. [d EXCEPT !.wire = w] = Done(c, w)
  BY <1>2, Zenon DEF Done
<1>6. c.op = o /\ c.arg = a /\ c.then = t /\ c.cli = l
  BY <1>1
<1>7. QED
  BY <1>4, <1>5, <1>6, Zenon

\* A handler's answer fills its slot, or frees it if nobody waits any more.
LEMMA AnswersCall ==
  ASSUME Slotted, NEW n \in InFlight, NEW w, w.status \in {200, 400, 500},
         calls' = Answered(n, w)
  PROVE  /\ Served(n) /\ calls'[n].srv \notin {"persisted", "applied"}
         /\ \/ calls'[n] = NoCall /\ calls[n].cli = "gone"
            \/ Same(n) /\ calls'[n].srv = "done" /\ calls'[n].wire = w
<1>1. n \in Slots /\ CallOK(calls[n]) /\ calls = [m \in Slots |-> calls[m]]
  BY InFlightCalls DEF Slotted
<1>2. calls' = [m \in Slots |-> calls'[m]] /\ \A m \in Slots \ {n} : calls'[m] = calls[m]
  BY <1>1 DEF Answered
<1>3. CASE calls[n].cli = "gone"
  <2>1. calls'[n] = NoCall
    BY <1>1, <1>3 DEF Answered
  <2>2. QED
    BY <1>2, <1>3, <2>1, NoCallFacts DEF Served, Awaits
<1>4. CASE calls[n].cli # "gone"
  <2>1. calls'[n] = Done(calls[n], w)
    BY <1>1, <1>4 DEF Answered
  <2>2. calls'[n] = [op |-> calls[n].op, arg |-> calls[n].arg, then |-> calls[n].then,
                    srv |-> "done", cli |-> calls[n].cli, wire |-> w]
    <3>1. IsCall(calls[n])
      BY <1>1 DEF CallOK
    <3>2. QED
      BY <2>1, <3>1, CallAnswered
  <2>3. IsCall(calls'[n]) /\ Same(n) /\ calls'[n].srv = "done" /\ calls'[n].wire = w
    BY <2>2 DEF IsCall, Same
  <2>4. CallOK(calls'[n])
    BY <1>1, <2>3 DEF CallOK, Same
  <2>5. QED
    BY <1>2, <2>3, <2>4 DEF Served, Awaits, Same
<1>5. QED
  BY <1>3, <1>4

\* A handler's step inside moves its own call to the next phase and leaves the others.
LEMMA StepsCall ==
  ASSUME Slotted, NEW n \in InFlight, NEW phase \in {"persisted", "applied"},
         calls' = [calls EXCEPT ![n].srv = phase],
         calls[n].op \notin Reads, phase = "persisted" => calls[n].op = "postConfig"
  PROVE  Served(n) /\ calls'[n].srv = phase /\ Same(n)
<1>1. n \in Slots /\ CallOK(calls[n]) /\ calls = [m \in Slots |-> calls[m]]
  BY InFlightCalls DEF Slotted
<1>2. /\ calls' = [m \in Slots |-> calls'[m]] /\ \A m \in Slots \ {n} : calls'[m] = calls[m]
      /\ calls'[n] = [calls[n] EXCEPT !.srv = phase]
  BY <1>1
<1>3. IsCall(calls'[n]) /\ Same(n) /\ calls'[n].srv = phase
  BY <1>1, <1>2 DEF CallOK, IsCall, Same
<1>4. CallOK(calls'[n])
  BY <1>1, <1>3 DEF CallOK, Same
<1>5. QED
  BY <1>2, <1>3, <1>4 DEF Served, Awaits, Same

\* Serving a call keeps the slots well-formed.
LEMMA ServedSlots ==
  ASSUME Slotted, NEW n \in InFlight, Served(n), sent' = sent
  PROVE  Slotted'
<1>1. n \in Slots /\ n <= sent
  BY InFlightCalls, SlotsFacts DEF Slotted
<1>2. QED
  BY <1>1, SlotsFacts DEF Slotted, Served

\* The page does not notice.
LEMMA ViewKept ==
  ASSUME Viewing, UNCHANGED viewVars,
         \A m \in Slots : \A op \in Ops : Awaits(m, op)' <=> Awaits(m, op),
         \A m \in Slots : \A op \in Ops : Awaits(m, op) => calls'[m].arg = calls[m].arg
  PROVE  Viewing'
<1>1. /\ view' = view /\ calm' = calm /\ fresh' = fresh
      /\ {"ban", "installs", "audit", "config", "postConfig"} \subseteq Ops
  BY DEF viewVars, Ops, Reads, Mutations
<1>2. OnInstallsView'
  BY <1>1 DEF Viewing, OnInstallsView, OnInstalls
<1>3. OnAuditView'
  BY <1>1 DEF Viewing, OnAuditView, OnAudit
<1>4. OnConfigView'
  BY <1>1 DEF Viewing, OnConfigView, OnConfig
<1>5. QED
  BY <1>1, <1>2, <1>3, <1>4 DEF Viewing

\* Serving a call keeps the mounted page's state consistent: who awaits what does not change.
LEMMA ServedView ==
  ASSUME Viewing, NEW n \in Slots, Served(n), UNCHANGED viewVars
  PROVE  Viewing'
<1>1. /\ \A m \in Slots : \A op \in Ops : Awaits(m, op)' <=> Awaits(m, op)
      /\ \A m \in Slots : \A op \in Ops : Awaits(m, op) => calls'[m].arg = calls[m].arg
  BY DEF Served, Awaits
<1>2. QED
  BY <1>1, ViewKept

\* No handler enters or leaves the provider's critical section.
LEMMA ConfigKept ==
  ASSUME Configuration, UNCHANGED configVars,
         \A m \in Slots : Persisting(m)' <=> Persisting(m),
         \A m \in Slots : Persisting(m) => calls'[m].arg = calls[m].arg
  PROVE  Configuration'
<1>1. overlay' = overlay /\ configured' = configured
  BY DEF configVars
<1>2. LoadWithOverlay' = LoadWithOverlay
  BY <1>1 DEF LoadWithOverlay, Overlaid
<1>3. \A m \in Slots : Persisting(m) => NextConfig(calls[m].arg)' = NextConfig(calls[m].arg)
  BY <1>1 DEF NextConfig
<1>4. QED
  BY <1>1, <1>2, <1>3 DEF Configuration

\* A handler that persists nothing leaves the configuration as consistent as it was.
LEMMA ServedConfig ==
  ASSUME Configuration, NEW n \in Slots, Served(n), UNCHANGED configVars,
         ~Persisting(n), ~Persisting(n)'
  PROVE  Configuration'
  BY ConfigKept DEF Served, Persisting

\* Handlers that neither change nor record anything.
LEMMA RecordingKept ==
  ASSUME Recording, Applied' = Applied, UNCHANGED <<log, status, export, effects>>
  PROVE  Recording'
  BY DEF Recording, Streaming

\* A handler that only answers keeps the invariant.
LEMMA InvAnswers ==
  ASSUME ConsoleInv, NEW n \in InFlight, NEW w, w.status \in {200, 400, 500},
         calls' = Answered(n, w), calls[n].srv = "queued",
         UNCHANGED <<serverVars, viewVars>>
  PROVE  ConsoleInv'
<1>1. Served(n) /\ calls'[n].srv \notin {"persisted", "applied"} /\ n \in Slots
  BY AnswersCall, InFlightCalls DEF ConsoleInv
<1>2. Applied' = Applied
  BY <1>1 DEF Applied, Served
<1>3. Slotted' /\ Viewing'
  BY <1>1, ServedSlots, ServedView DEF ConsoleInv, viewVars
<1>4. Configuration'
  BY <1>1, ServedConfig DEF ConsoleInv, serverVars, configVars, Persisting
<1>5. Recording'
  BY <1>2, RecordingKept DEF ConsoleInv, serverVars
<1>6. QED
  BY <1>3, <1>4, <1>5 DEF ConsoleInv

\* One more change is made, and one more handler is about to record.
LEMMA EffectMade ==
  ASSUME Slotted, Recording, NEW n \in Slots, Served(n), calls[n].srv # "applied",
         calls'[n].srv = "applied", effects' = effects + 1, UNCHANGED <<log, export>>,
         status' \in [1..Installs -> Statuses]
  PROVE  Recording'
<1>1. Applied' = Applied \cup {n} /\ n \notin Applied
  BY DEF Applied, Served
<1>2. Cardinality(Applied') = Cardinality(Applied) + 1
  BY <1>1, AppliedFinite, FS_AddElement
<1>3. Cardinality(Applied)' = Cardinality(Applied')
  OBVIOUS
<1>4. Len(log) \in Nat
  BY DEF Recording
<1>5. effects = Len(log) + Cardinality(Applied) + Streaming /\ Streaming' = Streaming
  BY DEF Recording, Streaming
<1>6. effects' = Len(log') + Cardinality(Applied)' + Streaming'
  BY <1>2, <1>3, <1>4, <1>5, AppliedFinite, StreamingFacts
<1>7. QED
  BY <1>6 DEF Recording, Streaming

\* It has recorded.
LEMMA EffectRecorded ==
  ASSUME Slotted, Recording, NEW n \in Slots, Served(n), calls[n].srv = "applied",
         calls'[n].srv # "applied", NEW e \in EventType, record(e),
         UNCHANGED <<export, effects, status>>
  PROVE  Recording'
<1>1. Applied' = Applied \ {n} /\ n \in Applied
  BY DEF Applied, Served
<1>2. Cardinality(Applied') = Cardinality(Applied) - 1
  BY <1>1, AppliedFinite, FS_RemoveElement
<1>3. Cardinality(Applied)' = Cardinality(Applied')
  OBVIOUS
<1>4. log \in Seq(Recorded) /\ Len(log) \in Nat
  BY DEF Recording
<1>5. Stamped(Len(log) + 1, e) \in Recorded
  <2>1. Len(log) + 1 \in Nat
    BY <1>4
  <2>2. QED
    BY <2>1 DEF Recorded
<1>6. log' \in Seq(Recorded) /\ Len(log') = Len(log) + 1
  BY <1>4, <1>5 DEF record
<1>7. effects = Len(log) + Cardinality(Applied) + Streaming /\ Streaming' = Streaming
  BY DEF Recording, Streaming
<1>8. effects' = Len(log') + Cardinality(Applied)' + Streaming'
  BY <1>2, <1>3, <1>4, <1>6, <1>7, AppliedFinite, StreamingFacts
<1>9. QED
  BY <1>6, <1>8 DEF Recording, Streaming

\* A read keeps the invariant.
LEMMA InvServeRead ==
  ASSUME ConsoleInv, NEW n \in Slots, ServeRead(n), UNCHANGED viewVars
  PROVE  ConsoleInv'
<1>1. PICK w : /\ w.status \in {200, 400, 500} /\ calls' = Answered(n, w)
               /\ n \in InFlight /\ calls[n].srv = "queued" /\ UNCHANGED serverVars
  <2>1. \A b : Reply(b).status = 200
    BY DEF Reply
  <2>2. Envelope(500, "INTERNAL").status = 500
    BY DEF Envelope
  <2>3. CASE ReadFails(n) /\ n \in Pending("installs", "queued")
    BY <2>2, <2>3 DEF ReadFails, Pending
  <2>4. CASE ReadInstalls(n) /\ n \in Pending("installs", "queued")
    BY <2>1, <2>4 DEF ReadInstalls, Pending
  <2>5. CASE n \in Pending("audit", "queued") /\ ReadAudit(n)
    BY <2>1, <2>5 DEF ReadAudit, Pending
  <2>6. CASE n \in Pending("config", "queued") /\ ReadConfig(n)
    BY <2>1, <2>6 DEF ReadConfig, Pending
  <2>7. QED
    BY <2>3, <2>4, <2>5, <2>6 DEF ServeRead
<1>2. QED
  BY <1>1, InvAnswers

\* The steps of a ban or an unban keep the invariant: the change and its event are counted alike.
LEMMA InvMutate ==
  ASSUME ConsoleInv, NEW n \in Slots, SetStatus(n) \/ SetStatusFails(n) \/ AuditMutate(n),
         UNCHANGED viewVars
  PROVE  ConsoleInv'
<1>1. n \in InFlight /\ CallOK(calls[n]) /\ calls[n].op \in Mutations
  BY InFlightCalls DEF ConsoleInv, SetStatus, SetStatusFails, AuditMutate, Pending
<1>2. /\ calls[n].arg.id \in 1..Installs
      /\ calls[n].arg.reason = IF calls[n].op = "ban" THEN calls[n].arg.id ELSE None
      /\ calls[n].op \notin Reads /\ calls[n].op # "postConfig"
  BY <1>1 DEF CallOK, Mutations, Reads
<1>3. CASE SetStatus(n)
  <2>1. Served(n) /\ calls'[n].srv = "applied" /\ calls[n].srv = "queued"
    BY <1>1, <1>2, <1>3, StepsCall DEF ConsoleInv, SetStatus, Pending
  <2>2. status' \in [1..Installs -> Statuses]
    BY <1>1, <1>2, <1>3 DEF SetStatus, ConsoleInv, Recording, NewStatus, Mutations, Statuses
  <2>3. Recording'
    BY <1>3, <2>1, <2>2, EffectMade DEF ConsoleInv, SetStatus
  <2>4. Slotted' /\ Viewing'
    BY <1>1, <2>1, ServedSlots, ServedView DEF ConsoleInv, viewVars
  <2>5. Configuration'
    BY <1>3, <2>1, ServedConfig DEF ConsoleInv, SetStatus, Persisting
  <2>6. QED
    BY <2>3, <2>4, <2>5 DEF ConsoleInv
<1>4. CASE SetStatusFails(n)
  BY <1>1, <1>4, InvAnswers DEF SetStatusFails, Pending, Envelope
<1>5. CASE AuditMutate(n)
  <2> DEFINE e == Event(calls[n].op, calls[n].arg.id, calls[n].arg.reason, "ok")
  <2>1. e \in EventType
    BY <1>1, <1>2 DEF EventType, Mutations
  <2>2. record(e) /\ UNCHANGED <<export, effects, status>>
    BY <1>5 DEF AuditMutate
  <2> HIDE DEF e
  <2>3. Reply(calls[n].op).status = 200
    BY DEF Reply
  <2>4. /\ Served(n) /\ calls'[n].srv \notin {"persisted", "applied"}
        /\ calls[n].srv = "applied"
    BY <1>1, <1>5, <2>3, AnswersCall DEF ConsoleInv, AuditMutate, Pending
  <2>5. Recording'
    BY <2>1, <2>2, <2>4, EffectRecorded DEF ConsoleInv
  <2>6. Slotted' /\ Viewing'
    BY <1>1, <2>4, ServedSlots, ServedView DEF ConsoleInv, viewVars
  <2>7. Configuration'
    BY <1>5, <2>4, ServedConfig DEF ConsoleInv, AuditMutate, Persisting
  <2>8. QED
    BY <2>5, <2>6, <2>7 DEF ConsoleInv
<1>6. QED
  BY <1>3, <1>4, <1>5

(***************************************************************************)
(* The provider's critical section.                                        *)
(***************************************************************************)
LEMMA AcceptedValue ==
  ASSUME NEW k, NEW v, Accepted(k, v)
  PROVE  v # None
  BY ConfigAssumption DEF ConfigAssumption, Accepted

\* Without the mutex no handler is between persisting and publishing.
LEMMA MutexIs ==
  ASSUME Slotted
  PROVE  MutexFree <=> \A n \in Slots : ~Persisting(n)
<1>1. \A n \in Slots : Persisting(n) => n \in Pending("postConfig", "persisted")
  BY InFlightCalls, NoCallFacts DEF Slotted, Persisting, Pending, CallOK
<1>2. \A n \in Pending("postConfig", "persisted") : n \in Slots /\ Persisting(n)
  BY DEF Pending, InFlight, Persisting
<1>3. QED
  BY <1>1, <1>2 DEF MutexFree

\* Persisting a validated override, alone under the mutex, keeps the invariant.
LEMMA InvPersist ==
  ASSUME ConsoleInv, NEW n \in Slots, PersistConfig(n), UNCHANGED viewVars
  PROVE  ConsoleInv'
<1> DEFINE key == calls[n].arg.key
           val == calls[n].arg.val
<1>1. /\ n \in InFlight /\ CallOK(calls[n]) /\ calls[n].op = "postConfig"
      /\ calls[n].srv = "queued" /\ key \in Keys
  BY InFlightCalls DEF ConsoleInv, PersistConfig, Pending, CallOK
<1>2. /\ Served(n) /\ calls'[n].srv = "persisted" /\ calls'[n].arg = calls[n].arg
  BY <1>1, StepsCall DEF ConsoleInv, PersistConfig, Reads, Same
<1>3. Slotted' /\ Viewing'
  BY <1>1, <1>2, ServedSlots, ServedView DEF ConsoleInv, viewVars
<1>4. Recording'
  <2>1. Applied' = Applied
    BY <1>1, <1>2 DEF Applied, Served
  <2>2. QED
    BY <2>1, RecordingKept DEF ConsoleInv, PersistConfig
<1>5. val # None /\ ValidateSemantics(NextConfig(calls[n].arg))
  BY AcceptedValue DEF PersistConfig, Acceptable
<1>6. /\ \A m \in Slots : ~Persisting(m)
      /\ configured = LoadWithOverlay
      /\ overlay = [k \in Keys |-> overlay[k]] /\ configured = [k \in Keys |-> configured[k]]
  BY MutexIs DEF ConsoleInv, PersistConfig, Configuration
<1>7. \A m \in Slots : Persisting(m)' <=> m = n
  BY <1>2, <1>6 DEF Served, Persisting
<1>8. /\ configured' = configured
      /\ overlay' = [overlay EXCEPT ![key] = val]
  BY DEF PersistConfig
<1>9. LoadWithOverlay' = NextConfig(calls[n].arg)
  <2>1. /\ overlay' = [k \in Keys |-> overlay'[k]] /\ overlay'[key] = val
        /\ \A k \in Keys \ {key} : overlay'[k] = overlay[k]
    BY <1>1, <1>6, <1>8
  <2>2. LoadWithOverlay' = [k \in Keys |-> IF overlay'[k] = None THEN Env[k] ELSE overlay'[k]]
    BY DEF LoadWithOverlay, Overlaid
  <2>3. configured = [k \in Keys |-> IF overlay[k] = None THEN Env[k] ELSE overlay[k]]
    BY <1>6 DEF LoadWithOverlay, Overlaid
  <2>4. LoadWithOverlay' = [configured EXCEPT ![key] = val]
    BY <1>1, <1>5, <2>1, <2>2, <2>3
  <2>5. QED
    BY <2>4 DEF NextConfig
<1>10. NextConfig(calls[n].arg)' = NextConfig(calls[n].arg)
  BY <1>2, <1>8 DEF NextConfig
<1>11. overlay' = [k \in Keys |-> overlay'[k]] /\ configured' = [k \in Keys |-> configured'[k]]
  BY <1>1, <1>6, <1>8
<1>12. Configuration'
  <2>1. ValidateSemantics(LoadWithOverlay)'
    BY <1>5, <1>9 DEF ValidateSemantics
  <2>2. QED
    BY <1>7, <1>9, <1>10, <1>11, <2>1 DEF Configuration
<1>13. QED
  BY <1>3, <1>4, <1>12 DEF ConsoleInv

\* Publishing what was persisted brings the table and the running configuration together again.
LEMMA InvPublish ==
  ASSUME ConsoleInv, NEW n \in Slots, PublishConfig(n), UNCHANGED viewVars
  PROVE  ConsoleInv'
<1>1. /\ n \in InFlight /\ CallOK(calls[n]) /\ calls[n].op = "postConfig"
      /\ calls[n].srv = "persisted" /\ calls[n].arg.key \in Keys
  BY InFlightCalls DEF ConsoleInv, PublishConfig, Pending, CallOK
<1>2. Served(n) /\ calls'[n].srv = "applied"
  BY <1>1, StepsCall DEF ConsoleInv, PublishConfig, Reads
<1>3. Slotted' /\ Viewing'
  BY <1>1, <1>2, ServedSlots, ServedView DEF ConsoleInv, viewVars
<1>4. Recording'
  BY <1>1, <1>2, EffectMade DEF ConsoleInv, PublishConfig, Recording
<1>5. \A m \in Slots : ~Persisting(m)'
  BY <1>1, <1>2 DEF ConsoleInv, Configuration, Persisting, Served
<1>6. configured' = NextConfig(calls[n].arg) /\ overlay' = overlay
  BY DEF PublishConfig
<1>7. LoadWithOverlay' = LoadWithOverlay
  BY <1>6 DEF LoadWithOverlay, Overlaid
<1>8. configured' = LoadWithOverlay
  BY <1>1, <1>6 DEF ConsoleInv, Configuration, Persisting
<1>9. configured' = [k \in Keys |-> configured'[k]]
  BY <1>8 DEF LoadWithOverlay, Overlaid
<1>10. Configuration'
  BY <1>5, <1>6, <1>7, <1>8, <1>9 DEF ConsoleInv, Configuration
<1>11. QED
  BY <1>3, <1>4, <1>10 DEF ConsoleInv

\* A rejected override changes nothing but the answer.
LEMMA InvRejectConfig ==
  ASSUME ConsoleInv, NEW n \in Slots, RejectConfig(n), UNCHANGED viewVars
  PROVE  ConsoleInv'
<1>1. Envelope(400, "CONFIG_REJECTED").status = 400
  BY DEF Envelope
<1>2. QED
  BY <1>1, InvAnswers DEF RejectConfig, Pending

\* Recording a configuration change pays what its publication owed the log.
LEMMA InvAuditConfig ==
  ASSUME ConsoleInv, NEW n \in Slots, AuditConfig(n), UNCHANGED viewVars
  PROVE  ConsoleInv'
<1> DEFINE e == Event("config_update", calls[n].arg.key, None, "ok")
<1>1. /\ n \in InFlight /\ CallOK(calls[n]) /\ calls[n].op = "postConfig"
      /\ calls[n].srv = "applied" /\ calls[n].arg.key \in Keys
  BY InFlightCalls DEF ConsoleInv, AuditConfig, Pending, CallOK
<1>2. e \in EventType
  BY <1>1 DEF EventType
<1>3. record(e) /\ UNCHANGED <<export, effects, status, configVars>>
  BY DEF AuditConfig
<1> HIDE DEF e
<1>4. Reply(ConfigDump).status = 200
  BY DEF Reply
<1>5. Served(n) /\ calls'[n].srv \notin {"persisted", "applied"}
  BY <1>1, <1>4, AnswersCall DEF ConsoleInv, AuditConfig
<1>6. Recording'
  BY <1>1, <1>2, <1>3, <1>5, EffectRecorded DEF ConsoleInv
<1>7. Slotted' /\ Viewing'
  BY <1>1, <1>5, ServedSlots, ServedView DEF ConsoleInv, viewVars
<1>8. Configuration'
  BY <1>1, <1>3, <1>5, ServedConfig DEF ConsoleInv, Persisting
<1>9. QED
  BY <1>6, <1>7, <1>8 DEF ConsoleInv

-----------------------------------------------------------------------------
(* Export and restart. *)

\* The export's steps keep the invariant: the log is owed one event while it streams.
LEMMA InvExport ==
  ASSUME ConsoleInv, UNCHANGED viewVars,
         \/ Snapshot \/ SnapshotFails \/ StreamExport
         \/ \E outcome \in {"ok", "interrupted"} : StreamEnds(outcome)
  PROVE  ConsoleInv'
<1>1. UNCHANGED <<calls, configVars, status>>
  BY DEF Snapshot, SnapshotFails, StreamExport, StreamEnds, ExportStep
<1>2. Slotted'
  BY <1>1 DEF ConsoleInv, Slotted, viewVars
<1>3. Viewing'
  BY <1>1, ViewKept DEF ConsoleInv, Awaits
<1>4. Configuration'
  BY <1>1, ConfigKept DEF ConsoleInv, Persisting
<1>5. Applied' = Applied
  BY <1>1 DEF Applied
<1>6. /\ log \in Seq(Recorded) /\ Len(log) \in Nat /\ status' \in [1..Installs -> Statuses]
      /\ effects = Len(log) + Cardinality(Applied) + Streaming
      /\ Cardinality(Applied)' = Cardinality(Applied)
  BY <1>1, <1>5 DEF ConsoleInv, Recording
<1>7. ASSUME Snapshot \/ SnapshotFails
      PROVE  Recording'
  BY <1>6, <1>7 DEF Snapshot, SnapshotFails, ExportStep, Recording, Streaming
<1>8. ASSUME StreamExport
      PROVE  Recording'
  <2>1. /\ Streaming = 0 /\ Streaming' = 1 /\ log' = log /\ effects' = effects + 1
        /\ export' = "streaming"
    BY <1>8 DEF StreamExport, ExportStep, Streaming
  <2>2. effects' = Len(log') + Cardinality(Applied)' + Streaming'
    BY <1>6, <2>1, AppliedFinite
  <2>3. QED
    BY <1>6, <2>1, <2>2 DEF Recording
<1>9. ASSUME NEW outcome \in {"ok", "interrupted"}, StreamEnds(outcome)
      PROVE  Recording'
  <2> DEFINE e == Event("export", None, None, outcome)
  <2>1. e \in EventType
    BY DEF EventType
  <2>2. /\ record(e) /\ Streaming = 1 /\ Streaming' = 0 /\ effects' = effects
        /\ export' = "none"
    BY <1>9 DEF StreamEnds, ExportStep, Streaming
  <2> HIDE DEF e
  <2>3. Len(log) + 1 \in Nat
    BY <1>6
  <2>4. Stamped(Len(log) + 1, e) \in Recorded
    BY <2>1, <2>3 DEF Recorded
  <2>5. log' \in Seq(Recorded) /\ Len(log') = Len(log) + 1
    BY <1>6, <2>2, <2>4 DEF record
  <2>6. effects' = Len(log') + Cardinality(Applied)' + Streaming'
    BY <1>6, <2>2, <2>5, AppliedFinite
  <2>7. QED
    BY <1>6, <2>2, <2>5, <2>6 DEF Recording
<1>10. QED
  BY <1>2, <1>3, <1>4, <1>7, <1>8, <1>9 DEF ConsoleInv

\* A restart starts from the table, with an empty log and no handler running.
LEMMA InvRestart ==
  ASSUME ConsoleInv, Restart, UNCHANGED viewVars
  PROVE  ConsoleInv'
<1>1. ASSUME NEW m \in Slots
      PROVE  /\ calls'[m] = NoCall \/ CallOK(calls'[m])
             /\ calls[m] = NoCall => calls'[m] = NoCall
             /\ calls'[m].srv \notin {"persisted", "applied"}
             /\ calls'[m].cli = "waiting" <=> calls[m].cli = "waiting"
             /\ calls[m].cli = "waiting" => /\ calls'[m].op = calls[m].op
                                            /\ calls'[m].arg = calls[m].arg
  <2>1. CASE calls[m] = NoCall
    <3>1. m \notin InFlight
      BY <2>1, NoCallFacts DEF InFlight
    <3>2. calls'[m] = NoCall
      BY <2>1, <3>1 DEF Restart
    <3>3. QED
      BY <2>1, <3>2, NoCallFacts
  <2>2. CASE calls[m] # NoCall
    <3>1. m \in InFlight /\ CallOK(calls[m])
      BY <2>2, InFlightCalls DEF ConsoleInv, Slotted
    <3>2. CASE calls[m].srv \in {"done", "dead"}
      <4>1. calls'[m] = calls[m]
        BY <3>1, <3>2 DEF Restart
      <4>2. QED
        BY <2>2, <3>1, <3>2, <4>1
    <3>3. CASE calls[m].srv \notin {"done", "dead"} /\ calls[m].cli = "gone"
      <4>1. calls'[m] = NoCall
        BY <3>1, <3>3 DEF Restart
      <4>2. QED
        BY <2>2, <3>3, <4>1, NoCallFacts
    <3>4. CASE calls[m].srv \notin {"done", "dead"} /\ calls[m].cli # "gone"
      <4>1. calls'[m] = [calls[m] EXCEPT !.srv = "dead"]
        BY <3>1, <3>4 DEF Restart
      <4>2. /\ IsCall(calls'[m]) /\ calls'[m].op = calls[m].op /\ calls'[m].arg = calls[m].arg
            /\ calls'[m].srv = "dead" /\ calls'[m].cli = calls[m].cli
        BY <3>1, <4>1 DEF CallOK, IsCall
      <4>3. CallOK(calls'[m])
        BY <3>1, <4>2 DEF CallOK
      <4>4. QED
        BY <2>2, <4>2, <4>3
    <3>5. QED
      BY <3>2, <3>3, <3>4
  <2>3. QED
    BY <2>1, <2>2
<1>2. calls' = [m \in Slots |-> calls'[m]]
  BY DEF Restart
<1>3. Slotted'
  BY <1>1, <1>2 DEF ConsoleInv, Slotted, viewVars
<1>4. Viewing'
  BY <1>1, ViewKept DEF ConsoleInv, Awaits
<1>5. Configuration'
  <2>1. overlay' = overlay /\ configured' = LoadWithOverlay /\ LoadWithOverlay' = LoadWithOverlay
    BY DEF Restart, LoadWithOverlay, Overlaid
  <2>2. configured' = [k \in Keys |-> configured'[k]]
    BY <2>1 DEF LoadWithOverlay, Overlaid
  <2>3. \A m \in Slots : ~Persisting(m)'
    BY <1>1 DEF Persisting
  <2>4. QED
    BY <2>1, <2>2, <2>3 DEF ConsoleInv, Configuration
<1>6. Recording'
  <2>1. Applied' = {}
    BY <1>1 DEF Applied
  <2>2. Cardinality(Applied)' = 0
    BY <2>1, FS_EmptySet
  <2>3. /\ log' = <<>> /\ Len(log') = 0 /\ log' \in Seq(Recorded) /\ effects' = 0
        /\ export' = "none" /\ Streaming' = 0 /\ status' = status
    BY DEF Restart, Streaming
  <2>4. QED
    BY <2>2, <2>3 DEF ConsoleInv, Recording
<1>7. QED
  BY <1>3, <1>4, <1>5, <1>6 DEF ConsoleInv

-----------------------------------------------------------------------------
(* What the tab does to the calls. *)

\* The tab lets go of calls, leaving cs: what is left is as it was, or runs on
\* without the tab, and nothing the gateway has half done is forgotten.
Leaves(cs) ==
  /\ cs = [m \in Slots |-> cs[m]]
  /\ \A m \in Slots :
       \/ cs[m] = calls[m]
       \/ cs[m] = NoCall /\ calls[m].srv \notin {"persisted", "applied"}
       \/ /\ calls[m] # NoCall /\ CallOK(cs[m]) /\ cs[m].cli = "gone"
          /\ cs[m].srv = calls[m].srv /\ cs[m].arg = calls[m].arg

\* The steps of the tab that the gateway's part of the invariant survives.
Kept ==
  /\ calls' = [m \in Slots |-> calls'[m]]
  /\ \A m \in Slots : calls'[m] = NoCall \/ CallOK(calls'[m])
  /\ \A m \in Slots : \A phase \in {"persisted", "applied"} :
       calls'[m].srv = phase <=> calls[m].srv = phase
  /\ \A m \in Slots : calls[m].srv = "persisted" => calls'[m].arg = calls[m].arg
  /\ sent' \in 0..MaxCalls
  /\ \A m \in Slots : m > sent' => calls'[m] = NoCall

\* A step of the page that keeps the calls keeps what the gateway knows.
LEMMA InvKept ==
  ASSUME ConsoleInv, Kept, UNCHANGED serverVars
  PROVE  Slotted' /\ Configuration' /\ Recording'
<1>1. Slotted'
  BY DEF Kept, Slotted
<1>2. Configuration'
  BY ConfigKept DEF ConsoleInv, Kept, Persisting, serverVars, configVars
<1>3. Recording'
  <2>1. Applied' = Applied
    BY DEF Kept, Applied
  <2>2. QED
    BY <2>1, RecordingKept DEF ConsoleInv, serverVars
<1>4. QED
  BY <1>1, <1>2, <1>3

\* A call that is left runs on: its phase and what it persists stay.
LEMMA LeftCalls ==
  ASSUME Slotted, NEW cs, Leaves(cs), NEW m \in Slots
  PROVE  /\ cs[m] = NoCall \/ CallOK(cs[m])
         /\ \A phase \in {"persisted", "applied"} : cs[m].srv = phase <=> calls[m].srv = phase
         /\ calls[m].srv = "persisted" => cs[m].arg = calls[m].arg
         /\ calls[m] = NoCall => cs[m] = NoCall
  BY NoCallFacts DEF Slotted, Leaves

\* A page that only leaves calls keeps them for the gateway.
LEMMA KeptLeaving ==
  ASSUME Slotted, Leaves(calls'), sent' = sent
  PROVE  Kept
<1>1. calls' = [m \in Slots |-> calls'[m]]
  BY DEF Leaves
<1>2. PICK cs : cs = calls' /\ Leaves(cs)
  OBVIOUS
<1>3. QED
  BY <1>1, <1>2, LeftCalls DEF Slotted, Kept

\* Sending takes the next free slot and keeps every other call.
LEMMA KeptSending ==
  ASSUME Slotted, NEW cs, Leaves(cs), NEW op, NEW arg, NEW then, Sending(cs, op, arg, then),
         CallOK(Call(op, arg, then))
  PROVE  /\ Kept /\ sent + 1 \in Slots /\ calls[sent + 1] = NoCall
         /\ calls'[sent + 1] = Call(op, arg, then)
         /\ \A m \in Slots \ {sent + 1} : calls'[m] = cs[m]
<1>1. /\ sent \in 0..MaxCalls /\ sent < MaxCalls /\ MaxCalls \in Nat
      /\ cs = [m \in Slots |-> cs[m]] /\ sent' = sent + 1
  BY ApiAssumption DEF ApiAssumption, Slotted, Sending, CanSend, Leaves
<1>2. sent + 1 \in Slots /\ sent' \in 0..MaxCalls /\ \A m \in Slots : m > sent' => m > sent
  BY <1>1 DEF Slots
<1>3. calls[sent + 1] = NoCall
  BY <1>1, <1>2 DEF Slotted
<1>4. /\ calls' = [m \in Slots |-> calls'[m]] /\ calls'[sent + 1] = Call(op, arg, then)
      /\ \A m \in Slots \ {sent + 1} : calls'[m] = cs[m]
  BY <1>1, <1>2 DEF Sending
<1>5. calls'[sent + 1].srv = "queued"
  BY <1>4, NewCall
<1>6. \A m \in Slots : m > sent' => m # sent + 1
  BY <1>1 DEF Slots
<1>7. QED
  BY <1>1, <1>2, <1>3, <1>4, <1>5, <1>6, LeftCalls, NoCallFacts DEF Kept, Slotted

\* Leaving no call is a way of leaving calls.
LEMMA LeavesNone ==
  ASSUME Slotted
  PROVE  Leaves(calls)
  BY DEF Slotted, Leaves

\* A call whose connection breaks.
LEMMA CallGone ==
  ASSUME NEW c, CallOK(c), NEW d, d = [c EXCEPT !.cli = "gone"]
  PROVE  /\ CallOK(d) /\ d.cli = "gone" /\ d.srv = c.srv /\ d.arg = c.arg /\ d.op = c.op
<1>1. /\ IsCall(d) /\ d.op = c.op /\ d.arg = c.arg /\ d.srv = c.srv /\ d.cli = "gone"
      /\ d.wire = c.wire
  BY DEF CallOK, IsCall
<1>2. QED
  BY <1>1 DEF CallOK

\* Consuming an answer leaves that one call.
LEMMA LeavesSettled ==
  ASSUME Slotted, NEW n \in InFlight, NEW wire \in Wires(calls[n])
  PROVE  /\ Leaves(Settled(n, wire))
         /\ Settled(n, wire)[n] = NoCall \/ Settled(n, wire)[n].cli = "gone"
         /\ \A m \in Slots \ {n} : Settled(n, wire)[m] = calls[m]
<1>1. n \in Slots /\ CallOK(calls[n]) /\ calls[n] # NoCall /\ calls = [m \in Slots |-> calls[m]]
  BY InFlightCalls DEF Slotted
<1>2. PICK cs : cs = Settled(n, wire)
  OBVIOUS
<1>3. cs = [m \in Slots |-> cs[m]] /\ \A m \in Slots \ {n} : cs[m] = calls[m]
  BY <1>1, <1>2 DEF Settled
<1>4. CASE wire \in Severed /\ calls[n].srv \notin {"done", "dead"} /\ calls[n].op \notin Reads
  <2>1. cs[n] = [calls[n] EXCEPT !.cli = "gone"]
    BY <1>1, <1>2, <1>4 DEF Settled
  <2>2. /\ CallOK(cs[n]) /\ cs[n].cli = "gone" /\ cs[n].srv = calls[n].srv
        /\ cs[n].arg = calls[n].arg
    BY <1>1, <2>1, CallGone
  <2>3. QED
    BY <1>1, <1>2, <1>3, <2>2 DEF Leaves
<1>5. CASE ~(wire \in Severed /\ calls[n].srv \notin {"done", "dead"} /\ calls[n].op \notin Reads)
  <2>1. cs[n] = NoCall
    BY <1>1, <1>2, <1>5 DEF Settled
  <2>2. calls[n].srv \notin {"persisted", "applied"}
    <3>1. wire \in Severed \/ calls[n].srv \in {"done", "queued"}
      BY DEF Wires
    <3>2. QED
      BY <1>1, <1>5, <3>1 DEF CallOK, Reads
  <2>3. QED
    BY <1>1, <1>2, <1>3, <2>1, <2>2 DEF Leaves
<1>6. QED
  BY <1>4, <1>5

\* Unmounting a page leaves every call, and none is awaited after it.
LEMMA LeavesAbandoned ==
  ASSUME Slotted
  PROVE  Leaves(Abandoned) /\ \A m \in Slots : Abandoned[m].cli # "waiting"
<1>1. PICK cs : cs = Abandoned
  OBVIOUS
<1>2. ASSUME NEW m \in Slots
      PROVE  /\ cs[m].cli # "waiting"
             /\ \/ cs[m] = NoCall /\ calls[m].srv \notin {"persisted", "applied"}
                \/ /\ calls[m] # NoCall /\ CallOK(cs[m]) /\ cs[m].cli = "gone"
                   /\ cs[m].srv = calls[m].srv /\ cs[m].arg = calls[m].arg
  <2>1. CASE m \in InFlight /\ calls[m].op \notin Reads /\ calls[m].srv \notin {"done", "dead"}
    <3>1. cs[m] = [calls[m] EXCEPT !.cli = "gone"]
      BY <1>1, <2>1 DEF Abandoned
    <3>2. CallOK(calls[m]) /\ calls[m] # NoCall
      BY <2>1, InFlightCalls
    <3>3. /\ CallOK(cs[m]) /\ cs[m].cli = "gone" /\ cs[m].srv = calls[m].srv
          /\ cs[m].arg = calls[m].arg
      BY <3>1, <3>2, CallGone
    <3>4. QED
      BY <3>2, <3>3
  <2>2. CASE ~(m \in InFlight /\ calls[m].op \notin Reads /\ calls[m].srv \notin {"done", "dead"})
    <3>1. cs[m] = NoCall
      BY <1>1, <2>2 DEF Abandoned
    <3>2. calls[m].srv \notin {"persisted", "applied"}
      <4>1. CASE m \in InFlight
        <5>1. CallOK(calls[m])
          BY <4>1, InFlightCalls
        <5>2. QED
          BY <2>2, <4>1, <5>1 DEF CallOK, Reads
      <4>2. CASE m \notin InFlight
        BY <4>2, InFlightCalls, NoCallFacts DEF Slotted
      <4>3. QED
        BY <4>1, <4>2
    <3>3. QED
      BY <3>1, <3>2, NoCallFacts
  <2>3. QED
    BY <2>1, <2>2
<1>3. cs = [m \in Slots |-> cs[m]]
  BY <1>1 DEF Abandoned
<1>4. QED
  BY <1>1, <1>2, <1>3 DEF Leaves

-----------------------------------------------------------------------------
(* What the page awaits after a step of the tab. *)

\* One call more is awaited, and those in gone no longer.
Awaiting(op, arg, gone) ==
  /\ \E k \in Slots :
       /\ calls'[k].arg = arg
       /\ \A o \in Ops : Awaits(k, o)' <=> o = op
       /\ \A o \in Ops : ~Awaits(k, o)
       /\ \A m \in Slots \ {k} : \A o \in Ops : Awaits(m, o)' <=> Awaits(m, o) /\ m \notin gone
  /\ \A m \in Slots : \A o \in Ops : Awaits(m, o) /\ m \notin gone => calls'[m].arg = calls[m].arg

\* After a call is sent, it is awaited too, and of the others those that were not left.
LEMMA SendingAwaits ==
  ASSUME Slotted, NEW cs, Leaves(cs), NEW op \in Ops, NEW arg, NEW then, NEW gone,
         Sending(cs, op, arg, then), CallOK(Call(op, arg, then)),
         \A m \in Slots : IF m \in gone THEN cs[m].cli # "waiting" ELSE cs[m] = calls[m]
  PROVE  Kept /\ Awaiting(op, arg, gone)
<1>1. PICK k : k = sent + 1
  OBVIOUS
<1>2. /\ Kept /\ k \in Slots /\ calls[k] = NoCall /\ calls'[k] = Call(op, arg, then)
      /\ \A m \in Slots \ {k} : calls'[m] = cs[m]
  BY <1>1, KeptSending
<1>3. calls'[k].arg = arg /\ calls'[k].op = op /\ calls'[k].cli = "waiting"
  BY <1>2, NewCall
<1>4. \A o \in Ops : (Awaits(k, o)' <=> o = op) /\ ~Awaits(k, o)
  BY <1>2, <1>3, NoCallFacts DEF Awaits
<1>5. \A m \in Slots \ {k} : \A o \in Ops : Awaits(m, o)' <=> Awaits(m, o) /\ m \notin gone
  BY <1>2 DEF Awaits
<1>6. \A m \in Slots : \A o \in Ops :
        Awaits(m, o) /\ m \notin gone => calls'[m].arg = calls[m].arg
  BY <1>2, <1>4
<1>7. QED
  BY <1>2, <1>3, <1>4, <1>5, <1>6 DEF Awaiting

\* What is awaited after a page sends one more call.
LEMMA SendsAwaits ==
  ASSUME ConsoleInv, NEW op \in Ops, NEW arg, NEW then, NEW v, Sends(op, arg, then, v),
         CallOK(Call(op, arg, then))
  PROVE  /\ Slotted' /\ Configuration' /\ Recording' /\ Awaiting(op, arg, {})
         /\ view' = v /\ calm' \in BOOLEAN /\ fresh' \in BOOLEAN
<1>1. Kept /\ Awaiting(op, arg, {})
  BY LeavesNone, SendingAwaits DEF ConsoleInv, Sends
<1>2. Slotted' /\ Configuration' /\ Recording'
  BY <1>1, InvKept DEF Sends
<1>3. QED
  BY <1>1, <1>2 DEF ConsoleInv, Viewing, Sends

\* What is awaited after a page consumes an answer.
LEMMA SettlesAwaits ==
  ASSUME ConsoleInv, NEW n \in InFlight, NEW wire \in Wires(calls[n]), NEW v, NEW good \in BOOLEAN,
         Settles(n, wire, v, good)
  PROVE  /\ Slotted' /\ Configuration' /\ Recording'
         /\ \A m \in Slots : \A o \in Ops : Awaits(m, o)' <=> Awaits(m, o) /\ m # n
         /\ \A m \in Slots \ {n} : calls'[m] = calls[m]
         /\ view' = v /\ calm' \in BOOLEAN /\ fresh' \in BOOLEAN
<1>1. /\ Leaves(calls') /\ \A m \in Slots \ {n} : calls'[m] = calls[m]
      /\ calls'[n] = NoCall \/ calls'[n].cli = "gone"
  BY LeavesSettled DEF ConsoleInv, Settles
<1>2. Slotted' /\ Configuration' /\ Recording'
  BY <1>1, KeptLeaving, InvKept DEF ConsoleInv, Settles
<1>3. \A m \in Slots : \A o \in Ops : Awaits(m, o)' <=> Awaits(m, o) /\ m # n
  BY <1>1, NoCallFacts DEF Awaits
<1>4. QED
  BY <1>1, <1>2, <1>3 DEF ConsoleInv, Viewing, Settles

\* A page that only changes its own state changes no call.
LEMMA ShowsAwaits ==
  ASSUME ConsoleInv, NEW v, Shows(v)
  PROVE  /\ Slotted' /\ Configuration' /\ Recording'
         /\ calls' = calls /\ view' = v /\ calm' \in BOOLEAN /\ fresh' \in BOOLEAN
<1>1. Slotted'
  BY DEF ConsoleInv, Slotted, Shows
<1>2. Leaves(calls') /\ sent' = sent
  BY LeavesNone DEF ConsoleInv, Shows
<1>3. QED
  BY <1>1, <1>2, KeptLeaving, InvKept DEF ConsoleInv, Viewing, Shows

-----------------------------------------------------------------------------
(* The stack of cursors. *)

\* A sequence over any set is a cursor stack.
LEMMA StackOf ==
  ASSUME NEW S, NEW s \in Seq(S)
  PROVE  IsStack(s)
<1>1. DOMAIN s = 1..Len(s) /\ Len(s) \in Nat /\ s = [i \in 1..Len(s) |-> s[i]]
  OBVIOUS
<1>2. \A i \in 1..Len(s) : s[i] \in Range(s)
  BY <1>1 DEF Range
<1>3. s \in [1..Len(s) -> Range(s)]
  BY <1>1, <1>2
<1>4. QED
  BY <1>1, <1>3 DEF IsStack

\* Going to the next page puts its cursor on top.
LEMMA Pushed ==
  ASSUME NEW s, IsStack(s), NEW e
  PROVE  IsStack(Append(s, e)) /\ Last(Append(s, e)) = e
<1>1. PICK S : S = Range(s) \cup {e}
  OBVIOUS
<1>2. s \in Seq(S) /\ e \in S
  BY <1>1 DEF IsStack
<1>3. Append(s, e) \in Seq(S) /\ Len(Append(s, e)) = Len(s) + 1 /\ Append(s, e)[Len(s) + 1] = e
  BY <1>2
<1>4. QED
  BY <1>3, StackOf DEF Last

\* Going back keeps the stack a stack.
LEMMA Popped ==
  ASSUME NEW s, IsStack(s), Len(s) > 1
  PROVE  IsStack(Front(s))
<1>1. PICK S : S = Range(s)
  OBVIOUS
<1>2. s \in Seq(S)
  BY <1>1 DEF IsStack
<1>3. SubSeq(s, 1, Len(s) - 1) \in Seq(S)
  BY <1>2
<1>4. QED
  BY <1>3, StackOf DEF Front

\* The stack a table starts with.
LEMMA Bottom == IsStack(<<0>>) /\ Last(<<0>>) = 0
<1>1. <<0>> \in Seq({0})
  OBVIOUS
<1>2. QED
  BY <1>1, StackOf DEF Last

-----------------------------------------------------------------------------
(* The installs table. *)

\* The rows shown, and where they are from.
SameTable(v, w) ==
  w.name = v.name /\ w.rows = v.rows /\ w.stack = v.stack /\ w.shown = v.shown

SameModal(v, w) ==
  w.banTarget = v.banTarget /\ w.banReason = v.banReason /\ w.banSubmitting = v.banSubmitting

\* What the page's handlers make of its state.
LEMMA InstallsStack ==
  ASSUME NEW v, InstallsState(v), NEW x, IsStack(x), NEW w, w = [v EXCEPT !.stack = x]
  PROVE  /\ InstallsState(w) /\ SameModal(v, w) /\ w.loading = v.loading
         /\ w.name = v.name /\ w.stack = x
  BY DEF InstallsState, InstallsShape, SameModal

\* The installs page's spinner touches neither its modal nor its table.
LEMMA InstallsLoading ==
  ASSUME NEW v, InstallsState(v), NEW b \in BOOLEAN, NEW w, w = [v EXCEPT !.loading = b]
  PROVE  InstallsState(w) /\ SameModal(v, w) /\ SameTable(v, w) /\ w.loading = b
  BY DEF InstallsState, InstallsShape, SameModal, SameTable

\* What a loaded page shows: the answer's rows under the cursor asked for, the cursor stack as it was.
FilledBy(v, w, body, cursor) ==
  /\ w.name = v.name
  /\ w.rows = body.rows
  /\ w.stack = v.stack
  /\ w.shown = cursor

\* An answer fills the installs table, stops the spinner and leaves the modal alone.
LEMMA InstallsFilled ==
  ASSUME NEW v, InstallsState(v), NEW body, NEW cursor, NEW w, w = Filled(v, body, cursor)
  PROVE  InstallsState(w) /\ SameModal(v, w) /\ w.loading = FALSE /\ FilledBy(v, w, body, cursor)
<1>1. PICK w1 : w1 = [v EXCEPT !.rows = body.rows]
  OBVIOUS
<1>2. PICK w2 : w2 = [w1 EXCEPT !.next = body.next]
  OBVIOUS
<1>3. PICK w3 : w3 = [w2 EXCEPT !.shown = cursor]
  OBVIOUS
<1>4. PICK w4 : w4 = [w3 EXCEPT !.loading = FALSE]
  OBVIOUS
<1>5. InstallsState(w1) /\ SameModal(v, w1) /\ w1.rows = body.rows /\ w1.stack = v.stack
  BY <1>1 DEF InstallsState, InstallsShape, SameModal
<1>6. InstallsState(w2) /\ SameModal(v, w2) /\ w2.rows = w1.rows /\ w2.stack = w1.stack
  BY <1>2, <1>5 DEF InstallsState, InstallsShape, SameModal
<1>7. /\ InstallsState(w3) /\ SameModal(v, w3) /\ w3.rows = w2.rows /\ w3.stack = w2.stack
      /\ w3.shown = cursor
  BY <1>3, <1>6 DEF InstallsState, InstallsShape, SameModal
<1>8. /\ InstallsState(w4) /\ SameModal(v, w4) /\ w4.loading = FALSE
      /\ w4.rows = w3.rows /\ w4.stack = w3.stack /\ w4.shown = w3.shown
  BY <1>4, <1>7, InstallsLoading DEF SameModal, SameTable
<1>9. w = w4
  BY <1>1, <1>2, <1>3, <1>4, Zenon DEF Filled
<1>10. QED
  BY <1>5, <1>6, <1>7, <1>8, <1>9 DEF InstallsState, InstallsShape, FilledBy

\* Closing the modal touches nothing else.
LEMMA InstallsShut ==
  ASSUME NEW v, InstallsState(v), NEW w, w = [v EXCEPT !.banTarget = None]
  PROVE  /\ InstallsState(w) /\ w.loading = v.loading /\ w.banSubmitting = v.banSubmitting
         /\ w.banTarget = None /\ SameTable(v, w)
  BY DEF InstallsState, InstallsShape, SameTable

\* Clearing the reason touches nothing else.
LEMMA InstallsUnwritten ==
  ASSUME NEW v, InstallsState(v), NEW w, w = [v EXCEPT !.banReason = None]
  PROVE  /\ InstallsState(w) /\ w.loading = v.loading /\ w.banSubmitting = v.banSubmitting
         /\ SameTable(v, w)
  BY DEF InstallsState, InstallsShape, SameTable

\* The modal's submit flag touches nothing else.
LEMMA InstallsSubmitting ==
  ASSUME NEW v, InstallsState(v), NEW b \in BOOLEAN, NEW w, w = [v EXCEPT !.banSubmitting = b]
  PROVE  /\ InstallsState(w) /\ w.loading = v.loading /\ w.banSubmitting = b
         /\ w.banTarget = v.banTarget /\ w.banReason = v.banReason /\ SameTable(v, w)
  BY DEF InstallsState, InstallsShape, SameTable

\* On this page only its own part of Viewing is at stake.
LEMMA ViewingInstalls ==
  ASSUME InstallsState(view)', calm' \in BOOLEAN, fresh' \in BOOLEAN,
         view'.banSubmitting <=> \E n \in Slots : Awaits(n, "ban")',
         \A m, n \in Slots : Awaits(m, "ban")' /\ Awaits(n, "ban")' => m = n,
         view'.loading => \E n \in Slots : Awaits(n, "installs")'
  PROVE  Viewing'
<1>1. view'.name = "installs"
  BY DEF InstallsState, InstallsShape
<1>2. QED
  BY <1>1 DEF Viewing, Names, OnInstallsView, OnAuditView, OnConfigView,
              OnInstalls, OnAudit, OnConfig

\* The operations the pages use.
LEMMA OpsAre ==
  /\ "ban" \in Ops /\ "unban" \in Ops /\ "installs" \in Ops /\ "audit" \in Ops
  /\ "config" \in Ops /\ "postConfig" \in Ops
  BY DEF Ops, Reads, Mutations

\* A read is a well-formed call.
LEMMA ReadCall ==
  ASSUME NEW op \in {"installs", "audit", "config"}, NEW arg
  PROVE  CallOK(Call(op, arg, None))
<1>1. LET c == Call(op, arg, None)
      IN  IsCall(c) /\ c.op = op /\ c.srv = "queued" /\ c.cli = "waiting"
  BY NewCall
<1>2. QED
  BY <1>1, OpsAre DEF CallOK, Mutations

\* Loading the installs table keeps the invariant, whatever stack it pages to.
LEMMA InvLoadInstalls ==
  ASSUME ConsoleInv, OnInstalls, NEW v, InstallsState(v), SameModal(view, v), NEW cursor,
         LoadInstalls(v, cursor)
  PROVE  ConsoleInv'
<1>1. PICK w : w = [v EXCEPT !.loading = TRUE]
  OBVIOUS
<1>2. /\ Slotted' /\ Configuration' /\ Recording' /\ Awaiting("installs", cursor, {})
      /\ view' = w /\ calm' \in BOOLEAN /\ fresh' \in BOOLEAN
  BY <1>1, SendsAwaits, ReadCall, OpsAre DEF LoadInstalls
<1>3. InstallsState(w) /\ SameModal(v, w) /\ w.loading = TRUE
  BY <1>1, InstallsLoading
<1>4. view'.banSubmitting <=> view.banSubmitting
  BY <1>2, <1>3 DEF SameModal
<1>5. OnInstallsView
  BY DEF ConsoleInv, Viewing
<1>6. PICK k \in Slots :
        /\ Awaits(k, "installs")' /\ ~Awaits(k, "ban")' /\ ~Awaits(k, "ban")
        /\ \A m \in Slots \ {k} : Awaits(m, "ban")' <=> Awaits(m, "ban")
  BY <1>2, OpsAre DEF Awaiting
<1>7. Viewing'
  BY <1>2, <1>3, <1>4, <1>5, <1>6, ViewingInstalls DEF OnInstallsView
<1>8. QED
  BY <1>2, <1>7 DEF ConsoleInv

\* A load of the table, wherever the stack is, is a load of its top.
LEMMA PagesInstalls ==
  ASSUME ConsoleInv, ReloadInstalls \/ InstallsNext \/ InstallsPrev
  PROVE  \E v, cursor : /\ InstallsState(v) /\ SameModal(view, v) /\ v.name = "installs"
                        /\ cursor = Last(v.stack) /\ LoadInstalls(v, cursor)
<1>1. OnInstalls /\ InstallsState(view)
  BY DEF ConsoleInv, Viewing, OnInstallsView, ReloadInstalls, InstallsNext, InstallsPrev
<1>2. CASE ReloadInstalls
  BY <1>1, <1>2 DEF ReloadInstalls, Current, OnInstalls, SameModal
<1>3. CASE InstallsNext
  <2>1. PICK x : x = Append(view.stack, view.next)
    OBVIOUS
  <2>2. PICK v : v = [view EXCEPT !.stack = x]
    OBVIOUS
  <2>3. LoadInstalls(v, view.next)
    BY <1>3, <2>1, <2>2 DEF InstallsNext
  <2>4. IsStack(x) /\ Last(x) = view.next
    BY <1>1, <2>1, Pushed DEF InstallsState
  <2>5. InstallsState(v) /\ SameModal(view, v) /\ v.name = "installs" /\ v.stack = x
    BY <1>1, <2>2, <2>4, InstallsStack DEF OnInstalls
  <2>6. QED
    BY <2>3, <2>4, <2>5
<1>4. CASE InstallsPrev
  <2>1. PICK x : x = Front(view.stack)
    OBVIOUS
  <2>2. PICK v : v = [view EXCEPT !.stack = x]
    OBVIOUS
  <2>3. LoadInstalls(v, Last(x))
    BY <1>4, <2>1, <2>2 DEF InstallsPrev
  <2>4. IsStack(x)
    BY <1>1, <1>4, <2>1, Popped DEF InstallsState, InstallsPrev
  <2>5. InstallsState(v) /\ SameModal(view, v) /\ v.name = "installs" /\ v.stack = x
    BY <1>1, <2>2, <2>4, InstallsStack DEF OnInstalls
  <2>6. QED
    BY <2>3, <2>5
<1>5. QED
  BY <1>2, <1>3, <1>4

\* Paging and reloading the installs keep the invariant.
LEMMA InvInstallsPaging ==
  ASSUME ConsoleInv, ReloadInstalls \/ InstallsNext \/ InstallsPrev
  PROVE  ConsoleInv'
<1>1. OnInstalls
  BY DEF ReloadInstalls, InstallsNext, InstallsPrev
<1>2. QED
  BY <1>1, PagesInstalls, InvLoadInstalls

\* Steps that only touch the modal.
OnlyModal(w) ==
  /\ InstallsState(w) /\ SameTable(view, w)
  /\ w.loading = view.loading /\ w.banSubmitting = view.banSubmitting

\* Opening, writing in and cancelling the modal change nothing but the modal.
LEMMA ShowsModal ==
  ASSUME ConsoleInv,
         (\E id \in 1..Installs : OpenBan(id)) \/ TypeReason \/ CancelBan
  PROVE  \E w : OnlyModal(w) /\ Shows(w)
<1>1. InstallsState(view)
  BY DEF ConsoleInv, Viewing, OnInstallsView, OpenBan, TypeReason, CancelBan
<1>2. ASSUME NEW id \in 1..Installs, OpenBan(id)
      PROVE  \E w : OnlyModal(w) /\ Shows(w)
  <2>1. PICK w1 : w1 = [view EXCEPT !.banTarget = id]
    OBVIOUS
  <2>2. PICK w : w = [w1 EXCEPT !.banReason = None]
    OBVIOUS
  <2>3. Shows(w)
    <3>1. [view EXCEPT !.banTarget = id, !.banReason = None] = w
      BY <2>1, <2>2, Zenon
    <3>2. QED
      BY <1>2, <3>1, Zenon DEF OpenBan
  <2>4. /\ InstallsShape(w1) /\ SameTable(view, w1) /\ w1.loading = view.loading
        /\ w1.banTarget = id /\ w1.banSubmitting = view.banSubmitting
    BY <1>1, <2>1 DEF InstallsState, InstallsShape, SameTable
  <2>5. /\ InstallsShape(w) /\ SameTable(view, w) /\ w.loading = view.loading
        /\ w.banTarget = id /\ w.banReason = None /\ w.banSubmitting = view.banSubmitting
    BY <2>2, <2>4 DEF InstallsShape, SameTable
  <2>6. OnlyModal(w)
    BY <1>1, <2>5 DEF InstallsState, OnlyModal, SameTable
  <2>7. QED
    BY <2>3, <2>6
<1>3. ASSUME TypeReason
      PROVE  \E w : OnlyModal(w) /\ Shows(w)
  <2>1. PICK r \in {view.banTarget, None} : Shows([view EXCEPT !.banReason = r])
    BY <1>3 DEF TypeReason
  <2>2. PICK w : w = [view EXCEPT !.banReason = r]
    OBVIOUS
  <2>3. OnlyModal(w)
    BY <1>1, <2>2 DEF InstallsState, InstallsShape, SameTable, OnlyModal
  <2>4. QED
    BY <2>1, <2>2, <2>3
<1>4. ASSUME CancelBan
      PROVE  \E w : OnlyModal(w) /\ Shows(w)
  <2>1. PICK w : w = [view EXCEPT !.banTarget = None]
    OBVIOUS
  <2>2. OnlyModal(w)
    BY <1>1, <2>1, InstallsShut DEF OnlyModal
  <2>3. QED
    BY <1>4, <2>1, <2>2 DEF CancelBan
<1>5. QED
  BY <1>2, <1>3, <1>4

\* Opening, writing in and cancelling the modal keep the invariant.
LEMMA InvModal ==
  ASSUME ConsoleInv,
         (\E id \in 1..Installs : OpenBan(id)) \/ TypeReason \/ CancelBan
  PROVE  ConsoleInv'
<1>1. OnInstalls /\ OnInstallsView
  BY DEF ConsoleInv, Viewing, OpenBan, TypeReason, CancelBan
<1>2. PICK w : /\ InstallsState(w) /\ w.loading = view.loading
               /\ w.banSubmitting = view.banSubmitting /\ Shows(w)
  BY ShowsModal DEF OnlyModal
<1>3. /\ Slotted' /\ Configuration' /\ Recording'
      /\ calls' = calls /\ view' = w /\ calm' \in BOOLEAN /\ fresh' \in BOOLEAN
  BY <1>2, ShowsAwaits
<1>4. \A m, op : Awaits(m, op)' <=> Awaits(m, op)
  BY <1>3 DEF Awaits
<1>5. Viewing'
  BY <1>1, <1>2, <1>3, <1>4, ViewingInstalls DEF OnInstallsView
<1>6. QED
  BY <1>3, <1>5 DEF ConsoleInv

\* A ban with its target's reason and an unban are well-formed calls.
LEMMA MutationCall ==
  ASSUME NEW op \in Mutations, NEW arg, NEW then, arg.id \in 1..Installs,
         arg.reason = IF op = "ban" THEN arg.id ELSE None
  PROVE  CallOK(Call(op, arg, then))
<1>1. LET c == Call(op, arg, then)
      IN  IsCall(c) /\ c.op = op /\ c.arg = arg /\ c.srv = "queued" /\ c.cli = "waiting"
  BY NewCall
<1>2. QED
  BY <1>1, OpsAre DEF CallOK, Mutations

\* Confirming sends one ban, with the target's reason, and sets the flag for it.
LEMMA InvConfirmBan ==
  ASSUME ConsoleInv, ConfirmBan
  PROVE  ConsoleInv'
<1> DEFINE arg == [id |-> view.banTarget, reason |-> view.banReason]
<1>1. OnInstallsView /\ InstallsState(view) /\ ~view.banSubmitting
  BY DEF ConsoleInv, Viewing, OnInstallsView, ConfirmBan
<1>2. view.banTarget \in 1..Installs /\ view.banReason = view.banTarget
  BY <1>1 DEF ConfirmBan, ModalShut, InstallsState
<1>3. PICK w : w = [view EXCEPT !.banSubmitting = TRUE]
  OBVIOUS
<1>4. /\ InstallsState(w) /\ w.loading = view.loading /\ w.banSubmitting = TRUE
  BY <1>1, <1>3, InstallsSubmitting
<1>5. CallOK(Call("ban", arg, Current))
  <2>1. arg.id = view.banTarget /\ arg.reason = view.banReason
    OBVIOUS
  <2> HIDE DEF arg
  <2>2. QED
    BY <1>2, <2>1, MutationCall DEF Mutations
<1>6. /\ Slotted' /\ Configuration' /\ Recording' /\ Awaiting("ban", arg, {})
      /\ view' = w /\ calm' \in BOOLEAN /\ fresh' \in BOOLEAN
  <2>1. Sends("ban", arg, Current, w)
    BY <1>3 DEF ConfirmBan
  <2> HIDE DEF arg
  <2>2. QED
    BY <1>5, <2>1, SendsAwaits, OpsAre
<1>7. PICK k \in Slots :
        /\ Awaits(k, "ban")' /\ ~Awaits(k, "installs")
        /\ \A m \in Slots \ {k} : /\ Awaits(m, "ban")' <=> Awaits(m, "ban")
                                  /\ Awaits(m, "installs")' <=> Awaits(m, "installs")
  BY <1>6, OpsAre DEF Awaiting
<1>8. \A m \in Slots : ~Awaits(m, "ban")
  BY <1>1 DEF OnInstallsView, ConfirmBan
<1>9. OnInstalls
  BY DEF ConfirmBan
<1>10. Viewing'
  BY <1>1, <1>4, <1>6, <1>7, <1>8, <1>9, ViewingInstalls DEF OnInstallsView
<1>11. QED
  BY <1>6, <1>10 DEF ConsoleInv

\* Sending an unban keeps the invariant.
LEMMA InvUnban ==
  ASSUME ConsoleInv, NEW id \in 1..Installs, Unban(id)
  PROVE  ConsoleInv'
<1> DEFINE arg == [id |-> id, reason |-> None]
<1>1. OnInstalls /\ OnInstallsView /\ InstallsState(view)
  BY DEF ConsoleInv, Viewing, OnInstallsView, Unban
<1>2. CallOK(Call("unban", arg, Current))
  <2>1. arg.id = id /\ arg.reason = None
    OBVIOUS
  <2> HIDE DEF arg
  <2>2. QED
    BY <2>1, MutationCall DEF Mutations
<1>3. /\ Slotted' /\ Configuration' /\ Recording' /\ Awaiting("unban", arg, {})
      /\ view' = view /\ calm' \in BOOLEAN /\ fresh' \in BOOLEAN
  <2>1. Sends("unban", arg, Current, view)
    BY DEF Unban
  <2> HIDE DEF arg
  <2>2. QED
    BY <1>2, <2>1, SendsAwaits, OpsAre
<1>4. \A m \in Slots : /\ Awaits(m, "ban")' <=> Awaits(m, "ban")
                       /\ Awaits(m, "installs")' <=> Awaits(m, "installs")
  BY <1>3, OpsAre DEF Awaiting
<1>5. Viewing'
  BY <1>1, <1>3, <1>4, ViewingInstalls DEF OnInstallsView
<1>6. QED
  BY <1>3, <1>5 DEF ConsoleInv

\* An answer to a load keeps the invariant, on the page and after it was left.
LEMMA InvInstallsLoaded ==
  ASSUME ConsoleInv, NEW n \in InFlight, NEW wire \in Wires(calls[n]), InstallsLoaded(n, wire)
  PROVE  ConsoleInv'
<1>1. OnInstalls /\ OnInstallsView /\ InstallsState(view) /\ ~Awaits(n, "ban")
  BY DEF ConsoleInv, Viewing, OnInstallsView, InstallsLoaded, Waiting, Awaits
<1>2. PICK w, good :
        /\ good \in BOOLEAN /\ InstallsState(w) /\ SameModal(view, w) /\ w.loading = FALSE
        /\ Settles(n, wire, w, good)
  <2>1. PICK body, kind : body = request(wire).body /\ kind = request(wire).kind
    OBVIOUS
  <2>2. PICK good \in BOOLEAN : good = (kind = "ok" /\ calm)
    OBVIOUS
  <2>3. CASE kind = "ok"
    <3>1. PICK w : w = Filled(view, body, calls[n].arg)
      OBVIOUS
    <3>2. Settles(n, wire, w, good)
      BY <2>1, <2>2, <2>3, <3>1 DEF InstallsLoaded, Fills
    <3>3. InstallsState(w) /\ SameModal(view, w) /\ w.loading = FALSE
      BY <1>1, <3>1, InstallsFilled
    <3>4. QED
      BY <3>2, <3>3
  <2>4. CASE kind # "ok"
    <3>1. PICK w : w = [view EXCEPT !.loading = FALSE]
      OBVIOUS
    <3>2. Settles(n, wire, w, good)
      BY <2>1, <2>2, <2>4, <3>1 DEF InstallsLoaded, Fills
    <3>3. InstallsState(w) /\ SameModal(view, w) /\ w.loading = FALSE
      BY <1>1, <3>1, InstallsLoading
    <3>4. QED
      BY <3>2, <3>3
  <2>5. QED
    BY <2>3, <2>4
<1>3. /\ Slotted' /\ Configuration' /\ Recording'
      /\ \A m \in Slots : \A o \in Ops : Awaits(m, o)' <=> Awaits(m, o) /\ m # n
      /\ view' = w /\ calm' \in BOOLEAN /\ fresh' \in BOOLEAN
  BY <1>2, SettlesAwaits
<1>4. \A m \in Slots : Awaits(m, "ban")' <=> Awaits(m, "ban")
  BY <1>1, <1>3, OpsAre
<1>5. Viewing'
  BY <1>1, <1>2, <1>3, <1>4, ViewingInstalls DEF OnInstallsView, SameModal
<1>6. QED
  BY <1>3, <1>5 DEF ConsoleInv

\* reloadCurrent after the call n, whatever became of the modal.
LEMMA InvReloadThen ==
  ASSUME ConsoleInv, OnInstalls, NEW n \in InFlight, NEW wire \in Wires(calls[n]), NEW v,
         InstallsState(v), v.banSubmitting <=> \E m \in Slots \ {n} : Awaits(m, "ban"),
         ReloadThen(n, wire, v)
  PROVE  ConsoleInv'
<1>1. PICK cs : cs = Settled(n, wire)
  OBVIOUS
<1>2. PICK then : then = calls[n].then
  OBVIOUS
<1>3. /\ Leaves(cs) /\ Sending(cs, "installs", then, None)
      /\ \A m \in Slots : IF m \in {n} THEN cs[m].cli # "waiting" ELSE cs[m] = calls[m]
  BY <1>1, <1>2, LeavesSettled, NoCallFacts DEF ConsoleInv, ReloadThen
<1>4. Kept /\ Awaiting("installs", then, {n})
  BY <1>3, SendingAwaits, ReadCall, OpsAre DEF ConsoleInv
<1>5. Slotted' /\ Configuration' /\ Recording'
  BY <1>4, InvKept DEF ReloadThen
<1>6. PICK w : w = [v EXCEPT !.loading = TRUE]
  OBVIOUS
<1>7. InstallsState(w) /\ SameModal(v, w) /\ w.loading = TRUE
  BY <1>6, InstallsLoading
<1>8. view' = w /\ calm' \in BOOLEAN /\ fresh' \in BOOLEAN
  BY <1>6 DEF ReloadThen
<1>9. PICK k \in Slots :
        /\ Awaits(k, "installs")' /\ ~Awaits(k, "ban")' /\ ~Awaits(k, "ban")
        /\ \A m \in Slots \ {k} : Awaits(m, "ban")' <=> Awaits(m, "ban") /\ m # n
  BY <1>4, OpsAre DEF Awaiting
<1>10. OnInstallsView
  BY DEF ConsoleInv, Viewing
<1>11. Viewing'
  BY <1>7, <1>8, <1>9, <1>10, ViewingInstalls DEF OnInstallsView, SameModal
<1>12. QED
  BY <1>5, <1>11 DEF ConsoleInv

\* The page after call n has failed, whatever became of the spinner of the modal.
LEMMA InvSettlesInstalls ==
  ASSUME ConsoleInv, OnInstalls, NEW n \in InFlight, NEW wire \in Wires(calls[n]), NEW v,
         InstallsState(v), v.banSubmitting <=> \E m \in Slots \ {n} : Awaits(m, "ban"),
         v.loading = view.loading, ~Awaits(n, "installs"), NEW good \in BOOLEAN,
         Settles(n, wire, v, good)
  PROVE  ConsoleInv'
<1>1. /\ Slotted' /\ Configuration' /\ Recording'
      /\ \A m \in Slots : \A o \in Ops : Awaits(m, o)' <=> Awaits(m, o) /\ m # n
      /\ view' = v /\ calm' \in BOOLEAN /\ fresh' \in BOOLEAN
  BY SettlesAwaits
<1>2. /\ \A m \in Slots : Awaits(m, "ban")' <=> Awaits(m, "ban") /\ m # n
      /\ \A m \in Slots : Awaits(m, "installs")' <=> Awaits(m, "installs")
  BY <1>1, OpsAre
<1>3. OnInstallsView
  BY DEF ConsoleInv, Viewing
<1>4. Viewing'
  BY <1>1, <1>2, <1>3, ViewingInstalls DEF OnInstallsView
<1>5. QED
  BY <1>1, <1>4 DEF ConsoleInv

\* The end of a ban clears the flag that stood for it.
LEMMA InvBanDone ==
  ASSUME ConsoleInv, NEW n \in InFlight, NEW wire \in Wires(calls[n]), BanDone(n, wire)
  PROVE  ConsoleInv'
<1>1. OnInstalls /\ OnInstallsView /\ InstallsState(view) /\ n \in Slots
  BY DEF ConsoleInv, Viewing, OnInstallsView, BanDone, InFlight
<1>2. Awaits(n, "ban") /\ ~Awaits(n, "installs")
  BY DEF BanDone, Waiting, Awaits
<1>3. \A m \in Slots \ {n} : ~Awaits(m, "ban")
  BY <1>1, <1>2 DEF OnInstallsView
<1>4. PICK idle : idle = [view EXCEPT !.banSubmitting = FALSE]
  OBVIOUS
<1>5. InstallsState(idle) /\ idle.loading = view.loading /\ idle.banSubmitting = FALSE
  BY <1>1, <1>4, InstallsSubmitting
<1>6. PICK res : res = request(wire)
  OBVIOUS
<1>7. CASE res.kind = "ok"
  <2>1. PICK w1, w : w1 = [idle EXCEPT !.banTarget = None] /\ w = [w1 EXCEPT !.banReason = None]
    OBVIOUS
  <2>2. [idle EXCEPT !.banTarget = None, !.banReason = None] = w
    BY <2>1, Zenon
  <2>3. ReloadThen(n, wire, w)
    BY <1>4, <1>6, <1>7, <2>2, Zenon DEF BanDone
  <2>4. InstallsState(w1) /\ w1.banSubmitting = FALSE
    BY <1>5, <2>1, InstallsShut
  <2>5. InstallsState(w) /\ w.banSubmitting = FALSE
    BY <2>1, <2>4, InstallsUnwritten
  <2>6. QED
    BY <1>1, <1>3, <2>3, <2>5, InvReloadThen
<1>8. CASE res.kind # "ok"
  <2>1. PICK good \in BOOLEAN : good = AsGood(res)
    BY DEF AsGood, Definite
  <2>2. Settles(n, wire, idle, good)
    BY <1>4, <1>6, <1>8, <2>1, Zenon DEF BanDone
  <2>3. QED
    BY <1>1, <1>2, <1>3, <1>5, <2>2, InvSettlesInstalls
<1>9. QED
  BY <1>7, <1>8

\* The end of an unban keeps the invariant.
LEMMA InvUnbanDone ==
  ASSUME ConsoleInv, NEW n \in InFlight, NEW wire \in Wires(calls[n]), UnbanDone(n, wire)
  PROVE  ConsoleInv'
<1>1. OnInstalls /\ OnInstallsView /\ InstallsState(view) /\ n \in Slots
  BY DEF ConsoleInv, Viewing, OnInstallsView, UnbanDone, InFlight
<1>2. ~Awaits(n, "ban") /\ ~Awaits(n, "installs")
  BY DEF UnbanDone, Waiting, Awaits
<1>3. view.banSubmitting <=> \E m \in Slots \ {n} : Awaits(m, "ban")
  BY <1>1, <1>2 DEF OnInstallsView
<1>4. PICK res : res = request(wire)
  OBVIOUS
<1>5. CASE res.kind = "ok"
  <2>1. ReloadThen(n, wire, view)
    BY <1>4, <1>5, Zenon DEF UnbanDone
  <2>2. QED
    BY <1>1, <1>3, <2>1, InvReloadThen
<1>6. CASE res.kind # "ok"
  <2>1. PICK good \in BOOLEAN : good = AsGood(res)
    BY DEF AsGood, Definite
  <2>2. Settles(n, wire, view, good)
    BY <1>4, <1>6, <2>1, Zenon DEF UnbanDone
  <2>3. QED
    BY <1>1, <1>2, <1>3, <2>2, InvSettlesInstalls
<1>7. QED
  BY <1>5, <1>6

-----------------------------------------------------------------------------
(* The audit table. *)

\* Paging the audit table changes its stack only.
LEMMA AuditStack ==
  ASSUME NEW v, AuditState(v), NEW x, IsStack(x), NEW w, w = [v EXCEPT !.stack = x]
  PROVE  AuditState(w) /\ w.name = v.name /\ w.stack = x
  BY DEF AuditState

\* The audit page's spinner does not touch its table.
LEMMA AuditLoading ==
  ASSUME NEW v, AuditState(v), NEW b \in BOOLEAN, NEW w, w = [v EXCEPT !.loading = b]
  PROVE  AuditState(w) /\ SameTable(v, w) /\ w.loading = b
  BY DEF AuditState, SameTable

\* An answer fills the audit table and stops the spinner.
LEMMA AuditFilled ==
  ASSUME NEW v, AuditState(v), NEW body, NEW cursor, NEW w, w = Filled(v, body, cursor)
  PROVE  AuditState(w) /\ w.loading = FALSE /\ FilledBy(v, w, body, cursor)
<1>1. PICK w1 : w1 = [v EXCEPT !.rows = body.rows]
  OBVIOUS
<1>2. PICK w2 : w2 = [w1 EXCEPT !.next = body.next]
  OBVIOUS
<1>3. PICK w3 : w3 = [w2 EXCEPT !.shown = cursor]
  OBVIOUS
<1>4. PICK w4 : w4 = [w3 EXCEPT !.loading = FALSE]
  OBVIOUS
<1>5. AuditState(w1) /\ w1.rows = body.rows /\ w1.stack = v.stack
  BY <1>1 DEF AuditState
<1>6. AuditState(w2) /\ w2.rows = body.rows /\ w2.stack = v.stack
  BY <1>2, <1>5 DEF AuditState
<1>7. AuditState(w3) /\ w3.rows = body.rows /\ w3.stack = v.stack /\ w3.shown = cursor
  BY <1>3, <1>6 DEF AuditState
<1>8. /\ AuditState(w4) /\ w4.loading = FALSE
      /\ w4.rows = body.rows /\ w4.stack = v.stack /\ w4.shown = cursor
  BY <1>4, <1>7, AuditLoading DEF SameTable
<1>9. w = w4
  BY <1>1, <1>2, <1>3, <1>4, Zenon DEF Filled
<1>10. QED
  BY <1>8, <1>9 DEF AuditState, FilledBy

\* What a step has to establish when the audit page is mounted after it.
LEMMA ViewingAudit ==
  ASSUME AuditState(view)', calm' \in BOOLEAN, fresh' \in BOOLEAN,
         view'.loading => \E n \in Slots : Awaits(n, "audit")'
  PROVE  Viewing'
<1>1. view'.name = "audit"
  BY DEF AuditState
<1>2. QED
  BY <1>1 DEF Viewing, Names, OnInstallsView, OnAuditView, OnConfigView,
              OnInstalls, OnAudit, OnConfig

\* Every paging action of the audit page is a load of the cursor on top of the stack.
LEMMA PagesAudit ==
  ASSUME ConsoleInv, ReloadAudit \/ AuditNext \/ AuditPrev
  PROVE  \E v, cursor : /\ AuditState(v) /\ v.name = "audit" /\ cursor = Last(v.stack)
                        /\ LoadAudit(v, cursor)
<1>1. OnAudit /\ AuditState(view)
  BY DEF ConsoleInv, Viewing, OnAuditView, ReloadAudit, AuditNext, AuditPrev
<1>2. PICK x, v, cursor : /\ v = [view EXCEPT !.stack = x] /\ IsStack(x) /\ cursor = Last(x)
                          /\ LoadAudit(v, cursor)
  <2>1. CASE ReloadAudit
    BY <2>1, Bottom DEF ReloadAudit
  <2>2. CASE AuditNext
    <3>1. PICK x : x = Append(view.stack, view.next)
      OBVIOUS
    <3>2. LoadAudit([view EXCEPT !.stack = x], view.next)
      BY <2>2, <3>1 DEF AuditNext
    <3>3. IsStack(x) /\ Last(x) = view.next
      BY <1>1, <3>1, Pushed DEF AuditState
    <3>4. QED
      BY <3>2, <3>3
  <2>3. CASE AuditPrev
    <3>1. PICK x : x = Front(view.stack)
      OBVIOUS
    <3>2. LoadAudit([view EXCEPT !.stack = x], Last(x))
      BY <2>3, <3>1 DEF AuditPrev
    <3>3. IsStack(x)
      BY <1>1, <2>3, <3>1, Popped DEF AuditState, AuditPrev
    <3>4. QED
      BY <3>2, <3>3
  <2>4. QED
    BY <2>1, <2>2, <2>3
<1>3. AuditState(v) /\ v.name = "audit" /\ v.stack = x
  BY <1>1, <1>2, AuditStack DEF OnAudit
<1>4. QED
  BY <1>2, <1>3

\* Paging and reloading the audit events keep the invariant.
LEMMA InvAuditPaging ==
  ASSUME ConsoleInv, ReloadAudit \/ AuditNext \/ AuditPrev
  PROVE  ConsoleInv'
<1>1. PICK v, cursor : AuditState(v) /\ LoadAudit(v, cursor)
  BY PagesAudit
<1>2. PICK w : w = [v EXCEPT !.loading = TRUE]
  OBVIOUS
<1>3. AuditState(w) /\ w.loading = TRUE
  BY <1>1, <1>2, AuditLoading
<1>4. /\ Slotted' /\ Configuration' /\ Recording' /\ Awaiting("audit", cursor, {})
      /\ view' = w /\ calm' \in BOOLEAN /\ fresh' \in BOOLEAN
  BY <1>1, <1>2, SendsAwaits, ReadCall, OpsAre DEF LoadAudit
<1>5. \E k \in Slots : Awaits(k, "audit")'
  BY <1>4, OpsAre DEF Awaiting
<1>6. QED
  BY <1>3, <1>4, <1>5, ViewingAudit DEF ConsoleInv

\* An answer to a load of the audit page keeps the invariant.
LEMMA InvAuditLoaded ==
  ASSUME ConsoleInv, NEW n \in InFlight, NEW wire \in Wires(calls[n]), AuditLoaded(n, wire)
  PROVE  ConsoleInv'
<1>1. OnAudit /\ AuditState(view)
  BY DEF ConsoleInv, Viewing, OnAuditView, AuditLoaded
<1>2. PICK w, good :
        good \in BOOLEAN /\ AuditState(w) /\ w.loading = FALSE /\ Settles(n, wire, w, good)
  <2>1. PICK body, kind : body = request(wire).body /\ kind = request(wire).kind
    OBVIOUS
  <2>2. PICK good \in BOOLEAN : good = (kind = "ok" /\ calm)
    OBVIOUS
  <2>3. CASE kind = "ok"
    <3>1. PICK w : w = Filled(view, body, calls[n].arg)
      OBVIOUS
    <3>2. Settles(n, wire, w, good)
      BY <2>1, <2>2, <2>3, <3>1 DEF AuditLoaded, Fills
    <3>3. AuditState(w) /\ w.loading = FALSE
      BY <1>1, <3>1, AuditFilled
    <3>4. QED
      BY <3>2, <3>3
  <2>4. CASE kind # "ok"
    <3>1. PICK w : w = [view EXCEPT !.loading = FALSE]
      OBVIOUS
    <3>2. Settles(n, wire, w, good)
      BY <2>1, <2>2, <2>4, <3>1 DEF AuditLoaded, Fills
    <3>3. AuditState(w) /\ w.loading = FALSE
      BY <1>1, <3>1, AuditLoading
    <3>4. QED
      BY <3>2, <3>3
  <2>5. QED
    BY <2>3, <2>4
<1>3. /\ Slotted' /\ Configuration' /\ Recording'
      /\ view' = w /\ calm' \in BOOLEAN /\ fresh' \in BOOLEAN
  BY <1>2, SettlesAwaits
<1>4. QED
  BY <1>2, <1>3, ViewingAudit DEF ConsoleInv

-----------------------------------------------------------------------------
(* The configuration editor. *)

\* The configuration page's spinner touches nothing else.
LEMMA ConfigLoading ==
  ASSUME NEW v, ConfigState(v), NEW b \in BOOLEAN, NEW w, w = [v EXCEPT !.loading = b]
  PROVE  ConfigState(w) /\ w.loading = b /\ w.savingKey = v.savingKey /\ w.items = v.items
  BY DEF ConfigState

\* Marking a key as being saved touches nothing else.
LEMMA ConfigSaving ==
  ASSUME NEW v, ConfigState(v), NEW k, NEW w, w = [v EXCEPT !.savingKey = k]
  PROVE  ConfigState(w) /\ w.loading = v.loading /\ w.savingKey = k /\ w.items = v.items
  BY DEF ConfigState

\* Editing a draft touches nothing else.
LEMMA ConfigDrafts ==
  ASSUME NEW v, ConfigState(v), NEW x, NEW w, w = [v EXCEPT !.drafts = x]
  PROVE  /\ ConfigState(w) /\ w.loading = v.loading /\ w.savingKey = v.savingKey
         /\ w.items = v.items
  BY DEF ConfigState

\* New items replace the list and the drafts and leave both busy flags.
LEMMA ConfigItems ==
  ASSUME NEW v, ConfigState(v), NEW list
  PROVE  LET w == WithItems(v, list)
         IN  /\ ConfigState(w) /\ w.loading = v.loading /\ w.savingKey = v.savingKey
             /\ w.items = list
<1>1. PICK w1 : w1 = [v EXCEPT !.items = list]
  OBVIOUS
<1>2. PICK w : w = [w1 EXCEPT !.drafts = list]
  OBVIOUS
<1>3. /\ ConfigState(w1) /\ w1.loading = v.loading /\ w1.savingKey = v.savingKey
      /\ w1.items = list
  BY <1>1 DEF ConfigState
<1>4. /\ ConfigState(w) /\ w.loading = v.loading /\ w.savingKey = v.savingKey
      /\ w.items = list
  BY <1>2, <1>3, ConfigDrafts
<1>5. WithItems(v, list) = w
  BY <1>1, <1>2, Zenon DEF WithItems
<1>6. QED
  BY <1>4, <1>5

\* What a step has to establish when the configuration page is mounted after it.
LEMMA ViewingConfig ==
  ASSUME ConfigState(view)', calm' \in BOOLEAN, fresh' \in BOOLEAN,
         view'.loading => \E n \in Slots : Awaits(n, "config")',
         view'.savingKey # None =>
           \E n \in Slots : Awaits(n, "postConfig")' /\ calls'[n].arg.key = view'.savingKey
  PROVE  Viewing'
<1>1. view'.name = "config"
  BY DEF ConfigState
<1>2. QED
  BY <1>1 DEF Viewing, Names, OnInstallsView, OnAuditView, OnConfigView,
              OnInstalls, OnAudit, OnConfig

\* Loading the configuration keeps the invariant.
LEMMA InvLoadConfig ==
  ASSUME ConsoleInv, LoadConfig
  PROVE  ConsoleInv'
<1>1. OnConfig /\ OnConfigView /\ ConfigState(view)
  BY DEF ConsoleInv, Viewing, OnConfigView, LoadConfig
<1>2. PICK w : w = [view EXCEPT !.loading = TRUE]
  OBVIOUS
<1>3. ConfigState(w) /\ w.loading = TRUE /\ w.savingKey = view.savingKey
  BY <1>1, <1>2, ConfigLoading
<1>4. /\ Slotted' /\ Configuration' /\ Recording' /\ Awaiting("config", None, {})
      /\ view' = w /\ calm' \in BOOLEAN /\ fresh' \in BOOLEAN
  BY <1>2, SendsAwaits, ReadCall, OpsAre DEF LoadConfig
<1>5. /\ \E k \in Slots : Awaits(k, "config")'
      /\ \A m \in Slots : Awaits(m, "postConfig") => /\ Awaits(m, "postConfig")'
                                                     /\ calls'[m].arg = calls[m].arg
  BY <1>4, OpsAre DEF Awaiting
<1>6. Viewing'
  BY <1>1, <1>3, <1>4, <1>5, ViewingConfig DEF OnConfigView
<1>7. QED
  BY <1>4, <1>6 DEF ConsoleInv

\* Editing a draft keeps the invariant.
LEMMA InvEdit ==
  ASSUME ConsoleInv, NEW k, NEW text, Edit(k, text)
  PROVE  ConsoleInv'
<1>1. OnConfig /\ OnConfigView /\ ConfigState(view)
  BY DEF ConsoleInv, Viewing, OnConfigView, Edit
<1>2. PICK x, w : x = [view.drafts EXCEPT ![k] = text] /\ w = [view EXCEPT !.drafts = x]
  OBVIOUS
<1>3. Shows(w)
  BY <1>2 DEF Edit
<1>4. ConfigState(w) /\ w.loading = view.loading /\ w.savingKey = view.savingKey
  BY <1>1, <1>2, ConfigDrafts
<1>5. /\ Slotted' /\ Configuration' /\ Recording'
      /\ calls' = calls /\ view' = w /\ calm' \in BOOLEAN /\ fresh' \in BOOLEAN
  BY <1>3, ShowsAwaits
<1>6. Viewing'
  BY <1>1, <1>4, <1>5, ViewingConfig DEF OnConfigView, Awaits
<1>7. QED
  BY <1>5, <1>6 DEF ConsoleInv

\* A save of a declared key is a well-formed call.
LEMMA SaveCall ==
  ASSUME NEW k \in Keys, NEW arg, arg.key = k
  PROVE  CallOK(Call("postConfig", arg, None))
<1>1. LET c == Call("postConfig", arg, None)
      IN  IsCall(c) /\ c.op = "postConfig" /\ c.arg = arg /\ c.srv = "queued" /\ c.cli = "waiting"
  BY NewCall
<1>2. QED
  BY <1>1, OpsAre DEF CallOK, Mutations

\* Saving marks the key the new call is about.
LEMMA InvSave ==
  ASSUME ConsoleInv, NEW k \in Keys, Save(k)
  PROVE  ConsoleInv'
<1>1. OnConfig /\ OnConfigView /\ ConfigState(view)
  BY DEF ConsoleInv, Viewing, OnConfigView, Save, CanSave
<1>2. PICK w : w = [view EXCEPT !.savingKey = k]
  OBVIOUS
<1>3. ConfigState(w) /\ w.loading = view.loading /\ w.savingKey = k
  BY <1>1, <1>2, ConfigSaving
<1>4. PICK arg : arg = [key |-> k, val |-> view.drafts[k]]
  OBVIOUS
<1>5. arg.key = k
  BY <1>4
<1>6. /\ Slotted' /\ Configuration' /\ Recording' /\ Awaiting("postConfig", arg, {})
      /\ view' = w /\ calm' \in BOOLEAN /\ fresh' \in BOOLEAN
  <2>1. Sends("postConfig", arg, None, w)
    BY <1>2, <1>4 DEF Save
  <2>2. QED
    BY <1>5, <2>1, SendsAwaits, SaveCall, OpsAre
<1>7. /\ \E n \in Slots : Awaits(n, "postConfig")' /\ calls'[n].arg = arg
      /\ \A m \in Slots : Awaits(m, "config") => Awaits(m, "config")'
  BY <1>6, OpsAre DEF Awaiting
<1>8. Viewing'
  BY <1>1, <1>3, <1>5, <1>6, <1>7, ViewingConfig DEF OnConfigView
<1>9. QED
  BY <1>6, <1>8 DEF ConsoleInv

\* An answer to a load of the configuration keeps the invariant.
LEMMA InvConfigLoaded ==
  ASSUME ConsoleInv, NEW n \in InFlight, NEW wire \in Wires(calls[n]), ConfigLoaded(n, wire)
  PROVE  ConsoleInv'
<1>1. OnConfig /\ OnConfigView /\ ConfigState(view) /\ ~Awaits(n, "postConfig")
  BY DEF ConsoleInv, Viewing, OnConfigView, ConfigLoaded, Waiting, Awaits
<1>2. PICK w, good :
        /\ good \in BOOLEAN /\ ConfigState(w) /\ w.loading = FALSE
        /\ w.savingKey = view.savingKey /\ Settles(n, wire, w, good)
  <2>1. PICK res : res = request(wire)
    OBVIOUS
  <2>2. PICK good \in BOOLEAN : good = Fills(res)
    BY DEF Fills
  <2>3. PICK v : v = IF res.kind = "ok" THEN WithItems(view, res.body) ELSE view
    OBVIOUS
  <2>4. PICK w : w = [v EXCEPT !.loading = FALSE]
    OBVIOUS
  <2>5. ConfigState(v) /\ v.savingKey = view.savingKey
    BY <1>1, <2>3, ConfigItems
  <2>6. ConfigState(w) /\ w.loading = FALSE /\ w.savingKey = view.savingKey
    BY <2>4, <2>5, ConfigLoading
  <2>7. Settles(n, wire, w, good)
    <3>1. CASE res.kind = "ok"
      BY <2>1, <2>2, <2>3, <2>4, <3>1, Zenon DEF ConfigLoaded
    <3>2. CASE res.kind # "ok"
      BY <2>1, <2>2, <2>3, <2>4, <3>2, Zenon DEF ConfigLoaded
    <3>3. QED
      BY <3>1, <3>2
  <2>8. QED
    BY <2>6, <2>7
<1>3. /\ Slotted' /\ Configuration' /\ Recording'
      /\ \A m \in Slots : \A o \in Ops : Awaits(m, o)' <=> Awaits(m, o) /\ m # n
      /\ \A m \in Slots \ {n} : calls'[m] = calls[m]
      /\ view' = w /\ calm' \in BOOLEAN /\ fresh' \in BOOLEAN
  BY <1>2, SettlesAwaits
<1>4. \A m \in Slots : Awaits(m, "postConfig") => /\ Awaits(m, "postConfig")'
                                                  /\ calls'[m].arg = calls[m].arg
  BY <1>1, <1>3, OpsAre
<1>5. Viewing'
  BY <1>1, <1>2, <1>3, <1>4, ViewingConfig DEF OnConfigView
<1>6. QED
  BY <1>3, <1>5 DEF ConsoleInv

\* The end of a save, and the reload it starts, keep the invariant.
LEMMA InvSaved ==
  ASSUME ConsoleInv, NEW n \in InFlight, NEW wire \in Wires(calls[n]), Saved(n, wire)
  PROVE  ConsoleInv'
<1>1. OnConfig /\ OnConfigView /\ ConfigState(view) /\ ~Awaits(n, "config")
  BY DEF ConsoleInv, Viewing, OnConfigView, Saved, Waiting, Awaits
<1>2. PICK w, good :
        /\ good \in BOOLEAN /\ ConfigState(w) /\ w.loading = view.loading
        /\ w.savingKey = None /\ Settles(n, wire, w, good)
  <2>1. PICK res : res = request(wire)
    OBVIOUS
  <2>2. PICK good \in BOOLEAN : good = (Fills(res) \/ AsGood(res))
    OBVIOUS
  <2>3. PICK idle : idle = [view EXCEPT !.savingKey = None]
    OBVIOUS
  <2>4. PICK w : w = IF res.kind = "ok" THEN WithItems(idle, res.body) ELSE idle
    OBVIOUS
  <2>5. ConfigState(idle) /\ idle.loading = view.loading /\ idle.savingKey = None
    BY <1>1, <2>3, ConfigSaving
  <2>6. ConfigState(w) /\ w.loading = view.loading /\ w.savingKey = None
    BY <2>4, <2>5, ConfigItems
  <2>7. Settles(n, wire, w, good)
    BY <2>1, <2>2, <2>3, <2>4, Zenon DEF Saved
  <2>8. QED
    BY <2>6, <2>7
<1>3. /\ Slotted' /\ Configuration' /\ Recording'
      /\ \A m \in Slots : \A o \in Ops : Awaits(m, o)' <=> Awaits(m, o) /\ m # n
      /\ view' = w /\ calm' \in BOOLEAN /\ fresh' \in BOOLEAN
  BY <1>2, SettlesAwaits
<1>4. \A m \in Slots : Awaits(m, "config")' <=> Awaits(m, "config")
  BY <1>1, <1>3, OpsAre
<1>5. Viewing'
  BY <1>1, <1>2, <1>3, <1>4, ViewingConfig DEF OnConfigView
<1>6. QED
  BY <1>3, <1>5 DEF ConsoleInv

-----------------------------------------------------------------------------
(* Download, navigation and the start. *)

\* Asking for the export keeps the invariant.
LEMMA InvDownload ==
  ASSUME ConsoleInv, Download
  PROVE  ConsoleInv'
<1>1. /\ sent' = sent + 1 /\ sent \in 0..MaxCalls /\ sent < MaxCalls /\ MaxCalls \in Nat
      /\ calls' = calls
  BY ApiAssumption DEF ConsoleInv, Slotted, ApiAssumption, Download, CanSend
<1>2. Slotted'
  <2>1. sent' \in 0..MaxCalls /\ \A n \in Slots : n > sent' => n > sent
    BY <1>1 DEF Slots
  <2>2. QED
    BY <1>1, <2>1 DEF ConsoleInv, Slotted
<1>3. Configuration'
  BY <1>1, ConfigKept DEF ConsoleInv, Download, Persisting
<1>4. Recording'
  <2>1. Applied' = Applied
    BY <1>1 DEF Applied
  <2>2. Streaming' = Streaming /\ Streaming = 0 /\ export' = "asked"
    BY DEF Download, Streaming
  <2>3. UNCHANGED <<log, status, effects>>
    BY DEF Download
  <2>4. QED
    BY <2>1, <2>2, <2>3 DEF ConsoleInv, Recording
<1>5. Viewing'
  <2>1. view'.name = view.name /\ view.name = "export"
    BY DEF Download
  <2>2. calm' = calm /\ fresh' = fresh
    BY DEF Download
  <2>3. QED
    BY <2>1, <2>2 DEF ConsoleInv, Viewing, OnInstallsView, OnAuditView, OnConfigView,
                      OnInstalls, OnAudit, OnConfig
<1>6. QED
  BY <1>2, <1>3, <1>4, <1>5 DEF ConsoleInv

\* A freshly mounted page.
LEMMA MountedPage ==
  /\ InstallsState(InstallsMounted) /\ ~InstallsMounted.banSubmitting
  /\ AuditState(AuditMounted)
  /\ ConfigState(ConfigMounted) /\ ConfigMounted.savingKey = None
  /\ ExportMounted.name = "export"
<1>1. InstallsState(InstallsMounted) /\ ~InstallsMounted.banSubmitting
  BY Bottom DEF InstallsState, InstallsShape, InstallsMounted
<1>2. AuditState(AuditMounted)
  BY Bottom DEF AuditState, AuditMounted
<1>3. ConfigState(ConfigMounted) /\ ConfigMounted.savingKey = None
  BY DEF ConfigState, ConfigMounted
<1>4. QED
  BY <1>1, <1>2, <1>3 DEF ExportMounted

\* A page as it is mounted: idle, with an empty modal and nothing being saved.
LEMMA MountedAt ==
  ASSUME NEW route \in Names, NEW v, v = Mounted(route)
  PROVE  /\ v.name = route
         /\ route = "installs" => InstallsState(v) /\ ~v.banSubmitting
         /\ route = "audit" => AuditState(v)
         /\ route = "config" => ConfigState(v) /\ v.savingKey = None
<1>1. CASE route = "installs"
  <2>1. v = InstallsMounted
    BY <1>1 DEF Mounted
  <2>2. QED
    BY <1>1, <2>1, MountedPage DEF InstallsState, InstallsShape
<1>2. CASE route = "audit"
  <2>1. v = AuditMounted
    BY <1>2 DEF Mounted
  <2>2. QED
    BY <1>2, <2>1, MountedPage DEF AuditState
<1>3. CASE route = "config"
  <2>1. v = ConfigMounted
    BY <1>3 DEF Mounted
  <2>2. QED
    BY <1>3, <2>1, MountedPage DEF ConfigState
<1>4. CASE route = "export"
  BY <1>4, MountedPage DEF Mounted
<1>5. QED
  BY <1>1, <1>2, <1>3, <1>4 DEF Names

\* Changing the page keeps the invariant: what the old one awaited is left, the new one loads.
LEMMA InvNavigate ==
  ASSUME ConsoleInv, NEW route \in Routes, Navigate(route)
  PROVE  ConsoleInv'
<1>1. route \in Names
  BY RoutesAssumption DEF RoutesAssumption
<1>2. PICK cs : cs = Abandoned
  OBVIOUS
<1>3. Leaves(cs) /\ \A m \in Slots : cs[m].cli # "waiting"
  BY <1>2, LeavesAbandoned DEF ConsoleInv
<1>4. Kept /\ (\A m \in Slots : ~Awaits(m, "ban")')
           /\ (route # "export" => \E n \in Slots : Awaits(n, route)')
  <2>1. CASE route = "export"
    <3>1. calls' = cs /\ sent' = sent
      BY <1>2, <2>1 DEF Navigate
    <3>2. Leaves(calls')
      BY <1>3, <3>1
    <3>3. Kept
      BY <3>1, <3>2, KeptLeaving DEF ConsoleInv
    <3>4. \A m \in Slots : ~Awaits(m, "ban")'
      BY <1>3, <3>1 DEF Awaits
    <3>5. QED
      BY <2>1, <3>3, <3>4
  <2>2. CASE route # "export"
    <3>1. route \in {"installs", "audit", "config"} /\ route \in Ops /\ route # "ban"
      BY <1>1, <2>2, OpsAre DEF Names
    <3>2. Sending(cs, route, FirstCall(route), None)
      BY <1>2, <2>2 DEF Navigate
    <3>3. \A m \in Slots : IF m \in Slots THEN cs[m].cli # "waiting" ELSE cs[m] = calls[m]
      BY <1>3
    <3>4. CallOK(Call(route, FirstCall(route), None))
      BY <3>1, ReadCall
    <3>5. Kept /\ Awaiting(route, FirstCall(route), Slots)
      BY <1>3, <3>1, <3>2, <3>3, <3>4, SendingAwaits DEF ConsoleInv
    <3>6. QED
      BY <3>1, <3>5, OpsAre DEF Awaiting
  <2>3. QED
    BY <2>1, <2>2
<1>5. Slotted' /\ Configuration' /\ Recording'
  BY <1>4, InvKept DEF Navigate
<1>6. view' = Mounted(route) /\ calm' \in BOOLEAN /\ fresh' \in BOOLEAN
  BY DEF Navigate
<1>7. /\ view'.name = route
      /\ route = "installs" => InstallsState(view') /\ ~view'.banSubmitting
      /\ route = "audit" => AuditState(view')
      /\ route = "config" => ConfigState(view') /\ view'.savingKey = None
  BY <1>1, <1>6, MountedAt
<1>8. Viewing'
  BY <1>1, <1>4, <1>6, <1>7 DEF Viewing, OnInstallsView, OnAuditView, OnConfigView,
                                OnInstalls, OnAudit, OnConfig
<1>9. QED
  BY <1>5, <1>8 DEF ConsoleInv

\* The console starts in the invariant.
LEMMA InitInv == Init => ConsoleInv
<1> SUFFICES ASSUME Init
             PROVE  ConsoleInv
  OBVIOUS
<1>1. PICK route \in Routes :
        /\ view = Mounted(route)
        /\ IF route = "export"
           THEN calls = NoCalls /\ sent = 0
           ELSE calls = [NoCalls EXCEPT ![1] = Call(route, FirstCall(route), None)] /\ sent = 1
  BY DEF Init
<1>2. route \in Names /\ ServerInit /\ calm = TRUE /\ fresh = FALSE
  BY RoutesAssumption DEF RoutesAssumption, Init
<1>3. /\ calls = [m \in Slots |-> calls[m]]
      /\ \A m \in Slots : \/ calls[m] = NoCall
                          \/ m = 1 /\ route # "export" /\ calls[m] = Call(route, FirstCall(route), None)
      /\ route # "export" => calls[1] = Call(route, FirstCall(route), None)
  BY <1>1, SlotsFacts DEF NoCalls
<1>4. route # "export" => /\ CallOK(Call(route, FirstCall(route), None))
                          /\ Call(route, FirstCall(route), None).op = route
                          /\ Call(route, FirstCall(route), None).srv = "queued"
                          /\ Call(route, FirstCall(route), None).cli = "waiting"
  <2>1. route # "export" => route \in {"installs", "audit", "config"}
    BY <1>2 DEF Names
  <2>2. QED
    BY <2>1, ReadCall, NewCall
<1>5. \A m \in Slots : /\ calls[m] = NoCall \/ CallOK(calls[m])
                       /\ calls[m].srv \notin {"persisted", "applied"}
                       /\ ~Awaits(m, "ban")
  BY <1>2, <1>3, <1>4, NoCallFacts DEF Awaits, Names
<1>6. Slotted
  <2>1. sent \in {0, 1} /\ (sent = 0 => route = "export")
    BY <1>1
  <2>2. MaxCalls \in Nat /\ MaxCalls >= 1
    BY ApiAssumption DEF ApiAssumption
  <2>3. \A m \in Slots : m > sent => calls[m] = NoCall
    BY <1>3, <2>1 DEF Slots
  <2>4. QED
    BY <1>3, <1>5, <2>1, <2>2, <2>3 DEF Slotted
<1>7. Configuration
  <2>1. configured = Env /\ overlay = [k \in Keys |-> None]
    BY <1>2 DEF ServerInit
  <2>2. Env = [k \in Keys |-> Env[k]] /\ ValidateSemantics(Env)
    BY ConfigAssumption DEF ConfigAssumption
  <2>3. LoadWithOverlay = Env
    BY <2>1, <2>2 DEF LoadWithOverlay, Overlaid
  <2>4. \A m \in Slots : ~Persisting(m)
    BY <1>5 DEF Persisting
  <2>5. QED
    BY <2>1, <2>2, <2>3, <2>4 DEF Configuration
<1>8. Recording
  <2>1. /\ log = [k \in DOMAIN Earlier |-> Stamped(k, Earlier[k])] /\ effects = Len(Earlier)
        /\ export = "none" /\ status \in Registered
    BY <1>2 DEF ServerInit, RingInit
  <2>2. Earlier \in Seq(EventType)
    BY EarlierAssumption DEF EarlierAssumption
  <2>3. /\ DOMAIN Earlier = 1..Len(Earlier) /\ Len(Earlier) \in Nat
        /\ \A k \in 1..Len(Earlier) : Earlier[k] \in EventType
    BY <2>2
  <2>4. \A k \in 1..Len(Earlier) : Stamped(k, Earlier[k]) \in Recorded
    <3>1. \A k \in 1..Len(Earlier) : k \in Nat
      BY <2>3
    <3>2. QED
      BY <2>3, <3>1 DEF Recorded
  <2>5. log \in [1..Len(Earlier) -> Recorded]
    BY <2>1, <2>3, <2>4
  <2>6. log \in Seq(Recorded) /\ Len(log) = Len(Earlier)
    BY <2>3, <2>5
  <2>7. Applied = {}
    BY <1>5 DEF Applied
  <2>8. Cardinality(Applied) = 0 /\ Streaming = 0
    BY <2>1, <2>7, FS_EmptySet DEF Streaming
  <2>9. status \in [1..Installs -> Statuses]
    BY <2>1, DashboardAssumption DEF DashboardAssumption, Statuses
  <2>10. QED
    BY <2>1, <2>3, <2>6, <2>8, <2>9 DEF Recording
<1>9. Viewing
  <2>1. /\ view.name = route
        /\ route = "installs" => InstallsState(view) /\ ~view.banSubmitting
        /\ route = "audit" => AuditState(view)
        /\ route = "config" => ConfigState(view) /\ view.savingKey = None
    BY <1>1, <1>2, MountedAt
  <2>2. route # "export" => \E n \in Slots : Awaits(n, route)
    BY <1>3, <1>4, SlotsFacts DEF Awaits
  <2>3. QED
    BY <1>2, <1>5, <2>1, <2>2 DEF Viewing, OnInstallsView, OnAuditView, OnConfigView,
                                  OnInstalls, OnAudit, OnConfig
<1>10. QED
  BY <1>6, <1>7, <1>8, <1>9 DEF ConsoleInv

\* Every step of the console keeps the invariant.
LEMMA NextInv == ConsoleInv /\ [Next]_vars => ConsoleInv'
<1> SUFFICES ASSUME ConsoleInv, [Next]_vars
             PROVE  ConsoleInv'
  OBVIOUS
<1>1. CASE UNCHANGED vars
  <2>1. UNCHANGED <<viewVars, calls, configVars, log, status, export, effects>>
    BY <1>1 DEF vars, serverVars, viewVars, configVars
  <2>2. Applied' = Applied /\ sent' = sent
    BY <2>1 DEF Applied, viewVars
  <2>3. Slotted'
    BY <2>1, <2>2 DEF ConsoleInv, Slotted
  <2>4. Configuration'
    BY <2>1, ConfigKept DEF ConsoleInv, Persisting
  <2>5. Recording'
    BY <2>1, <2>2, RecordingKept DEF ConsoleInv
  <2>6. Viewing'
    BY <2>1, ViewKept DEF ConsoleInv, Awaits
  <2>7. QED
    BY <2>3, <2>4, <2>5, <2>6 DEF ConsoleInv
<1>2. CASE ServerStep /\ UNCHANGED viewVars
  <2>1. ASSUME NEW n \in Slots,
               \/ ServeRead(n)
               \/ SetStatus(n) \/ SetStatusFails(n) \/ AuditMutate(n)
               \/ PersistConfig(n) \/ RejectConfig(n) \/ PublishConfig(n) \/ AuditConfig(n)
        PROVE  ConsoleInv'
    BY <1>2, <2>1, InvServeRead, InvMutate, InvPersist, InvRejectConfig, InvPublish,
       InvAuditConfig
  <2>2. QED
    BY <1>2, <2>1, InvExport, InvRestart DEF ServerStep
<1>3. CASE InstallsStep
  BY <1>3, InvInstallsPaging, InvModal, InvConfirmBan, InvUnban, InvInstallsLoaded,
     InvBanDone, InvUnbanDone DEF InstallsStep
<1>4. CASE AuditStep
  BY <1>4, InvAuditPaging, InvAuditLoaded DEF AuditStep
<1>5. CASE ConfigStep
  BY <1>5, InvLoadConfig, InvEdit, InvSave, InvConfigLoaded, InvSaved DEF ConfigStep
<1>6. CASE Download
  BY <1>6, InvDownload
<1>7. CASE \E route \in Routes : Navigate(route)
  BY <1>7, InvNavigate
<1>8. QED
  BY <1>1, <1>2, <1>3, <1>4, <1>5, <1>6, <1>7 DEF Next

\* The invariant holds throughout.
LEMMA InvHolds == Spec => []ConsoleInv
  BY InitInv, NextInv, PTL DEF Spec

-----------------------------------------------------------------------------
(***************************************************************************)
(* The audit ring holds the end of the log, newest before next, and marks  *)
(* itself full exactly when every slot has been written.                   *)
(***************************************************************************)
RingHolds ==
  /\ ring = [buf |-> ring.buf, next |-> ring.next, full |-> ring.full, seq |-> ring.seq]
  /\ ring.buf = [i \in 0..Capacity - 1 |-> ring.buf[i]]
  /\ ring.next \in 0..Capacity - 1 /\ ring.full \in BOOLEAN /\ ring.seq = Len(log)
  /\ IF ring.full THEN Len(log) >= Capacity ELSE ring.next = Len(log)
  /\ \A i \in 1..Total(ring) : ring.buf[Slot(ring, i)] = log[Len(log) + 1 - i]
  /\ \A k \in 1..Len(log) : log[k].seq = k

\* The write index moves by one slot and wraps at the end.
LEMMA NextSlot ==
  ASSUME NEW C \in Nat \ {0}, NEW n \in 0..C - 1
  PROVE  (n + 1) % C = IF n + 1 = C THEN 0 ELSE n + 1
  OBVIOUS

\* record overwrites the oldest event and shifts the others one place back.
LEMMA RingRecords ==
  ASSUME RingHolds, NEW S, log \in Seq(S), NEW e, record(e), Stamped(Len(log) + 1, e) \in S
  PROVE  RingHolds'
<1>1. Capacity \in Nat /\ Capacity > 0
  BY RingAssumption
<1>2. PICK x : x = Stamped(Len(log) + 1, e)
  OBVIOUS
<1>3. x.seq = Len(log) + 1
  BY <1>2 DEF Stamped
<1>4. PICK N : N = Len(log)
  OBVIOUS
<1>5. /\ N \in Nat /\ Len(log') = N + 1
      /\ \A k \in 1..N : log'[k] = log[k]
      /\ log'[N + 1] = x
  BY <1>2, <1>4 DEF record
<1>6. PICK n : n = ring.next
  OBVIOUS
<1>7. PICK m : m = IF n + 1 = Capacity THEN 0 ELSE n + 1
  OBVIOUS
<1>8. n \in 0..Capacity - 1 /\ m \in 0..Capacity - 1 /\ (n + 1) % Capacity = m
  BY <1>1, <1>6, <1>7, NextSlot DEF RingHolds
<1>9. ring' = [buf |-> [ring.buf EXCEPT ![n] = x], next |-> m, full |-> ring.full \/ m = 0, seq |-> N + 1]
  BY <1>2, <1>4, <1>6, <1>8 DEF record, Put, RingHolds
<1>10. /\ ring' = [buf |-> ring'.buf, next |-> ring'.next, full |-> ring'.full, seq |-> ring'.seq]
       /\ ring'.buf = [ring.buf EXCEPT ![n] = x]
       /\ ring'.next = m /\ ring'.full = (ring.full \/ m = 0) /\ ring'.seq = N + 1
  BY <1>9
<1>11. /\ ring'.buf = [i \in 0..Capacity - 1 |-> ring'.buf[i]]
       /\ ring'.buf[n] = x
       /\ \A i \in 0..Capacity - 1 : i # n => ring'.buf[i] = ring.buf[i]
  BY <1>8, <1>10 DEF RingHolds
<1>12. IF ring'.full THEN N + 1 >= Capacity ELSE ring'.next = N + 1
  BY <1>1, <1>4, <1>5, <1>6, <1>7, <1>8, <1>10 DEF RingHolds
<1>13. ASSUME NEW i \in 1..Total(ring')
       PROVE  ring'.buf[Slot(ring', i)] = log'[N + 2 - i]
  <2>1. i \in 1..Capacity
    BY <1>1, <1>8, <1>10 DEF Total
  <2>2. CASE i = 1
    <3>1. Slot(ring', 1) = n
      BY <1>1, <1>7, <1>8, <1>10 DEF Slot
    <3>2. QED
      BY <1>5, <1>11, <2>2, <3>1
  <2>3. CASE i # 1
    <3>1. i - 1 \in 1..Total(ring)
      BY <1>1, <1>4, <1>5, <1>6, <1>7, <1>8, <1>10, <1>12, <2>1, <2>3 DEF Total, RingHolds
    <3>2. /\ Slot(ring', i) = Slot(ring, i - 1) /\ Slot(ring, i - 1) # n
          /\ Slot(ring, i - 1) \in 0..Capacity - 1
      <4>1. i - 1 \in 1..Capacity - 1 /\ ring'.next = m /\ ring.next = n
        BY <1>1, <1>6, <1>10, <2>1, <2>3
      <4>2. Slot(ring, i - 1) = IF i - 1 <= n THEN n - (i - 1) ELSE n - (i - 1) + Capacity
        BY <4>1 DEF Slot
      <4>3. Slot(ring', i) = IF i <= m THEN m - i ELSE m - i + Capacity
        BY <4>1 DEF Slot
      <4>4. QED
        BY <1>1, <1>7, <1>8, <4>1, <4>2, <4>3
    <3>3. ring'.buf[Slot(ring', i)] = ring.buf[Slot(ring, i - 1)]
      BY <1>11, <3>2
    <3>4. ring.buf[Slot(ring, i - 1)] = log[N + 1 - (i - 1)]
      BY <1>4, <3>1 DEF RingHolds
    <3>5. N + 1 - (i - 1) = N + 2 - i /\ N + 2 - i \in 1..N
      BY <1>1, <1>4, <1>5, <1>6, <1>8, <2>1, <2>3, <3>1 DEF Total, RingHolds
    <3>6. QED
      BY <1>5, <3>3, <3>4, <3>5
  <2>4. QED
    BY <2>2, <2>3
<1>14. \A k \in 1..N + 1 : log'[k].seq = k
  BY <1>3, <1>4, <1>5 DEF RingHolds
<1>15. \A i \in 1..Total(ring)' : ring'.buf[Slot(ring, i)'] = log'[Len(log') + 1 - i]
  <2>1. Total(ring)' = Total(ring')
    BY DEF Total
  <2>2. \A i : Slot(ring, i)' = Slot(ring', i)
    BY DEF Slot
  <2>3. Total(ring') \in Nat
    BY <1>1, <1>8, <1>10 DEF Total
  <2>4. \A i \in 1..Total(ring') : Len(log') + 1 - i = N + 2 - i
    BY <1>5, <2>3
  <2>5. QED
    BY <1>13, <2>1, <2>2, <2>4
<1>16. QED
  BY <1>5, <1>8, <1>10, <1>11, <1>12, <1>14, <1>15 DEF RingHolds

\* What the ring of a start holds.
LEMMA RingStarts ==
  ASSUME NEW events \in Seq(EventType), Len(events) < Capacity, RingInit(events)
  PROVE  RingHolds
<1>1. Capacity \in Nat /\ Capacity > 0
  BY RingAssumption
<1>2. PICK N : N = Len(events)
  OBVIOUS
<1>3. N \in 0..Capacity - 1 /\ DOMAIN events = 1..N
  BY <1>1, <1>2
<1>4. /\ log = [k \in 1..N |-> Stamped(k, events[k])] 
      /\ ring = [buf  |-> [i \in 0..Capacity - 1 |->
                         IF i < N THEN Stamped(i + 1, events[i + 1]) ELSE Blank],
             next |-> N, full |-> FALSE, seq |-> N]
  BY <1>2, <1>3 DEF RingInit
<1>5. log \in [1..N -> {Stamped(k, events[k]) : k \in 1..N}] /\ N \in Nat
  BY <1>3, <1>4
<1>6. Len(log) = N
  BY <1>5
<1>7. \A k \in 1..N : log[k].seq = k
  BY <1>4 DEF Stamped
<1>8. \A i \in 1..N : Slot(ring, i) = N - i /\ N - i \in 0..Capacity - 1 /\ N + 1 - i \in 1..N
  BY <1>1, <1>3, <1>4 DEF Slot
<1>9. \A i \in 1..N : ring.buf[N - i] = log[N + 1 - i]
  BY <1>1, <1>3, <1>4, <1>8
<1>10. Total(ring) = N
  BY <1>4 DEF Total
<1>11. QED
  BY <1>1, <1>3, <1>4, <1>6, <1>7, <1>8, <1>9, <1>10 DEF RingHolds

(***************************************************************************)
(* A page, once the ring is known to hold the end of the log: the rows are *)
(* the events from top down, as many as the limit and the floor allow.     *)
(***************************************************************************)
Top(l, before) == IF before > 0 /\ before <= Len(l) THEN before - 1 ELSE Len(l)
Floor(l) == IF Len(l) > Capacity THEN Len(l) - Capacity ELSE 0
Lower(l, before, limit) ==
  IF Top(l, before) - limit > Floor(l) THEN Top(l, before) - limit ELSE Floor(l)
Count(l, before, limit) ==
  IF Top(l, before) > Lower(l, before, limit) THEN Top(l, before) - Lower(l, before, limit) ELSE 0
Rows(l, before, limit) == [k \in 1..Count(l, before, limit) |-> l[Top(l, before) + 1 - k]]

\* The window has these rows.
LEMMA WindowRows ==
  ASSUME NEW S, NEW l \in Seq(S), NEW before \in Nat, NEW limit \in Nat \ {0},
         \A k \in 1..Len(l) : l[k].seq = k
  PROVE  Window(l, before, limit) =
           [rows |-> Rows(l, before, limit),
            next |-> IF Top(l, before) - limit > Floor(l) THEN Top(l, before) + 1 - limit ELSE 0]
<1>1. PICK top, floor, bottom, count, N :
        /\ N = Len(l) /\ top = Top(l, before) /\ floor = Floor(l)
        /\ bottom = Lower(l, before, limit) /\ count = Count(l, before, limit)
  OBVIOUS
<1>2. /\ Capacity \in Nat /\ Capacity > 0 /\ N \in Nat /\ top \in 0..N /\ floor \in 0..N
      /\ bottom = IF top - limit > floor THEN top - limit ELSE floor
      /\ bottom \in 0..N
      /\ count = IF top > bottom THEN top - bottom ELSE 0
      /\ count \in 0..N
  BY <1>1, RingAssumption DEF Top, Floor, Lower, Count
<1>3. PICK s : s = SubSeq(l, bottom + 1, top)
  OBVIOUS
<1>4. s \in Seq(S) /\ Len(s) = count /\ \A k \in 1..count : s[k] = l[bottom + k]
  <2>1. \A k \in bottom + 1..top : l[k] \in S
    BY <1>1, <1>2
  <2>2. /\ s \in Seq(S) /\ Len(s) = IF bottom + 1 <= top THEN top - (bottom + 1) + 1 ELSE 0
        /\ \A k \in 1..top - (bottom + 1) + 1 : s[k] = l[bottom + 1 + k - 1]
    BY <1>2, <1>3, <2>1, SubSeqProperties
  <2>3. Len(s) = count /\ \A k \in 1..count : k \in 1..top - (bottom + 1) + 1 /\ bottom + 1 + k - 1 = bottom + k
    BY <1>2, <2>2
  <2>4. QED
    BY <2>2, <2>3
<1>5. PICK rows : rows = Reverse(s)
  OBVIOUS
<1>6. rows = [k \in 1..count |-> l[top + 1 - k]]
  <2>1. rows = [k \in 1..count |-> s[count - k + 1]]
    BY <1>4, <1>5 DEF Reverse
  <2>2. \A k \in 1..count : count - k + 1 \in 1..count /\ bottom + (count - k + 1) = top + 1 - k
    BY <1>2
  <2>3. \A k \in 1..count : s[count - k + 1] = l[top + 1 - k]
    BY <1>4, <2>2
  <2>4. QED
    BY <2>1, <2>3
<1>7. bottom > floor => rows[Len(rows)].seq = top + 1 - limit
  <2>1. SUFFICES ASSUME bottom > floor
                 PROVE  rows[Len(rows)].seq = top + 1 - limit
    OBVIOUS
  <2>2. count = limit /\ count \in 1..N /\ top + 1 - count \in 1..N
    BY <1>2, <2>1
  <2>3. Len(rows) = count
    <3>1. \A k \in 1..count : top + 1 - k \in 1..N
      BY <1>2, <2>2
    <3>2. \A k \in 1..count : l[top + 1 - k] \in S
      BY <1>1, <3>1
    <3>3. rows \in [1..count -> S]
      BY <1>6, <3>2
    <3>4. QED
      BY <1>2, <3>3
  <2>4. rows[count] = l[top + 1 - count]
    BY <1>6, <2>2
  <2>5. QED
    BY <1>1, <2>2, <2>3, <2>4
<1>8. bottom > floor <=> top - limit > floor
  BY <1>2
<1>9. Window(l, before, limit) = [rows |-> rows, next |-> IF bottom > floor THEN rows[Len(rows)].seq ELSE 0]
  BY <1>1, <1>3, <1>5 DEF Window, Top, Floor, Lower
<1>10. QED
  BY <1>1, <1>6, <1>7, <1>8, <1>9 DEF Rows

\* So has the page: what the loop keeps is an interval of its walk.
LEMMA PageRows ==
  ASSUME RingHolds, NEW S, log \in Seq(S), NEW before \in Nat, NEW limit \in Nat \ {0}
  PROVE  page(before, limit) =
           [rows |-> Rows(log, before, limit),
            next |-> IF Top(log, before) - limit > Floor(log) THEN Top(log, before) + 1 - limit ELSE 0]
<1>1. PICK top, floor, count, N, T :
        /\ N = Len(log) /\ top = Top(log, before) /\ floor = Floor(log)
        /\ count = Count(log, before, limit) /\ T = Total(ring)
  OBVIOUS
<1>2. /\ Capacity \in Nat /\ Capacity > 0 /\ N \in Nat /\ top \in 0..N /\ floor = N - T
      /\ T \in 0..Capacity /\ T <= N
      /\ top = IF before > 0 /\ before <= N THEN before - 1 ELSE N
      /\ count = IF top - limit > floor THEN limit ELSE IF top > floor THEN top - floor ELSE 0
  BY <1>1, RingAssumption DEF Top, Floor, Lower, Count, Total, RingHolds
<1> DEFINE walk == Walk
           kept == Older(walk, before)
<1>3. walk = [i \in 1..T |-> ring.buf[Slot(ring, i)]]
  BY <1>1 DEF Walk
<1>4. \A i \in 1..T : N + 1 - i \in 1..N /\ walk[i] = log[N + 1 - i] /\ walk[i].seq = N + 1 - i
  <2>1. TAKE i \in 1..T
  <2>2. N + 1 - i \in 1..N
    BY <1>2
  <2>3. walk[i] = log[N + 1 - i]
    BY <1>1, <1>3 DEF RingHolds
  <2>4. QED
    BY <1>1, <2>2, <2>3 DEF RingHolds
<1>5. kept = {i \in DOMAIN walk : walk[i].seq # 0 /\ (before > 0 => walk[i].seq < before)}
  BY DEF Older
<1>6. PICK d : d = N - top
  OBVIOUS
<1>7. d \in Nat /\ kept = d + 1..T
  <2>1. \A i \in 1..T : i \in kept <=> i \in d + 1..T
    <3>1. TAKE i \in 1..T
    <3>2. i \in kept <=> N + 1 - i # 0 /\ (before > 0 => N + 1 - i < before)
      BY <1>3, <1>4, <1>5
    <3>3. QED
      BY <1>2, <1>6, <3>2
  <2>2. \A i \in kept : i \in 1..T
    BY <1>3, <1>5
  <2>3. d \in Nat /\ \A i \in d + 1..T : i \in 1..T
    BY <1>2, <1>6
  <2>4. QED
    BY <2>1, <2>2, <2>3
<1>8. Cardinality(kept) = IF d + 1 > T THEN 0 ELSE T - d
  BY <1>2, <1>7, FS_Interval
<1>10. ASSUME NEW k \in 1..count
       PROVE  Nth(kept, k) = d + k /\ walk[d + k] = log[top + 1 - k]
  <2>1. \A i \in kept : Cardinality({j \in kept : j <= i}) = i - d
    <3>1. TAKE i \in kept
    <3>2. {j \in kept : j <= i} = d + 1..i
      BY <1>2, <1>7
    <3>3. QED
      <4>1. i \in Int /\ d + 1 \in Int /\ ~(d + 1 > i) /\ i - (d + 1) + 1 = i - d
        BY <1>2, <1>7
      <4>2. Cardinality(d + 1..i) = i - (d + 1) + 1
        BY <4>1, FS_Interval
      <4>3. QED
        BY <3>2, <4>1, <4>2
  <2>2. d + k \in kept
    BY <1>2, <1>6, <1>7
  <2>3. \A i \in kept : i - d = k <=> i = d + k
    BY <1>2, <1>7
  <2>4. Nth(kept, k) = d + k
    BY <2>1, <2>2, <2>3 DEF Nth
  <2>5. d + k \in 1..T /\ N + 1 - (d + k) = top + 1 - k
    BY <1>2, <1>6, <1>7, <2>2
  <2>6. QED
    BY <1>4, <2>4, <2>5
<1>12. /\ Cardinality(kept) > limit <=> top - limit > floor
       /\ count = IF Cardinality(kept) > limit THEN limit ELSE Cardinality(kept)
  <2>1. Cardinality(kept) > limit <=> top - limit > floor
    BY <1>2, <1>6, <1>7, <1>8
  <2>2. count = IF top - limit > floor THEN limit ELSE Cardinality(kept)
    BY <1>2, <1>6, <1>7, <1>8
  <2>3. QED
    BY <2>1, <2>2
<1>13. PICK out : out = [k \in 1..count |-> walk[Nth(kept, k)]]
  OBVIOUS
<1>14. out = [k \in 1..count |-> log[top + 1 - k]]
  BY <1>10, <1>13
<1>15. top - limit > floor => out[limit].seq = top + 1 - limit
  <2>1. SUFFICES ASSUME top - limit > floor
                 PROVE  out[limit].seq = top + 1 - limit
    OBVIOUS
  <2>2. limit \in 1..count /\ top + 1 - limit \in 1..N
    BY <1>2, <2>1
  <2>3. QED
    BY <1>1, <1>14, <2>2 DEF RingHolds
<1>16. page(before, limit) =
         [rows |-> out, next |-> IF Cardinality(kept) > limit THEN out[limit].seq ELSE 0]
  <2> DEFINE size == IF Cardinality(kept) > limit THEN limit ELSE Cardinality(kept)
  <2>1. page(before, limit) =
          [rows |-> [k \in 1..size |-> walk[Nth(kept, k)]],
           next |-> IF Cardinality(kept) > limit
                    THEN [k \in 1..size |-> walk[Nth(kept, k)]][limit].seq
                    ELSE 0]
    BY DEF page
  <2>2. size = count
    BY <1>12
  <2> HIDE DEF size
  <2>3. QED
    BY <1>13, <2>1, <2>2
<1>17. QED
  BY <1>1, <1>12, <1>14, <1>15, <1>16 DEF Rows

\* Rows below a cursor of the log stay where they are when the log grows.
LEMMA RowsStand ==
  ASSUME NEW S, NEW l \in Seq(S), NEW m \in Seq(S), Len(m) >= Len(l),
         \A k \in 1..Len(l) : m[k] = l[k] /\ l[k].seq = k,
         NEW before \in 1..Len(l) + 1, NEW limit \in Nat \ {0},
         NEW old, NEW new, old = Rows(l, before, limit), new = Rows(m, before, limit)
  PROVE  /\ Len(new) <= Len(old) /\ new = SubSeq(old, 1, Len(new))
         /\ \A k \in Len(new) + 1..Len(old) : old[k].seq <= Len(m) - Capacity
<1>1. PICK a, b, N, M : /\ a = Count(l, before, limit) /\ b = Count(m, before, limit)
                        /\ N = Len(l) /\ M = Len(m)
  OBVIOUS
<1>2. Top(l, before) = before - 1 /\ Top(m, before) = before - 1
  BY DEF Top
<1>3. /\ Capacity \in Nat /\ N \in Nat /\ M \in Nat /\ a \in 0..before - 1 /\ b \in 0..a
      /\ \A k \in b + 1..a : before - k <= M - Capacity
  <2>1. PICK f, g : f = Floor(l) /\ g = Floor(m)
    OBVIOUS
  <2>2. /\ Capacity \in Nat /\ N \in Nat /\ M \in Nat /\ M >= N
        /\ f = IF N > Capacity THEN N - Capacity ELSE 0
        /\ g = IF M > Capacity THEN M - Capacity ELSE 0
        /\ f \in Nat /\ g \in Nat /\ f <= g
        /\ before \in Nat /\ before >= 1 /\ before <= N + 1
    BY <1>1, <2>1, RingAssumption DEF Floor
  <2>3. /\ a = IF before - 1 - limit > f THEN limit ELSE IF before - 1 > f THEN before - 1 - f ELSE 0
        /\ b = IF before - 1 - limit > g THEN limit ELSE IF before - 1 > g THEN before - 1 - g ELSE 0
    <3>1. /\ a = IF before - 1 > Lower(l, before, limit)
                  THEN before - 1 - Lower(l, before, limit) ELSE 0
          /\ b = IF before - 1 > Lower(m, before, limit)
                  THEN before - 1 - Lower(m, before, limit) ELSE 0
      BY <1>1, <1>2 DEF Count
    <3>2. /\ Lower(l, before, limit) = IF before - 1 - limit > f THEN before - 1 - limit ELSE f
          /\ Lower(m, before, limit) = IF before - 1 - limit > g THEN before - 1 - limit ELSE g
      BY <1>2, <2>1 DEF Lower
    <3>3. QED
      BY <2>2, <3>1, <3>2
  <2>4. a \in 0..before - 1 /\ b \in 0..a
    BY <2>2, <2>3
  <2>5. \A k \in b + 1..a : before - k <= M - Capacity
    BY <1>1, <2>2, <2>3, <2>4
  <2>6. QED
    BY <2>2, <2>4, <2>5
<1>4. \A k \in 1..a : before - 1 + 1 - k = before - k /\ before - k \in 1..N
  BY <1>1, <1>3
<1>5. old = [k \in 1..a |-> l[before - k]] /\ new = [k \in 1..b |-> l[before - k]]
  BY <1>1, <1>2, <1>3, <1>4 DEF Rows
<1>6. /\ old \in [1..a -> S] /\ new \in [1..b -> S]
  BY <1>1, <1>3, <1>4, <1>5
<1>7. Len(old) = a /\ Len(new) = b /\ old \in Seq(S) /\ new \in Seq(S)
  <2>1. a \in Nat /\ b \in Nat
    BY <1>3
  <2>2. old \in Seq(S) /\ new \in Seq(S)
    <3>1. Seq(S) = UNION {[1..n -> S] : n \in Nat}
      BY SeqDef
    <3>2. QED
      BY <1>6, <2>1, <3>1
  <2>3. QED
    BY <1>6, <2>1, <2>2
<1>8. new = SubSeq(old, 1, b)
  <2>1. /\ SubSeq(old, 1, b) \in Seq(S) /\ Len(SubSeq(old, 1, b)) = b
        /\ \A k \in 1..b : SubSeq(old, 1, b)[k] = old[k]
    <3>1. \A k \in 1..b : old[k] \in S
      BY <1>3, <1>6
    <3>2. /\ SubSeq(old, 1, b) \in Seq(S)
          /\ Len(SubSeq(old, 1, b)) = IF 1 <= b THEN b - 1 + 1 ELSE 0
          /\ \A k \in 1..b - 1 + 1 : SubSeq(old, 1, b)[k] = old[1 + k - 1]
      BY <1>3, <3>1, SubSeqProperties
    <3>3. QED
      BY <1>3, <3>2
  <2>2. \A k \in 1..b : new[k] = old[k]
    BY <1>3, <1>5
  <2>3. QED
    BY <1>7, <2>1, <2>2, SeqEqual
<1>9. \A k \in b + 1..a : old[k].seq <= M - Capacity
  <2>1. TAKE k \in b + 1..a
  <2>2. k \in 1..a
    BY <1>3
  <2>3. old[k] = l[before - k] /\ before - k \in 1..N
    BY <1>4, <1>5, <2>2
  <2>4. QED
    BY <1>1, <1>3, <2>3
<1>10. QED
  BY <1>1, <1>3, <1>7, <1>8, <1>9

\* Nothing but record and a restart touches the ring and its log.
LEMMA RingSteps ==
  ASSUME [Next]_vars
  PROVE  \/ UNCHANGED <<ring, log>>
         \/ \E e : record(e)
         \/ Restart
<1>1. CASE UNCHANGED vars
  BY <1>1 DEF vars, serverVars
<1>2. CASE ServerStep
  <2>1. CASE Restart
    BY <2>1
  <2>2. CASE \E n \in Slots : ServeRead(n)
    BY <2>2 DEF ServeRead, ReadInstalls, ReadAudit, ReadConfig, ReadFails, serverVars
  <2>3. CASE \E n \in Slots : SetStatus(n) \/ SetStatusFails(n) \/ AuditMutate(n)
    BY <2>3 DEF SetStatus, SetStatusFails, AuditMutate, serverVars, configVars
  <2>4. CASE \E n \in Slots : PersistConfig(n) \/ RejectConfig(n)
    BY <2>4 DEF PersistConfig, RejectConfig, serverVars, configVars
  <2>5. CASE \E n \in Slots : PublishConfig(n) \/ AuditConfig(n)
    BY <2>5 DEF PublishConfig, AuditConfig, serverVars, configVars
  <2>6. CASE Snapshot \/ SnapshotFails \/ StreamExport
    BY <2>6 DEF Snapshot, SnapshotFails, StreamExport, ExportStep
  <2>7. CASE \E outcome \in {"ok", "interrupted"} : StreamEnds(outcome)
    BY <2>7 DEF StreamEnds, ExportStep
  <2>8. QED
    BY <1>2, <2>1, <2>2, <2>3, <2>4, <2>5, <2>6, <2>7 DEF ServerStep
<1>3. CASE Download
  BY <1>3 DEF Download
<1>4. CASE InstallsStep
  <2>1. UNCHANGED serverVars
    BY <1>4 DEF InstallsStep, ReloadInstalls, InstallsNext, InstallsPrev, LoadInstalls, OpenBan,
                TypeReason, CancelBan, ConfirmBan, Unban, InstallsLoaded, BanDone, UnbanDone,
                ReloadThen, Sends, Settles, Shows
  <2>2. QED
    BY <2>1 DEF serverVars
<1>5. CASE AuditStep
  <2>1. UNCHANGED serverVars
    BY <1>5 DEF AuditStep, ReloadAudit, AuditNext, AuditPrev, LoadAudit, AuditLoaded, Sends, Settles
  <2>2. QED
    BY <2>1 DEF serverVars
<1>6. CASE ConfigStep
  <2>1. UNCHANGED serverVars
    BY <1>6 DEF ConfigStep, LoadConfig, Edit, Save, ConfigLoaded, Saved, Sends, Settles, Shows
  <2>2. QED
    BY <2>1 DEF serverVars
<1>7. CASE \E route \in Routes : Navigate(route)
  BY <1>7 DEF Navigate, serverVars
<1>8. QED
  BY <1>1, <1>2, <1>3, <1>4, <1>5, <1>6, <1>7 DEF Next

\* The ring holds the end of the log at the start.
LEMMA InitRing == Init => RingHolds
  BY RingStarts, EarlierAssumption DEF Init, ServerInit

\* Every step of the console keeps it so.
LEMMA NextRing == ConsoleInv /\ RingHolds /\ [Next]_vars => RingHolds'
<1>1. SUFFICES ASSUME ConsoleInv, RingHolds, [Next]_vars
               PROVE  RingHolds'
  OBVIOUS
<1>2. CASE UNCHANGED <<ring, log>>
  BY <1>1, <1>2 DEF RingHolds, Total, Slot
<1>3. ASSUME NEW e, record(e)
      PROVE  RingHolds'
  <2>1. PICK S : S = Recorded \cup {Stamped(Len(log) + 1, e)}
    OBVIOUS
  <2>2. log \in Seq(S)
    BY <1>1, <2>1, SeqMonotonic DEF ConsoleInv, Recording
  <2>3. QED
    BY <1>1, <1>3, <2>1, <2>2, RingRecords
<1>4. CASE Restart
  <2>1. ring' = newAuditRing /\ log' = <<>>
    BY <1>4 DEF Restart
  <2>2. /\ ring' = [buf |-> ring'.buf, next |-> ring'.next, full |-> ring'.full, seq |-> ring'.seq]
        /\ ring'.buf = [i \in 0..Capacity - 1 |-> ring'.buf[i]]
        /\ ring'.next = 0 /\ ring'.full = FALSE /\ ring'.seq = 0 /\ Len(log') = 0
    BY <2>1 DEF newAuditRing
  <2>3. Total(ring)' = 0 /\ 0 \in 0..Capacity - 1
    BY <2>2, RingAssumption DEF Total
  <2>4. \A i : i \notin 1..Total(ring)' /\ i \notin 1..Len(log')
    BY <2>2, <2>3
  <2>5. QED
    BY <2>2, <2>3, <2>4 DEF RingHolds
<1>5. QED
  BY <1>1, <1>2, <1>3, <1>4, RingSteps

\* The invariant that carries the two theorems below.
LEMMA RingHeld == Spec => []RingHolds
  BY InitRing, NextRing, InvHolds, PTL DEF Spec

(***************************************************************************)
(* Whatever has been recorded, and however often the ring has wrapped,     *)
(* every page (auditRing.page) is the contiguous window of the log below   *)
(* its cursor, and its next cursor continues it.                           *)
(***************************************************************************)
THEOREM PagesAreWindows == Spec => []RingWindowsLog
<1>1. ConsoleInv /\ RingHolds => RingWindowsLog
  <2>1. SUFFICES ASSUME ConsoleInv, RingHolds,
                        NEW before \in 0..Len(log) + 1, NEW limit \in 1..Capacity + 1
                 PROVE  page(before, limit) = Window(log, before, limit)
    BY DEF RingWindowsLog
  <2>2. log \in Seq(Recorded) /\ \A k \in 1..Len(log) : log[k].seq = k
    BY <2>1 DEF ConsoleInv, Recording, RingHolds
  <2>3. before \in Nat /\ limit \in Nat \ {0}
    BY <2>2, RingAssumption
  <2>4. QED
    BY <2>1, <2>2, <2>3, WindowRows, PageRows
<1>2. QED
  BY <1>1, InvHolds, RingHeld, PTL

\* After any step but a restart a page below a cursor has the same rows from
\* the top, and the rows it lost at its end have been overwritten.
PagesStand ==
  [][~Restart =>
       \A before \in 1..Len(log) + 1, limit \in 1..Capacity + 1 :
         LET old == page(before, limit).rows
             new == page(before, limit)'.rows
         IN  /\ Len(new) <= Len(old) /\ new = SubSeq(old, 1, Len(new))
             /\ \A k \in Len(new) + 1..Len(old) : old[k].seq <= Len(log') - Capacity]_vars

(***************************************************************************)
(* The promise of AuditEvent.Seq: pages do not shift under concurrent      *)
(* writes.  A cursor names the same rows whatever record does meanwhile,   *)
(* until the ring overwrites the oldest of them.                           *)
(***************************************************************************)
THEOREM PagesDoNotShift == Spec => PagesStand
<1>1. ASSUME ConsoleInv, ConsoleInv', RingHolds, RingHolds', RingWindowsLog, RingWindowsLog',
             [Next]_vars, ~Restart,
             NEW before \in 1..Len(log) + 1, NEW limit \in 1..Capacity + 1,
             NEW old, NEW new, old = page(before, limit).rows, new = page(before, limit)'.rows
      PROVE  /\ Len(new) <= Len(old) /\ new = SubSeq(old, 1, Len(new))
             /\ \A k \in Len(new) + 1..Len(old) : old[k].seq <= Len(log') - Capacity
  <2>1. /\ log \in Seq(Recorded) /\ log' \in Seq(Recorded)
        /\ \A k \in 1..Len(log) : log[k].seq = k
        /\ \A k \in 1..Len(log') : log'[k].seq = k
    BY <1>1 DEF ConsoleInv, Recording, RingHolds
  <2>2. Len(log') >= Len(log) /\ \A k \in 1..Len(log) : log'[k] = log[k]
    <3>1. CASE UNCHANGED <<ring, log>>
      BY <2>1, <3>1
    <3>2. CASE \E e : record(e)
      <4>1. PICK e : record(e)
        BY <3>2
      <4>2. log' = Append(log, Stamped(Len(log) + 1, e))
        BY <4>1 DEF record
      <4>3. QED
        BY <2>1, <4>2, AppendProperties
    <3>3. QED
      BY <1>1, <3>1, <3>2, RingSteps
  <2>3. /\ before \in Nat /\ limit \in Nat \ {0}
        /\ before \in 0..Len(log) + 1 /\ before \in 0..Len(log') + 1
    BY <2>1, <2>2, RingAssumption
  <2>4. page(before, limit) = Window(log, before, limit)
    BY <1>1, <2>3 DEF RingWindowsLog
  <2>5. page(before, limit)' = Window(log', before, limit)
    <3>1. page(before, limit)' = Window(log, before, limit)'
      BY <1>1, <2>3 DEF RingWindowsLog
    <3>2. QED
      BY <3>1 DEF Window
  <2>6. old = Rows(log, before, limit)
    BY <1>1, <2>1, <2>3, <2>4, WindowRows
  <2>7. new = Rows(log', before, limit)
    BY <1>1, <2>1, <2>3, <2>5, WindowRows
  <2>8. QED
    <3>1. PICK l, m : l = log /\ m = log'
      OBVIOUS
    <3>2. /\ l \in Seq(Recorded) /\ m \in Seq(Recorded) /\ Len(m) >= Len(l)
          /\ \A k \in 1..Len(l) : m[k] = l[k] /\ l[k].seq = k
          /\ before \in 1..Len(l) + 1
          /\ old = Rows(l, before, limit) /\ new = Rows(m, before, limit)
      BY <1>1, <2>1, <2>2, <2>6, <2>7, <3>1
    <3>3. /\ Len(new) <= Len(old) /\ new = SubSeq(old, 1, Len(new))
          /\ \A k \in Len(new) + 1..Len(old) : old[k].seq <= Len(m) - Capacity
      BY <2>3, <3>2, RowsStand
    <3>4. QED
      BY <3>1, <3>3
<1>2. /\ ConsoleInv /\ ConsoleInv' /\ RingHolds /\ RingHolds' /\ RingWindowsLog /\ RingWindowsLog'
      /\ [Next]_vars
      => [~Restart =>
            \A before \in 1..Len(log) + 1, limit \in 1..Capacity + 1 :
              LET old == page(before, limit).rows
                  new == page(before, limit)'.rows
              IN  /\ Len(new) <= Len(old) /\ new = SubSeq(old, 1, Len(new))
                  /\ \A k \in Len(new) + 1..Len(old) : old[k].seq <= Len(log') - Capacity]_vars
  BY <1>1, Zenon
<1>3. QED
  BY <1>2, InvHolds, RingHeld, PagesAreWindows, PTL DEF Spec, PagesStand

-----------------------------------------------------------------------------
(***************************************************************************)
(* Every spinner turns for a call that is still awaited (Installs.tsx,     *)
(* Audit.tsx, Config.tsx): loading, banSubmitting and savingKey are never  *)
(* left set, and the modal's stands for exactly one ban.                   *)
(***************************************************************************)
THEOREM SpinnersEnd == Spec => []BusyHasCause
<1>1. ConsoleInv => BusyHasCause
  <2> SUFFICES ASSUME ConsoleInv
               PROVE  BusyHasCause
    OBVIOUS
  <2>1. \A op : Waiting(op) = {n \in InFlight : Awaits(n, op)}
    BY DEF Waiting, Awaits
  <2>2. \A n \in Slots : \A op \in Ops : Awaits(n, op) => n \in InFlight
    BY NoCallFacts DEF ConsoleInv, Slotted, InFlight, Awaits, CallOK, Ops, Reads, Mutations
  <2>3. \A op \in Ops : \A n : n \in Waiting(op) <=> n \in Slots /\ Awaits(n, op)
    BY <2>1, <2>2 DEF InFlight
  <2>4. TypeOK
    <3>1. \A n \in InFlight : CallOK(calls[n])
      BY InFlightCalls DEF ConsoleInv
    <3>2. DOMAIN configured = Keys /\ DOMAIN overlay = Keys
      BY DEF ConsoleInv, Configuration
    <3>3. \A n \in InFlight :
            /\ calls[n].op \in Reads \cup Mutations \cup {"postConfig"}
            /\ calls[n].srv \in {"queued", "persisted", "applied", "done", "dead"}
            /\ calls[n].cli \in {"waiting", "gone"}
            /\ calls[n].srv = "done" => calls[n].wire.status \in {200, 400, 500}
      BY <3>1 DEF CallOK, Ops
    <3>4. sent \in 0..MaxCalls /\ view.name \in Names /\ calm \in BOOLEAN /\ fresh \in BOOLEAN
      BY DEF ConsoleInv, Slotted, Viewing
    <3>5. status \in [1..Installs -> Statuses] /\ export \in {"none", "asked", "opened", "streaming"}
      BY DEF ConsoleInv, Recording
    <3>6. QED
      BY <3>2, <3>3, <3>4, <3>5 DEF TypeOK
  <2>5. view.name \in {"installs", "audit", "config"} /\ view.loading => Waiting(view.name) # {}
    BY <2>3, OpsAre DEF ConsoleInv, Viewing, OnInstallsView, OnAuditView, OnConfigView,
                        OnInstalls, OnAudit, OnConfig
  <2>6. ASSUME view.name = "installs"
        PROVE  Cardinality(Waiting("ban")) = IF view.banSubmitting THEN 1 ELSE 0
    <3>1. OnInstallsView /\ OnInstalls
      BY <2>6 DEF ConsoleInv, Viewing, OnInstalls
    <3>2. CASE view.banSubmitting
      <4>1. PICK n \in Slots : Awaits(n, "ban")
        BY <3>1, <3>2 DEF OnInstallsView
      <4>2. Waiting("ban") = {n}
        BY <2>3, <3>1, <4>1, OpsAre DEF OnInstallsView
      <4>3. QED
        BY <3>2, <4>2, FS_Singleton
    <3>3. CASE ~view.banSubmitting
      <4>1. Waiting("ban") = {}
        BY <2>3, <3>1, <3>3, OpsAre DEF OnInstallsView
      <4>2. QED
        BY <3>3, <4>1, FS_EmptySet
    <3>4. QED
      BY <3>2, <3>3
  <2>7. view.name = "config" /\ view.savingKey # None =>
          \E n \in Waiting("postConfig") : calls[n].arg.key = view.savingKey
    BY <2>3, OpsAre DEF ConsoleInv, Viewing, OnConfigView, OnConfig
  <2>8. QED
    BY <2>4, <2>5, <2>6, <2>7 DEF BusyHasCause
<1>2. QED
  BY <1>1, InvHolds, PTL

(***************************************************************************)
(* However the modal is opened, cancelled and opened for somebody else, no *)
(* ban is sent (confirmBan) and none is recorded (mutate, auditRing) with  *)
(* a reason that was written for another install.                          *)
(***************************************************************************)
THEOREM ReasonsAreTheTargets == Spec => []ReasonMatchesTarget
<1>1. ConsoleInv => ReasonMatchesTarget
  <2> SUFFICES ASSUME ConsoleInv
               PROVE  ReasonMatchesTarget
    OBVIOUS
  <2>1. \A n \in InFlight : calls[n].op = "ban" => calls[n].arg.reason = calls[n].arg.id
    BY InFlightCalls DEF ConsoleInv, CallOK, Mutations
  <2>2. \A e \in EventType : e.action = "ban" => e.reason = e.target
    BY DEF EventType, Event
  <2>3. \A r \in Recorded : r.action = "ban" => r.reason = r.target
    <3>1. ASSUME NEW s \in Nat, NEW e \in EventType
          PROVE  LET r == Stamped(s, e) IN r.action = "ban" => r.reason = r.target
      BY <2>2 DEF Stamped
    <3>2. QED
      BY <3>1 DEF Recorded
  <2>4. \A k \in DOMAIN log : log[k] \in Recorded
    BY DEF ConsoleInv, Recording
  <2>5. QED
    BY <2>1, <2>3, <2>4 DEF ReasonMatchesTarget
<1>2. QED
  BY <1>1, InvHolds, PTL

(***************************************************************************)
(* The audit log (mutate, ConfigApply, Export of app/dashboard) holds one  *)
(* event per change since the start, or the handler is about to record it, *)
(* whoever hangs up and whatever runs in between.                          *)
(***************************************************************************)
THEOREM NoEffectUnaudited == Spec => []EffectsAreAudited
<1>1. ConsoleInv => EffectsAreAudited
  <2> SUFFICES ASSUME ConsoleInv
               PROVE  EffectsAreAudited
    OBVIOUS
  <2>1. {n \in InFlight : calls[n].srv = "applied"} = Applied
    BY InFlightCalls, NoCallFacts DEF ConsoleInv, Slotted, Applied
  <2>2. QED
    BY <2>1 DEF ConsoleInv, Recording, EffectsAreAudited, Streaming
<1>2. QED
  BY <1>1, InvHolds, PTL

(***************************************************************************)
(* The settings table always holds a configuration the gateway starts      *)
(* with, and unless a handler is between persisting and publishing         *)
(* (ApplyOverrides holds the mutex) the one a restart would bring up is    *)
(* the one in force.                                                       *)
(***************************************************************************)
THEOREM RestartIsSafe == Spec => []RestartKeepsConfig
<1>1. ConsoleInv => RestartKeepsConfig
  BY MutexIs DEF ConsoleInv, Configuration, RestartKeepsConfig
<1>2. QED
  BY <1>1, InvHolds, PTL

-----------------------------------------------------------------------------
(***************************************************************************)
(* What calm and fresh stand for.  While calm is true one call at most is  *)
(* under way, its answer is the gateway's present state, and the page is   *)
(* still where it was when the call was sent.  While fresh is true no call *)
(* has been lost sight of, and the page shows the truth except for what a  *)
(* change under way may have done already.                                 *)
(***************************************************************************)
Truth(v) ==
  /\ v.name \in {"installs", "audit"} => v.shown = Last(v.stack)
  /\ v.name = "installs" => \A k \in DOMAIN v.rows : v.rows[k].status = status[v.rows[k].id]
  /\ v.name = "config" => v.items = configured

\* A change that has not been made, or never will be.
Undone(c) ==
  \/ c = NoCall
  \/ /\ c.op \notin Reads
     /\ c.srv = "queued" \/ (c.srv = "done" /\ c.wire.status # 200)

Freshness ==
  fresh => /\ \A n \in Slots : calls[n].cli # "gone"
           /\ (\A n \in Slots : Undone(calls[n])) => Truth(view)

AnswerIsTrue(c) ==
  c.srv = "done" /\ c.wire.status = 200 =>
    /\ c.op = "installs" => c.wire.body = InstallsList(c.arg)
    /\ c.op \in {"config", "postConfig"} => c.wire.body = configured

ForThisPage(c, v) ==
  /\ v.name \in {"installs", "audit"} /\ c.op = v.name => c.arg = Last(v.stack)
  /\ v.name = "installs" /\ c.op \in Mutations => c.then = Last(v.stack)

OnlyCall(n) == \A m \in Slots : calls[m] # NoCall => m = n

Calmness ==
  calm => \A n \in Slots : calls[n] # NoCall =>
            /\ OnlyCall(n)
            /\ calls[n].cli = "waiting" => AnswerIsTrue(calls[n]) /\ ForThisPage(calls[n], view)

CalmInv == Calmness /\ Freshness

(* The gateway's steps. *)

\* Serving a call keeps the truth of what is shown and of what is on its way.
LEMMA CalmServed ==
  ASSUME CalmInv, NEW n \in Slots, calls[n] # NoCall, UNCHANGED viewVars,
         \A m \in Slots \ {n} : calls'[m] = calls[m],
         \/ calls'[n] = NoCall /\ calls[n].cli = "gone"
         \/ /\ Same(n) /\ AnswerIsTrue(calls[n])'
            /\ Undone(calls'[n]) =>
                 Undone(calls[n]) /\ status' = status /\ configured' = configured
  PROVE  CalmInv'
<1>1. view' = view /\ calm' = calm /\ fresh' = fresh
  BY DEF viewVars
<1>2. Calmness'
  <2> SUFFICES ASSUME calm, NEW m \in Slots, calls'[m] # NoCall
               PROVE  /\ OnlyCall(m)'
                      /\ calls'[m].cli = "waiting" =>
                           AnswerIsTrue(calls[m])' /\ ForThisPage(calls[m], view)'
    BY <1>1 DEF Calmness
  <2>1. OnlyCall(n) /\ (calls[n].cli = "waiting" => ForThisPage(calls[n], view))
    BY DEF CalmInv, Calmness
  <2>2. m = n /\ Same(n) /\ AnswerIsTrue(calls[n])'
    BY <2>1 DEF OnlyCall
  <2>3. OnlyCall(m)'
    BY <2>1, <2>2 DEF OnlyCall
  <2>4. QED
    BY <1>1, <2>1, <2>2, <2>3 DEF ForThisPage, Same
<1>3. Freshness'
  <2> SUFFICES ASSUME fresh
               PROVE  /\ \A m \in Slots : calls'[m].cli # "gone"
                      /\ (\A m \in Slots : Undone(calls'[m])) => Truth(view)'
    BY <1>1 DEF Freshness
  <2>1. /\ \A m \in Slots : calls[m].cli # "gone"
        /\ (\A m \in Slots : Undone(calls[m])) => Truth(view)
    BY DEF CalmInv, Freshness
  <2>2. /\ Same(n)
        /\ Undone(calls'[n]) => Undone(calls[n]) /\ status' = status /\ configured' = configured
    BY <2>1
  <2>3. \A m \in Slots : calls'[m].cli # "gone"
    BY <2>1, <2>2 DEF Same
  <2>4. ASSUME \A m \in Slots : Undone(calls'[m])
        PROVE  Truth(view)'
    <3>1. Undone(calls[n]) /\ status' = status /\ configured' = configured
      BY <2>2, <2>4
    <3>2. \A m \in Slots : Undone(calls[m])
      BY <2>4, <3>1
    <3>3. QED
      BY <1>1, <2>1, <3>1, <3>2 DEF Truth
  <2>5. QED
    BY <2>3, <2>4
<1>4. QED
  BY <1>2, <1>3 DEF CalmInv

\* Handlers that answer, having just read what they answer with.
LEMMA CalmAnswers ==
  ASSUME ConsoleInv, CalmInv, NEW n \in InFlight, NEW w, w.status \in {200, 400, 500},
         calls' = Answered(n, w), UNCHANGED <<viewVars, status, configured>>,
         w.status # 200 => calls[n].srv = "queued",
         w.status = 200 /\ calls[n].op = "installs" => w.body = InstallsList(calls[n].arg),
         w.status = 200 /\ calls[n].op \in {"config", "postConfig"} => w.body = configured
  PROVE  CalmInv'
<1>1. n \in Slots /\ CallOK(calls[n]) /\ calls[n] # NoCall
  BY InFlightCalls DEF ConsoleInv
<1>2. /\ Served(n)
      /\ \/ calls'[n] = NoCall /\ calls[n].cli = "gone"
         \/ Same(n) /\ calls'[n].srv = "done" /\ calls'[n].wire = w
  BY AnswersCall DEF ConsoleInv
<1>3. CASE calls'[n] = NoCall /\ calls[n].cli = "gone"
  BY <1>1, <1>2, <1>3, CalmServed DEF Served
<1>4. CASE Same(n) /\ calls'[n].srv = "done" /\ calls'[n].wire = w
  <2>1. status' = status /\ configured' = configured
    OBVIOUS
  <2>2. AnswerIsTrue(calls[n])'
    BY <1>4, <2>1 DEF AnswerIsTrue, Same, InstallsList
  <2>3. calls'[n] # NoCall
    BY <1>1, <1>4, CallFacts, NoCallFacts DEF Same
  <2>4. Undone(calls'[n]) => Undone(calls[n])
    BY <1>4, <2>3 DEF Undone, Same
  <2>5. QED
    BY <1>1, <1>2, <1>4, <2>1, <2>2, <2>4, CalmServed DEF Served
<1>5. QED
  BY <1>2, <1>3, <1>4

\* Handlers in the middle of a change.
LEMMA CalmSteps ==
  ASSUME ConsoleInv, CalmInv, NEW n \in InFlight, NEW phase \in {"persisted", "applied"},
         calls' = [calls EXCEPT ![n].srv = phase], calls[n].op \notin Reads,
         phase = "persisted" => calls[n].op = "postConfig", UNCHANGED viewVars
  PROVE  CalmInv'
<1>1. n \in Slots /\ calls[n] # NoCall /\ CallOK(calls[n])
  BY InFlightCalls DEF ConsoleInv
<1>2. Served(n) /\ calls'[n].srv = phase /\ Same(n)
  BY StepsCall DEF ConsoleInv
<1>3. ~Undone(calls'[n]) /\ AnswerIsTrue(calls[n])'
  BY <1>2, NoCallFacts DEF Undone, AnswerIsTrue
<1>4. QED
  BY <1>1, <1>2, <1>3, CalmServed DEF Served

\* Every handler's step keeps it.
LEMMA CalmHandlers ==
  ASSUME ConsoleInv, CalmInv, NEW n \in Slots, UNCHANGED viewVars,
         \/ ServeRead(n)
         \/ SetStatus(n) \/ SetStatusFails(n) \/ AuditMutate(n)
         \/ PersistConfig(n) \/ RejectConfig(n) \/ PublishConfig(n) \/ AuditConfig(n)
  PROVE  CalmInv'
<1>1. n \in InFlight
  BY DEF ServeRead, SetStatus, SetStatusFails, AuditMutate, PersistConfig, RejectConfig,
         PublishConfig, AuditConfig, Pending
<1>2. \A b : Reply(b).status = 200 /\ Reply(b).body = b
  BY DEF Reply
<1>3. Envelope(500, "INTERNAL").status = 500 /\ Envelope(400, "CONFIG_REJECTED").status = 400
  BY DEF Envelope
<1>4. CASE n \in Pending("installs", "queued") /\ ReadInstalls(n)
  BY <1>1, <1>2, <1>4, CalmAnswers DEF ReadInstalls, Pending, serverVars
<1>5. CASE n \in Pending("installs", "queued") /\ ReadFails(n)
  BY <1>1, <1>3, <1>5, CalmAnswers DEF ReadFails, Pending, serverVars
<1>6. CASE n \in Pending("audit", "queued") /\ ReadAudit(n)
  BY <1>1, <1>2, <1>6, CalmAnswers DEF ReadAudit, Pending, serverVars
<1>7. CASE n \in Pending("config", "queued") /\ ReadConfig(n)
  BY <1>1, <1>2, <1>7, CalmAnswers DEF ReadConfig, Pending, serverVars, ConfigDump
<1>8. CASE SetStatus(n)
  BY <1>1, <1>8, CalmSteps DEF SetStatus, Pending, Mutations, Reads
<1>9. CASE SetStatusFails(n)
  BY <1>1, <1>3, <1>9, CalmAnswers DEF SetStatusFails, Pending, Mutations, serverVars
<1>10. CASE AuditMutate(n)
  BY <1>1, <1>2, <1>10, CalmAnswers DEF AuditMutate, Pending, Mutations, configVars
<1>11. CASE PersistConfig(n)
  BY <1>1, <1>11, CalmSteps DEF PersistConfig, Pending, Reads
<1>12. CASE RejectConfig(n)
  BY <1>1, <1>3, <1>12, CalmAnswers DEF RejectConfig, Pending, serverVars
<1>13. CASE PublishConfig(n)
  BY <1>1, <1>13, CalmSteps DEF PublishConfig, Pending, Reads
<1>14. CASE AuditConfig(n)
  BY <1>1, <1>2, <1>14, CalmAnswers DEF AuditConfig, Pending, configVars, ConfigDump
<1>15. QED
  BY <1>4, <1>5, <1>6, <1>7, <1>8, <1>9, <1>10, <1>11, <1>12, <1>13, <1>14 DEF ServeRead

\* So does a step that changes neither a call nor anything a page shows.
LEMMA CalmUnseen ==
  ASSUME CalmInv, UNCHANGED <<viewVars, calls, status, configured>>
  PROVE  CalmInv'
<1>1. view' = view /\ calm' = calm /\ fresh' = fresh /\ calls' = calls
  BY DEF viewVars
<1>2. Calmness'
  BY <1>1 DEF CalmInv, Calmness, OnlyCall, AnswerIsTrue, InstallsList, ForThisPage
<1>3. Freshness'
  BY <1>1 DEF CalmInv, Freshness, Truth
<1>4. QED
  BY <1>2, <1>3 DEF CalmInv

\* A restart brings up the configuration in force, unless a save is half done.
LEMMA CalmRestart ==
  ASSUME ConsoleInv, CalmInv, Restart, UNCHANGED viewVars
  PROVE  CalmInv'
<1>1. view' = view /\ calm' = calm /\ fresh' = fresh /\ status' = status
  BY DEF viewVars, Restart
<1>2. (\A m \in Slots : ~Persisting(m)) => configured' = configured
  BY DEF ConsoleInv, Configuration, Restart
<1>3. ASSUME NEW m \in Slots
      PROVE  \/ calls'[m] = calls[m] /\ ~Persisting(m)
             \/ calls'[m] = NoCall /\ calls[m].cli = "gone"
             \/ /\ Same(m) /\ calls'[m].srv = "dead" /\ calls[m] # NoCall /\ calls'[m] # NoCall
  <2>1. CASE calls[m] = NoCall
    BY <2>1, NoCallFacts DEF Restart, InFlight, Persisting
  <2>2. CASE calls[m] # NoCall
    <3>1. m \in InFlight /\ CallOK(calls[m])
      BY <2>2, InFlightCalls DEF ConsoleInv, Slotted
    <3>2. CASE calls[m].srv \in {"done", "dead"}
      BY <3>1, <3>2 DEF Restart, Persisting
    <3>3. CASE calls[m].srv \notin {"done", "dead"} /\ calls[m].cli = "gone"
      BY <3>1, <3>3 DEF Restart
    <3>4. CASE calls[m].srv \notin {"done", "dead"} /\ calls[m].cli # "gone"
      <4>1. calls'[m] = [calls[m] EXCEPT !.srv = "dead"]
        BY <3>1, <3>4 DEF Restart
      <4>2. Same(m) /\ calls'[m].srv = "dead"
        BY <3>1, <4>1 DEF CallOK, IsCall, Same
      <4>3. QED
        BY <2>2, <4>2, NoCallFacts
    <3>5. QED
      BY <3>2, <3>3, <3>4
  <2>3. QED
    BY <2>1, <2>2
<1>4. Calmness'
  <2> SUFFICES ASSUME calm, NEW n \in Slots, calls'[n] # NoCall
               PROVE  /\ OnlyCall(n)'
                      /\ calls'[n].cli = "waiting" =>
                           AnswerIsTrue(calls[n])' /\ ForThisPage(calls[n], view)'
    BY <1>1 DEF Calmness
  <2>1. calls[n] # NoCall
    BY <1>3
  <2>2. /\ OnlyCall(n)
        /\ calls[n].cli = "waiting" => AnswerIsTrue(calls[n]) /\ ForThisPage(calls[n], view)
    BY <2>1 DEF CalmInv, Calmness
  <2>3. OnlyCall(n)'
    BY <1>3, <2>2 DEF OnlyCall
  <2>4. CASE calls'[n] = calls[n] /\ ~Persisting(n)
    <3>1. \A m \in Slots : ~Persisting(m)
      BY <2>2, <2>4, NoCallFacts DEF OnlyCall, Persisting
    <3>2. QED
      BY <1>1, <1>2, <2>2, <2>3, <2>4, <3>1 DEF AnswerIsTrue, InstallsList, ForThisPage
  <2>5. CASE Same(n) /\ calls'[n].srv = "dead"
    BY <1>1, <2>2, <2>3, <2>5 DEF AnswerIsTrue, ForThisPage, Same
  <2>6. QED
    BY <1>3, <2>4, <2>5
<1>5. Freshness'
  <2> SUFFICES ASSUME fresh
               PROVE  /\ \A m \in Slots : calls'[m].cli # "gone"
                      /\ (\A m \in Slots : Undone(calls'[m])) => Truth(view)'
    BY <1>1 DEF Freshness
  <2>1. /\ \A m \in Slots : calls[m].cli # "gone"
        /\ (\A m \in Slots : Undone(calls[m])) => Truth(view)
    BY DEF CalmInv, Freshness
  <2>2. \A m \in Slots : calls'[m].cli # "gone"
    BY <1>3, <2>1 DEF Same
  <2>3. ASSUME \A m \in Slots : Undone(calls'[m])
        PROVE  Truth(view)'
    <3>1. \A m \in Slots : calls'[m] = calls[m] /\ ~Persisting(m)
      BY <1>3, <2>1, <2>3 DEF Undone
    <3>2. \A m \in Slots : Undone(calls[m])
      BY <2>3, <3>1
    <3>3. QED
      BY <1>1, <1>2, <2>1, <3>1, <3>2 DEF Truth
  <2>4. QED
    BY <2>2, <2>3
<1>6. QED
  BY <1>4, <1>5 DEF CalmInv

-----------------------------------------------------------------------------
(* The tab's steps. *)

\* A page that shows what it showed.
SameShown(v, w) ==
  /\ w.name = v.name
  /\ v.name \in {"installs", "audit"} => w.stack = v.stack /\ w.shown = v.shown
  /\ v.name = "installs" => w.rows = v.rows
  /\ v.name = "config" => w.items = v.items

\* Sending keeps it: at rest, the one new call asks for what the page now stands at.
LEMMA CalmSends ==
  ASSUME ConsoleInv, CalmInv, NEW op, NEW arg, NEW then, NEW v, Sends(op, arg, then, v),
         CallOK(Call(op, arg, then)),
         v.name \in {"installs", "audit"} /\ op = v.name => arg = Last(v.stack),
         v.name = "installs" /\ op \in Mutations => then = Last(v.stack),
         op \notin Reads => SameShown(view, v)
  PROVE  CalmInv'
<1>1. PICK k : k = sent + 1
  OBVIOUS
<1>2. /\ Leaves(calls) /\ Sending(calls, op, arg, then) /\ view' = v /\ fresh' = fresh
      /\ calm' = (InFlight = {}) /\ status' = status /\ configured' = configured
  BY LeavesNone DEF ConsoleInv, Sends, serverVars
<1>3. /\ k \in Slots /\ calls[k] = NoCall /\ calls'[k] = Call(op, arg, then)
      /\ \A m \in Slots \ {k} : calls'[m] = calls[m]
  BY <1>1, <1>2, KeptSending DEF ConsoleInv
<1>4. /\ calls'[k].op = op /\ calls'[k].arg = arg /\ calls'[k].then = then
      /\ calls'[k].srv = "queued" /\ calls'[k].cli = "waiting" /\ calls'[k] # NoCall
  BY <1>3, NewCall, NoCallFacts
<1>5. Calmness'
  <2> SUFFICES ASSUME InFlight = {}, NEW n \in Slots, calls'[n] # NoCall
               PROVE  /\ OnlyCall(n)'
                      /\ calls'[n].cli = "waiting" =>
                           AnswerIsTrue(calls[n])' /\ ForThisPage(calls[n], view)'
    BY <1>2 DEF Calmness
  <2>1. \A m \in Slots : calls[m] = NoCall
    BY InFlightCalls DEF ConsoleInv, Slotted
  <2>2. n = k /\ OnlyCall(n)'
    BY <1>3, <2>1 DEF OnlyCall
  <2>3. QED
    BY <1>2, <1>4, <2>2 DEF AnswerIsTrue, ForThisPage
<1>6. Freshness'
  <2> SUFFICES ASSUME fresh
               PROVE  /\ \A m \in Slots : calls'[m].cli # "gone"
                      /\ (\A m \in Slots : Undone(calls'[m])) => Truth(view)'
    BY <1>2 DEF Freshness
  <2>1. /\ \A m \in Slots : calls[m].cli # "gone"
        /\ (\A m \in Slots : Undone(calls[m])) => Truth(view)
    BY DEF CalmInv, Freshness
  <2>2. ASSUME \A m \in Slots : Undone(calls'[m])
        PROVE  Truth(view)'
    <3>1. op \notin Reads
      BY <1>3, <1>4, <2>2 DEF Undone
    <3>2. \A m \in Slots : Undone(calls[m])
      BY <1>3, <2>2 DEF Undone
    <3>3. QED
      BY <1>2, <2>1, <3>1, <3>2 DEF Truth, SameShown
  <2>3. QED
    BY <1>3, <1>4, <2>1, <2>2
<1>7. QED
  BY <1>5, <1>6 DEF CalmInv

\* What an answer tells about its call.
LEMMA GoodAnswer ==
  ASSUME ConsoleInv, NEW n \in InFlight, NEW wire \in Wires(calls[n]), request(wire).kind = "ok"
  PROVE  /\ calls[n].srv = "done" /\ wire = calls[n].wire /\ wire.status = 200
         /\ request(wire).body = wire.body /\ wire \notin Severed
<1>1. wire.status = 200 /\ wire.body # None
  <2>1. CASE wire.status = 200 /\ wire.body = None
    BY <2>1 DEF request, Thrown
  <2>2. CASE wire.status # 200
    BY <2>2 DEF request, ApiError
  <2>3. QED
    BY <2>1, <2>2
<1>2. request(wire) = Ok(wire.body)
  BY <1>1 DEF request
<1>3. wire \notin Severed /\ wire # Unauthorized /\ wire # Cut
  <2>1. /\ Lost.status = 0 /\ BadGateway.status = 502
        /\ Unauthorized.status = 401 /\ Cut.body = None
    BY DEF Lost, BadGateway, Unauthorized, Cut
  <2>2. QED
    BY <1>1, <2>1 DEF Severed
<1>4. calls[n].srv = "done" /\ wire = calls[n].wire
  BY <1>3 DEF Wires
<1>5. QED
  BY <1>1, <1>2, <1>3, <1>4 DEF Ok

\* A definite refusal of a change says that the gateway has done nothing.
LEMMA DefiniteAnswer ==
  ASSUME ConsoleInv, NEW n \in InFlight, NEW wire \in Wires(calls[n]), Definite(request(wire)),
         calls[n].op \notin Reads
  PROVE  Undone(calls[n]) /\ wire \notin Severed
<1>1. wire.status # 200
  <2>1. CASE wire.status = 200 /\ wire.body = None
    BY <2>1 DEF request, Thrown, Definite
  <2>2. CASE wire.status = 200 /\ wire.body # None
    BY <2>2 DEF request, Ok, Definite
  <2>3. QED
    BY <2>1, <2>2
<1>2. wire.status \notin {0, 502}
  BY <1>1 DEF request, ApiError, Definite
<1>3. wire \notin Severed /\ wire # Cut
  <2>1. Lost.status = 0 /\ BadGateway.status = 502 /\ Cut.status = 200
    BY DEF Lost, BadGateway, Cut
  <2>2. QED
    BY <1>1, <1>2, <2>1 DEF Severed
<1>4. calls[n].srv = "queued" \/ (calls[n].srv = "done" /\ wire = calls[n].wire)
  BY <1>3 DEF Wires
<1>5. QED
  BY <1>1, <1>3, <1>4 DEF Undone

\* An answer that arrived frees its slot.
LEMMA SettledFor ==
  ASSUME ConsoleInv, NEW n \in InFlight, NEW wire, wire \notin Severed
  PROVE  Settled(n, wire)[n] = NoCall
<1>1. n \in Slots /\ calls = [m \in Slots |-> calls[m]]
  BY DEF ConsoleInv, Slotted, InFlight
<1>2. QED
  BY <1>1 DEF Settled

\* Consuming an answer keeps it when a good one shows the truth or changes nothing shown.
LEMMA CalmSettles ==
  ASSUME ConsoleInv, CalmInv, NEW n \in InFlight, NEW wire \in Wires(calls[n]), NEW v, NEW good,
         Settles(n, wire, v, good), calls[n].cli = "waiting",
         good => \/ /\ calm /\ request(wire).kind = "ok"
                    /\ AnswerIsTrue(calls[n]) /\ ForThisPage(calls[n], view) => Truth(v)
                 \/ /\ fresh /\ Definite(request(wire))
                    /\ calls[n].op \notin Reads /\ SameShown(view, v)
  PROVE  CalmInv'
<1>1. /\ calls' = Settled(n, wire) /\ view' = v /\ fresh' = good /\ calm' = calm
      /\ status' = status /\ configured' = configured
  BY DEF Settles, serverVars
<1>2. n \in Slots /\ calls[n] # NoCall
  BY InFlightCalls DEF ConsoleInv
<1>3. /\ calls'[n] = NoCall \/ calls'[n].cli = "gone"
      /\ \A m \in Slots \ {n} : calls'[m] = calls[m]
  BY <1>1, LeavesSettled DEF ConsoleInv
<1>4. Calmness'
  <2> SUFFICES ASSUME calm, NEW m \in Slots, calls'[m] # NoCall
               PROVE  /\ OnlyCall(m)'
                      /\ calls'[m].cli = "waiting" =>
                           AnswerIsTrue(calls[m])' /\ ForThisPage(calls[m], view)'
    BY <1>1 DEF Calmness
  <2>1. OnlyCall(n)
    BY <1>2 DEF CalmInv, Calmness
  <2>2. m = n /\ OnlyCall(m)'
    BY <1>3, <2>1 DEF OnlyCall
  <2>3. QED
    BY <1>3, <2>2
<1>5. Freshness'
  <2> SUFFICES ASSUME good
               PROVE  /\ \A m \in Slots : calls'[m].cli # "gone"
                      /\ (\A m \in Slots : Undone(calls'[m])) => Truth(view)'
    BY <1>1 DEF Freshness
  <2>1. CASE /\ calm /\ request(wire).kind = "ok"
             /\ AnswerIsTrue(calls[n]) /\ ForThisPage(calls[n], view) => Truth(v)
    <3>1. OnlyCall(n) /\ AnswerIsTrue(calls[n]) /\ ForThisPage(calls[n], view)
      BY <1>2, <2>1 DEF CalmInv, Calmness
    <3>2. calls'[n] = NoCall
      BY <1>1, <2>1, GoodAnswer, SettledFor
    <3>3. \A m \in Slots : calls'[m] = NoCall
      BY <1>3, <3>1, <3>2 DEF OnlyCall
    <3>4. Truth(view)'
      BY <1>1, <2>1, <3>1 DEF Truth
    <3>5. QED
      BY <3>3, <3>4, NoCallFacts
  <2>2. CASE /\ fresh /\ Definite(request(wire))
             /\ calls[n].op \notin Reads /\ SameShown(view, v)
    <3>1. Undone(calls[n]) /\ calls'[n] = NoCall
      BY <1>1, <2>2, DefiniteAnswer, SettledFor
    <3>2. /\ \A m \in Slots : calls[m].cli # "gone"
          /\ (\A m \in Slots : Undone(calls[m])) => Truth(view)
      BY <2>2 DEF CalmInv, Freshness
    <3>3. \A m \in Slots : calls'[m].cli # "gone"
      BY <1>3, <3>1, <3>2, NoCallFacts
    <3>4. ASSUME \A m \in Slots : Undone(calls'[m])
          PROVE  Truth(view)'
      <4>1. Truth(view)
        BY <1>3, <3>1, <3>2, <3>4
      <4>2. QED
        BY <1>1, <2>2, <4>1 DEF Truth, SameShown
    <3>5. QED
      BY <3>3, <3>4
  <2>3. QED
    BY <2>1, <2>2
<1>6. QED
  BY <1>4, <1>5 DEF CalmInv

\* So does a change of what is not data of the gateway.
LEMMA CalmShows ==
  ASSUME ConsoleInv, CalmInv, NEW v, Shows(v), SameShown(view, v)
  PROVE  CalmInv'
<1>1. /\ view' = v /\ calm' = calm /\ fresh' = fresh /\ calls' = calls
      /\ status' = status /\ configured' = configured
  BY DEF Shows, serverVars
<1>2. Calmness'
  <2>1. \A n \in Slots : ForThisPage(calls[n], view) => ForThisPage(calls[n], v)
    BY DEF ForThisPage, SameShown
  <2>2. \A n \in Slots : AnswerIsTrue(calls[n])' <=> AnswerIsTrue(calls[n])
    BY <1>1 DEF AnswerIsTrue, InstallsList
  <2>3. \A n \in Slots : OnlyCall(n)' <=> OnlyCall(n)
    BY <1>1 DEF OnlyCall
  <2>4. \A n \in Slots : ForThisPage(calls[n], view)' <=> ForThisPage(calls[n], v)
    BY <1>1 DEF ForThisPage
  <2>5. QED
    BY <1>1, <2>1, <2>2, <2>3, <2>4 DEF CalmInv, Calmness
<1>3. Freshness'
  BY <1>1 DEF CalmInv, Freshness, Truth, SameShown
<1>4. QED
  BY <1>2, <1>3 DEF CalmInv

\* Only one call is under way, the first of its page or of a reload.
LEMMA CalmAlone ==
  ASSUME fresh' = FALSE, NEW v, view' = v,
         calm' => \E k \in Slots : /\ \A m \in Slots \ {k} : calls'[m] = NoCall
                                   /\ \/ calls'[k] = NoCall
                                      \/ calls'[k].srv = "queued" /\ ForThisPage(calls'[k], v)
  PROVE  CalmInv'
<1>1. Freshness'
  BY DEF Freshness
<1>2. Calmness'
  <2> SUFFICES ASSUME calm', NEW n \in Slots, calls'[n] # NoCall
               PROVE  /\ OnlyCall(n)'
                      /\ AnswerIsTrue(calls[n])' /\ ForThisPage(calls[n], view)'
    BY DEF Calmness
  <2>1. calls'[n].srv = "queued" /\ ForThisPage(calls'[n], v) /\ OnlyCall(n)'
    BY DEF OnlyCall
  <2>2. QED
    BY <2>1 DEF AnswerIsTrue, ForThisPage
<1>3. QED
  BY <1>1, <1>2 DEF CalmInv

\* The reload after a ban or an unban starts with nothing else on its way.
LEMMA CalmReload ==
  ASSUME ConsoleInv, CalmInv, OnInstalls, NEW n \in InFlight, NEW wire \in Wires(calls[n]), NEW v,
         InstallsState(v), v.stack = view.stack, calls[n].op \in Mutations,
         calls[n].cli = "waiting", request(wire).kind = "ok", ReloadThen(n, wire, v)
  PROVE  CalmInv'
<1>1. PICK w : w = [v EXCEPT !.loading = TRUE]
  OBVIOUS
<1>2. /\ view' = w /\ fresh' = FALSE /\ (calm' => calm /\ InFlight = {n})
      /\ Sending(Settled(n, wire), "installs", calls[n].then, None)
  BY <1>1 DEF ReloadThen
<1>3. w.stack = view.stack /\ w.name = "installs"
  BY <1>1, InstallsLoading DEF SameTable, InstallsState, InstallsShape
<1>4. PICK k : k = sent + 1
  OBVIOUS
<1>5. PICK cs : cs = Settled(n, wire)
  OBVIOUS
<1>6. PICK then : then = calls[n].then
  OBVIOUS
<1>7. Leaves(cs) /\ cs[n] = NoCall /\ \A m \in Slots \ {n} : cs[m] = calls[m]
  BY <1>5, LeavesSettled, GoodAnswer, SettledFor DEF ConsoleInv
<1>8. /\ k \in Slots /\ calls'[k] = Call("installs", then, None)
      /\ \A m \in Slots \ {k} : calls'[m] = cs[m]
  BY <1>2, <1>4, <1>5, <1>6, <1>7, KeptSending, ReadCall DEF ConsoleInv
<1>9. /\ calls'[k].op = "installs" /\ calls'[k].arg = then /\ calls'[k].srv = "queued"
  BY <1>8, NewCall
<1>10. ASSUME calm'
       PROVE  /\ \A m \in Slots \ {k} : calls'[m] = NoCall
              /\ ForThisPage(calls'[k], w)
  <2>1. InFlight = {n} /\ calm /\ n \in Slots /\ calls[n] # NoCall
    BY <1>2, <1>10, InFlightCalls DEF ConsoleInv
  <2>2. \A m \in Slots \ {n} : calls[m] = NoCall
    BY <2>1, InFlightCalls DEF ConsoleInv, Slotted
  <2>3. ForThisPage(calls[n], view)
    BY <2>1 DEF CalmInv, Calmness
  <2>4. then = Last(w.stack)
    BY <1>3, <1>6, <2>3 DEF ForThisPage, OnInstalls
  <2>5. "installs" \notin Mutations
    BY DEF Mutations
  <2>6. QED
    BY <1>7, <1>8, <1>9, <2>2, <2>4, <2>5 DEF ForThisPage
<1>11. QED
  BY <1>2, <1>8, <1>9, <1>10, CalmAlone

(* The pages. *)

\* Paging and reloading keep it.
LEMMA CalmPaging ==
  ASSUME ConsoleInv, CalmInv,
         \/ ReloadInstalls \/ InstallsNext \/ InstallsPrev
         \/ ReloadAudit \/ AuditNext \/ AuditPrev
  PROVE  CalmInv'
<1>1. "installs" \in Reads \ Mutations /\ "audit" \in Reads \ Mutations
  BY DEF Reads, Mutations
<1>2. ASSUME ReloadInstalls \/ InstallsNext \/ InstallsPrev
      PROVE  CalmInv'
  <2>1. PICK v, cursor : /\ InstallsState(v) /\ v.name = "installs" /\ cursor = Last(v.stack)
                         /\ LoadInstalls(v, cursor)
    BY <1>2, PagesInstalls
  <2>2. PICK w : w = [v EXCEPT !.loading = TRUE]
    OBVIOUS
  <2>3. w.name = "installs" /\ w.stack = v.stack
    BY <2>1, <2>2, InstallsLoading DEF SameTable
  <2>4. Sends("installs", cursor, None, w)
    BY <2>1, <2>2 DEF LoadInstalls
  <2>5. QED
    BY <1>1, <2>1, <2>3, <2>4, CalmSends, ReadCall
<1>3. ASSUME ReloadAudit \/ AuditNext \/ AuditPrev
      PROVE  CalmInv'
  <2>1. PICK v, cursor : /\ AuditState(v) /\ v.name = "audit" /\ cursor = Last(v.stack)
                         /\ LoadAudit(v, cursor)
    BY <1>3, PagesAudit
  <2>2. PICK w : w = [v EXCEPT !.loading = TRUE]
    OBVIOUS
  <2>3. w.name = "audit" /\ w.stack = v.stack
    BY <2>1, <2>2, AuditLoading DEF SameTable
  <2>4. Sends("audit", cursor, None, w)
    BY <2>1, <2>2 DEF LoadAudit
  <2>5. QED
    BY <1>1, <2>1, <2>3, <2>4, CalmSends, ReadCall
<1>4. QED
  BY <1>2, <1>3

\* The modal is no data of the gateway.
LEMMA CalmModal ==
  ASSUME ConsoleInv, CalmInv,
         (\E id \in 1..Installs : OpenBan(id)) \/ TypeReason \/ CancelBan
  PROVE  CalmInv'
<1>1. view.name = "installs"
  BY DEF OpenBan, TypeReason, CancelBan, OnInstalls
<1>2. PICK w : OnlyModal(w) /\ Shows(w)
  BY ShowsModal
<1>3. SameShown(view, w)
  BY <1>1, <1>2 DEF OnlyModal, SameTable, SameShown
<1>4. QED
  BY <1>2, <1>3, CalmShows

\* Confirming a ban keeps it.
LEMMA CalmConfirmBan ==
  ASSUME ConsoleInv, CalmInv, ConfirmBan
  PROVE  CalmInv'
<1> DEFINE arg == [id |-> view.banTarget, reason |-> view.banReason]
<1>1. view.name = "installs" /\ InstallsState(view)
  BY DEF ConsoleInv, Viewing, OnInstallsView, OnInstalls, ConfirmBan
<1>2. view.banTarget \in 1..Installs /\ view.banReason = view.banTarget
  BY <1>1 DEF ConfirmBan, ModalShut, InstallsState
<1>3. PICK w : w = [view EXCEPT !.banSubmitting = TRUE]
  OBVIOUS
<1>4. SameTable(view, w)
  BY <1>1, <1>3, InstallsSubmitting
<1>5. CallOK(Call("ban", arg, Current))
  <2>1. arg.id = view.banTarget /\ arg.reason = view.banReason
    OBVIOUS
  <2> HIDE DEF arg
  <2>2. QED
    BY <1>2, <2>1, MutationCall DEF Mutations
<1>6. Sends("ban", arg, Current, w)
  BY <1>3 DEF ConfirmBan
<1> HIDE DEF arg
<1>7. SameShown(view, w) /\ Current = Last(w.stack) /\ w.name = "installs"
  BY <1>1, <1>4 DEF SameTable, SameShown, Current
<1>8. QED
  BY <1>5, <1>6, <1>7, CalmSends

\* Sending an unban keeps it.
LEMMA CalmUnban ==
  ASSUME ConsoleInv, CalmInv, NEW id \in 1..Installs, Unban(id)
  PROVE  CalmInv'
<1> DEFINE arg == [id |-> id, reason |-> None]
<1>1. view.name = "installs" /\ SameShown(view, view) /\ Current = Last(view.stack)
  BY DEF Unban, OnInstalls, SameShown, Current
<1>2. CallOK(Call("unban", arg, Current))
  <2>1. arg.id = id /\ arg.reason = None
    OBVIOUS
  <2> HIDE DEF arg
  <2>2. QED
    BY <2>1, MutationCall DEF Mutations
<1>3. Sends("unban", arg, Current, view)
  BY DEF Unban
<1> HIDE DEF arg
<1>4. QED
  BY <1>1, <1>2, <1>3, CalmSends

\* A page of the installs is true of the statuses it was read from.
LEMMA ListedStatuses ==
  ASSUME NEW cursor
  PROVE  LET rows == InstallsList(cursor).rows
         IN  \A k \in DOMAIN rows : rows[k].status = status[rows[k].id]
<1> DEFINE left == IF Installs > cursor THEN Installs - cursor ELSE 0
           n    == IF left > PageSize THEN PageSize ELSE left
<1>1. InstallsList(cursor).rows =
        [k \in 1..n |-> [id |-> Installs - cursor - k + 1,
                         status |-> status[Installs - cursor - k + 1]]]
  BY DEF InstallsList
<1> HIDE DEF n
<1>2. QED
  BY <1>1

\* An awaited answer to a load fills the table with the truth.
LEMMA CalmTableLoaded ==
  ASSUME ConsoleInv, CalmInv, NEW n \in InFlight, NEW wire \in Wires(calls[n]),
         InstallsLoaded(n, wire) \/ AuditLoaded(n, wire)
  PROVE  CalmInv'
<1>1. PICK res : res = request(wire)
  OBVIOUS
<1>2. /\ calls[n].op = view.name /\ calls[n].cli = "waiting"
      /\ \/ view.name = "installs" /\ InstallsState(view)
         \/ view.name = "audit" /\ AuditState(view)
  BY DEF InstallsLoaded, AuditLoaded, Waiting, OnInstalls, OnAudit, ConsoleInv, Viewing,
         OnInstallsView, OnAuditView
<1>3. PICK w : w = IF res.kind = "ok" THEN Filled(view, res.body, calls[n].arg)
                   ELSE [view EXCEPT !.loading = FALSE]
  OBVIOUS
<1>4. Settles(n, wire, w, Fills(res))
  BY <1>1, <1>3, Zenon DEF InstallsLoaded, AuditLoaded
<1>5. ASSUME res.kind = "ok", AnswerIsTrue(calls[n]), ForThisPage(calls[n], view)
      PROVE  Truth(w)
  <2>1. PICK body, cursor : body = res.body /\ cursor = calls[n].arg
    OBVIOUS
  <2>2. /\ w.name = view.name /\ w.stack = view.stack /\ w.shown = calls[n].arg
        /\ view.name = "installs" => w.rows = res.body.rows
    <3>1. w = Filled(view, body, cursor)
      BY <1>3, <1>5, <2>1
    <3>2. CASE view.name = "installs" /\ InstallsState(view)
      <4>1. w.name = view.name /\ w.rows = body.rows /\ w.stack = view.stack /\ w.shown = cursor
        <5>1. FilledBy(view, w, body, cursor)
          BY <3>1, <3>2, InstallsFilled, Zenon
        <5>2. QED
          BY <5>1 DEF FilledBy
      <4>2. QED
        BY <2>1, <4>1
    <3>3. CASE view.name = "audit" /\ AuditState(view)
      <4>1. w.name = view.name /\ w.stack = view.stack /\ w.shown = cursor
        <5>1. FilledBy(view, w, body, cursor)
          BY <3>1, <3>3, AuditFilled, Zenon
        <5>2. QED
          BY <5>1 DEF FilledBy
      <4>2. QED
        BY <2>1, <3>3, <4>1
    <3>4. QED
      BY <1>2, <3>2, <3>3
  <2>3. calls[n].arg = Last(view.stack)
    BY <1>2, <1>5 DEF ForThisPage
  <2>4. view.name = "installs" => res.body = InstallsList(calls[n].arg)
    BY <1>1, <1>2, <1>5, GoodAnswer DEF AnswerIsTrue
  <2>5. view.name = "installs" =>
          \A k \in DOMAIN w.rows : w.rows[k].status = status[w.rows[k].id]
    BY <2>2, <2>4, ListedStatuses
  <2>6. QED
    BY <1>2, <2>2, <2>3, <2>5 DEF Truth
<1>6. QED
  BY <1>1, <1>2, <1>4, <1>5, CalmSettles DEF Fills

\* The end of a ban or an unban keeps it: done, the page reloads; refused, nothing changed.
LEMMA CalmMutationDone ==
  ASSUME ConsoleInv, CalmInv, NEW n \in InFlight, NEW wire \in Wires(calls[n]),
         BanDone(n, wire) \/ UnbanDone(n, wire)
  PROVE  CalmInv'
<1>1. PICK res : res = request(wire)
  OBVIOUS
<1>2. /\ OnInstalls /\ view.name = "installs" /\ InstallsState(view)
      /\ calls[n].op \in Mutations /\ calls[n].op \notin Reads /\ calls[n].cli = "waiting"
  BY DEF BanDone, UnbanDone, Waiting, OnInstalls, ConsoleInv, Viewing, OnInstallsView,
         Mutations, Reads
<1>3. PICK idle : idle = [view EXCEPT !.banSubmitting = FALSE]
  OBVIOUS
<1>4. InstallsState(idle) /\ SameTable(view, idle)
  BY <1>2, <1>3, InstallsSubmitting
<1>5. CASE res.kind = "ok"
  <2>1. PICK w1 : w1 = [idle EXCEPT !.banTarget = None]
    OBVIOUS
  <2>2. PICK w : w = [w1 EXCEPT !.banReason = None]
    OBVIOUS
  <2>3. [idle EXCEPT !.banTarget = None, !.banReason = None] = w
    BY <2>1, <2>2, Zenon
  <2>4. InstallsState(w1) /\ w1.stack = view.stack
    BY <1>4, <2>1, InstallsShut DEF SameTable
  <2>5. InstallsState(w) /\ w.stack = view.stack
    BY <2>2, <2>4, InstallsUnwritten DEF SameTable
  <2>6. ReloadThen(n, wire, w) \/ ReloadThen(n, wire, view)
    BY <1>1, <1>3, <1>5, <2>3, Zenon DEF BanDone, UnbanDone
  <2>7. QED
    BY <1>1, <1>2, <1>5, <2>5, <2>6, CalmReload
<1>6. CASE res.kind # "ok"
  <2>1. Settles(n, wire, idle, AsGood(res)) \/ Settles(n, wire, view, AsGood(res))
    BY <1>1, <1>3, <1>6, Zenon DEF BanDone, UnbanDone
  <2>2. SameShown(view, idle) /\ SameShown(view, view)
    BY <1>2, <1>4 DEF SameShown, SameTable
  <2>3. QED
    BY <1>1, <1>2, <2>1, <2>2, CalmSettles DEF AsGood
<1>7. QED
  BY <1>5, <1>6

\* Loading, editing and saving the configuration keep it.
LEMMA CalmConfig ==
  ASSUME ConsoleInv, CalmInv,
         \/ LoadConfig
         \/ \E k \in Keys : (\E text \in Drafts[k] : Edit(k, text)) \/ Save(k)
  PROVE  CalmInv'
<1>1. view.name = "config" /\ ConfigState(view)
  BY DEF ConsoleInv, Viewing, OnConfigView, OnConfig, LoadConfig, Edit, Save, CanSave
<1>2. CASE LoadConfig
  <2>1. PICK w : w = [view EXCEPT !.loading = TRUE]
    OBVIOUS
  <2>2. w.name = "config"
    BY <1>1, <2>1, ConfigLoading DEF ConfigState
  <2>3. Sends("config", None, None, w)
    BY <1>2, <2>1 DEF LoadConfig
  <2>4. "config" \in Reads
    BY DEF Reads
  <2>5. QED
    BY <2>2, <2>3, <2>4, CalmSends, ReadCall
<1>3. ASSUME NEW k \in Keys, NEW text, Edit(k, text)
      PROVE  CalmInv'
  <2>1. PICK x : x = [view.drafts EXCEPT ![k] = text]
    OBVIOUS
  <2>2. PICK w : w = [view EXCEPT !.drafts = x]
    OBVIOUS
  <2>3. ConfigState(w) /\ w.items = view.items
    BY <1>1, <2>2, ConfigDrafts
  <2>4. SameShown(view, w)
    BY <1>1, <2>3 DEF SameShown, ConfigState
  <2>5. Shows(w)
    BY <1>3, <2>1, <2>2 DEF Edit
  <2>6. QED
    BY <2>4, <2>5, CalmShows
<1>4. ASSUME NEW k \in Keys, Save(k)
      PROVE  CalmInv'
  <2>1. PICK w : w = [view EXCEPT !.savingKey = k]
    OBVIOUS
  <2>2. ConfigState(w) /\ w.items = view.items
    BY <1>1, <2>1, ConfigSaving
  <2>3. SameShown(view, w) /\ w.name = "config"
    BY <1>1, <2>2 DEF SameShown, ConfigState
  <2>4. PICK arg : arg = [key |-> k, val |-> view.drafts[k]]
    OBVIOUS
  <2>5. arg.key = k
    BY <2>4
  <2>6. Sends("postConfig", arg, None, w)
    BY <1>4, <2>1, <2>4 DEF Save
  <2>7. QED
    BY <2>3, <2>5, <2>6, CalmSends, SaveCall
<1>5. QED
  BY <1>2, <1>3, <1>4

\* An awaited answer to a load of the configuration shows the truth.
LEMMA CalmConfigLoaded ==
  ASSUME ConsoleInv, CalmInv, NEW n \in InFlight, NEW wire \in Wires(calls[n]),
         ConfigLoaded(n, wire)
  PROVE  CalmInv'
<1>1. /\ view.name = "config" /\ ConfigState(view)
      /\ calls[n].op = "config" /\ calls[n].cli = "waiting"
  BY DEF ConsoleInv, Viewing, OnConfigView, OnConfig, ConfigLoaded, Waiting
<1>2. PICK res : res = request(wire)
  OBVIOUS
<1>3. PICK v : v = IF res.kind = "ok" THEN WithItems(view, res.body) ELSE view
  OBVIOUS
<1>4. PICK w : w = [v EXCEPT !.loading = FALSE]
  OBVIOUS
<1>5. Settles(n, wire, w, Fills(res))
  <2>1. CASE res.kind = "ok"
    BY <1>2, <1>3, <1>4, <2>1, Zenon DEF ConfigLoaded
  <2>2. CASE res.kind # "ok"
    BY <1>2, <1>3, <1>4, <2>2, Zenon DEF ConfigLoaded
  <2>3. QED
    BY <2>1, <2>2
<1>6. ASSUME res.kind = "ok", AnswerIsTrue(calls[n])
      PROVE  Truth(w)
  <2>1. ConfigState(v) /\ v.items = res.body
    BY <1>1, <1>3, <1>6, ConfigItems
  <2>2. w.name = "config" /\ w.items = res.body
    BY <1>4, <2>1, ConfigLoading DEF ConfigState
  <2>3. res.body = configured
    BY <1>1, <1>2, <1>6, GoodAnswer DEF AnswerIsTrue
  <2>4. QED
    BY <2>2, <2>3 DEF Truth
<1>7. QED
  BY <1>1, <1>2, <1>5, <1>6, CalmSettles DEF Fills

\* The end of a save keeps it.
LEMMA CalmSaved ==
  ASSUME ConsoleInv, CalmInv, NEW n \in InFlight, NEW wire \in Wires(calls[n]), Saved(n, wire)
  PROVE  CalmInv'
<1>1. /\ view.name = "config" /\ ConfigState(view)
      /\ calls[n].op = "postConfig" /\ calls[n].cli = "waiting" /\ calls[n].op \notin Reads
  BY DEF ConsoleInv, Viewing, OnConfigView, OnConfig, Saved, Waiting, Reads
<1>2. PICK res : res = request(wire)
  OBVIOUS
<1>3. PICK idle : idle = [view EXCEPT !.savingKey = None]
  OBVIOUS
<1>4. PICK w : w = IF res.kind = "ok" THEN WithItems(idle, res.body) ELSE idle
  OBVIOUS
<1>5. ConfigState(idle) /\ idle.items = view.items
  <2>1. ConfigState(view)
    BY <1>1
  <2>2. QED
    BY <1>3, <2>1 DEF ConfigState
<1>6. PICK good : good = (Fills(res) \/ AsGood(res))
  OBVIOUS
<1>7. Settles(n, wire, w, good)
  BY <1>2, <1>3, <1>4, <1>6, Zenon DEF Saved
<1>8. ASSUME res.kind = "ok", AnswerIsTrue(calls[n])
      PROVE  Truth(w)
  <2>1. ConfigState(w) /\ w.items = res.body
    BY <1>4, <1>5, <1>8, ConfigItems
  <2>2. res.body = configured
    BY <1>1, <1>2, <1>8, GoodAnswer DEF AnswerIsTrue
  <2>3. QED
    BY <2>1, <2>2 DEF Truth, ConfigState
<1>9. AsGood(res) => res.kind # "ok" /\ fresh /\ Definite(res)
  BY DEF AsGood, Definite
<1>10. res.kind # "ok" => SameShown(view, w)
  BY <1>1, <1>4, <1>5 DEF SameShown, ConfigState
<1>11. good => \/ /\ calm /\ request(wire).kind = "ok"
                  /\ AnswerIsTrue(calls[n]) /\ ForThisPage(calls[n], view) => Truth(w)
               \/ /\ fresh /\ Definite(request(wire))
                  /\ calls[n].op \notin Reads /\ SameShown(view, w)
  BY <1>1, <1>2, <1>6, <1>8, <1>9, <1>10 DEF Fills
<1>12. QED
  BY <1>1, <1>7, <1>11, CalmSettles

-----------------------------------------------------------------------------
(* Download, navigation and the start. *)

\* The export shows nothing.
LEMMA CalmDownload ==
  ASSUME ConsoleInv, CalmInv, Download
  PROVE  CalmInv'
<1>1. /\ view'.name = "export" /\ calm' = calm /\ fresh' = fresh /\ calls' = calls
      /\ status' = status /\ configured' = configured
  BY DEF Download, configVars
<1>2. Calmness'
  <2>1. \A n \in Slots : AnswerIsTrue(calls[n])' <=> AnswerIsTrue(calls[n])
    BY <1>1 DEF AnswerIsTrue, InstallsList
  <2>2. \A n \in Slots : (OnlyCall(n)' <=> OnlyCall(n)) /\ ForThisPage(calls[n], view)'
    BY <1>1 DEF OnlyCall, ForThisPage
  <2>3. QED
    BY <1>1, <2>1, <2>2 DEF CalmInv, Calmness
<1>3. Freshness'
  BY <1>1 DEF CalmInv, Freshness, Truth
<1>4. QED
  BY <1>2, <1>3 DEF CalmInv

\* The first load of a page is the load of the cursor it starts at.
LEMMA FirstCallFits ==
  ASSUME NEW route \in Names, route # "export", NEW v, v = Mounted(route), NEW c,
         c = Call(route, FirstCall(route), None)
  PROVE  c.srv = "queued" /\ c # NoCall /\ ForThisPage(c, v)
<1>1. c.op = route /\ c.arg = FirstCall(route) /\ c.srv = "queued" /\ c # NoCall
  BY NewCall, NoCallFacts
<1>2. v.name = route
  BY MountedAt
<1>3. route \notin Mutations
  BY DEF Names, Mutations
<1>4. ASSUME route \in {"installs", "audit"}
      PROVE  c.arg = Last(v.stack)
  <2>1. v = IF route = "installs" THEN InstallsMounted ELSE AuditMounted
    BY <1>4 DEF Mounted
  <2>2. InstallsMounted.stack = <<0>> /\ AuditMounted.stack = <<0>>
    BY DEF InstallsMounted, AuditMounted
  <2>3. v.stack = <<0>> /\ FirstCall(route) = 0
    BY <1>4, <2>1, <2>2 DEF FirstCall
  <2>4. QED
    BY <1>1, <2>3, Bottom
<1>5. QED
  BY <1>1, <1>2, <1>3, <1>4 DEF ForThisPage

\* A new page shows nothing yet, and loads at rest if nothing was left behind.
LEMMA CalmNavigate ==
  ASSUME ConsoleInv, CalmInv, NEW route \in Routes, Navigate(route)
  PROVE  CalmInv'
<1>1. route \in Names /\ fresh' = FALSE
  BY RoutesAssumption DEF RoutesAssumption, Navigate
<1>2. PICK cs : cs = Abandoned
  OBVIOUS
<1>3. PICK v : v = Mounted(route)
  OBVIOUS
<1>4. view' = v /\ (calm' => \A m \in Slots : cs[m] = NoCall)
  BY <1>2, <1>3 DEF Navigate
<1>5. CASE route = "export"
  <2>1. calls' = cs
    BY <1>2, <1>5 DEF Navigate
  <2>2. QED
    BY <1>1, <1>4, <2>1, SlotsFacts, CalmAlone
<1>6. CASE route # "export"
  <2>1. PICK k : k = sent + 1
    OBVIOUS
  <2>2. Sending(cs, route, FirstCall(route), None) /\ Leaves(cs)
    BY <1>2, <1>6, LeavesAbandoned DEF Navigate, ConsoleInv
  <2>3. CallOK(Call(route, FirstCall(route), None))
    BY <1>1, <1>6, ReadCall DEF Names
  <2>4. /\ k \in Slots /\ calls'[k] = Call(route, FirstCall(route), None)
        /\ \A m \in Slots \ {k} : calls'[m] = cs[m]
    BY <2>1, <2>2, <2>3, KeptSending DEF ConsoleInv
  <2>5. calls'[k].srv = "queued" /\ ForThisPage(calls'[k], v)
    BY <1>1, <1>3, <1>6, <2>4, FirstCallFits
  <2>6. QED
    BY <1>1, <1>4, <2>4, <2>5, CalmAlone
<1>7. QED
  BY <1>5, <1>6

\* The console starts calm.
LEMMA InitCalm == Init => CalmInv
<1> SUFFICES ASSUME Init
             PROVE  CalmInv
  OBVIOUS
<1>1. PICK route \in Routes :
        /\ view = Mounted(route)
        /\ IF route = "export"
           THEN calls = NoCalls /\ sent = 0
           ELSE calls = [NoCalls EXCEPT ![1] = Call(route, FirstCall(route), None)] /\ sent = 1
  BY DEF Init
<1>2. route \in Names /\ fresh = FALSE
  BY RoutesAssumption DEF RoutesAssumption, Init
<1>3. Freshness
  BY <1>2 DEF Freshness
<1>4. Calmness
  <2> SUFFICES ASSUME NEW n \in Slots, calls[n] # NoCall
               PROVE  OnlyCall(n) /\ AnswerIsTrue(calls[n]) /\ ForThisPage(calls[n], view)
    BY DEF Calmness
  <2>1. /\ n = 1 /\ route # "export" /\ calls[n] = Call(route, FirstCall(route), None)
        /\ \A m \in Slots : calls[m] # NoCall => m = 1
    BY <1>1 DEF NoCalls
  <2>2. calls[n].srv = "queued" /\ ForThisPage(calls[n], view)
    BY <1>1, <1>2, <2>1, FirstCallFits
  <2>3. QED
    BY <2>1, <2>2 DEF OnlyCall, AnswerIsTrue
<1>5. QED
  BY <1>3, <1>4 DEF CalmInv

\* Every step of the console keeps the calm invariant.
LEMMA NextCalm == ConsoleInv /\ CalmInv /\ [Next]_vars => CalmInv'
<1> SUFFICES ASSUME ConsoleInv, CalmInv, [Next]_vars
             PROVE  CalmInv'
  OBVIOUS
<1>1. CASE UNCHANGED vars
  BY <1>1, CalmUnseen DEF vars, serverVars
<1>2. CASE ServerStep /\ UNCHANGED viewVars
  <2>1. ASSUME \/ Snapshot \/ SnapshotFails \/ StreamExport
               \/ \E outcome \in {"ok", "interrupted"} : StreamEnds(outcome)
        PROVE  CalmInv'
    BY <1>2, <2>1, CalmUnseen
       DEF Snapshot, SnapshotFails, StreamExport, StreamEnds, ExportStep, configVars
  <2>2. QED
    BY <1>2, <2>1, CalmHandlers, CalmRestart DEF ServerStep
<1>3. CASE InstallsStep
  BY <1>3, CalmPaging, CalmModal, CalmConfirmBan, CalmUnban, CalmTableLoaded,
     CalmMutationDone DEF InstallsStep
<1>4. CASE AuditStep
  BY <1>4, CalmPaging, CalmTableLoaded DEF AuditStep
<1>5. CASE ConfigStep
  BY <1>5, CalmConfig, CalmConfigLoaded, CalmSaved DEF ConfigStep
<1>6. CASE Download
  BY <1>6, CalmDownload
<1>7. CASE \E route \in Routes : Navigate(route)
  BY <1>7, CalmNavigate
<1>8. QED
  BY <1>1, <1>2, <1>3, <1>4, <1>5, <1>6, <1>7 DEF Next

(***************************************************************************)
(* A load that the operator starts at rest and waits for shows the truth   *)
(* (load of Installs.tsx, Audit.tsx and Config.tsx), whatever overlapped,  *)
(* was overtaken, failed, was lost or was cut short by a restart before.   *)
(***************************************************************************)
THEOREM CalmUseIsTrue == Spec => []CalmUseShowsTruth
<1>1. ConsoleInv /\ CalmInv => CalmUseShowsTruth
  <2> SUFFICES ASSUME ConsoleInv, CalmInv, fresh, InFlight = {}
               PROVE  Truth(view)
    BY DEF CalmUseShowsTruth, Truth, Current
  <2>1. \A n \in Slots : Undone(calls[n])
    BY InFlightCalls DEF ConsoleInv, Slotted, Undone
  <2>2. QED
    BY <2>1 DEF CalmInv, Freshness
<1>2. QED
  BY <1>1, InvHolds, InitCalm, NextCalm, PTL DEF Spec
=============================================================================
