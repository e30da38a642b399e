----------------------------- MODULE Dashboard ------------------------------
(***************************************************************************)
(* The gateway's side of the console: the handlers of app/dashboard with   *)
(* their stores (bootstrap/dashstore.go) and the configuration provider    *)
(* (infra/configprovider).  A handler is as many steps as it has effects   *)
(* another handler can see between: the status row, the audit ring, the    *)
(* settings table and the published configuration are four things.         *)
(***************************************************************************)
EXTENDS Api, AuditRing

CONSTANTS
  Installs,      \* how many installs are registered
  Registered,    \* the statuses they may have at the start
  PageSize,      \* PAGE_SIZE of the two tables
  Earlier,       \* the events recorded before the console is opened
  Env,           \* the environment's values, before the settings overlay
  Bounds,        \* key -> inclusive bounds, or None for a free text
  Priced,        \* the values config.Specs accepts for a free text
  MaxWallet,     \* the ceiling debug mode raises the wallet to
  MaxRestarts    \* bound: times the gateway dies and comes back

ASSUME DashboardAssumption == Registered \subseteq [1..Installs -> {"active", "banned"}]

Keys == DOMAIN Env

\* What the handlers below record.
EventType ==
  {Event("ban", id, id, "ok") : id \in 1..Installs}
  \cup {Event("unban", id, None, "ok") : id \in 1..Installs}
  \cup {Event("config_update", k, None, "ok") : k \in Keys}
  \cup {Event("export", None, None, outcome) : outcome \in {"ok", "interrupted"}}

ASSUME EarlierAssumption == Earlier \in Seq(EventType) /\ Len(Earlier) < Capacity

VARIABLES
  status,        \* installs.status, by order of created_at
  configured,    \* snapshot.configured
  effective,     \* snapshot.effective
  overlay,       \* the settings table: key -> value, or None
  export,        \* the step of the export in progress, or "none"
  effects,       \* history: changes made and exports streamed since the start
  restarts

configVars == <<configured, effective, overlay>>
serverVars == <<status, configured, effective, overlay, export,
                effects, restarts, ring, log>>

\* clampPagination and ListInstalls: newest first, one row more than the
\* page to know whether another follows.  The cursor is an offset, 0 for "".
InstallsList(cursor) ==
  LET left == IF Installs > cursor THEN Installs - cursor ELSE 0
      n    == IF left > PageSize THEN PageSize ELSE left
  IN  [rows |-> [k \in 1..n |-> LET id == Installs - cursor - k + 1
                                IN  [id |-> id, status |-> status[id]]],
       next |-> IF left > PageSize THEN cursor + PageSize ELSE 0]

(***************************************************************************)
(* GET handlers: one read each.                                            *)
(***************************************************************************)
ReadInstalls(n) ==
  /\ calls' = Answered(n, Reply(InstallsList(calls[n].arg)))
  /\ UNCHANGED serverVars

ReadAudit(n) ==
  /\ calls' = Answered(n, Reply(page(calls[n].arg, PageSize)))
  /\ UNCHANGED serverVars

\* ConfigDump renders the configured values, never the masked ones.
ConfigDump == configured

ReadConfig(n) ==
  /\ calls' = Answered(n, Reply(ConfigDump))
  /\ UNCHANGED serverVars

\* InstallsList reports a query that fails as 500 INTERNAL.
ReadFails(n) ==
  /\ calls' = Answered(n, Envelope(500, "INTERNAL"))
  /\ UNCHANGED serverVars

ServeRead(n) ==
  \/ /\ n \in Pending("installs", "queued")
     /\ ReadInstalls(n) \/ ReadFails(n)
  \/ n \in Pending("audit", "queued") /\ ReadAudit(n)
  \/ n \in Pending("config", "queued") /\ ReadConfig(n)

(***************************************************************************)
(* mutate: the status row first, the audit event after it.  The id comes   *)
(* from a listed row and installs are never deleted, so it is found.       *)
(***************************************************************************)
Mutations == {"ban", "unban"}
NewStatus == [ban |-> "banned", unban |-> "active"]

SetStatus(n) ==
  /\ \E op \in Mutations : n \in Pending(op, "queued")
  /\ status' = [status EXCEPT ![calls[n].arg.id] = NewStatus[calls[n].op]]
  /\ effects' = effects + 1
  /\ calls' = [calls EXCEPT ![n].srv = "applied"]
  /\ UNCHANGED <<configVars, export, restarts, ring, log>>

SetStatusFails(n) ==
  /\ \E op \in Mutations : n \in Pending(op, "queued")
  /\ calls' = Answered(n, Envelope(500, "INTERNAL"))
  /\ UNCHANGED serverVars

\* Mutant: only a ban is recorded.
AuditMutateSkips(n) ==
  /\ \E op \in Mutations : n \in Pending(op, "applied")
  /\ IF calls[n].op = "ban"
     THEN record(Event("ban", calls[n].arg.id, calls[n].arg.reason, "ok"))
     ELSE UNCHANGED <<ring, log>>
  /\ calls' = Answered(n, Reply(calls[n].op))
  /\ UNCHANGED <<status, configVars, export, effects, restarts>>

AuditMutate(n) ==
  /\ \E op \in Mutations : n \in Pending(op, "applied")
  /\ record(Event(calls[n].op, calls[n].arg.id, calls[n].arg.reason, "ok"))
  /\ calls' = Answered(n, Reply(calls[n].op))
  /\ UNCHANGED <<status, configVars, export, effects, restarts>>

(***************************************************************************)
(* Configuration: validate against the current configured values, persist  *)
(* the overrides, publish; the provider's mutex covers the three.          *)
(***************************************************************************)
Overlaid(base, o) == [k \in Keys |-> IF o[k] = None THEN base[k] ELSE o[k]]

\* applyOne: parse and bound a number, look a text up.
Accepted(k, v) ==
  IF Bounds[k] = None THEN v \in Priced ELSE v \in Bounds[k][1]..Bounds[k][2]

\* ValidateSemantics: the dearest request of the model fits the wallet.
ValidateSemantics(c) == c["model"] <= c["wallet"]

\* The gateway has started, so it accepted its environment.
ASSUME ConfigAssumption ==
  /\ Env = [k \in Keys |-> Env[k]] /\ ValidateSemantics(Env)
  /\ None \notin Priced /\ None \notin Int

\* EffectiveLimits in debug mode, the default.
EffectiveLimits(c) == [c EXCEPT !["wallet"] = MaxWallet]

\* Mutant: the override is applied to the masked configuration.
NextConfigMasked(arg) == [effective EXCEPT ![arg.key] = arg.val]

\* ApplyOverrides clones the configured values, never the masked ones.
NextConfig(arg) == [configured EXCEPT ![arg.key] = arg.val]

MutexFree == Pending("postConfig", "persisted") = {}

Acceptable(arg) ==
  Accepted(arg.key, arg.val) /\ ValidateSemantics(NextConfig(arg))

\* PersistAll commits the overrides in one transaction.
PersistConfig(n) ==
  /\ n \in Pending("postConfig", "queued") /\ MutexFree
  /\ Acceptable(calls[n].arg)
  /\ overlay' = [overlay EXCEPT ![calls[n].arg.key] = calls[n].arg.val]
  /\ calls' = [calls EXCEPT ![n].srv = "persisted"]
  /\ UNCHANGED <<status, configured, effective, export, effects,
                 restarts, ring, log>>

\* A rejected override, and a persist that fails, are both CONFIG_REJECTED.
RejectConfig(n) ==
  /\ n \in Pending("postConfig", "queued") /\ MutexFree
  /\ calls' = Answered(n, Envelope(400, "CONFIG_REJECTED"))
  /\ UNCHANGED serverVars

\* publish installs both forms at once.
PublishConfig(n) ==
  /\ n \in Pending("postConfig", "persisted")
  /\ configured' = NextConfig(calls[n].arg)
  /\ effective' = EffectiveLimits(configured')
  /\ effects' = effects + 1
  /\ calls' = [calls EXCEPT ![n].srv = "applied"]
  /\ UNCHANGED <<status, overlay, export, restarts, ring, log>>

\* ConfigApply records the keys and answers with a fresh dump.
AuditConfig(n) ==
  /\ n \in Pending("postConfig", "applied")
  /\ record(Event("config_update", calls[n].arg.key, None, "ok"))
  /\ calls' = Answered(n, Reply(ConfigDump))
  /\ UNCHANGED <<status, configVars, export, effects, restarts>>

(***************************************************************************)
(* Export: snapshot into a temporary file, stream it, record the outcome;  *)
(* a deferred cleanup removes the file on every path.  An attempt that     *)
(* fails before the first byte is only logged.                             *)
(***************************************************************************)
ExportStep(from, to) ==
  /\ export = from
  /\ export' = to
  /\ UNCHANGED <<status, configVars, restarts, calls>>

\* VACUUM INTO, then Open.
Snapshot == ExportStep("asked", "opened") /\ UNCHANGED <<effects, ring, log>>

\* The snapshot or its opening fails, or the file turns out empty.
SnapshotFails ==
  /\ ExportStep("asked", "none") \/ ExportStep("opened", "none")
  /\ UNCHANGED <<effects, ring, log>>

StreamExport ==
  /\ ExportStep("opened", "streaming")
  /\ effects' = effects + 1
  /\ UNCHANGED <<ring, log>>

StreamEnds(outcome) ==
  /\ ExportStep("streaming", "none")
  /\ record(Event("export", None, None, outcome))
  /\ UNCHANGED effects

(***************************************************************************)
(* The process dies and starts again: the ring, the published              *)
(* configuration and every handler are gone, the tables stay.  The start   *)
(* reads the environment and the overlay (LoadWithOverlay).                *)
(***************************************************************************)
LoadWithOverlay == Overlaid(Env, overlay)

Restart ==
  /\ restarts < MaxRestarts
  /\ restarts' = restarts + 1
  /\ ring' = newAuditRing
  /\ log' = <<>>
  /\ configured' = LoadWithOverlay
  /\ effective' = EffectiveLimits(configured')
  /\ effects' = 0
  /\ export' = "none"
  /\ calls' = [n \in Slots |->
                 IF n \in InFlight /\ calls[n].srv \notin {"done", "dead"}
                 THEN IF calls[n].cli = "gone" THEN NoCall
                      ELSE [calls[n] EXCEPT !.srv = "dead"]
                 ELSE calls[n]]
  /\ UNCHANGED <<status, overlay>>

ServerStep ==
  \/ \E n \in Slots :
       \/ ServeRead(n)
       \/ SetStatus(n) \/ SetStatusFails(n) \/ AuditMutate(n)
       \/ PersistConfig(n) \/ RejectConfig(n) \/ PublishConfig(n) \/ AuditConfig(n)
  \/ Snapshot \/ SnapshotFails \/ StreamExport
  \/ \E outcome \in {"ok", "interrupted"} : StreamEnds(outcome)
  \/ Restart

ServerInit ==
  /\ status \in Registered
  /\ configured = Env
  /\ effective = EffectiveLimits(Env)
  /\ overlay = [k \in Keys |-> None]
  /\ export = "none"
  /\ effects = Len(Earlier)
  /\ restarts = 0
  /\ RingInit(Earlier)
=============================================================================
