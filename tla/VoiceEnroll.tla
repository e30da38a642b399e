---------------------------- MODULE VoiceEnroll -----------------------------
(***************************************************************************)
(* Cloned voices (app/voice, voicestore): enrolment buys a registration in *)
(* the shared provider account and records it for one install; deletion    *)
(* removes the registration, then the record.  Every request is one        *)
(* goroutine under its client's context.  A voice is identified with the   *)
(* enrolment request that creates it.                                      *)
(***************************************************************************)
EXTENDS Integers, FiniteSets

CONSTANTS
  Requests,    \* enrolment requests, and the voices they may create
  Earlier,     \* the requests whose voices were recorded before the start
  Owner,       \* per request: the install
  Names,       \* per request: the display names it may ask for
  Sample,      \* per request: the media lease it names as the voice sample
  LeaseOwner,  \* per media lease: the install that uploaded it
  PerInstall,  \* domain/voice PerInstallInventory
  Ceiling      \* VOICE_ACCOUNT_CEILING, 0 switches the gate off

ASSUME VoiceAssumption ==
  /\ IsFiniteSet(Requests) /\ Earlier \subseteq Requests
  /\ DOMAIN Owner = Requests /\ DOMAIN Names = Requests /\ DOMAIN Sample = Requests
  /\ DOMAIN LeaseOwner = {Sample[r] : r \in Requests}
  /\ PerInstall \in Nat \ {0}
  /\ Ceiling \in Nat

\* What was recorded before the start was recorded under the same inventory.
ASSUME EarlierAssumption ==
  \A e \in Earlier :
    /\ Cardinality({f \in Earlier : Owner[f] = Owner[e]}) <= PerInstall
    /\ \A f \in Earlier : Owner[f] = Owner[e] /\ f # e => Names[f] \cap Names[e] = {}

VARIABLES
  name,      \* the request's display name
  pc,        \* where the enrolment is
  live,      \* its context is not cancelled
  row,       \* its ledger row
  prov,      \* its registration at the provider
  recs,      \* install_voices: the recorded voices
  active,    \* sample leases that can still be fetched
  del,       \* per voice: where its delete request is
  asked,     \* history: voices some delete request was accepted for
  ambiguous, \* history: enrolments whose call ended without an answer
  warned,    \* history: SampleNotRevoked was logged
  orphaned,  \* history: VoiceOrphaned was logged
  crashed    \* history: enrolments a crash interrupted

request == <<name, pc, live, row>>
history == <<asked, ambiguous, warned, orphaned, crashed>>
vars    == <<request, prov, recs, active, del, history>>

Terminal == {"settled", "rolled_back", "orphaned"}
Samples  == {Sample[r] : r \in Requests}

TypeOK ==
  /\ \A r \in Requests : name[r] \in Names[r]
  /\ pc \in [Requests -> {"start", "count", "reserve", "resolve", "call",
                          "await", "record", "undo", "done", "gone"}]
  /\ live \in [Requests -> BOOLEAN]
  /\ row \in [Requests -> Terminal \cup {"absent", "open"}]
  /\ \A r \in Requests :
       pc[r] \in {"resolve", "call", "await", "record", "undo"} => row[r] # "absent"
  /\ prov \in [Requests -> {"none", "inflight", "exists", "refused", "deleted"}]
  /\ recs \subseteq Requests
  /\ active \subseteq Samples
  /\ del \in [Requests -> {"idle", "upstream", "local"}]
  /\ asked \subseteq Requests /\ ambiguous \subseteq Requests /\ warned \subseteq Requests
  /\ orphaned \subseteq Requests /\ crashed \subseteq Requests

Init ==
  /\ name \in {f \in [Requests -> UNION {Names[r] : r \in Requests}] :
                \A r \in Requests : f[r] \in Names[r]}
  /\ pc = [r \in Requests |-> IF r \in Earlier THEN "done" ELSE "start"]
  /\ live = [r \in Requests |-> r \notin Earlier]
  /\ row = [r \in Requests |-> IF r \in Earlier THEN "settled" ELSE "absent"]
  /\ prov = [r \in Requests |-> IF r \in Earlier THEN "exists" ELSE "none"]
  /\ recs = Earlier
  /\ active = Samples \ {Sample[r] : r \in Earlier}
  /\ del = [r \in Requests |-> "idle"]
  /\ asked = {} /\ ambiguous = {} /\ warned = {} /\ orphaned = {} /\ crashed = {}

-----------------------------------------------------------------------------
Goes(r, from, to) ==
  /\ pc[r] = from
  /\ pc' = [pc EXCEPT ![r] = to]

Mine(i)     == {r \in recs : Owner[r] = i}
NameFree(r) == \A v \in Mine(Owner[r]) : name[v] # name[r]

\* Mutant: the inventory check is off by one.
HasRoomForOneMore(r) == Cardinality(Mine(Owner[r])) <= PerInstall

HasRoom(r)  == Cardinality(Mine(Owner[r])) < PerInstall

\* gen.Settle and gen.Rollback under the request's context: a cancelled
\* context or a failing write leaves the row open.  The compare-and-set on
\* the open state is the ledger's.
Books(r, state) ==
  row' \in IF live[r] /\ row[r] = "open" THEN {row, [row EXCEPT ![r] = state]} ELSE {row}

-----------------------------------------------------------------------------
(* Enroll. *)

\* Unavailable, unauthorized, nameless, inventory full or name taken; then
\* the account ceiling, then the wallet.
Refuse(r) ==
  /\ \/ Goes(r, "start", "done")
     \/ Ceiling > 0 /\ Cardinality(recs) >= Ceiling /\ Goes(r, "count", "done")
     \/ Goes(r, "reserve", "done")
  /\ UNCHANGED <<name, live, row, prov, recs, active, del, history>>

ListMine(r) ==
  /\ Goes(r, "start", "count")
  /\ HasRoom(r)
  /\ NameFree(r)
  /\ UNCHANGED <<name, live, row, prov, recs, active, del, history>>

CountAll(r) ==
  /\ Goes(r, "count", "reserve")
  /\ Ceiling > 0 => Cardinality(recs) < Ceiling
  /\ UNCHANGED <<name, live, row, prov, recs, active, del, history>>

Reserve(r) ==
  /\ Goes(r, "reserve", "resolve")
  /\ live[r]
  /\ row' = [row EXCEPT ![r] = "open"]
  /\ UNCHANGED <<name, live, prov, recs, active, del, history>>

\* SampleFetchToken and PublicFetchURL: another install's or a dead lease, an
\* unusable media host or a failed lookup refunds.
ResolveSample(r) ==
  /\ \/ /\ Goes(r, "resolve", "call")
        /\ LeaseOwner[Sample[r]] = Owner[r]
        /\ Sample[r] \in active
        /\ UNCHANGED row
     \/ /\ Goes(r, "resolve", "done")
        /\ Books(r, "rolled_back")
  /\ UNCHANGED <<name, live, prov, recs, active, del, history>>

SendEnroll(r) ==
  /\ pc[r] = "call"
  /\ prov[r] = "none"
  /\ prov' = [prov EXCEPT ![r] = "inflight"]
  /\ UNCHANGED <<request, recs, active, del, history>>

\* Refused with a status the adapter knows, or nothing left the process.
EnrollUnbilled(r) ==
  /\ prov[r] \in {"none", "refused"}
  /\ Goes(r, "call", "done")
  /\ Books(r, "rolled_back")
  /\ UNCHANGED <<name, live, prov, recs, active, del, history>>

\* Mutant: a call that ended without an answer is refunded.
EnrollAmbiguousRefunds(r) ==
  /\ prov[r] # "none"
  /\ Goes(r, "call", "done")
  /\ Books(r, "rolled_back")
  /\ ambiguous' = ambiguous \cup {r}
  /\ UNCHANGED <<name, live, prov, recs, active, del, asked, warned, orphaned, crashed>>

\* Timeout, transport error (the dial included), a status the adapter does not
\* know (402, 5xx) or cancel: charged, and no id to delete.
EnrollAmbiguous(r) ==
  /\ Goes(r, "call", "done")
  /\ Books(r, "settled")
  /\ ambiguous' = ambiguous \cup {r}
  /\ UNCHANGED <<name, live, prov, recs, active, del, asked, warned, orphaned, crashed>>

\* The full quote is settled before the record is written.
EnrollAccepted(r) ==
  /\ prov[r] = "exists"
  /\ Goes(r, "call", "await")
  /\ Books(r, "settled")
  /\ UNCHANGED <<name, live, prov, recs, active, del, history>>

\* Mutant: a voice slow to deploy keeps its sample address alive.
AwaitReadyKeepsSample(r) ==
  /\ Goes(r, "await", "record")
  /\ UNCHANGED <<name, live, row, prov, recs, active, del, history>>

\* AwaitVoiceReady's verdict is only logged; the sample is revoked either way,
\* a failed revocation only logged.
AwaitReady(r) ==
  /\ Goes(r, "await", "record")
  /\ \/ live[r] /\ active' = active \ {Sample[r]} /\ UNCHANGED warned
     \/ warned' = warned \cup {r} /\ UNCHANGED active
  /\ UNCHANGED <<name, live, row, prov, recs, del, asked, ambiguous, orphaned, crashed>>

\* The count re-read in the transaction and the UNIQUE(install_id, name) index.
Recordable(r) == live[r] /\ HasRoom(r) /\ NameFree(r)

CreateVoice(r) ==
  /\ Goes(r, "record", "done")
  /\ Recordable(r)
  /\ recs' = recs \cup {r}
  /\ UNCHANGED <<name, live, row, prov, active, del, history>>

\* Mutant: the insert is kept although the transaction reports a failure.
CreateVoiceFailsLate(r) ==
  /\ Goes(r, "record", "undo")
  /\ recs' = recs \cup {r}
  /\ UNCHANGED <<name, live, row, prov, active, del, history>>

\* The race was lost, the context cancelled or the write failed.
CreateVoiceFails(r) ==
  /\ Goes(r, "record", "undo")
  /\ UNCHANGED <<name, live, row, prov, recs, active, del, history>>

\* The paid registration is deleted again ...
UndoEnroll(r) ==
  /\ Goes(r, "undo", "done")
  /\ live[r]
  /\ prov' = [prov EXCEPT ![r] = "deleted"]
  /\ UNCHANGED <<name, live, row, recs, active, del, history>>

\* ... or, when the deletion fails or its answer is lost, logged as an orphan.
UndoFails(r) ==
  /\ Goes(r, "undo", "done")
  /\ \E p \in {prov[r], "deleted"} : prov' = [prov EXCEPT ![r] = p]
  /\ orphaned' = orphaned \cup {r}
  /\ UNCHANGED <<name, live, row, recs, active, del, asked, ambiguous, warned, crashed>>

-----------------------------------------------------------------------------
(* Delete: upstream first, then the record. *)

DeleteStart(r) ==
  /\ r \in recs
  /\ del[r] = "idle"
  /\ del' = [del EXCEPT ![r] = "upstream"]
  /\ asked' = asked \cup {r}
  /\ UNCHANGED <<request, prov, recs, active, ambiguous, warned, orphaned, crashed>>

\* Deleted now, or the provider says it already is.
DeleteUpstream(r) ==
  /\ del[r] = "upstream"
  /\ prov' = [prov EXCEPT ![r] = "deleted"]
  /\ del' = [del EXCEPT ![r] = "local"]
  /\ UNCHANGED <<request, recs, active, history>>

\* Mutant: any error counts as "already absent".
DeleteUpstreamFailsOn(r) ==
  /\ del[r] = "upstream"
  /\ \E p \in {prov[r], "deleted"} : prov' = [prov EXCEPT ![r] = p]
  /\ del' = [del EXCEPT ![r] = "local"]
  /\ UNCHANGED <<request, recs, active, history>>

\* Any other error keeps the record; the provider may have deleted it anyway.
DeleteUpstreamFails(r) ==
  /\ del[r] = "upstream"
  /\ \E p \in {prov[r], "deleted"} : prov' = [prov EXCEPT ![r] = p]
  /\ del' = [del EXCEPT ![r] = "idle"]
  /\ UNCHANGED <<request, recs, active, history>>

\* The row is deleted, or the statement fails and a retry finds the
\* registration already absent.
DeleteLocal(r) ==
  /\ del[r] = "local"
  /\ del' = [del EXCEPT ![r] = "idle"]
  /\ recs' \in {recs, recs \ {r}}
  /\ UNCHANGED <<request, prov, active, history>>

-----------------------------------------------------------------------------
(* The surroundings. *)

ClientLeaves(r) ==
  /\ live[r]
  /\ live' = [live EXCEPT ![r] = FALSE]
  /\ UNCHANGED <<name, pc, row, prov, recs, active, del, history>>

\* The provider fetches the sample and registers the voice, or refuses.
ProviderAnswers(r) ==
  /\ prov[r] = "inflight"
  /\ \/ Sample[r] \in active /\ prov' = [prov EXCEPT ![r] = "exists"]
     \/ prov' = [prov EXCEPT ![r] = "refused"]
  /\ UNCHANGED <<request, recs, active, del, history>>

\* The ledger's reconciler closes what no request will close any more.
ReconcileOrphan(r) ==
  /\ row[r] = "open"
  /\ pc[r] \in {"done", "gone"}
  /\ row' = [row EXCEPT ![r] = "orphaned"]
  /\ UNCHANGED <<name, pc, live, prov, recs, active, del, history>>

InFlight(r) == pc[r] \notin {"start", "done", "gone"}

Crash ==
  /\ \E r \in Requests : InFlight(r) \/ del[r] # "idle"
  /\ pc' = [r \in Requests |-> IF InFlight(r) THEN "gone" ELSE pc[r]]
  /\ del' = [r \in Requests |-> "idle"]
  /\ crashed' = crashed \cup {r \in Requests : InFlight(r)}
  /\ UNCHANGED <<name, live, row, prov, recs, active, asked, ambiguous, warned, orphaned>>

Enroll(r) ==
  \/ Refuse(r) \/ ListMine(r) \/ CountAll(r) \/ Reserve(r) \/ ResolveSample(r)
  \/ SendEnroll(r) \/ EnrollUnbilled(r) \/ EnrollAmbiguous(r) \/ EnrollAccepted(r)
  \/ AwaitReady(r) \/ CreateVoice(r) \/ CreateVoiceFails(r) \/ UndoEnroll(r) \/ UndoFails(r)

Delete(r) ==
  DeleteStart(r) \/ DeleteUpstream(r) \/ DeleteUpstreamFails(r) \/ DeleteLocal(r)

Next ==
  \/ \E r \in Requests : Enroll(r) \/ Delete(r)
  \/ \E r \in Requests : ClientLeaves(r) \/ ProviderAnswers(r) \/ ReconcileOrphan(r)
  \/ Crash

Spec == Init /\ [][Next]_vars

-----------------------------------------------------------------------------
(***************************************************************************)
(* However many enrolments of an install race from the check to the        *)
(* insert, the install holds at most its inventory, under distinct names.  *)
(***************************************************************************)
InventoryHeld ==
  \A v \in recs :
    /\ Cardinality(Mine(Owner[v])) <= PerInstall
    /\ \A w \in Mine(Owner[v]) : name[w] = name[v] => w = v

(***************************************************************************)
(* A registration the provider made, or may still make, is never free,     *)
(* also when the record could not be written: losing the slot is not a     *)
(* refund.                                                                 *)
(***************************************************************************)
RegistrationIsCharged ==
  \A r \in Requests :
    row[r] \in Terminal /\ prov[r] \in {"inflight", "exists", "deleted"} => row[r] # "rolled_back"

(***************************************************************************)
(* Every registration in the shared account is in some install's inventory *)
(* or somebody knows of it: its request is still running, it was logged as *)
(* an orphan, its call ended without an answer, or the process crashed.    *)
(***************************************************************************)
NoSilentOrphan ==
  \A r \in Requests :
    prov[r] = "exists" /\ r \notin recs =>
      InFlight(r) \/ r \in orphaned \cup ambiguous \cup crashed

(***************************************************************************)
(* A recorded voice that nobody asked to delete exists at the provider:    *)
(* no lost race of another request takes its registration away.            *)
(***************************************************************************)
RecordedVoiceExists ==
  /\ TypeOK
  /\ \A r \in recs \ asked : prov[r] = "exists"

(***************************************************************************)
(* When an enrolment that bought a voice has returned, its sample can no   *)
(* longer be fetched, unless the failed revocation was logged.             *)
(***************************************************************************)
SampleSpent ==
  \A r \in Requests :
    pc[r] = "done" /\ prov[r] \in {"exists", "deleted"} /\ r \notin ambiguous =>
      Sample[r] \notin active \/ r \in warned

(***************************************************************************)
(* The account-wide ceiling holds for the recorded voices, as the package  *)
(* comment of voicestore says of both ceilings.                            *)
(***************************************************************************)
AccountCeilingHeld == Ceiling > 0 => Cardinality(recs) <= Ceiling
=============================================================================
