------------------------- MODULE VoiceEnroll_proofs -------------------------
(***************************************************************************)
(* Proofs about cloned voices, for every set of enrolments and installs,   *)
(* every inventory size, every choice of names and every sharing of        *)
(* samples.                                                                *)
(***************************************************************************)
EXTENDS VoiceEnroll, FiniteSetTheorems, TLAPS

(***************************************************************************)
(* Where an enrolment is, what the provider made of it, and what is        *)
(* recorded of its voice: only an enrolment that has returned has a record *)
(* or a refund, and one that returned without either the record or the     *)
(* provider's answer is in one of the histories.                           *)
(***************************************************************************)
Registration(r) ==
  /\ pc[r] \in {"start", "count", "reserve", "resolve"} => prov[r] = "none"
  /\ pc[r] \in {"await", "record", "undo"} => prov[r] = "exists"
  /\ pc[r] = "done" /\ prov[r] = "inflight" => r \in ambiguous
  /\ pc[r] = "done" /\ prov[r] = "exists" /\ r \notin recs =>
       r \in orphaned \cup ambiguous \cup crashed
  /\ pc[r] = "gone" => r \in crashed

Record(r) ==
  /\ r \in recs => pc[r] = "done" /\ prov[r] \in {"exists", "deleted"}
  /\ r \in recs \ asked => prov[r] = "exists"
  /\ del[r] # "idle" => r \in recs /\ r \in asked
  /\ del[r] = "local" => prov[r] = "deleted"

Refund(r) ==
  row[r] = "rolled_back" => pc[r] = "done" /\ prov[r] \in {"none", "refused"}

Spent(r) ==
  pc[r] \in {"record", "undo", "done"} /\ prov[r] \in {"exists", "deleted"} /\ r \notin ambiguous =>
    Sample[r] \notin active \/ r \in warned

EnrolInv == \A r \in Requests : Registration(r) /\ Record(r) /\ Refund(r) /\ Spent(r)

VoiceInv == TypeOK /\ EnrolInv /\ InventoryHeld

-----------------------------------------------------------------------------
(* One request's step leaves the other voices alone. *)

Only(r) ==
  /\ active' \subseteq active
  /\ \A q \in Requests \ {r} :
       /\ pc'[q] = pc[q] /\ row'[q] = row[q] /\ prov'[q] = prov[q] /\ del'[q] = del[q]
       /\ q \in recs' <=> q \in recs
       /\ q \in asked' <=> q \in asked
       /\ q \in ambiguous' <=> q \in ambiguous
       /\ q \in warned' <=> q \in warned
       /\ q \in orphaned' <=> q \in orphaned
       /\ q \in crashed' <=> q \in crashed

LEMMA Local ==
  ASSUME EnrolInv, NEW r \in Requests, Only(r),
         Registration(r)', Record(r)', Refund(r)', Spent(r)'
  PROVE  EnrolInv'
<1> SUFFICES ASSUME NEW q \in Requests
             PROVE  Registration(q)' /\ Record(q)' /\ Refund(q)' /\ Spent(q)'
  BY DEF EnrolInv
<1>1. CASE q = r
  BY <1>1
<1>2. CASE q # r
  <2>1. Registration(q) /\ Record(q) /\ Refund(q) /\ Spent(q)
    BY DEF EnrolInv
  <2>2. Registration(q)' /\ Record(q)'
    BY <1>2, <2>1 DEF Registration, Record, Only
  <2>3. Refund(q)' /\ Spent(q)'
    BY <1>2, <2>1 DEF Refund, Spent, Only
  <2>4. QED
    BY <2>2, <2>3
<1>3. QED
  BY <1>1, <1>2

-----------------------------------------------------------------------------
(* The inventory of an install. *)

LEMMA MineFinite ==
  ASSUME NEW S \in SUBSET Requests, NEW i
  PROVE  IsFiniteSet({r \in S : Owner[r] = i})
<1>1. {r \in S : Owner[r] = i} \subseteq Requests
  OBVIOUS
<1>2. QED
  BY <1>1, VoiceAssumption, FS_Subset DEF VoiceAssumption

\* Fewer records never break the inventory.
LEMMA InventoryShrinks ==
  ASSUME TypeOK, InventoryHeld, name' = name, recs' \subseteq recs
  PROVE  InventoryHeld'
<1> SUFFICES ASSUME NEW v \in recs'
             PROVE  /\ Cardinality(Mine(Owner[v])') <= PerInstall
                    /\ \A w \in Mine(Owner[v])' : name'[w] = name'[v] => w = v
  BY DEF InventoryHeld, Mine
<1>1. Mine(Owner[v])' \subseteq Mine(Owner[v])
  BY DEF Mine
<1>2. IsFiniteSet(Mine(Owner[v])) /\ IsFiniteSet(Mine(Owner[v])')
  BY MineFinite DEF Mine, TypeOK
<1>3. Cardinality(Mine(Owner[v])') <= Cardinality(Mine(Owner[v]))
  BY <1>1, <1>2, FS_Subset
<1>4. /\ Cardinality(Mine(Owner[v])') \in Nat
      /\ Cardinality(Mine(Owner[v])) \in Nat
  BY <1>2, FS_CardinalityType
<1>5. PerInstall \in Nat /\ Cardinality(Mine(Owner[v])) <= PerInstall
  BY VoiceAssumption DEF VoiceAssumption, InventoryHeld
<1>6. QED
  BY <1>1, <1>3, <1>4, <1>5 DEF InventoryHeld

\* A record is added inside the transaction that re-read count and names.
LEMMA InventoryGrows ==
  ASSUME TypeOK, InventoryHeld, NEW r \in Requests, r \notin recs,
         HasRoom(r), NameFree(r), name' = name, recs' = recs \cup {r}
  PROVE  InventoryHeld'
<1>1. PerInstall \in Nat
  BY VoiceAssumption DEF VoiceAssumption
<1> SUFFICES ASSUME NEW v \in recs'
             PROVE  /\ Cardinality(Mine(Owner[v])') <= PerInstall
                    /\ \A w \in Mine(Owner[v])' : name'[w] = name'[v] => w = v
  BY DEF InventoryHeld, Mine
<1>2. CASE Owner[v] = Owner[r]
  <2> DEFINE M == Mine(Owner[r])
  <2>1. Mine(Owner[v])' = M \cup {r}
    BY <1>2 DEF Mine
  <2>2. IsFiniteSet(M) /\ r \notin M
    <3>1. recs \in SUBSET Requests /\ M = {q \in recs : Owner[q] = Owner[r]}
      BY DEF Mine, TypeOK
    <3>2. IsFiniteSet(M)
      BY <3>1, MineFinite
    <3>3. r \notin M
      BY <3>1
    <3>4. QED
      BY <3>2, <3>3
  <2>3. Cardinality(M \cup {r}) = Cardinality(M) + 1 /\ Cardinality(M) \in Nat
    BY <2>2, FS_AddElement, FS_CardinalityType
  <2>4. Cardinality(M) < PerInstall
    BY DEF HasRoom
  <2>5. Cardinality(Mine(Owner[v])') <= PerInstall
    BY <1>1, <2>1, <2>3, <2>4
  <2>6. ASSUME NEW w \in Mine(Owner[v])', name'[w] = name'[v]
        PROVE  w = v
    <3>1. CASE w = r /\ v # r
      BY <1>2, <2>6, <3>1 DEF NameFree, Mine
    <3>2. CASE w # r /\ v = r
      BY <2>1, <2>6, <3>2 DEF NameFree
    <3>3. CASE w # r /\ v # r
      BY <1>2, <2>1, <2>6, <3>3 DEF InventoryHeld
    <3>4. QED
      BY <3>1, <3>2, <3>3
  <2>7. QED
    BY <2>5, <2>6
<1>3. CASE Owner[v] # Owner[r]
  <2>1. Mine(Owner[v])' = Mine(Owner[v]) /\ v \in recs
    BY <1>3 DEF Mine
  <2>2. QED
    BY <2>1 DEF InventoryHeld
<1>4. QED
  BY <1>2, <1>3

LEMMA Keeps ==
  ASSUME VoiceInv, NEW r \in Requests, TypeOK', Only(r), name' = name, recs' \subseteq recs,
         Registration(r)', Record(r)', Refund(r)', Spent(r)'
  PROVE  VoiceInv'
  BY Local, InventoryShrinks DEF VoiceInv

LEMMA InvInit == Init => VoiceInv
<1> SUFFICES ASSUME Init PROVE VoiceInv
  OBVIOUS
<1>0. Earlier \subseteq Requests
  BY VoiceAssumption DEF VoiceAssumption
<1>1. TypeOK
  BY <1>0 DEF Init, TypeOK, Terminal
<1>2. EnrolInv
  BY <1>0 DEF Init, EnrolInv, Registration, Record, Refund, Spent
<1>3. ASSUME NEW v \in recs
      PROVE  /\ Cardinality(Mine(Owner[v])) <= PerInstall
             /\ \A w \in Mine(Owner[v]) : name[w] = name[v] => w = v
  <2>1. recs = Earlier /\ Mine(Owner[v]) = {f \in Earlier : Owner[f] = Owner[v]}
    BY DEF Init, Mine
  <2>2. \A w \in Requests : name[w] \in Names[w]
    BY DEF Init
  <2>3. QED
    BY <1>0, <1>3, <2>1, <2>2, EarlierAssumption DEF EarlierAssumption
<1>4. QED
  BY <1>1, <1>2, <1>3 DEF VoiceInv, InventoryHeld

LEMMA BooksStep ==
  ASSUME TypeOK, NEW r \in Requests, NEW state \in {"settled", "rolled_back"},
         Books(r, state)
  PROVE  /\ row' \in [Requests -> Terminal \cup {"absent", "open"}]
         /\ row'[r] = row[r] \/ row'[r] = state
         /\ \A q \in Requests \ {r} : row'[q] = row[q]
  BY DEF Books, TypeOK, Terminal

-----------------------------------------------------------------------------
(* Enroll, up to and with the provider's answer. *)

LEMMA InvOpens ==
  ASSUME VoiceInv, NEW r \in Requests,
         Refuse(r) \/ ListMine(r) \/ CountAll(r) \/ Reserve(r) \/ ResolveSample(r)
  PROVE  VoiceInv'
<1> USE DEF VoiceInv, request, history
<1>0. Registration(r) /\ Record(r) /\ Refund(r) /\ Spent(r)
  BY DEF EnrolInv
<1>1. CASE Refuse(r)
  <2>1. TypeOK'
    BY <1>1 DEF Refuse, Goes, TypeOK
  <2>2. Only(r) /\ name' = name /\ recs' \subseteq recs
    BY <1>1 DEF Refuse, Goes, TypeOK, Only
  <2>3. Registration(r)' /\ Record(r)'
    BY <1>0, <1>1 DEF Refuse, Goes, TypeOK, Registration, Record
  <2>4. Refund(r)' /\ Spent(r)'
    BY <1>0, <1>1 DEF Refuse, Goes, TypeOK, Registration, Record, Refund, Spent
  <2>5. QED
    BY <2>1, <2>2, <2>3, <2>4, Keeps
<1>2. CASE ListMine(r)
  <2>1. TypeOK'
    BY <1>2 DEF ListMine, Goes, TypeOK
  <2>2. Only(r) /\ name' = name /\ recs' \subseteq recs
    BY <1>2 DEF ListMine, Goes, TypeOK, Only
  <2>3. Registration(r)' /\ Record(r)'
    BY <1>0, <1>2 DEF ListMine, Goes, TypeOK, Registration, Record
  <2>4. Refund(r)' /\ Spent(r)'
    BY <1>0, <1>2 DEF ListMine, Goes, TypeOK, Registration, Record, Refund, Spent
  <2>5. QED
    BY <2>1, <2>2, <2>3, <2>4, Keeps
<1>3. CASE CountAll(r)
  <2>1. TypeOK'
    BY <1>3 DEF CountAll, Goes, TypeOK
  <2>2. Only(r) /\ name' = name /\ recs' \subseteq recs
    BY <1>3 DEF CountAll, Goes, TypeOK, Only
  <2>3. Registration(r)' /\ Record(r)'
    BY <1>0, <1>3 DEF CountAll, Goes, TypeOK, Registration, Record
  <2>4. Refund(r)' /\ Spent(r)'
    BY <1>0, <1>3 DEF CountAll, Goes, TypeOK, Registration, Record, Refund, Spent
  <2>5. QED
    BY <2>1, <2>2, <2>3, <2>4, Keeps
<1>4. CASE Reserve(r)
  <2>1. TypeOK'
    BY <1>4 DEF Reserve, Goes, Terminal, TypeOK
  <2>2. Only(r) /\ name' = name /\ recs' \subseteq recs
    BY <1>4 DEF Reserve, Goes, Terminal, TypeOK, Only
  <2>3. Registration(r)' /\ Record(r)'
    BY <1>0, <1>4 DEF Reserve, Goes, Terminal, TypeOK, Registration, Record
  <2>4. Refund(r)' /\ Spent(r)'
    BY <1>0, <1>4 DEF Reserve, Goes, Terminal, TypeOK, Registration, Record, Refund, Spent
  <2>5. QED
    BY <2>1, <2>2, <2>3, <2>4, Keeps
<1>5. CASE ResolveSample(r)
  <2>1. /\ row' \in [Requests -> Terminal \cup {"absent", "open"}]
        /\ row'[r] = row[r] \/ row'[r] = "rolled_back"
        /\ \A q \in Requests \ {r} : row'[q] = row[q]
    BY <1>5, BooksStep DEF ResolveSample, TypeOK
  <2>2. TypeOK'
    BY <1>0, <1>5, <2>1 DEF ResolveSample, Goes, TypeOK
  <2>3. Only(r) /\ name' = name /\ recs' \subseteq recs
    BY <1>5, <2>1 DEF ResolveSample, Goes, TypeOK, Only
  <2>4. Registration(r)' /\ Record(r)'
    BY <1>0, <1>5 DEF ResolveSample, Goes, TypeOK, Registration, Record
  <2>5. Refund(r)' /\ Spent(r)'
    BY <1>0, <1>5, <2>1 DEF ResolveSample, Goes, TypeOK, Registration, Record, Refund, Spent
  <2>6. QED
    BY <2>2, <2>3, <2>4, <2>5, Keeps
<1>6. QED
  BY <1>1, <1>2, <1>3, <1>4, <1>5

LEMMA InvCalls ==
  ASSUME VoiceInv, NEW r \in Requests,
         SendEnroll(r) \/ EnrollUnbilled(r) \/ EnrollAmbiguous(r) \/ EnrollAccepted(r)
  PROVE  VoiceInv'
<1> USE DEF VoiceInv, request, history
<1>0. Registration(r) /\ Record(r) /\ Refund(r) /\ Spent(r)
  BY DEF EnrolInv
<1>1. CASE SendEnroll(r)
  <2>1. TypeOK'
    BY <1>1 DEF SendEnroll, TypeOK
  <2>2. Only(r) /\ name' = name /\ recs' \subseteq recs
    BY <1>1 DEF SendEnroll, TypeOK, Only
  <2>3. Registration(r)' /\ Record(r)'
    BY <1>0, <1>1 DEF SendEnroll, TypeOK, Registration, Record
  <2>4. Refund(r)' /\ Spent(r)'
    BY <1>0, <1>1 DEF SendEnroll, TypeOK, Registration, Record, Refund, Spent
  <2>5. QED
    BY <2>1, <2>2, <2>3, <2>4, Keeps
<1>2. CASE EnrollUnbilled(r)
  <2>1. /\ row' \in [Requests -> Terminal \cup {"absent", "open"}]
        /\ row'[r] = row[r] \/ row'[r] = "rolled_back"
        /\ \A q \in Requests \ {r} : row'[q] = row[q]
    BY <1>2, BooksStep DEF EnrollUnbilled, TypeOK
  <2>2. TypeOK'
    BY <1>0, <1>2, <2>1 DEF EnrollUnbilled, Goes, TypeOK
  <2>3. Only(r) /\ name' = name /\ recs' \subseteq recs
    BY <1>2, <2>1 DEF EnrollUnbilled, Goes, TypeOK, Only
  <2>4. Registration(r)' /\ Record(r)'
    BY <1>0, <1>2 DEF EnrollUnbilled, Goes, TypeOK, Registration, Record
  <2>5. Refund(r)' /\ Spent(r)'
    BY <1>0, <1>2, <2>1
    DEF EnrollUnbilled, Goes, TypeOK, Registration, Record, Refund, Spent
  <2>6. QED
    BY <2>2, <2>3, <2>4, <2>5, Keeps
<1>3. CASE EnrollAmbiguous(r)
  <2>1. /\ row' \in [Requests -> Terminal \cup {"absent", "open"}]
        /\ row'[r] = row[r] \/ row'[r] = "settled"
        /\ \A q \in Requests \ {r} : row'[q] = row[q]
    BY <1>3, BooksStep DEF EnrollAmbiguous, TypeOK
  <2>2. TypeOK'
    BY <1>0, <1>3, <2>1 DEF EnrollAmbiguous, Goes, TypeOK
  <2>3. Only(r) /\ name' = name /\ recs' \subseteq recs
    BY <1>3, <2>1 DEF EnrollAmbiguous, Goes, TypeOK, Only
  <2>4. Registration(r)' /\ Record(r)'
    BY <1>0, <1>3 DEF EnrollAmbiguous, Goes, TypeOK, Registration, Record
  <2>5. Refund(r)' /\ Spent(r)'
    BY <1>0, <1>3, <2>1
    DEF EnrollAmbiguous, Goes, TypeOK, Registration, Record, Refund, Spent
  <2>6. QED
    BY <2>2, <2>3, <2>4, <2>5, Keeps
<1>4. CASE EnrollAccepted(r)
  <2>1. /\ row' \in [Requests -> Terminal \cup {"absent", "open"}]
        /\ row'[r] = row[r] \/ row'[r] = "settled"
        /\ \A q \in Requests \ {r} : row'[q] = row[q]
    BY <1>4, BooksStep DEF EnrollAccepted, TypeOK
  <2>2. TypeOK'
    BY <1>0, <1>4, <2>1 DEF EnrollAccepted, Goes, TypeOK
  <2>3. Only(r) /\ name' = name /\ recs' \subseteq recs
    BY <1>4, <2>1 DEF EnrollAccepted, Goes, TypeOK, Only
  <2>4. Registration(r)' /\ Record(r)'
    BY <1>0, <1>4 DEF EnrollAccepted, Goes, TypeOK, Registration, Record
  <2>5. Refund(r)' /\ Spent(r)'
    BY <1>0, <1>4, <2>1
    DEF EnrollAccepted, Goes, TypeOK, Registration, Record, Refund, Spent
  <2>6. QED
    BY <2>2, <2>3, <2>4, <2>5, Keeps
<1>5. QED
  BY <1>1, <1>2, <1>3, <1>4

-----------------------------------------------------------------------------
(* Enroll, from the paid registration to the record. *)

LEMMA InvRecords ==
  ASSUME VoiceInv, NEW r \in Requests,
         AwaitReady(r) \/ CreateVoice(r) \/ CreateVoiceFails(r) \/ UndoEnroll(r) \/ UndoFails(r)
  PROVE  VoiceInv'
<1> USE DEF VoiceInv, request, history
<1>0. Registration(r) /\ Record(r) /\ Refund(r) /\ Spent(r)
  BY DEF EnrolInv
<1>1. CASE AwaitReady(r)
  <2>1. TypeOK'
    BY <1>1 DEF AwaitReady, Goes, TypeOK
  <2>2. Only(r) /\ name' = name /\ recs' \subseteq recs
    BY <1>1 DEF AwaitReady, Goes, TypeOK, Only
  <2>3. Registration(r)' /\ Record(r)'
    BY <1>0, <1>1 DEF AwaitReady, Goes, TypeOK, Registration, Record
  <2>4. Refund(r)' /\ Spent(r)'
    BY <1>0, <1>1 DEF AwaitReady, Goes, TypeOK, Registration, Record, Refund, Spent
  <2>5. QED
    BY <2>1, <2>2, <2>3, <2>4, Keeps
<1>2. CASE CreateVoice(r)
  <2>1. TypeOK'
    BY <1>2 DEF CreateVoice, Goes, TypeOK
  <2>2. Only(r)
    BY <1>2 DEF CreateVoice, Goes, TypeOK, Only
  <2>3. Registration(r)' /\ Record(r)'
    BY <1>0, <1>2 DEF CreateVoice, Goes, TypeOK, Registration, Record
  <2>4. Refund(r)' /\ Spent(r)'
    BY <1>0, <1>2 DEF CreateVoice, Goes, TypeOK, Registration, Refund, Spent
  <2>5. r \notin recs
    BY <1>0, <1>2 DEF CreateVoice, Goes, Record
  <2>6. InventoryHeld'
    BY <1>2, <2>5, InventoryGrows DEF CreateVoice, Recordable
  <2>7. QED
    BY <2>1, <2>2, <2>3, <2>4, <2>6, Local
<1>3. CASE CreateVoiceFails(r)
  <2>1. TypeOK'
    BY <1>3 DEF CreateVoiceFails, Goes, TypeOK
  <2>2. Only(r) /\ name' = name /\ recs' \subseteq recs
    BY <1>3 DEF CreateVoiceFails, Goes, TypeOK, Only
  <2>3. Registration(r)' /\ Record(r)'
    BY <1>0, <1>3 DEF CreateVoiceFails, Goes, TypeOK, Registration, Record
  <2>4. Refund(r)' /\ Spent(r)'
    BY <1>0, <1>3 DEF CreateVoiceFails, Goes, TypeOK, Registration, Record, Refund, Spent
  <2>5. QED
    BY <2>1, <2>2, <2>3, <2>4, Keeps
<1>4. CASE UndoEnroll(r)
  <2>1. TypeOK'
    BY <1>4 DEF UndoEnroll, Goes, TypeOK
  <2>2. Only(r) /\ name' = name /\ recs' \subseteq recs
    BY <1>4 DEF UndoEnroll, Goes, TypeOK, Only
  <2>3. Registration(r)' /\ Record(r)'
    BY <1>0, <1>4 DEF UndoEnroll, Goes, TypeOK, Registration, Record
  <2>4. Refund(r)' /\ Spent(r)'
    BY <1>0, <1>4 DEF UndoEnroll, Goes, TypeOK, Registration, Record, Refund, Spent
  <2>5. QED
    BY <2>1, <2>2, <2>3, <2>4, Keeps
<1>5. CASE UndoFails(r)
  <2>1. TypeOK'
    BY <1>5 DEF UndoFails, Goes, TypeOK
  <2>2. Only(r) /\ name' = name /\ recs' \subseteq recs
    BY <1>5 DEF UndoFails, Goes, TypeOK, Only
  <2>3. Registration(r)' /\ Record(r)'
    BY <1>0, <1>5 DEF UndoFails, Goes, TypeOK, Registration, Record
  <2>4. Refund(r)' /\ Spent(r)'
    BY <1>0, <1>5 DEF UndoFails, Goes, TypeOK, Registration, Record, Refund, Spent
  <2>5. QED
    BY <2>1, <2>2, <2>3, <2>4, Keeps
<1>6. QED
  BY <1>1, <1>2, <1>3, <1>4, <1>5

-----------------------------------------------------------------------------
(* Delete, and the surroundings. *)

LEMMA InvDelete ==
  ASSUME VoiceInv, NEW r \in Requests, Delete(r)
  PROVE  VoiceInv'
<1> USE DEF VoiceInv, request, history
<1>0. Registration(r) /\ Record(r) /\ Refund(r) /\ Spent(r)
  BY DEF EnrolInv
<1>1. CASE DeleteStart(r)
  <2>1. TypeOK'
    BY <1>1 DEF DeleteStart, TypeOK
  <2>2. Only(r) /\ name' = name /\ recs' \subseteq recs
    BY <1>1 DEF DeleteStart, TypeOK, Only
  <2>3. Registration(r)' /\ Record(r)'
    BY <1>0, <1>1 DEF DeleteStart, TypeOK, Registration, Record
  <2>4. Refund(r)' /\ Spent(r)'
    BY <1>0, <1>1 DEF DeleteStart, TypeOK, Registration, Record, Refund, Spent
  <2>5. QED
    BY <2>1, <2>2, <2>3, <2>4, Keeps
<1>2. CASE DeleteUpstream(r)
  <2>1. TypeOK'
    BY <1>2 DEF DeleteUpstream, TypeOK
  <2>2. Only(r) /\ name' = name /\ recs' \subseteq recs
    BY <1>2 DEF DeleteUpstream, TypeOK, Only
  <2>3. Registration(r)' /\ Record(r)'
    BY <1>0, <1>2 DEF DeleteUpstream, TypeOK, Registration, Record
  <2>4. Refund(r)' /\ Spent(r)'
    BY <1>0, <1>2 DEF DeleteUpstream, TypeOK, Registration, Record, Refund, Spent
  <2>5. QED
    BY <2>1, <2>2, <2>3, <2>4, Keeps
<1>3. CASE DeleteUpstreamFails(r)
  <2>1. TypeOK'
    BY <1>3 DEF DeleteUpstreamFails, TypeOK
  <2>2. Only(r) /\ name' = name /\ recs' \subseteq recs
    BY <1>3 DEF DeleteUpstreamFails, TypeOK, Only
  <2>3. Registration(r)' /\ Record(r)'
    BY <1>0, <1>3 DEF DeleteUpstreamFails, TypeOK, Registration, Record
  <2>4. Refund(r)' /\ Spent(r)'
    BY <1>0, <1>3 DEF DeleteUpstreamFails, TypeOK, Registration, Record, Refund, Spent
  <2>5. QED
    BY <2>1, <2>2, <2>3, <2>4, Keeps
<1>4. CASE DeleteLocal(r)
  <2>1. TypeOK'
    BY <1>4 DEF DeleteLocal, TypeOK
  <2>2. Only(r) /\ name' = name /\ recs' \subseteq recs
    BY <1>4 DEF DeleteLocal, TypeOK, Only
  <2>3. Registration(r)' /\ Record(r)'
    BY <1>0, <1>4 DEF DeleteLocal, TypeOK, Registration, Record
  <2>4. Refund(r)' /\ Spent(r)'
    BY <1>0, <1>4 DEF DeleteLocal, TypeOK, Registration, Record, Refund, Spent
  <2>5. QED
    BY <2>1, <2>2, <2>3, <2>4, Keeps
<1>5. QED
  BY <1>1, <1>2, <1>3, <1>4 DEF Delete

LEMMA InvSurroundings ==
  ASSUME VoiceInv, NEW r \in Requests,
         ClientLeaves(r) \/ ProviderAnswers(r) \/ ReconcileOrphan(r)
  PROVE  VoiceInv'
<1> USE DEF VoiceInv, request, history
<1>0. Registration(r) /\ Record(r) /\ Refund(r) /\ Spent(r)
  BY DEF EnrolInv
<1>1. CASE ClientLeaves(r)
  <2>1. TypeOK'
    BY <1>1 DEF ClientLeaves, TypeOK
  <2>2. Only(r) /\ name' = name /\ recs' \subseteq recs
    BY <1>1 DEF ClientLeaves, TypeOK, Only
  <2>3. Registration(r)' /\ Record(r)'
    BY <1>0, <1>1 DEF ClientLeaves, TypeOK, Registration, Record
  <2>4. Refund(r)' /\ Spent(r)'
    BY <1>0, <1>1 DEF ClientLeaves, TypeOK, Registration, Record, Refund, Spent
  <2>5. QED
    BY <2>1, <2>2, <2>3, <2>4, Keeps
<1>2. CASE ProviderAnswers(r)
  <2>1. TypeOK'
    BY <1>2 DEF ProviderAnswers, TypeOK
  <2>2. Only(r) /\ name' = name /\ recs' \subseteq recs
    BY <1>2 DEF ProviderAnswers, TypeOK, Only
  <2>3. Registration(r)' /\ Record(r)'
    BY <1>0, <1>2 DEF ProviderAnswers, TypeOK, Registration, Record
  <2>4. Refund(r)' /\ Spent(r)'
    BY <1>0, <1>2 DEF ProviderAnswers, TypeOK, Registration, Record, Refund, Spent
  <2>5. QED
    BY <2>1, <2>2, <2>3, <2>4, Keeps
<1>3. CASE ReconcileOrphan(r)
  <2>1. TypeOK'
    BY <1>3 DEF ReconcileOrphan, Terminal, TypeOK
  <2>2. Only(r) /\ name' = name /\ recs' \subseteq recs
    BY <1>3 DEF ReconcileOrphan, Terminal, TypeOK, Only
  <2>3. Registration(r)' /\ Record(r)'
    BY <1>0, <1>3 DEF ReconcileOrphan, Terminal, TypeOK, Registration, Record
  <2>4. Refund(r)' /\ Spent(r)'
    BY <1>0, <1>3 DEF ReconcileOrphan, Terminal, TypeOK, Registration, Record, Refund, Spent
  <2>5. QED
    BY <2>1, <2>2, <2>3, <2>4, Keeps
<1>4. QED
  BY <1>1, <1>2, <1>3

LEMMA InvCrash ==
  ASSUME VoiceInv, Crash
  PROVE  VoiceInv'
<1> USE DEF VoiceInv, request, history
<1>1. TypeOK'
  BY DEF Crash, InFlight, TypeOK
<1>2. ASSUME NEW r \in Requests
      PROVE  Registration(r)' /\ Record(r)' /\ Refund(r)' /\ Spent(r)'
  <2>1. Registration(r) /\ Record(r) /\ Refund(r) /\ Spent(r)
    BY DEF EnrolInv
  <2>2. /\ pc'[r] = IF InFlight(r) THEN "gone" ELSE pc[r]
        /\ del'[r] = "idle"
        /\ InFlight(r) => r \in crashed'
        /\ r \in crashed => r \in crashed'
        /\ UNCHANGED <<row, prov, recs, active, asked, ambiguous, warned, orphaned>>
    BY DEF Crash
  <2>3. Registration(r)' /\ Record(r)'
    BY <2>1, <2>2 DEF Registration, Record, InFlight
  <2>4. Refund(r)' /\ Spent(r)'
    BY <2>1, <2>2 DEF Refund, Spent, InFlight
  <2>5. QED
    BY <2>3, <2>4
<1>3. InventoryHeld'
  BY DEF Crash, InventoryHeld, Mine
<1>4. QED
  BY <1>1, <1>2, <1>3 DEF EnrolInv

LEMMA InvNext == VoiceInv /\ [Next]_vars => VoiceInv'
<1> SUFFICES ASSUME VoiceInv, [Next]_vars PROVE VoiceInv'
  OBVIOUS
<1>1. CASE UNCHANGED vars
  <2> USE <1>1 DEF vars, request, history, VoiceInv
  <2>1. TypeOK'
    BY DEF TypeOK
  <2>2. EnrolInv'
    BY DEF EnrolInv, Registration, Record, Refund, Spent
  <2>3. InventoryHeld'
    BY DEF InventoryHeld, Mine
  <2>4. QED
    BY <2>1, <2>2, <2>3
<1>2. CASE Next
  BY <1>2, InvOpens, InvCalls, InvRecords, InvDelete, InvSurroundings, InvCrash
  DEF Next, Enroll
<1>3. QED
  BY <1>1, <1>2

LEMMA Invariant == Spec => []VoiceInv
  BY InvInit, InvNext, PTL DEF Spec

-----------------------------------------------------------------------------
(***************************************************************************)
(* However many enrolments of an install race from ListMine to the insert, *)
(* and whatever is deleted meanwhile, the install holds at most its        *)
(* inventory, under distinct names.                                        *)
(***************************************************************************)
THEOREM InventoryIsHeld == Spec => []InventoryHeld
<1>1. VoiceInv => InventoryHeld
  BY DEF VoiceInv
<1>2. QED
  BY <1>1, Invariant, PTL

(***************************************************************************)
(* A registration the provider made, or may still make, is never free:     *)
(* Enroll refunds only what was refused or never sent.                     *)
(***************************************************************************)
THEOREM RegistrationsAreCharged == Spec => []RegistrationIsCharged
<1>1. VoiceInv => RegistrationIsCharged
  BY DEF VoiceInv, EnrolInv, Refund, RegistrationIsCharged
<1>2. QED
  BY <1>1, Invariant, PTL

(***************************************************************************)
(* Every registration in the shared account is in an inventory, belongs to *)
(* a running enrolment, or is an orphan somebody knows of.                 *)
(***************************************************************************)
THEOREM OrphansAreKnown == Spec => []NoSilentOrphan
<1>1. ASSUME VoiceInv, NEW r \in Requests, prov[r] = "exists", r \notin recs, ~InFlight(r)
      PROVE  r \in orphaned \cup ambiguous \cup crashed
  <2>1. Registration(r)
    BY <1>1 DEF VoiceInv, EnrolInv
  <2>2. QED
    BY <1>1, <2>1 DEF Registration, InFlight
<1>2. VoiceInv => NoSilentOrphan
  BY <1>1 DEF NoSilentOrphan
<1>3. QED
  BY <1>2, Invariant, PTL

(***************************************************************************)
(* A recorded voice nobody asked to delete exists at the provider: no lost *)
(* race or failed undo of another enrolment takes it away.                 *)
(***************************************************************************)
THEOREM RecordsAreBacked == Spec => []RecordedVoiceExists
<1>1. VoiceInv => RecordedVoiceExists
  BY DEF VoiceInv, EnrolInv, Record, RecordedVoiceExists, TypeOK
<1>2. QED
  BY <1>1, Invariant, PTL

(***************************************************************************)
(* When an enrolment that bought a voice has returned, its sample address  *)
(* is dead or the failed revocation was logged, also when the sample is    *)
(* shared between enrolments.                                              *)
(***************************************************************************)
THEOREM SamplesAreSpent == Spec => []SampleSpent
<1>1. VoiceInv => SampleSpent
  BY DEF VoiceInv, EnrolInv, Spent, SampleSpent
<1>2. QED
  BY <1>1, Invariant, PTL
=============================================================================
