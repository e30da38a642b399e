----------------------------- MODULE AuditRing ------------------------------
(***************************************************************************)
(* The in-process ring of audit events (app/dashboard/audit.go), beside    *)
(* the log of everything this process recorded, which the ring windows.    *)
(***************************************************************************)
EXTENDS Integers, Sequences, FiniteSets, SequencesExt

CONSTANT Capacity    \* 512 in the code

ASSUME RingAssumption == Capacity \in Nat \ {0}

VARIABLES
  ring,    \* buf, next, full and seq of auditRing
  log      \* history: every event since the process started

Blank == [seq |-> 0]

newAuditRing ==
  [buf |-> [i \in 0..Capacity - 1 |-> Blank], next |-> 0, full |-> FALSE, seq |-> 0]

Event(action, target, reason, outcome) ==
  [action |-> action, target |-> target, reason |-> reason, outcome |-> outcome]

Stamped(seq, e) ==
  [seq |-> seq, action |-> e.action, target |-> e.target,
   reason |-> e.reason, outcome |-> e.outcome]

\* Mutant: the ring is never marked full.
PutNeverFull(r, e) ==
  [buf  |-> [r.buf EXCEPT ![r.next] = Stamped(r.seq + 1, e)],
   next |-> (r.next + 1) % Capacity,
   full |-> FALSE,
   seq  |-> r.seq + 1]

\* record: stamp, overwrite the oldest, wrap.
Put(r, e) ==
  LET n == (r.next + 1) % Capacity
  IN  [buf  |-> [r.buf EXCEPT ![r.next] = Stamped(r.seq + 1, e)],
       next |-> n,
       full |-> r.full \/ n = 0,
       seq  |-> r.seq + 1]

record(e) ==
  /\ ring' = Put(ring, e)
  /\ log' = Append(log, Stamped(Len(log) + 1, e))

\* The slots page looks at, and the i-th of them back from the newest.
Total(r) == IF r.full THEN Capacity ELSE r.next

Slot(r, i) == IF i <= r.next THEN r.next - i ELSE r.next - i + Capacity

Walk == [i \in 1..Total(ring) |-> ring.buf[Slot(ring, i)]]

\* The places of a walk that hold an event older than beforeSeq.
Older(walk, beforeSeq) ==
  {i \in DOMAIN walk : walk[i].seq # 0 /\ (beforeSeq > 0 => walk[i].seq < beforeSeq)}

\* The k-th least of a set of numbers.
Nth(S, k) == CHOOSE i \in S : Cardinality({j \in S : j <= i}) = k

\* page: walk back from the newest, keep what is older than beforeSeq, stop
\* at limit; the cursor of the next page is the last seq when more remain.
page(beforeSeq, limit) ==
  LET kept == Older(Walk, beforeSeq)
      more == Cardinality(kept) > limit
      out  == [k \in 1..IF more THEN limit ELSE Cardinality(kept) |-> Walk[Nth(kept, k)]]
  IN  [rows |-> out, next |-> IF more THEN out[limit].seq ELSE 0]

\* What a page should be, said of the events recorded: the newest ones below
\* the cursor that are among the last Capacity.
Window(events, beforeSeq, limit) ==
  LET n      == Len(events)
      top    == IF beforeSeq > 0 /\ beforeSeq <= n THEN beforeSeq - 1 ELSE n
      floor  == IF n > Capacity THEN n - Capacity ELSE 0
      bottom == IF top - limit > floor THEN top - limit ELSE floor
      rows   == Reverse(SubSeq(events, bottom + 1, top))
  IN  [rows |-> rows, next |-> IF bottom > floor THEN rows[Len(rows)].seq ELSE 0]

(***************************************************************************)
(* Whatever has been recorded, wrapped around or not, every page of the    *)
(* ring is the contiguous window of the log below its cursor, and its next *)
(* cursor continues it: paging neither skips nor repeats an event.         *)
(***************************************************************************)
RingWindowsLog ==
  \A before \in 0..Len(log) + 1, limit \in 1..Capacity + 1 :
    page(before, limit) = Window(log, before, limit)

\* A process that has recorded these events so far, fewer than the ring holds.
RingInit(events) ==
  /\ ring = [buf  |-> [i \in 0..Capacity - 1 |->
                         IF i < Len(events) THEN Stamped(i + 1, events[i + 1]) ELSE Blank],
             next |-> Len(events), full |-> FALSE, seq |-> Len(events)]
  /\ log = [k \in DOMAIN events |-> Stamped(k, events[k])]
=============================================================================
