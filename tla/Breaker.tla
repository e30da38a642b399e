------------------------------ MODULE Breaker -------------------------------
(***************************************************************************)
(* The circuit breaker of sony/gobreaker v2 as infra/upstream configures   *)
(* it, once around the process's calls and once per API key: MaxRequests 1 *)
(* (a single half-open probe), trip on a run of failures or on a failure   *)
(* ratio above one half, counts cleared every interval.  A result is       *)
(* counted only in the generation that admitted the call: "members" are    *)
(* the admitted calls of the current generation.                           *)
(***************************************************************************)
EXTENDS Integers, FiniteSets

CONSTANTS
  TripRun,  \* consecutive failures that trip (5 in the code)
  TripMin   \* requests from which the failure ratio counts (10 in the code)

ASSUME BreakerAssumption == TripRun \in Nat \ {0} /\ TripMin \in Nat \ {0}

Fresh(st) == [st |-> st, members |-> {}, reqs |-> 0, fails |-> 0, run |-> 0]

BreakerType(Calls) ==
  [st : {"closed", "open", "half"}, members : SUBSET Calls,
   reqs : Nat, fails : Nat, run : Nat]

\* beforeRequest: refuse while open and while a half-open probe is out.
Admits(b) == b.st = "closed" \/ (b.st = "half" /\ b.reqs < 1)

Admit(b, c) == [b EXCEPT !.members = @ \cup {c}, !.reqs = @ + 1]

\* ReadyToTrip.
Trips(b) == b.run >= TripRun \/ (b.reqs >= TripMin /\ 2 * b.fails > b.reqs)

\* afterRequest with a successful result.
Succeed(b, c) ==
  IF c \notin b.members THEN b
  ELSE IF b.st = "half" THEN Fresh("closed")
  ELSE [b EXCEPT !.members = @ \ {c}, !.run = 0]

\* afterRequest with a failure.
Fail(b, c) ==
  IF c \notin b.members THEN b
  ELSE LET counted == [b EXCEPT !.members = @ \ {c}, !.fails = @ + 1, !.run = @ + 1]
       IN  IF b.st = "half" \/ Trips(counted) THEN Fresh("open") ELSE counted

\* Time: the open timeout leads to half-open, the interval clears the counts.
Elapse(b) ==
  CASE b.st = "open"   -> Fresh("half")
    [] b.st = "closed" -> Fresh("closed")
    [] OTHER           -> b
=============================================================================
