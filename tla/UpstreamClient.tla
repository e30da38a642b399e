--------------------------- MODULE UpstreamClient ---------------------------
(***************************************************************************)
(* The upstream HTTP client (infra/upstream client.go, transport.go,       *)
(* faultclass.go, retry.go): one call runs up to MaxAttempts attempts      *)
(* inside the process breaker; each attempt picks an API key, enters the   *)
(* key's breaker, posts, and waits for the first byte under a timer that   *)
(* must not cut a stream it has handed over.  The class of a failure       *)
(* decides retry, breaker count and billing exposure.                      *)
(***************************************************************************)
EXTENDS Breaker

CONSTANTS
  Calls,        \* concurrent calls
  Keys,         \* API keys
  MaxAttempts,  \* retryPolicy.maxAttempts (3 in the code)
  NoKey         \* no key picked

ASSUME ClientAssumption ==
  /\ IsFiniteSet(Calls) /\ IsFiniteSet(Keys)
  /\ NoKey \notin Keys
  /\ MaxAttempts \in Nat \ {0}

VARIABLES
  pc,      \* where the call is
  live,    \* the caller's context is not cancelled
  n,       \* the attempt's number
  key,     \* the attempt's key
  last,    \* the class the last attempt ended with
  timer,   \* the first-byte timer: "unset", "armed", "fired" or "taken"
  result,  \* what DoCall returned: "none", "stream", "unbilled", "possible"
  proc,    \* the process breaker
  kb,      \* the key breakers
  cool,    \* keys on cooldown
  prov,    \* the provider's side of the current attempt
  pending, \* attempts given up without an answer that may still be billed
  bills    \* history: attempts of the call that the provider billed

local    == <<n, key, last, timer>>
breakers == <<proc, kb, cool>>
provider == <<prov, pending, bills>>
vars     == <<pc, live, local, result, breakers, provider>>

\* resolve: what follows from a class.  "refused" is an explicit 3xx or 4xx.
Resolve ==
  [ok        |-> [retry |-> FALSE, fault |-> FALSE, exposure |-> "possible"],
   cancel    |-> [retry |-> FALSE, fault |-> FALSE, exposure |-> "possible"],
   busy      |-> [retry |-> FALSE, fault |-> FALSE, exposure |-> "unbilled"],
   keyauth   |-> [retry |-> TRUE,  fault |-> FALSE, exposure |-> "unbilled"],
   keyopen   |-> [retry |-> TRUE,  fault |-> FALSE, exposure |-> "unbilled"],
   timeout   |-> [retry |-> FALSE, fault |-> TRUE,  exposure |-> "possible"],
   upstream  |-> [retry |-> FALSE, fault |-> TRUE,  exposure |-> "possible"],
   refused   |-> [retry |-> FALSE, fault |-> TRUE,  exposure |-> "unbilled"],
   rejected  |-> [retry |-> FALSE, fault |-> FALSE, exposure |-> "unbilled"],
   unsent    |-> [retry |-> FALSE, fault |-> FALSE, exposure |-> "unbilled"]]

\* Mutant: 5xx and transport faults are retried too.
RetryFaults(class) == Resolve[class].retry \/ Resolve[class].fault

Retryable(class) == Resolve[class].retry

\* Mutant: a cancelled caller is taken for an unsent request.
ExposureOfCancel(class) == IF class = "cancel" THEN "unbilled" ELSE Resolve[class].exposure

Exposure(class) == Resolve[class].exposure

\* classifyStatus: the answers a provider gives and their classes.
StatusClass ==
  [s429 |-> "busy", s401 |-> "keyauth", s400 |-> "rejected", s404 |-> "refused",
   s504 |-> "timeout", s500 |-> "upstream"]

Refusals == DOMAIN StatusClass

TypeOK ==
  /\ pc \in [Calls -> {"start", "admit", "pick", "enter", "wire", "peek", "backoff", "finish", "done"}]
  /\ live \in [Calls -> BOOLEAN]
  /\ n \in [Calls -> 1..MaxAttempts]
  /\ key \in [Calls -> Keys \cup {NoKey}]
  /\ last \in [Calls -> DOMAIN Resolve]
  /\ timer \in [Calls -> {"unset", "armed", "fired", "taken"}]
  /\ result \in [Calls -> {"none", "stream", "unbilled", "possible"}]
  /\ proc \in BreakerType(Calls)
  /\ kb \in [Keys -> BreakerType(Calls)]
  /\ cool \subseteq Keys
  /\ prov \in [Calls -> Refusals \cup {"idle", "inflight", "s200"}]
  /\ pending \in [Calls -> 0..1]
  /\ bills \in [Calls -> 0..MaxAttempts]

Init ==
  /\ pc = [c \in Calls |-> "start"]
  /\ live = [c \in Calls |-> TRUE]
  /\ n = [c \in Calls |-> 1]
  /\ key = [c \in Calls |-> NoKey]
  /\ last = [c \in Calls |-> "ok"]
  /\ timer = [c \in Calls |-> "unset"]
  /\ result = [c \in Calls |-> "none"]
  /\ proc = Fresh("closed")
  /\ kb = [k \in Keys |-> Fresh("closed")]
  /\ cool = {}
  /\ prov = [c \in Calls |-> "idle"]
  /\ pending = [c \in Calls |-> 0]
  /\ bills = [c \in Calls |-> 0]

-----------------------------------------------------------------------------
(* do: the process breaker around the attempts. *)

Goes(c, from, to) ==
  /\ pc[c] = from
  /\ pc' = [pc EXCEPT ![c] = to]

Shed(c) ==
  /\ \/ proc.st = "open" /\ Goes(c, "start", "done")
     \/ ~Admits(proc) /\ Goes(c, "admit", "done")
  /\ result' = [result EXCEPT ![c] = "unbilled"]
  /\ UNCHANGED <<live, local, breakers, provider>>

CheckBreaker(c) ==
  /\ proc.st # "open"
  /\ Goes(c, "start", "admit")
  /\ UNCHANGED <<live, local, result, breakers, provider>>

Execute(c) ==
  /\ Admits(proc)
  /\ Goes(c, "admit", "pick")
  /\ proc' = Admit(proc, c)
  /\ UNCHANGED <<live, local, result, kb, cool, provider>>

\* The attempt's variables die with the call.
Forget(c) ==
  /\ n' = [n EXCEPT ![c] = 1]
  /\ key' = [key EXCEPT ![c] = NoKey]
  /\ last' = [last EXCEPT ![c] = "ok"]
  /\ prov' = [prov EXCEPT ![c] = "idle"]

\* Mutant: the end of a cancelled call is not reported to the breaker.
FinishForgets(c) ==
  /\ Goes(c, "finish", "done")
  /\ proc' = CASE last[c] = "cancel"      -> proc
              [] Resolve[last[c]].fault -> Fail(proc, c)
              [] OTHER                  -> Succeed(proc, c)
  /\ result' = [result EXCEPT ![c] = IF last[c] = "ok" THEN "stream" ELSE Exposure(last[c])]
  /\ Forget(c)
  /\ UNCHANGED <<live, timer, kb, cool, pending, bills>>

\* Execute returns: only a fault counts against the breaker.
Finish(c) ==
  /\ Goes(c, "finish", "done")
  /\ proc' = IF Resolve[last[c]].fault THEN Fail(proc, c) ELSE Succeed(proc, c)
  /\ result' = [result EXCEPT ![c] = IF last[c] = "ok" THEN "stream" ELSE Exposure(last[c])]
  /\ Forget(c)
  /\ UNCHANGED <<live, timer, kb, cool, pending, bills>>

-----------------------------------------------------------------------------
(* attempt: retry only what provably cost nothing. *)

AttemptsLeft(c) == n[c] < MaxAttempts

EndTry(c, from, class) ==
  /\ Goes(c, from, IF Retryable(class) /\ AttemptsLeft(c) THEN "backoff" ELSE "finish")
  /\ last' = [last EXCEPT ![c] = class]
  /\ UNCHANGED <<n, key>>

Disarm(c) == timer' = [timer EXCEPT ![c] = IF @ = "armed" THEN "taken" ELSE @]

Retry(c) ==
  /\ Goes(c, "backoff", "pick")
  /\ n' = [n EXCEPT ![c] = @ + 1]
  /\ key' = [key EXCEPT ![c] = NoKey]
  /\ timer' = [timer EXCEPT ![c] = "unset"]
  /\ prov' = [prov EXCEPT ![c] = "idle"]
  /\ UNCHANGED <<live, last, result, breakers, pending, bills>>

\* Cancelled while waiting: every attempt so far was provably free.
BackoffCancelled(c) ==
  /\ ~live[c]
  /\ Goes(c, "backoff", "finish")
  /\ last' = [last EXCEPT ![c] = "unsent"]
  /\ UNCHANGED <<live, n, key, timer, result, breakers, provider>>

-----------------------------------------------------------------------------
(* tryOnce and RoundTrip. *)

Gated(k) == k \in cool \/ kb[k].st = "open"

\* The timer is armed, then pickKey takes the first key from the round-robin
\* cursor that is not gated; where the shared cursor stands is left open.
PickKey(c) ==
  /\ timer' = [timer EXCEPT ![c] = "armed"]
  /\ \E k \in Keys : ~Gated(k) /\ key' = [key EXCEPT ![c] = k]
  /\ Goes(c, "pick", "enter")
  /\ UNCHANGED <<live, n, last, result, breakers, provider>>

AllKeysGated(c) ==
  /\ \A k \in Keys : Gated(k)
  /\ EndTry(c, "pick", "busy")
  /\ UNCHANGED <<live, timer, result, breakers, provider>>

\* The key's breaker may have opened, or its probe be out, since the pick.
EnterKey(c) ==
  /\ pc[c] = "enter"
  /\ IF Admits(kb[key[c]])
     THEN /\ Goes(c, "enter", "wire")
          /\ kb' = [kb EXCEPT ![key[c]] = Admit(@, c)]
          /\ UNCHANGED local
     ELSE EndTry(c, "enter", "keyopen") /\ Disarm(c) /\ UNCHANGED kb
  /\ UNCHANGED <<live, result, proc, cool, provider>>

Send(c) ==
  /\ pc[c] = "wire"
  /\ prov[c] = "idle"
  /\ prov' = [prov EXCEPT ![c] = "inflight"]
  /\ UNCHANGED <<pc, live, local, result, breakers, pending, bills>>

\* What the attempt leaves at the provider when it ends without an answer.
GiveUp(c) ==
  /\ pending' = [pending EXCEPT ![c] = @ + (IF prov[c] = "inflight" THEN 1 ELSE 0)]
  /\ UNCHANGED <<prov, bills>>

\* accountLevelFault: 401, 403 and 5xx count against the key, 401 and 403 and
\* a long Retry-After cool it.
ReadRefusal(c) ==
  /\ pc[c] = "wire"
  /\ prov[c] \in Refusals
  /\ EndTry(c, "wire", StatusClass[prov[c]])
  /\ Disarm(c)
  /\ kb' = [kb EXCEPT ![key[c]] =
              IF prov[c] \in {"s401", "s500", "s504"} THEN Fail(@, c) ELSE Succeed(@, c)]
  /\ \/ prov[c] \in {"s401", "s429"} /\ cool' = cool \cup {key[c]}
     \/ prov[c] # "s401" /\ UNCHANGED cool
  /\ UNCHANGED <<live, result, proc, provider>>

\* Mutant: the timer is stopped by the headers, not by the first byte.
ReadHeadersDisarms(c) ==
  /\ prov[c] = "s200"
  /\ Goes(c, "wire", "peek")
  /\ Disarm(c)
  /\ kb' = [kb EXCEPT ![key[c]] = Succeed(@, c)]
  /\ UNCHANGED <<live, n, key, last, result, proc, cool, provider>>

ReadHeaders(c) ==
  /\ prov[c] = "s200"
  /\ Goes(c, "wire", "peek")
  /\ kb' = [kb EXCEPT ![key[c]] = Succeed(@, c)]
  /\ UNCHANGED <<live, local, result, proc, cool, provider>>

\* Connect, TLS or transport error, or the connection's own timeout.
WireFails(c) ==
  /\ \E class \in {"upstream", "timeout"} : EndTry(c, "wire", class)
  /\ Disarm(c)
  /\ GiveUp(c)
  /\ kb' = [kb EXCEPT ![key[c]] = Fail(@, c)]
  /\ UNCHANGED <<live, result, proc, cool>>

CancelClass(c) == IF timer[c] = "fired" THEN "timeout" ELSE "cancel"

\* The timer or the caller cancelled the request; the key is not to blame.
WireCancelled(c) ==
  /\ timer[c] = "fired" \/ ~live[c]
  /\ EndTry(c, "wire", CancelClass(c))
  /\ Disarm(c)
  /\ GiveUp(c)
  /\ kb' = [kb EXCEPT ![key[c]] = Succeed(@, c)]
  /\ UNCHANGED <<live, result, proc, cool>>

\* The first byte is there; the stream is handed over only if disarming wins.
PeekByte(c) ==
  /\ EndTry(c, "peek", IF timer[c] = "armed" THEN "ok" ELSE "timeout")
  /\ Disarm(c)
  /\ UNCHANGED <<live, result, breakers, provider>>

PeekFails(c) ==
  /\ EndTry(c, "peek", IF timer[c] = "fired" THEN "timeout" ELSE "upstream")
  /\ Disarm(c)
  /\ UNCHANGED <<live, result, breakers, provider>>

PeekCancelled(c) ==
  /\ timer[c] = "fired" \/ ~live[c]
  /\ EndTry(c, "peek", CancelClass(c))
  /\ Disarm(c)
  /\ UNCHANGED <<live, result, breakers, provider>>

\* Mutant: the callback does not ask whether the timer was disarmed.
MayFireLate(c) == timer[c] \in {"armed", "taken"}

\* The callback's compare-and-swap on "armed".
MayFire(c) == timer[c] = "armed"

\* The first byte is late: the request context is cancelled.
TimerFires(c) ==
  /\ MayFire(c)
  /\ timer' = [timer EXCEPT ![c] = "fired"]
  /\ UNCHANGED <<pc, live, n, key, last, result, breakers, provider>>

-----------------------------------------------------------------------------
(* The surroundings. *)

CallerCancels(c) ==
  /\ live[c]
  /\ pc[c] # "done"
  /\ live' = [live EXCEPT ![c] = FALSE]
  /\ UNCHANGED <<pc, local, result, breakers, provider>>

\* An accepted request is billed, an explicit refusal is not, a 5xx may be.
ProviderAnswers(c) ==
  /\ pc[c] = "wire"
  /\ prov[c] = "inflight"
  /\ \E s \in Refusals \cup {"s200"}, b \in 0..1 :
       /\ s = "s200" => b = 1
       /\ s \in Refusals \ {"s500", "s504"} => b = 0
       /\ prov' = [prov EXCEPT ![c] = s]
       /\ bills' = [bills EXCEPT ![c] = @ + b]
  /\ UNCHANGED <<pc, live, local, result, breakers, pending>>

LateAnswer(c) ==
  /\ pending[c] > 0
  /\ pending' = [pending EXCEPT ![c] = @ - 1]
  /\ \E b \in 0..1 : bills' = [bills EXCEPT ![c] = @ + b]
  /\ UNCHANGED <<pc, live, local, result, breakers, prov>>

ProcessTime ==
  /\ proc' = Elapse(proc)
  /\ proc' # proc
  /\ UNCHANGED <<pc, live, local, result, kb, cool, provider>>

KeyTime(k) ==
  /\ kb' = [kb EXCEPT ![k] = Elapse(@)]
  /\ kb' # kb
  /\ UNCHANGED <<pc, live, local, result, proc, cool, provider>>

CooldownEnds(k) ==
  /\ k \in cool
  /\ cool' = cool \ {k}
  /\ UNCHANGED <<pc, live, local, result, proc, kb, provider>>

\* The steps the call's own goroutine takes.
Step(c) ==
  \/ Shed(c) \/ CheckBreaker(c) \/ Execute(c)
  \/ PickKey(c) \/ AllKeysGated(c) \/ EnterKey(c) \/ Send(c)
  \/ ReadRefusal(c) \/ ReadHeaders(c) \/ WireCancelled(c)
  \/ PeekCancelled(c) \/ Retry(c) \/ BackoffCancelled(c) \/ Finish(c)

Next ==
  \/ \E c \in Calls : Step(c) \/ WireFails(c) \/ PeekByte(c) \/ PeekFails(c) \/ TimerFires(c)
  \/ \E c \in Calls : CallerCancels(c) \/ ProviderAnswers(c) \/ LateAnswer(c)
  \/ \E k \in Keys : KeyTime(k) \/ CooldownEnds(k)
  \/ ProcessTime

Spec == Init /\ [][Next]_vars

-----------------------------------------------------------------------------
(***************************************************************************)
(* Retrying never buys twice: over all attempts of a call the provider     *)
(* bills at most one, those still unanswered included.                     *)
(***************************************************************************)
AtMostOneBill == \A c \in Calls : bills[c] + pending[c] <= 1

(***************************************************************************)
(* Retries keep to their policy and buy once: well typed, so no attempt    *)
(* past retryPolicy.maxAttempts and never two unanswered, and one bill.    *)
(***************************************************************************)
RetriesBounded == TypeOK /\ AtMostOneBill

(***************************************************************************)
(* A failure reported as definitely unbilled is one: no attempt of the     *)
(* call was billed and none can still be, so the caller may roll back.     *)
(***************************************************************************)
UnbilledIsUnbilled ==
  \A c \in Calls : result[c] = "unbilled" => bills[c] + pending[c] = 0

(***************************************************************************)
(* A stream that was handed over is never cancelled by the first-byte      *)
(* timer, however close the race was.                                      *)
(***************************************************************************)
StreamNotCut == \A c \in Calls : result[c] = "stream" => timer[c] # "fired"

(***************************************************************************)
(* A half-open breaker whose probe is taken has the probe in flight: every *)
(* path out of a call or of a round trip reports to the breaker, so none   *)
(* can stay half-open and shedding for ever.                               *)
(***************************************************************************)
ProbeInFlight ==
  /\ proc.st = "half" /\ proc.reqs > 0 =>
       \E c \in proc.members : pc[c] \notin {"start", "admit", "done"}
  /\ \A k \in Keys : kb[k].st = "half" /\ kb[k].reqs > 0 =>
       \E c \in kb[k].members : pc[c] = "wire" /\ key[c] = k

(***************************************************************************)
(* Fairness: the call's goroutine runs and the timer fires; nothing is     *)
(* assumed of the provider.                                                *)
(***************************************************************************)
FairSpec ==
  /\ Spec
  /\ \A c \in Calls : WF_vars(Step(c)) /\ WF_vars(TimerFires(c))

(***************************************************************************)
(* Every call returns, also when the provider never answers: the first-    *)
(* byte timer bounds each attempt and the attempts are bounded.            *)
(***************************************************************************)
CallsReturn == \A c \in Calls : (pc[c] # "start") ~> (pc[c] = "done")
=============================================================================
