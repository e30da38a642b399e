----------------------- MODULE UpstreamClient_proofs ------------------------
(***************************************************************************)
(* Proofs about the upstream client, for every set of calls and keys,      *)
(* every number of attempts and every trip threshold of the breakers.      *)
(***************************************************************************)
EXTENDS UpstreamClient, TLAPS

(***************************************************************************)
(* What a call may have cost at each point of do, attempt, tryOnce and     *)
(* RoundTrip.  A call that goes on, or goes back to try again, owes        *)
(* nothing; an answered attempt owes at most itself; a class that says     *)
(* "unbilled" is only ever reached with clean books.                       *)
(***************************************************************************)
Books(c) ==
  /\ pc[c] \in {"start", "admit", "pick", "enter", "backoff"} =>
       bills[c] = 0 /\ pending[c] = 0
  /\ pc[c] \in {"start", "admit", "pick", "enter"} => prov[c] = "idle"
  /\ pc[c] \in {"wire", "peek"} => pending[c] = 0 /\ bills[c] <= 1
  /\ pc[c] = "wire" /\ bills[c] = 1 => prov[c] \in {"s200", "s500", "s504"}
  /\ pc[c] \in {"finish", "done"} => bills[c] + pending[c] <= 1
  /\ pc[c] = "finish" /\ Exposure(last[c]) = "unbilled" => bills[c] = 0 /\ pending[c] = 0
  /\ result[c] = "unbilled" => bills[c] = 0 /\ pending[c] = 0
  /\ result[c] # "none" => pc[c] = "done"

(***************************************************************************)
(* A retry is only waited for while attempts are left, a request on the    *)
(* wire has its key, and a stream is handed over with the timer disarmed.  *)
(***************************************************************************)
Timing(c) ==
  /\ pc[c] = "backoff" => n[c] < MaxAttempts
  /\ pc[c] \in {"enter", "wire"} => key[c] \in Keys
  /\ pc[c] = "finish" /\ last[c] = "ok" => timer[c] = "taken"
  /\ result[c] = "stream" => timer[c] = "taken"

CallInv == \A c \in Calls : Books(c) /\ Timing(c)

(***************************************************************************)
(* The calls a breaker counts as admitted in its current generation are    *)
(* inside it, and a half-open breaker that has let its probe in still      *)
(* counts a call as admitted.                                              *)
(***************************************************************************)
Probed(b) == b.st = "half" /\ b.reqs > 0 => b.members # {}

Probes ==
  /\ Probed(proc)
  /\ \A c \in proc.members : pc[c] \notin {"start", "admit", "done"}
  /\ \A k \in Keys : /\ Probed(kb[k])
                     /\ \A c \in kb[k].members : pc[c] = "wire" /\ key[c] = k

ClientInv == TypeOK /\ CallInv /\ Probes

-----------------------------------------------------------------------------
(* What the classes and the breakers' operations are. *)

\* resolve's three kinds of class: what may have been billed is never retried.
LEMMA ClassFacts ==
  /\ \A x \in {"ok", "cancel", "timeout", "upstream"} :
       x \in DOMAIN Resolve /\ ~Retryable(x) /\ Exposure(x) = "possible"
  /\ \A x \in {"busy", "rejected", "refused", "unsent"} :
       x \in DOMAIN Resolve /\ ~Retryable(x) /\ Exposure(x) = "unbilled"
  /\ \A x \in {"keyauth", "keyopen"} :
       x \in DOMAIN Resolve /\ Retryable(x) /\ Exposure(x) = "unbilled"
  BY DEF Resolve, Retryable, Exposure

\* classifyStatus: only a 5xx answer may hide a bill.
LEMMA StatusFacts ==
  ASSUME NEW s \in Refusals
  PROVE  /\ StatusClass[s] \in DOMAIN Resolve
         /\ s \in {"s500", "s504"} =>
              ~Retryable(StatusClass[s]) /\ Exposure(StatusClass[s]) = "possible"
         /\ StatusClass[s] # "ok"
  BY ClassFacts DEF StatusClass, Refusals

LEMMA FreshBreaker ==
  ASSUME NEW x \in {"closed", "open", "half"}
  PROVE  /\ Fresh(x) \in BreakerType(Calls)
         /\ Fresh(x).members = {}
         /\ Probed(Fresh(x))
  BY DEF Fresh, BreakerType, Probed

\* beforeRequest lets the call in.
LEMMA AdmitBreaker ==
  ASSUME NEW b \in BreakerType(Calls), NEW c \in Calls
  PROVE  /\ Admit(b, c) \in BreakerType(Calls)
         /\ Admit(b, c).members = b.members \cup {c}
         /\ Probed(Admit(b, c))
<1>1. b.members \cup {c} \in SUBSET Calls /\ b.reqs + 1 \in Nat
  BY DEF BreakerType
<1>2. Admit(b, c) \in BreakerType(Calls)
  BY <1>1 DEF Admit, BreakerType
<1>3. Admit(b, c).members = b.members \cup {c}
  BY DEF Admit, BreakerType
<1>4. QED
  BY <1>2, <1>3 DEF Probed

\* afterRequest, whatever the result, takes the call out; a half-open breaker
\* whose probe it was does not stay half-open.
LEMMA SucceedBreaker ==
  ASSUME NEW b \in BreakerType(Calls), NEW c \in Calls, Probed(b)
  PROVE  /\ Succeed(b, c) \in BreakerType(Calls)
         /\ Succeed(b, c).members \subseteq b.members \ {c}
         /\ Probed(Succeed(b, c))
<1>1. CASE c \notin b.members
  BY <1>1 DEF Succeed, BreakerType
<1>2. CASE c \in b.members /\ b.st = "half"
  BY <1>2, FreshBreaker DEF Succeed
<1>3. CASE c \in b.members /\ b.st # "half"
  BY <1>3 DEF Succeed, BreakerType, Probed
<1>4. QED
  BY <1>1, <1>2, <1>3

LEMMA FailBreaker ==
  ASSUME NEW b \in BreakerType(Calls), NEW c \in Calls, Probed(b)
  PROVE  /\ Fail(b, c) \in BreakerType(Calls)
         /\ Fail(b, c).members \subseteq b.members \ {c}
         /\ Probed(Fail(b, c))
<1> DEFINE counted == [b EXCEPT !.members = @ \ {c}, !.fails = @ + 1, !.run = @ + 1]
<1>1. CASE c \notin b.members
  BY <1>1 DEF Fail, BreakerType
<1>2. CASE c \in b.members /\ (b.st = "half" \/ Trips(counted))
  <2>1. Fail(b, c) = Fresh("open")
    BY <1>2 DEF Fail
  <2>2. QED
    BY <2>1, FreshBreaker
<1>3. CASE c \in b.members /\ b.st # "half" /\ ~Trips(counted)
  <2>1. Fail(b, c) = counted
    BY <1>3 DEF Fail
  <2>2. b.members \ {c} \in SUBSET Calls /\ b.fails + 1 \in Nat /\ b.run + 1 \in Nat
    BY DEF BreakerType
  <2>3. counted \in BreakerType(Calls)
    BY <2>2 DEF BreakerType
  <2>4. counted.members = b.members \ {c} /\ counted.st # "half"
    BY <1>3 DEF BreakerType
  <2>5. QED
    BY <2>1, <2>3, <2>4 DEF Probed
<1>4. QED
  BY <1>1, <1>2, <1>3

LEMMA ElapseBreaker ==
  ASSUME NEW b \in BreakerType(Calls), Probed(b)
  PROVE  /\ Elapse(b) \in BreakerType(Calls)
         /\ Elapse(b).members \subseteq b.members
         /\ Probed(Elapse(b))
<1>1. b.st \in {"closed", "open", "half"}
  BY DEF BreakerType
<1>2. CASE b.st = "half"
  BY <1>2 DEF Elapse
<1>3. CASE b.st # "half"
  BY <1>1, <1>3, FreshBreaker DEF Elapse
<1>4. QED
  BY <1>2, <1>3

-----------------------------------------------------------------------------
(* Steps the actions share. *)

Places == {"start", "admit", "pick", "enter", "wire", "peek", "backoff", "finish", "done"}

LEMMA EndTryStep ==
  ASSUME TypeOK, NEW c \in Calls, NEW from, NEW class \in DOMAIN Resolve,
         EndTry(c, from, class)
  PROVE  /\ pc[c] = from
         /\ \E to \in {"backoff", "finish"} :
              /\ pc' = [pc EXCEPT ![c] = to]
              /\ to = "backoff" => Retryable(class) /\ n[c] < MaxAttempts
         /\ pc' \in [Calls -> Places]
         /\ last' = [last EXCEPT ![c] = class]
         /\ last' \in [Calls -> DOMAIN Resolve]
         /\ n' = n /\ key' = key
  BY DEF EndTry, Goes, AttemptsLeft, TypeOK, Places

LEMMA DisarmStep ==
  ASSUME TypeOK, NEW c \in Calls, Disarm(c)
  PROVE  /\ timer' = [timer EXCEPT ![c] = IF timer[c] = "armed" THEN "taken" ELSE timer[c]]
         /\ timer' \in [Calls -> {"unset", "armed", "fired", "taken"}]
  BY DEF Disarm, TypeOK

\* A round trip reports to its key's breaker.
LEMMA KeyReport ==
  ASSUME TypeOK, Probes, NEW c \in Calls, key[c] \in Keys,
         \/ kb' = [kb EXCEPT ![key[c]] = Succeed(kb[key[c]], c)]
         \/ kb' = [kb EXCEPT ![key[c]] = Fail(kb[key[c]], c)]
  PROVE  /\ kb' \in [Keys -> BreakerType(Calls)]
         /\ \A k \in Keys : /\ Probed(kb'[k])
                            /\ kb'[k].members \subseteq kb[k].members
         /\ c \notin kb'[key[c]].members
<1> DEFINE k == key[c]
<1>1. kb \in [Keys -> BreakerType(Calls)] /\ k \in Keys /\ kb[k] \in BreakerType(Calls)
  BY DEF TypeOK
<1>2. \A j \in Keys : Probed(kb[j])
  BY DEF Probes
<1>3. PICK b \in {Succeed(kb[k], c), Fail(kb[k], c)} : kb' = [kb EXCEPT ![k] = b]
  OBVIOUS
<1>4. b \in BreakerType(Calls) /\ b.members \subseteq kb[k].members \ {c} /\ Probed(b)
  BY <1>1, <1>2, SucceedBreaker, FailBreaker
<1>5. kb' \in [Keys -> BreakerType(Calls)]
  BY <1>1, <1>3, <1>4
<1>6. kb'[k] = b /\ \A j \in Keys \ {k} : kb'[j] = kb[j]
  BY <1>1, <1>3
<1>7. QED
  BY <1>1, <1>2, <1>4, <1>5, <1>6

-----------------------------------------------------------------------------
(* The inductive invariant holds initially. *)

LEMMA InvInit == Init => ClientInv
<1> SUFFICES ASSUME Init PROVE ClientInv
  OBVIOUS
<1>1. 1 \in 1..MaxAttempts /\ 0 \in 0..MaxAttempts
  BY ClientAssumption DEF ClientAssumption
<1>2. "ok" \in DOMAIN Resolve
  BY ClassFacts
<1>3. TypeOK
  BY <1>1, <1>2, FreshBreaker DEF Init, TypeOK
<1>4. CallInv
  BY DEF Init, CallInv, Books, Timing
<1>5. Probes
  BY FreshBreaker DEF Init, Probes
<1>6. QED
  BY <1>3, <1>4, <1>5 DEF ClientInv

-----------------------------------------------------------------------------
(* Every step keeps the types. *)

LEMMA TypeStep ==
  ASSUME ClientInv, NEW c \in Calls,
         Step(c) \/ WireFails(c) \/ PeekByte(c) \/ PeekFails(c) \/ TimerFires(c)
  PROVE  TypeOK'
<1> USE DEF ClientInv, local, breakers, provider
<1>1. CASE Shed(c)
  BY <1>1 DEF Shed, Goes, TypeOK
<1>2. CASE CheckBreaker(c)
  BY <1>2 DEF CheckBreaker, Goes, TypeOK
<1>3. CASE Execute(c)
  <2>1. Admit(proc, c) \in BreakerType(Calls)
    BY AdmitBreaker DEF TypeOK
  <2>2. QED
    BY <1>3, <2>1 DEF Execute, Goes, TypeOK
<1>4. CASE PickKey(c)
  BY <1>4 DEF PickKey, Goes, TypeOK
<1>5. CASE AllKeysGated(c)
  BY <1>5, EndTryStep, ClassFacts DEF AllKeysGated, TypeOK, Places
<1>6. CASE EnterKey(c)
  <2>1. key[c] \in Keys
    BY <1>6 DEF EnterKey, CallInv, Timing
  <2>2. CASE Admits(kb[key[c]])
    <3>1. Admit(kb[key[c]], c) \in BreakerType(Calls)
      BY <2>1, AdmitBreaker DEF TypeOK
    <3>2. kb' = [kb EXCEPT ![key[c]] = Admit(kb[key[c]], c)]
      BY <1>6, <2>2 DEF EnterKey
    <3>3. kb' \in [Keys -> BreakerType(Calls)]
      BY <3>1, <3>2, <2>1 DEF TypeOK
    <3>4. QED
      BY <1>6, <2>2, <3>3 DEF EnterKey, Goes, TypeOK
  <2>3. CASE ~Admits(kb[key[c]])
    BY <1>6, <2>3, EndTryStep, DisarmStep, ClassFacts DEF EnterKey, TypeOK, Places
  <2>4. QED
    BY <2>2, <2>3
<1>7. CASE Send(c)
  BY <1>7 DEF Send, TypeOK
<1>8. CASE ReadRefusal(c)
  <2>1. key[c] \in Keys /\ prov[c] \in Refusals
    BY <1>8 DEF ReadRefusal, CallInv, Timing
  <2>2. kb' \in [Keys -> BreakerType(Calls)]
    BY <1>8, <2>1, KeyReport DEF ReadRefusal
  <2>3. cool' \subseteq Keys
    BY <1>8, <2>1 DEF ReadRefusal, TypeOK
  <2>4. StatusClass[prov[c]] \in DOMAIN Resolve
    BY <2>1, StatusFacts
  <2>5. pc' \in [Calls -> Places] /\ last' \in [Calls -> DOMAIN Resolve] /\ n' = n /\ key' = key
    BY <1>8, <2>4, EndTryStep DEF ReadRefusal
  <2>6. QED
    BY <1>8, <2>2, <2>3, <2>5, DisarmStep DEF ReadRefusal, TypeOK, Places
<1>9. CASE ReadHeaders(c)
  <2>1. key[c] \in Keys
    BY <1>9 DEF ReadHeaders, Goes, CallInv, Timing
  <2>2. kb' \in [Keys -> BreakerType(Calls)]
    BY <1>9, <2>1, KeyReport DEF ReadHeaders
  <2>3. QED
    BY <1>9, <2>2 DEF ReadHeaders, Goes, TypeOK
<1>10. CASE WireCancelled(c) \/ WireFails(c)
  <2>1. PICK class \in {"timeout", "cancel", "upstream"} : EndTry(c, "wire", class)
    BY <1>10 DEF WireCancelled, WireFails, CancelClass
  <2>2. pc[c] = "wire" /\ key[c] \in Keys /\ pending[c] = 0
    BY <2>1, ClassFacts, EndTryStep DEF CallInv, Books, Timing
  <2>3. kb' \in [Keys -> BreakerType(Calls)]
    BY <1>10, <2>2, KeyReport DEF WireCancelled, WireFails
  <2>4. pending' \in [Calls -> 0..1]
    BY <1>10, <2>2 DEF WireCancelled, WireFails, GiveUp, TypeOK
  <2>5. pc' \in [Calls -> Places] /\ last' \in [Calls -> DOMAIN Resolve] /\ n' = n /\ key' = key
    BY <2>1, ClassFacts, EndTryStep
  <2>6. QED
    BY <1>10, <2>3, <2>4, <2>5, DisarmStep DEF WireCancelled, WireFails, GiveUp, TypeOK, Places
<1>11. CASE PeekCancelled(c) \/ PeekByte(c) \/ PeekFails(c)
  <2>1. PICK class \in {"timeout", "cancel", "upstream", "ok"} : EndTry(c, "peek", class)
    BY <1>11 DEF PeekCancelled, PeekByte, PeekFails, CancelClass
  <2>2. pc' \in [Calls -> Places] /\ last' \in [Calls -> DOMAIN Resolve] /\ n' = n /\ key' = key
    BY <2>1, ClassFacts, EndTryStep
  <2>3. QED
    BY <1>11, <2>2, DisarmStep DEF PeekCancelled, PeekByte, PeekFails, TypeOK, Places
<1>12. CASE Retry(c)
  <2>1. n[c] < MaxAttempts /\ n[c] \in 1..MaxAttempts /\ MaxAttempts \in Nat
    BY <1>12, ClientAssumption DEF Retry, Goes, CallInv, Timing, TypeOK, ClientAssumption
  <2>2. n' \in [Calls -> 1..MaxAttempts]
    BY <1>12, <2>1 DEF Retry, TypeOK
  <2>3. QED
    BY <1>12, <2>2 DEF Retry, Goes, TypeOK
<1>13. CASE BackoffCancelled(c)
  BY <1>13, ClassFacts DEF BackoffCancelled, Goes, TypeOK
<1>14. CASE Finish(c)
  <2>1. proc' \in BreakerType(Calls)
    BY <1>14, SucceedBreaker, FailBreaker DEF Finish, TypeOK, Probes
  <2>2. Exposure(last[c]) \in {"unbilled", "possible"}
    BY DEF TypeOK, Exposure, Resolve
  <2>3. n' \in [Calls -> 1..MaxAttempts]
    BY <1>14, ClientAssumption DEF Finish, Forget, TypeOK, ClientAssumption
  <2>4. last' \in [Calls -> DOMAIN Resolve]
    BY <1>14, ClassFacts DEF Finish, Forget, TypeOK
  <2>5. QED
    BY <1>14, <2>1, <2>2, <2>3, <2>4 DEF Finish, Forget, Goes, TypeOK
<1>15. CASE TimerFires(c)
  BY <1>15 DEF TimerFires, TypeOK
<1>16. QED
  BY <1>1, <1>2, <1>3, <1>4, <1>5, <1>6, <1>7, <1>8, <1>9, <1>10, <1>11,
     <1>12, <1>13, <1>14, <1>15 DEF Step

LEMMA TypeSurroundings ==
  ASSUME ClientInv,
         \/ \E c \in Calls : CallerCancels(c) \/ ProviderAnswers(c) \/ LateAnswer(c)
         \/ \E k \in Keys : KeyTime(k) \/ CooldownEnds(k)
         \/ ProcessTime
  PROVE  TypeOK'
<1> USE DEF ClientInv, local, breakers, provider
<1>1. MaxAttempts \in Nat /\ MaxAttempts >= 1
  BY ClientAssumption DEF ClientAssumption
<1>2. ASSUME NEW c \in Calls, CallerCancels(c) PROVE TypeOK'
  BY <1>2 DEF CallerCancels, TypeOK
<1>3. ASSUME NEW c \in Calls, ProviderAnswers(c) PROVE TypeOK'
  <2>1. bills[c] = 0
    BY <1>3 DEF ProviderAnswers, CallInv, Books, TypeOK
  <2>2. bills' \in [Calls -> 0..MaxAttempts]
    BY <1>1, <1>3, <2>1 DEF ProviderAnswers, TypeOK
  <2>3. QED
    BY <1>3, <2>2 DEF ProviderAnswers, TypeOK
<1>4. ASSUME NEW c \in Calls, LateAnswer(c) PROVE TypeOK'
  <2>1. pending[c] = 1 /\ bills[c] = 0
    BY <1>1, <1>4 DEF LateAnswer, CallInv, Books, TypeOK
  <2>2. bills' \in [Calls -> 0..MaxAttempts] /\ pending' \in [Calls -> 0..1]
    BY <1>1, <1>4, <2>1 DEF LateAnswer, TypeOK
  <2>3. QED
    BY <1>4, <2>2 DEF LateAnswer, TypeOK
<1>5. ASSUME NEW k \in Keys, KeyTime(k) PROVE TypeOK'
  <2>1. Elapse(kb[k]) \in BreakerType(Calls)
    BY ElapseBreaker DEF TypeOK, Probes
  <2>2. kb' \in [Keys -> BreakerType(Calls)]
    BY <1>5, <2>1 DEF KeyTime, TypeOK
  <2>3. QED
    BY <1>5, <2>2 DEF KeyTime, TypeOK
<1>6. ASSUME NEW k \in Keys, CooldownEnds(k) PROVE TypeOK'
  BY <1>6 DEF CooldownEnds, TypeOK
<1>7. CASE ProcessTime
  <2>1. Elapse(proc) \in BreakerType(Calls)
    BY ElapseBreaker DEF TypeOK, Probes
  <2>2. QED
    BY <1>7, <2>1 DEF ProcessTime, TypeOK
<1>8. QED
  BY <1>2, <1>3, <1>4, <1>5, <1>6, <1>7

-----------------------------------------------------------------------------
(* Every step keeps each call's books and its timer in order. *)

\* A try that ends with a class that may have been billed goes to "finish";
\* one that provably was not has clean books.
LEMMA CallEndTry ==
  ASSUME TypeOK, CallInv, NEW c \in Calls, NEW class \in DOMAIN Resolve,
         NEW from \in {"pick", "enter", "wire", "peek"},
         EndTry(c, from, class),
         class = "ok" => timer'[c] = "taken",
         \A d \in Calls \ {c} : timer'[d] = timer[d] /\ pending'[d] = pending[d],
         UNCHANGED <<result, prov, bills>>,
         pending'[c] \in 0..1, bills[c] + pending'[c] <= 1,
         Retryable(class) \/ Exposure(class) = "unbilled" =>
           bills[c] = 0 /\ pending'[c] = 0
  PROVE  CallInv'
<1> SUFFICES ASSUME NEW d \in Calls PROVE Books(d)' /\ Timing(d)'
  BY DEF CallInv
<1>1. Books(d) /\ Timing(d) /\ Books(c)
  BY DEF CallInv
<1>2. /\ pc[c] = from
      /\ \E to \in {"backoff", "finish"} :
           /\ pc' = [pc EXCEPT ![c] = to]
           /\ to = "backoff" => Retryable(class) /\ n[c] < MaxAttempts
      /\ last' = [last EXCEPT ![c] = class]
      /\ n' = n /\ key' = key
  BY EndTryStep
<1>3. result[c] = "none"
  BY <1>1, <1>2 DEF Books, TypeOK
<1>4. CASE d # c
  BY <1>1, <1>2, <1>4 DEF Books, Timing, Exposure, TypeOK
<1>5. CASE d = c
  <2>1. /\ pc'[c] \in {"backoff", "finish"}
        /\ pc'[c] = "backoff" => Retryable(class) /\ n[c] < MaxAttempts
        /\ last'[c] = class /\ result'[c] = "none" /\ bills'[c] = bills[c]
    BY <1>2, <1>3 DEF TypeOK
  <2>2. Books(c)'
    BY <2>1 DEF Books, Exposure, TypeOK
  <2>3. Timing(c)'
    BY <1>2, <2>1 DEF Timing
  <2>4. QED
    BY <1>5, <2>2, <2>3
<1>6. QED
  BY <1>4, <1>5

LEMMA CallStep ==
  ASSUME ClientInv, NEW c \in Calls,
         Step(c) \/ WireFails(c) \/ PeekByte(c) \/ PeekFails(c) \/ TimerFires(c)
  PROVE  CallInv'
<1> USE DEF ClientInv, local, breakers, provider
<1>0. Books(c) /\ Timing(c)
  BY DEF CallInv
<1>1. CASE Shed(c)
  BY <1>1 DEF Shed, Goes, TypeOK, CallInv, Books, Timing, Exposure
<1>2. CASE CheckBreaker(c)
  BY <1>2 DEF CheckBreaker, Goes, TypeOK, CallInv, Books, Timing, Exposure
<1>3. CASE Execute(c)
  BY <1>3 DEF Execute, Goes, TypeOK, CallInv, Books, Timing, Exposure
<1>4. CASE PickKey(c)
  BY <1>4 DEF PickKey, Goes, TypeOK, CallInv, Books, Timing, Exposure
<1>5. CASE AllKeysGated(c)
  <2>1. EndTry(c, "pick", "busy") /\ "busy" \in DOMAIN Resolve
    BY <1>5, ClassFacts DEF AllKeysGated
  <2>2. pc[c] = "pick" /\ bills[c] = 0 /\ pending[c] = 0
    BY <1>0, <2>1 DEF EndTry, Goes, Books
  <2>3. QED
    BY <1>5, <2>1, <2>2, CallEndTry DEF AllKeysGated
<1>6. CASE EnterKey(c)
  <2>1. CASE Admits(kb[key[c]])
    BY <1>6, <2>1 DEF EnterKey, Goes, TypeOK, CallInv, Books, Timing, Exposure
  <2>2. CASE ~Admits(kb[key[c]])
    <3>1. EndTry(c, "enter", "keyopen") /\ "keyopen" \in DOMAIN Resolve /\ Disarm(c)
      BY <1>6, <2>2, ClassFacts DEF EnterKey
    <3>2. pc[c] = "enter" /\ bills[c] = 0 /\ pending[c] = 0
      BY <1>0, <3>1 DEF EndTry, Goes, Books
    <3>3. \A d \in Calls \ {c} : timer'[d] = timer[d]
      BY <3>1, DisarmStep DEF TypeOK
    <3>4. QED
      BY <1>6, <2>2, <3>1, <3>2, <3>3, CallEndTry DEF EnterKey
  <2>3. QED
    BY <2>1, <2>2
<1>7. CASE Send(c)
  BY <1>7 DEF Send, TypeOK, CallInv, Books, Timing, Exposure
<1>8. CASE ReadRefusal(c)
  <2> DEFINE class == StatusClass[prov[c]]
  <2>1. pc[c] = "wire" /\ prov[c] \in Refusals /\ EndTry(c, "wire", class) /\ Disarm(c)
    BY <1>8 DEF ReadRefusal
  <2>2. /\ class \in DOMAIN Resolve /\ class # "ok"
        /\ prov[c] \in {"s500", "s504"} =>
             ~Retryable(class) /\ Exposure(class) = "possible"
    BY <2>1, StatusFacts
  <2>3. prov[c] # "s200"
    BY <2>1 DEF Refusals, StatusClass
  <2>4. /\ pending[c] = 0 /\ bills[c] + pending[c] <= 1
        /\ bills[c] = 0 \/ prov[c] \in {"s500", "s504"}
    BY <1>0, <2>1, <2>3, ClientAssumption DEF Books, TypeOK, ClientAssumption
  <2>5. \A d \in Calls \ {c} : timer'[d] = timer[d]
    BY <2>1, DisarmStep DEF TypeOK
  <2>6. UNCHANGED <<result, prov, bills, pending>>
    BY <1>8 DEF ReadRefusal
  <2>7. QED
    BY <2>1, <2>2, <2>4, <2>5, <2>6, CallEndTry
<1>9. CASE ReadHeaders(c)
  BY <1>9 DEF ReadHeaders, Goes, TypeOK, CallInv, Books, Timing, Exposure
<1>10. CASE WireCancelled(c) \/ WireFails(c)
  <2>1. PICK class \in {"timeout", "cancel", "upstream"} : EndTry(c, "wire", class)
    BY <1>10 DEF WireCancelled, WireFails, CancelClass
  <2>2. class \in DOMAIN Resolve /\ ~Retryable(class) /\ Exposure(class) = "possible"
    BY ClassFacts
  <2>3. Disarm(c) /\ GiveUp(c) /\ UNCHANGED result
    BY <1>10 DEF WireCancelled, WireFails
  <2>4. pc[c] = "wire"
    BY <2>1 DEF EndTry, Goes
  <2>5. /\ pending[c] = 0 /\ bills[c] \in 0..1
        /\ prov[c] = "inflight" => bills[c] = 0
    BY <1>0, <2>4, ClientAssumption DEF Books, TypeOK, ClientAssumption
  <2>6. /\ \A d \in Calls \ {c} : timer'[d] = timer[d] /\ pending'[d] = pending[d]
        /\ UNCHANGED <<prov, bills>>
        /\ pending'[c] = IF prov[c] = "inflight" THEN 1 ELSE 0
    BY <2>3, <2>5, DisarmStep DEF GiveUp, TypeOK
  <2>7. pending'[c] \in 0..1 /\ bills[c] + pending'[c] <= 1
    BY <2>5, <2>6
  <2>8. QED
    BY <2>1, <2>2, <2>3, <2>6, <2>7, CallEndTry
<1>11. CASE PeekCancelled(c) \/ PeekByte(c) \/ PeekFails(c)
  <2>1. PICK class \in {"timeout", "cancel", "upstream", "ok"} :
           /\ EndTry(c, "peek", class)
           /\ class = "ok" => timer[c] = "armed"
    BY <1>11 DEF PeekCancelled, PeekByte, PeekFails, CancelClass
  <2>2. class \in DOMAIN Resolve /\ ~Retryable(class) /\ Exposure(class) = "possible"
    BY ClassFacts
  <2>3. Disarm(c) /\ UNCHANGED <<result, prov, bills, pending>>
    BY <1>11 DEF PeekCancelled, PeekByte, PeekFails
  <2>4. pc[c] = "peek"
    BY <2>1 DEF EndTry, Goes
  <2>5. pending[c] = 0 /\ bills[c] + pending[c] <= 1
    BY <1>0, <2>4, ClientAssumption DEF Books, TypeOK, ClientAssumption
  <2>6. /\ \A d \in Calls \ {c} : timer'[d] = timer[d]
        /\ class = "ok" => timer'[c] = "taken"
    BY <2>1, <2>3, DisarmStep DEF TypeOK
  <2>7. QED
    BY <2>1, <2>2, <2>3, <2>5, <2>6, CallEndTry
<1>12. CASE Retry(c)
  BY <1>12 DEF Retry, Goes, TypeOK, CallInv, Books, Timing, Exposure
<1>13. CASE BackoffCancelled(c)
  BY <1>13 DEF BackoffCancelled, Goes, TypeOK, CallInv, Books, Timing, Exposure
<1>14. CASE Finish(c)
  <2>1. /\ pc[c] = "finish" /\ pc' = [pc EXCEPT ![c] = "done"]
        /\ result' = [result EXCEPT ![c] =
                        IF last[c] = "ok" THEN "stream" ELSE Exposure(last[c])]
        /\ UNCHANGED <<timer, pending, bills>>
    BY <1>14 DEF Finish, Goes
  <2>2. \A d \in Calls \ {c} : /\ n'[d] = n[d] /\ key'[d] = key[d]
                               /\ last'[d] = last[d] /\ prov'[d] = prov[d]
    BY <1>14 DEF Finish, Forget, TypeOK
  <2>3. ASSUME NEW d \in Calls \ {c} PROVE Books(d)' /\ Timing(d)'
    BY <2>1, <2>2 DEF CallInv, Books, Timing, Exposure, TypeOK
  <2>4. Exposure(last[c]) \in {"unbilled", "possible"}
    BY DEF TypeOK, Exposure, Resolve
  <2>5. /\ pc'[c] = "done"
        /\ result'[c] = IF last[c] = "ok" THEN "stream" ELSE Exposure(last[c])
    BY <2>1 DEF TypeOK
  <2>6. Books(c)'
    BY <1>0, <2>1, <2>4, <2>5 DEF Books
  <2>7. Timing(c)'
    BY <1>0, <2>1, <2>4, <2>5 DEF Timing
  <2>8. QED
    BY <2>3, <2>6, <2>7 DEF CallInv
<1>15. CASE TimerFires(c)
  BY <1>15 DEF TimerFires, MayFire, TypeOK, CallInv, Books, Timing, Exposure
<1>16. QED
  BY <1>1, <1>2, <1>3, <1>4, <1>5, <1>6, <1>7, <1>8, <1>9, <1>10, <1>11,
     <1>12, <1>13, <1>14, <1>15 DEF Step

LEMMA CallSurroundings ==
  ASSUME ClientInv,
         \/ \E c \in Calls : CallerCancels(c) \/ ProviderAnswers(c) \/ LateAnswer(c)
         \/ \E k \in Keys : KeyTime(k) \/ CooldownEnds(k)
         \/ ProcessTime
  PROVE  CallInv'
<1> USE DEF ClientInv, local, breakers, provider
<1>1. ASSUME NEW c \in Calls, CallerCancels(c) PROVE CallInv'
  BY <1>1 DEF CallerCancels, CallInv, Books, Timing, Exposure
<1>2. ASSUME NEW c \in Calls, ProviderAnswers(c) PROVE CallInv'
  <2>1. PICK s \in Refusals \cup {"s200"}, b \in 0..1 :
          /\ s \in Refusals \ {"s500", "s504"} => b = 0
          /\ prov' = [prov EXCEPT ![c] = s]
          /\ bills' = [bills EXCEPT ![c] = bills[c] + b]
    BY <1>2 DEF ProviderAnswers
  <2>2. /\ pc[c] = "wire" /\ prov[c] = "inflight"
        /\ UNCHANGED <<pc, n, key, last, timer, result, pending>>
    BY <1>2 DEF ProviderAnswers
  <2>3. bills[c] = 0 /\ pending[c] = 0 /\ result[c] = "none"
    BY <2>2, ClientAssumption DEF CallInv, Books, TypeOK, ClientAssumption
  <2>4. bills'[c] = b /\ prov'[c] = s /\ (b = 0 \/ s \in {"s200", "s500", "s504"})
    BY <2>1, <2>3 DEF TypeOK
  <2>5. Books(c)' /\ Timing(c)'
    BY <2>2, <2>3, <2>4 DEF CallInv, Books, Timing, Exposure
  <2>6. ASSUME NEW d \in Calls \ {c} PROVE Books(d)' /\ Timing(d)'
    BY <2>1, <2>2 DEF CallInv, Books, Timing, Exposure, TypeOK
  <2>7. QED
    BY <2>5, <2>6 DEF CallInv
<1>3. ASSUME NEW c \in Calls, LateAnswer(c) PROVE CallInv'
  <2>1. pending[c] = 1 /\ bills[c] = 0 /\ pc[c] \in {"finish", "done"}
    BY <1>3, ClientAssumption DEF LateAnswer, CallInv, Books, TypeOK, ClientAssumption
  <2>2. /\ pending'[c] = 0 /\ bills'[c] \in 0..1
        /\ \A d \in Calls \ {c} : pending'[d] = pending[d] /\ bills'[d] = bills[d]
    BY <1>3, <2>1 DEF LateAnswer, TypeOK
  <2>3. UNCHANGED <<pc, n, key, last, timer, result, prov>>
    BY <1>3 DEF LateAnswer
  <2>4. Books(c)' /\ Timing(c)'
    BY <2>1, <2>2, <2>3 DEF CallInv, Books, Timing, Exposure
  <2>5. ASSUME NEW d \in Calls \ {c} PROVE Books(d)' /\ Timing(d)'
    BY <2>2, <2>3 DEF CallInv, Books, Timing, Exposure
  <2>6. QED
    BY <2>4, <2>5 DEF CallInv
<1>4. CASE \/ \E k \in Keys : KeyTime(k) \/ CooldownEnds(k)
           \/ ProcessTime
  BY <1>4 DEF KeyTime, CooldownEnds, ProcessTime, CallInv, Books, Timing, Exposure
<1>5. QED
  BY <1>1, <1>2, <1>3, <1>4

-----------------------------------------------------------------------------
(* Every step keeps the breakers' members inside. *)

\* A call that moves between two places inside the process breaker, and not
\* onto or off the wire, leaves the breakers' members where they were.
LEMMA ProbesMove ==
  ASSUME ClientInv, NEW c \in Calls, NEW to \in Places,
         pc[c] # "wire",
         pc[c] \in {"start", "admit"} \/ to \notin {"start", "admit", "done"},
         pc' = [pc EXCEPT ![c] = to],
         \A d \in Calls \ {c} : key'[d] = key[d],
         UNCHANGED <<proc, kb>>
  PROVE  Probes'
  BY DEF ClientInv, TypeOK, Probes, Probed, Places, BreakerType

\* A try that ends on the wire has reported to its key's breaker.
LEMMA ProbesEndWire ==
  ASSUME ClientInv, NEW c \in Calls, NEW to \in Places \ {"start", "admit", "done"},
         pc[c] = "wire", pc' = [pc EXCEPT ![c] = to], UNCHANGED <<key, proc>>,
         \/ kb' = [kb EXCEPT ![key[c]] = Succeed(kb[key[c]], c)]
         \/ kb' = [kb EXCEPT ![key[c]] = Fail(kb[key[c]], c)]
  PROVE  Probes'
<1> USE DEF ClientInv
<1>1. key[c] \in Keys
  BY DEF CallInv, Timing
<1>2. /\ \A k \in Keys : /\ Probed(kb'[k])
                         /\ kb'[k].members \subseteq kb[k].members
      /\ c \notin kb'[key[c]].members
  BY <1>1, KeyReport
<1>3. \A d \in Calls : pc'[d] = IF d = c THEN to ELSE pc[d]
  BY DEF TypeOK
<1>4. proc.members \subseteq Calls /\ \A k \in Keys : kb[k].members \subseteq Calls
  BY DEF TypeOK, BreakerType
<1>5. Probed(proc') /\ \A d \in proc'.members : pc'[d] \notin {"start", "admit", "done"}
  BY <1>3, <1>4 DEF Probes
<1>6. ASSUME NEW k \in Keys, NEW d \in kb'[k].members
      PROVE  pc'[d] = "wire" /\ key'[d] = k
  <2>1. d \in kb[k].members /\ d \in Calls /\ pc[d] = "wire" /\ key[d] = k
    BY <1>2, <1>4 DEF Probes
  <2>2. d # c
    BY <1>2, <2>1
  <2>3. QED
    BY <1>3, <2>1, <2>2
<1>7. QED
  BY <1>2, <1>5, <1>6 DEF Probes

LEMMA ProbesStep ==
  ASSUME ClientInv, NEW c \in Calls,
         Step(c) \/ WireFails(c) \/ PeekByte(c) \/ PeekFails(c) \/ TimerFires(c)
  PROVE  Probes'
<1> USE DEF ClientInv, local, breakers, provider
<1>1. CASE Shed(c) \/ CheckBreaker(c)
  BY <1>1, ProbesMove DEF Shed, CheckBreaker, Goes, Places
<1>2. CASE Execute(c)
  <2>1. /\ Admit(proc, c).members = proc.members \cup {c}
        /\ Probed(Admit(proc, c))
    BY AdmitBreaker DEF TypeOK
  <2>2. /\ pc[c] = "admit" /\ proc' = Admit(proc, c) /\ UNCHANGED <<key, kb>>
        /\ \A d \in Calls : pc'[d] = IF d = c THEN "pick" ELSE pc[d]
    BY <1>2 DEF Execute, Goes, TypeOK
  <2>3. proc.members \subseteq Calls /\ \A k \in Keys : kb[k].members \subseteq Calls
    BY DEF TypeOK, BreakerType
  <2>4. QED
    BY <2>1, <2>2, <2>3 DEF Probes
<1>3. CASE PickKey(c)
  BY <1>3, ProbesMove DEF PickKey, Goes, Places, TypeOK
<1>4. CASE AllKeysGated(c)
  BY <1>4, ProbesMove, EndTryStep, ClassFacts DEF AllKeysGated, Places
<1>5. CASE EnterKey(c)
  <2>1. pc[c] = "enter" /\ key[c] \in Keys
    BY <1>5 DEF EnterKey, CallInv, Timing
  <2>2. CASE Admits(kb[key[c]])
    <3>1. /\ Admit(kb[key[c]], c).members = kb[key[c]].members \cup {c}
          /\ Probed(Admit(kb[key[c]], c))
      BY <2>1, AdmitBreaker DEF TypeOK
    <3>2. /\ kb' = [kb EXCEPT ![key[c]] = Admit(kb[key[c]], c)]
          /\ UNCHANGED <<key, proc>>
          /\ \A d \in Calls : pc'[d] = IF d = c THEN "wire" ELSE pc[d]
      BY <1>5, <2>2 DEF EnterKey, Goes, TypeOK
    <3>3. proc.members \subseteq Calls /\ \A k \in Keys : kb[k].members \subseteq Calls
      BY DEF TypeOK, BreakerType
    <3>4. \A k \in Keys : kb'[k] = IF k = key[c] THEN Admit(kb[key[c]], c) ELSE kb[k]
      BY <2>1, <3>2 DEF TypeOK
    <3>5. QED
      BY <2>1, <3>1, <3>2, <3>3, <3>4 DEF Probes
  <2>3. CASE ~Admits(kb[key[c]])
    BY <1>5, <2>1, <2>3, ProbesMove, EndTryStep, ClassFacts DEF EnterKey, Places
  <2>4. QED
    BY <2>2, <2>3
<1>6. CASE Send(c) \/ TimerFires(c)
  BY <1>6 DEF Send, TimerFires, Probes, Probed
<1>7. CASE ReadRefusal(c)
  <2>1. /\ pc[c] = "wire" /\ prov[c] \in Refusals /\ EndTry(c, "wire", StatusClass[prov[c]])
        /\ UNCHANGED proc
        /\ \/ kb' = [kb EXCEPT ![key[c]] = Succeed(kb[key[c]], c)]
           \/ kb' = [kb EXCEPT ![key[c]] = Fail(kb[key[c]], c)]
    BY <1>7 DEF ReadRefusal
  <2>2. StatusClass[prov[c]] \in DOMAIN Resolve
    BY <2>1, StatusFacts
  <2>3. PICK to \in {"backoff", "finish"} : pc' = [pc EXCEPT ![c] = to] /\ key' = key
    BY <2>1, <2>2, EndTryStep
  <2>4. QED
    BY <2>1, <2>3, ProbesEndWire DEF Places
<1>8. CASE ReadHeaders(c)
  BY <1>8, ProbesEndWire DEF ReadHeaders, Goes, Places
<1>9. CASE WireCancelled(c) \/ WireFails(c)
  <2>1. PICK class \in {"timeout", "cancel", "upstream"} : EndTry(c, "wire", class)
    BY <1>9 DEF WireCancelled, WireFails, CancelClass
  <2>2. PICK to \in {"backoff", "finish"} :
          pc[c] = "wire" /\ pc' = [pc EXCEPT ![c] = to] /\ key' = key
    BY <2>1, EndTryStep, ClassFacts
  <2>3. QED
    BY <1>9, <2>2, ProbesEndWire DEF WireCancelled, WireFails, Places
<1>10. CASE PeekCancelled(c) \/ PeekByte(c) \/ PeekFails(c)
  <2>1. PICK class \in {"timeout", "cancel", "upstream", "ok"} : EndTry(c, "peek", class)
    BY <1>10 DEF PeekCancelled, PeekByte, PeekFails, CancelClass
  <2>2. PICK to \in {"backoff", "finish"} :
          pc[c] = "peek" /\ pc' = [pc EXCEPT ![c] = to] /\ key' = key
    BY <2>1, EndTryStep, ClassFacts
  <2>3. QED
    BY <1>10, <2>2, ProbesMove DEF PeekCancelled, PeekByte, PeekFails, Places
<1>11. CASE Retry(c) \/ BackoffCancelled(c)
  BY <1>11, ProbesMove DEF Retry, BackoffCancelled, Goes, Places, TypeOK
<1>12. CASE Finish(c)
  <2>1. /\ pc[c] = "finish" /\ kb' = kb
        /\ proc' \in {Succeed(proc, c), Fail(proc, c)}
        /\ \A d \in Calls : /\ pc'[d] = IF d = c THEN "done" ELSE pc[d]
                            /\ d # c => key'[d] = key[d]
    BY <1>12 DEF Finish, Forget, Goes, TypeOK
  <2>2. proc'.members \subseteq proc.members \ {c} /\ Probed(proc')
    BY <2>1, SucceedBreaker, FailBreaker DEF TypeOK, Probes
  <2>3. proc.members \subseteq Calls /\ \A k \in Keys : kb[k].members \subseteq Calls
    BY DEF TypeOK, BreakerType
  <2>4. QED
    BY <2>1, <2>2, <2>3 DEF Probes
<1>13. QED
  BY <1>1, <1>2, <1>3, <1>4, <1>5, <1>6, <1>7, <1>8, <1>9, <1>10, <1>11, <1>12 DEF Step

LEMMA ProbesSurroundings ==
  ASSUME ClientInv,
         \/ \E c \in Calls : CallerCancels(c) \/ ProviderAnswers(c) \/ LateAnswer(c)
         \/ \E k \in Keys : KeyTime(k) \/ CooldownEnds(k)
         \/ ProcessTime
  PROVE  Probes'
<1> USE DEF ClientInv, local, breakers, provider
<1>1. CASE \/ \E c \in Calls : CallerCancels(c) \/ ProviderAnswers(c) \/ LateAnswer(c)
           \/ \E k \in Keys : CooldownEnds(k)
  BY <1>1 DEF CallerCancels, ProviderAnswers, LateAnswer, CooldownEnds, Probes, Probed
<1>2. ASSUME NEW k \in Keys, KeyTime(k) PROVE Probes'
  <2>1. Elapse(kb[k]).members \subseteq kb[k].members /\ Probed(Elapse(kb[k]))
    BY ElapseBreaker DEF TypeOK, Probes
  <2>2. \A j \in Keys : kb'[j] = IF j = k THEN Elapse(kb[k]) ELSE kb[j]
    BY <1>2 DEF KeyTime, TypeOK
  <2>3. UNCHANGED <<pc, key, proc>>
    BY <1>2 DEF KeyTime
  <2>4. QED
    BY <2>1, <2>2, <2>3 DEF Probes
<1>3. CASE ProcessTime
  <2>1. Elapse(proc).members \subseteq proc.members /\ Probed(Elapse(proc))
    BY ElapseBreaker DEF TypeOK, Probes
  <2>2. QED
    BY <1>3, <2>1 DEF ProcessTime, Probes
<1>4. QED
  BY <1>1, <1>2, <1>3

-----------------------------------------------------------------------------
(* The theorems. *)

LEMMA InvNext == ClientInv /\ [Next]_vars => ClientInv'
<1> SUFFICES ASSUME ClientInv, [Next]_vars PROVE ClientInv'
  OBVIOUS
<1>1. CASE UNCHANGED vars
  BY <1>1 DEF vars, local, breakers, provider, ClientInv, TypeOK, CallInv, Books,
              Timing, Exposure, Probes, Probed
<1>2. CASE \E c \in Calls :
             Step(c) \/ WireFails(c) \/ PeekByte(c) \/ PeekFails(c) \/ TimerFires(c)
  BY <1>2, TypeStep, CallStep, ProbesStep DEF ClientInv
<1>3. CASE \/ \E c \in Calls : CallerCancels(c) \/ ProviderAnswers(c) \/ LateAnswer(c)
           \/ \E k \in Keys : KeyTime(k) \/ CooldownEnds(k)
           \/ ProcessTime
  BY <1>3, TypeSurroundings, CallSurroundings, ProbesSurroundings DEF ClientInv
<1>4. QED
  BY <1>1, <1>2, <1>3 DEF Next

\* The invariant that carries the theorems below.
LEMMA Invariant == Spec => []ClientInv
  BY InvInit, InvNext, PTL DEF Spec

(***************************************************************************)
(* attempt's retries keep to retryPolicy and never buy twice, whatever the *)
(* provider answers late: every reachable state is typed, and the attempts *)
(* of a call, the unanswered one included, are billed at most once.        *)
(***************************************************************************)
THEOREM RetriesBuyOnce == Spec => []RetriesBounded
<1>1. ClientInv => AtMostOneBill
  <2> SUFFICES ASSUME ClientInv, NEW c \in Calls PROVE bills[c] + pending[c] <= 1
    BY DEF AtMostOneBill
  <2>1. Books(c) /\ bills[c] \in Nat /\ pc[c] \in Places
    BY ClientAssumption DEF ClientInv, CallInv, TypeOK, Places, ClientAssumption
  <2>2. QED
    BY <2>1 DEF Books, Places
<1>2. ClientInv => RetriesBounded
  BY <1>1 DEF ClientInv, RetriesBounded
<1>3. QED
  BY <1>2, Invariant, PTL

(***************************************************************************)
(* What DoCall reports as DefinitelyUnbilled never was and never will be   *)
(* billed.                                                                 *)
(***************************************************************************)
THEOREM UnbilledIsTrue == Spec => []UnbilledIsUnbilled
<1>1. ClientInv => UnbilledIsUnbilled
  BY DEF ClientInv, CallInv, Books, UnbilledIsUnbilled
<1>2. QED
  BY <1>1, Invariant, PTL

(***************************************************************************)
(* The first-byte timer never cancels a stream that was handed over.       *)
(***************************************************************************)
THEOREM StreamsRunOn == Spec => []StreamNotCut
<1>1. ClientInv => StreamNotCut
  BY DEF ClientInv, CallInv, Timing, StreamNotCut
<1>2. QED
  BY <1>1, Invariant, PTL

(***************************************************************************)
(* No breaker is left half-open with its probe slot taken and no probe.    *)
(***************************************************************************)
THEOREM ProbesReport == Spec => []ProbeInFlight
<1>1. ClientInv => ProbeInFlight
  BY DEF ClientInv, Probes, Probed, ProbeInFlight
<1>2. QED
  BY <1>1, Invariant, PTL
=============================================================================
