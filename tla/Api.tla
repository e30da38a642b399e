-------------------------------- MODULE Api ---------------------------------
(***************************************************************************)
(* The operator console's fetch boundary (webassets/ui/src/lib/api.ts).    *)
(* A call is what the browser is waiting for and, separately, what the     *)
(* gateway is doing: a connection may break on either side of the          *)
(* handler's effect, and answers arrive in any order.  fetch has no        *)
(* timeout and api.ts never retries.  Messages and banners are left out.   *)
(***************************************************************************)
EXTENDS Integers, Sequences, FiniteSets

CONSTANTS
  MaxCalls,  \* bound: calls the modules above keep, at once or in all
  None

ASSUME ApiAssumption == MaxCalls \in Nat \ {0}

VARIABLE calls   \* slot -> the call, or NoCall once nobody is concerned with it

Slots == 1..MaxCalls

\* What travels back.  Status 0 stands for a fetch that rejects, 502 for any
\* 5xx of the proxy in front that lost the gateway; body None is one that
\* cannot be read or parsed: an answer that breaks off, or the proxy's login
\* page.  The gateway's handlers never answer 204 or with an empty body.
Lost == [status |-> 0, code |-> "NETWORK_ERROR"]
BadGateway == [status |-> 502, code |-> "ERROR"]
Severed == {Lost, BadGateway}
Cut == [status |-> 200, body |-> None]
Unauthorized == [status |-> 401, code |-> "ERROR"]
Reply(b) == [status |-> 200, body |-> b]
Envelope(s, c) == [status |-> s, code |-> c]

\* What the awaiting page sees of it.
Ok(b) == [kind |-> "ok", body |-> b]
ApiError(s, c) == [kind |-> "api", status |-> s, code |-> c]
Thrown == [kind |-> "thrown"]

\* request: a rejected fetch and a status outside 200..299 become an ApiError;
\* a body that cannot be read or parsed is thrown as it is.
request(wire) ==
  CASE wire.status = 200 /\ wire.body # None -> Ok(wire.body)
    [] wire.status = 200 /\ wire.body = None -> Thrown
    [] OTHER -> ApiError(wire.status, wire.code)

\* The gateway, or the proxy's sign-in, has said that nothing happened.
Definite(res) == res.kind = "api" /\ res.status \notin {0, 502}

Reads == {"overview", "installs", "audit", "config"}

Call(op, arg, then) ==
  [op |-> op, arg |-> arg, then |-> then,
   srv |-> "queued", cli |-> "waiting", wire |-> None]

NoCall ==
  [op |-> "none", arg |-> None, then |-> None,
   srv |-> "none", cli |-> "none", wire |-> None]

NoCalls == [n \in Slots |-> NoCall]

InFlight == {n \in Slots : calls[n].op # "none"}
Waiting(op) == {n \in InFlight : calls[n].op = op /\ calls[n].cli = "waiting"}
Pending(op, phase) == {n \in InFlight : calls[n].op = op /\ calls[n].srv = phase}

\* What the browser may see of a call now.  Only a request that has not
\* reached the gateway can be turned away by the proxy; either connection may
\* break at any time, the gateway's work done or not.
Wires(c) ==
  Severed
  \cup (IF c.srv = "done" THEN {c.wire, Cut} ELSE {})
  \cup (IF c.srv = "queued" THEN {Unauthorized, Cut} ELSE {})

\* The browser is done with call n.  The gateway is not, when the connection
\* broke before a state-changing handler returned.
Settled(n, wire) ==
  [calls EXCEPT ![n] =
     IF /\ wire \in Severed
        /\ @.srv \notin {"done", "dead"}
        /\ @.op \notin Reads
     THEN [@ EXCEPT !.cli = "gone"]
     ELSE NoCall]

\* The gateway answers call n.
Done(c, wire) == [c EXCEPT !.srv = "done", !.wire = wire]

Answered(n, wire) ==
  [calls EXCEPT ![n] = IF @.cli = "gone" THEN NoCall ELSE Done(@, wire)]
=============================================================================
