----------------------------- MODULE RpcAnswers -----------------------------
(***************************************************************************)
(* What the repository takes the body of a JSON-RPC answer for.  There are *)
(* three readers: parseJsonRpcEnvelope of the transport (packages/rpc/src/ *)
(* json-rpc-transport.ts), parseJsonRpcResult (json-rpc-response.ts) and   *)
(* the probe for missing methods (rpc-method-probe.ts).  The core client   *)
(* probes an endpoint before it builds restore transactions, and shares    *)
(* the check between its calls.                                            *)
(***************************************************************************)
EXTENDS Naturals, Sequences

CONSTANTS
  Endpoints,    \* URLs
  MethodCount,  \* RESTORE_REQUIRED_METHODS, which are probed in order
  Builders,     \* calls that build restore transactions
  MaxBuilds,    \* bound: calls begun
  MaxOutages    \* bound: changes of the endpoints

ASSUME AnswersAssumption ==
  /\ MethodCount \in Nat \ {0} /\ MaxBuilds \in Nat /\ MaxOutages \in Nat
  /\ Endpoints # {}

-----------------------------------------------------------------------------
(* The readers.  A body is text that is no JSON, a JSON value that is no   *)
(* object, null, or an object by its members; a member that is missing is  *)
(* Absent.                                                                 *)

Absent         == "absent"
MethodNotFound == "-32601"

\* error.code and error.message of an error object.
ErrorObjects == [code : {MethodNotFound, "integer", "fraction", Absent},
                 message : {"string", Absent}]
NoErrorObject == [code |-> Absent, message |-> Absent]

\* error is Absent, null, an object, or another value.
Objects == [json : {"object"}, jsonrpc : {"2.0", Absent},
            id : {"expected", "other", "null"}, result : {"value", Absent},
            error : {Absent, "null", "scalar"}, errorObject : {NoErrorObject}]
           \cup
           [json : {"object"}, jsonrpc : {"2.0", Absent},
            id : {"expected", "other", "null"}, result : {"value", Absent},
            error : {"object"}, errorObject : ErrorObjects]

NotAnObject(json) ==
  [json |-> json, jsonrpc |-> Absent, id |-> "other", result |-> Absent,
   error |-> Absent, errorObject |-> NoErrorObject]

Bodies == Objects \cup {NotAnObject(json) : json \in {"none", "null", "value"}}

HasResult(body) == body.result # Absent
HasError(body)  == body.error # Absent
Code(body)      == body.errorObject.code

\* What a reader makes of a body: its result, an RPC error with its code, or
\* the refusal to read it.
Verdict(kind, code) == [kind |-> kind, code |-> code]
Result   == Verdict("result", Absent)
Protocol == Verdict("malformed", Absent)

\* Mutation: a body with both members is read for its result.
EitherMember(body) ==
  /\ body.json = "object" /\ body.jsonrpc = "2.0"
  /\ HasResult(body) \/ HasError(body)
  /\ body.id = "expected" \/ (body.id = "null" /\ HasError(body))
\* The checks of the envelope before its members are looked at.
WellFormed(body) ==
  /\ body.json = "object" /\ body.jsonrpc = "2.0"
  /\ HasResult(body) # HasError(body)
  /\ body.id = "expected" \/ (body.id = "null" /\ HasError(body))

\* readJson and parseJsonRpcEnvelope.
parseJsonRpcEnvelope(body) ==
  IF ~WellFormed(body) THEN Protocol
  ELSE IF HasResult(body) THEN Result
  ELSE IF /\ body.error = "object"
          /\ Code(body) \in {MethodNotFound, "integer"}
          /\ body.errorObject.message = "string"
       THEN Verdict("error", Code(body)) ELSE Protocol

\* parseJsonRpcResponse and parseJsonRpcResult; jsonType is isJsonMediaType.
parseJsonRpcResult(body, jsonType) ==
  IF ~jsonType \/ body.json # "object" THEN Protocol
  ELSE IF body.error \notin {Absent, "null"} THEN Verdict("error", Code(body))
  ELSE IF HasResult(body) THEN Result ELSE Protocol

\* probeRpcMethods for one method: response.json() throws, and so does the
\* access to a member of null.
Probed(body) ==
  IF body.json \in {"none", "null"} THEN "throws"
  ELSE IF body.json = "object" /\ body.error = "object" /\ Code(body) = MethodNotFound
  THEN "missing" ELSE "available"

VARIABLE received   \* the body of the last answer that was read

ReadersInit == received = NotAnObject("null")

ReadersNext == \E body \in Bodies : received' = body

-----------------------------------------------------------------------------
(* ensureRestoreMethodsAvailable of packages/core/src/soroban-resurrect.ts. *)

VARIABLES
  offered,    \* the methods that each endpoint has
  primary,    \* primaryEndpointUrl
  probes,     \* the checks: endpoint, method to probe next, whether one is
              \* missing, the methods found there, state
  restoreMethodChecks,  \* the check kept for each endpoint, or NoProbe
  builds,     \* each call: its check, and how it came out
  begun, outages,
  begunAfter  \* history: the checks that had ended when a call began

probeVars == <<offered, primary, probes, restoreMethodChecks, builds, begun,
               outages, begunAfter>>

NoProbe == 0

Methods == 1..MethodCount

Probes == [url : Endpoints, next : 1..(MethodCount + 1), missing : BOOLEAN,
           available : SUBSET Methods, state : {"running", "passed", "failed"}]

ProbesTypeOK ==
  /\ offered \in [Endpoints -> SUBSET Methods]
  /\ primary \in Endpoints
  /\ probes \in Seq(Probes) /\ Len(probes) <= begun
  /\ restoreMethodChecks \in [Endpoints -> 0..MaxBuilds]
  /\ builds \in [Builders -> [check : 0..MaxBuilds, state : {"idle", "waiting", "built", "refused"}]]
  /\ begun \in 0..MaxBuilds /\ outages \in 0..MaxOutages
  /\ begunAfter \in [Builders -> SUBSET (1..MaxBuilds)]

Ended == {n \in DOMAIN probes : probes[n].state # "running"}

\* The call takes the check kept for its endpoint, or starts one.
EnsureRestoreMethodsAvailable(b) ==
  LET kept  == restoreMethodChecks[primary]
      check == IF kept = NoProbe THEN Len(probes) + 1 ELSE kept
  IN  /\ builds[b].state # "waiting" /\ begun < MaxBuilds
      /\ begun' = begun + 1
      /\ probes' = IF kept # NoProbe THEN probes ELSE
           Append(probes, [url |-> primary, next |-> 1, missing |-> FALSE,
                           available |-> {}, state |-> "running"])
      /\ restoreMethodChecks' = [restoreMethodChecks EXCEPT ![primary] = check]
      /\ builds' = [builds EXCEPT ![b] = [check |-> check, state |->
           IF check \notin Ended THEN "waiting"
           ELSE IF probes[check].state = "passed" THEN "built" ELSE "refused"]]
      /\ begunAfter' = [begunAfter EXCEPT ![b] = Ended]
      /\ UNCHANGED <<offered, primary, outages>>

\* Mutation: a check that failed stays in restoreMethodChecks.
KeepsFailed(n, state) == restoreMethodChecks
\* check.catch takes a check that failed, for whatever reason, out again.
ChecksAfter(n, state) ==
  IF state = "failed"
  THEN [restoreMethodChecks EXCEPT ![probes[n].url] = NoProbe]
  ELSE restoreMethodChecks

\* The check ends, and with it the wait of all calls that share it.
Settles(n, probe) ==
  /\ probes' = [probes EXCEPT ![n] = probe]
  /\ restoreMethodChecks' = ChecksAfter(n, probe.state)
  /\ builds' = [b \in Builders |->
       IF builds[b].state = "waiting" /\ builds[b].check = n /\ probe.state # "running"
       THEN [builds[b] EXCEPT !.state = IF probe.state = "passed" THEN "built" ELSE "refused"]
       ELSE builds[b]]

\* probeRestoreMethods has the answer for the next method, whatever its form.
ProbeAnswers(n) ==
  LET probe  == probes[n]
      method == probe.next
  IN  /\ probe.state = "running"
      /\ \E verdict \in {Probed(body) : body \in Bodies} :
           LET missing == probe.missing \/ verdict = "missing"
           IN  /\ verdict = "missing" <=> method \notin offered[probe.url]
               /\ Settles(n, [probe EXCEPT
                    !.next = method + 1, !.missing = missing,
                    !.available = IF verdict = "available" THEN @ \cup {method} ELSE @,
                    !.state = IF verdict = "throws" THEN "failed"
                              ELSE IF method < MethodCount THEN "running"
                              ELSE IF missing THEN "failed" ELSE "passed"])
      /\ UNCHANGED <<offered, primary, begun, outages, begunAfter>>

\* fetch throws, or the status is not ok.
ProbeLost(n) ==
  /\ probes[n].state = "running"
  /\ Settles(n, [probes[n] EXCEPT !.state = "failed"])
  /\ UNCHANGED <<offered, primary, begun, outages, begunAfter>>

\* The endpoints change, and so does their health.
EndpointChanges(u) ==
  /\ outages < MaxOutages /\ outages' = outages + 1
  /\ \/ \E m \in Methods :
          /\ offered' = [offered EXCEPT ![u] =
               IF m \in @ THEN @ \ {m} ELSE @ \cup {m}]
          /\ UNCHANGED primary
     \/ primary' = u /\ UNCHANGED offered
  /\ UNCHANGED <<probes, restoreMethodChecks, builds, begun, begunAfter>>

ProbesInit ==
  /\ offered = [u \in Endpoints |-> Methods]
  /\ primary = CHOOSE u \in Endpoints : TRUE
  /\ probes = <<>> /\ restoreMethodChecks = [u \in Endpoints |-> NoProbe]
  /\ builds = [b \in Builders |-> [check |-> NoProbe, state |-> "idle"]]
  /\ begun = 0 /\ outages = 0 /\ begunAfter = [b \in Builders |-> {}]

ProbesNext ==
  \/ \E b \in Builders : EnsureRestoreMethodsAvailable(b)
  \/ \E n \in DOMAIN probes : ProbeAnswers(n) \/ ProbeLost(n)
  \/ \E u \in Endpoints : EndpointChanges(u)

-----------------------------------------------------------------------------

\* The readers agree about every body: what the transport hands on as a
\* result is none but a result for the others, and what it reports as an RPC
\* error is that error for parseJsonRpcResult, and a missing method for the
\* probe exactly when its code says so.
ReadersAgree ==
  LET strict == parseJsonRpcEnvelope(received)
      lax    == parseJsonRpcResult(received, TRUE)
  IN  /\ strict = Result => lax = Result /\ Probed(received) = "available"
      /\ strict.kind = "error" =>
           /\ lax = strict
           /\ Probed(received) = (IF strict.code = MethodNotFound THEN "missing" ELSE "available")

\* Shared checks are neither wrong nor stale: what was built was checked, with
\* an answer for every method, and a call is refused by a check that was under
\* way while it waited, never by one that had failed before.
ChecksAreFresh ==
  \A b \in Builders :
    /\ builds[b].state = "built" => probes[builds[b].check].available = Methods
    /\ builds[b].state \in {"waiting", "refused"} => builds[b].check \notin begunAfter[b]
=============================================================================
