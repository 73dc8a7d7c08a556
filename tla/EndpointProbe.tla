--------------------------- MODULE EndpointProbe ---------------------------
(***************************************************************************)
(* One probe of one endpoint, request by request, and the two results it   *)
(* hands to the worker: liveness and chain ID (internal/checks).  The five *)
(* HTTP and WebSocket probes send one request.  The gRPC probe tries one   *)
(* or two transport modes, in each a canary query and, if the server       *)
(* refuses that by name, a fallback query.  All of it shares one deadline, *)
(* and what went wrong is classified from the lowest network layer upwards.*)
(*                                                                         *)
(* An error is reduced to the marks Classify looks for in it: a typed      *)
(* cause, a substring of its text, or the HTTP status it came with.        *)
(***************************************************************************)
EXTENDS Naturals, Sequences

HttpKind == {"rpc", "rest", "evm", "grpc_web", "wss"}
Kind == HttpKind \cup {"grpc"}

\* Address forms of chain.json: with the scheme of an HTTP endpoint's own
\* protocol ("url"), unusable, and the five forms of a gRPC address.
Form == {"url", "unusable", "https", "other scheme", "host:443", "host", "host:port"}

Net   == {"fine", "no such name", "broken resolver", "silent resolver", "closed port",
          "no local route"}

\* "refusal" is the service refusing a query, "page" a web server that knows
\* nothing of it.
Reply == {"answer", "undecodable", "refusal", "retired", "page", "429", "down", "silence"}

(***************************************************************************)
(* What is out there, unchanged for the seconds a probe takes.             *)
(*   net      what happens before anything answers                         *)
(*   speaks   the transport behind the port; "bad tls" has a certificate   *)
(*            no client accepts                                            *)
(*   hello    how a plaintext server reacts to a TLS handshake: it sends   *)
(*            something that is not TLS, or it hangs up                    *)
(*   canary, fallback   its replies to the two queries                     *)
(***************************************************************************)
World == [net : Net, speaks : {"tls", "bad tls", "plain"}, hello : {"not tls", "hangs up"},
          canary : Reply, fallback : Reply]

VARIABLES
  kind,     \* EndpointType of the job
  form,     \* form of the declared address
  world,    \* what is out there
  pc,       \* "parse", "canary", "fallback", "done"
  modes,    \* transport modes still to try, the one being tried first
  refused,  \* gRPC: the error of the refused canary
  kept,     \* the error the probe reports so far
  late,     \* history: the deadline has struck before an answer on its way
  liveness, \* the liveness result
  chainID   \* the chain-ID result

vars == <<kind, form, world, pc, modes, refused, kept, late, liveness, chainID>>

Mark == {"unsupported platform", "NXDOMAIN", "resolver error", "connection refused",
         "network unreachable", "certificate", "deadline", "HTTP 200", "HTTP 403", "HTTP 404",
         "HTTP 429", "HTTP 502", "decode", "malformed", "rpc error", "not a TLS handshake",
         "429", "web page"}

\* The gRPC status code, as far as the probe looks at it.
Code == {"none", "Unavailable", "DeadlineExceeded", "other"}

Error == [marks : SUBSET Mark, code : Code, net : BOOLEAN]
NoError == [marks |-> {}, code |-> "none", net |-> FALSE]

Class == {"", "not_served_by_provider", "dns_nxdomain", "dns_failure", "conn_refused",
          "vantage_no_route", "tls", "timeout", "http_other", "http_403", "http_404", "http_429",
          "gateway_no_backend", "bad_json", "malformed_registry_address", "grpc", "other"}

Result == [answer : {"none", "pass", "fail", "skip"}, class : Class, unreachable : BOOLEAN,
           restricted : BOOLEAN]
NoResult == [answer |-> "none", class |-> "", unreachable |-> FALSE, restricted |-> FALSE]

TypeOK ==
  /\ kind \in Kind
  /\ form \in Form
  /\ world \in World
  /\ pc \in {"parse", "canary", "fallback", "done"}
  /\ modes \in {<<>>, <<"tls">>, <<"plain">>, <<"tls", "plain">>}
  /\ refused \in Error
  /\ kept \in Error
  /\ late \in BOOLEAN
  /\ liveness \in Result
  /\ chainID \in {"none", "pass", "fail", "skip"}

\* An HTTP endpoint is reached in its own protocol and asked once; who dropped
\* a chain answers no query for it.
Init ==
  /\ kind \in Kind
  /\ form \in IF kind = "grpc" THEN Form \ {"url"} ELSE {"url", "unusable"}
  /\ world \in World
  /\ kind # "grpc" => world.speaks # "plain" /\ world.fallback = world.canary
  /\ world.canary = "retired" => world.fallback = "retired"
  /\ pc = "parse"
  /\ modes = <<>>
  /\ refused = NoError
  /\ kept = NoError
  /\ late = FALSE
  /\ liveness = NoResult
  /\ chainID = "none"

-----------------------------------------------------------------------------
(* Classification.  An operator named Mutant... is a slip the code could    *)
(* contain, in the place of the definition that follows it.                 *)

MutantGrpcFirst == <<
  "unsupported platform", "rpc error", "NXDOMAIN", "resolver error", "connection refused",
  "network unreachable", "certificate", "deadline", "HTTP 200", "HTTP 403", "HTTP 404",
  "HTTP 429", "HTTP 502", "decode", "malformed">>

MutantDecodeFirst == <<
  "unsupported platform", "NXDOMAIN", "resolver error", "connection refused",
  "network unreachable", "certificate", "decode", "deadline", "HTTP 200", "HTTP 403",
  "HTTP 404", "HTTP 429", "HTTP 502", "malformed", "rpc error">>

\* The order in which Classify looks for the marks.
Layers == <<
  "unsupported platform", "NXDOMAIN", "resolver error", "connection refused",
  "network unreachable", "certificate", "deadline", "HTTP 200", "HTTP 403", "HTTP 404",
  "HTTP 429", "HTTP 502", "decode", "malformed", "rpc error">>

\* What classifyHTTPStatus makes of a status.
StatusClass(m) ==
  CASE m = "HTTP 403" -> "http_403"
    [] m = "HTTP 404" -> "http_404"
    [] m = "HTTP 429" -> "http_429"
    [] m = "HTTP 502" -> "gateway_no_backend"
    [] m = "HTTP 200" -> "http_other"

ClassOf(m) ==
  CASE m = "unsupported platform" -> "not_served_by_provider"
    [] m = "NXDOMAIN" -> "dns_nxdomain"
    [] m = "resolver error" -> "dns_failure"
    [] m = "connection refused" -> "conn_refused"
    [] m = "network unreachable" -> "vantage_no_route"
    [] m = "certificate" -> "tls"
    [] m = "deadline" -> "timeout"
    [] m = "decode" -> "bad_json"
    [] m = "malformed" -> "malformed_registry_address"
    [] m = "rpc error" -> "grpc"
    [] OTHER -> StatusClass(m)

\* The class of the first layer that left a mark.
Classify(marks) ==
  LET at == {i \in DOMAIN Layers : Layers[i] \in marks /\ \A j \in 1..(i - 1) : Layers[j] \notin marks}
  IN  IF at = {} THEN "other" ELSE ClassOf(Layers[CHOOSE i \in at : TRUE])

\* The classes the report counts whatever one thinks of the prober.
Structural == {"not_served_by_provider", "dns_nxdomain", "conn_refused", "tls", "http_404",
               "gateway_no_backend", "bad_json", "malformed_registry_address"}

MutantThrottledStatusOnly(e) == "HTTP 429" \in e.marks

\* The RateLimited field: an HTTP status 429, or one in a gRPC status message.
RateLimited(e) == e.marks \cap {"HTTP 429", "429"} # {}

\* applyLiveness, for a probe that reports an error.
Failure(e) ==
  [answer      |-> IF RateLimited(e) THEN "skip" ELSE "fail",
   class       |-> IF RateLimited(e) THEN "http_429" ELSE Classify(e.marks),
   unreachable |-> ~RateLimited(e) /\ e.net,
   restricted  |-> FALSE]

\* applyLiveness, for a probe that reports none.
Success(canaryBlocked) ==
  [answer |-> "pass", class |-> "", unreachable |-> FALSE, restricted |-> canaryBlocked]

-----------------------------------------------------------------------------
(* What a request comes back with, before the deadline: a set with an error *)
(* or NoError, or an empty set if the deadline has to end the wait.         *)

\* A transport error: client.Do and DialContext return it as it is, grpc-go
\* wraps its text in a status.
Transport(mark) ==
  IF kind = "grpc"
  THEN [marks |-> {mark, "rpc error"}, code |-> "Unavailable", net |-> FALSE]
  ELSE [marks |-> {mark}, code |-> "none", net |-> TRUE]

Status(marks) == [marks |-> marks, code |-> "none", net |-> FALSE]

Rpc(marks, code) == [marks |-> marks \cup {"rpc error"}, code |-> code, net |-> FALSE]

\* An HTTP response.  Its status goes along with the error, also when the
\* body cannot be decoded.
HttpReply(reply) ==
  CASE reply = "answer" -> {NoError}
    [] reply = "undecodable" ->
         {Status(IF kind = "wss" THEN {"HTTP 200"} ELSE {"HTTP 200", "decode"})}
    [] reply = "refusal" -> {Status({"HTTP 403"})}
    [] reply = "retired" -> {Status({"HTTP 403", "unsupported platform"})}
    [] reply = "page" -> {Status({"HTTP 404"})}
    [] reply = "429" -> {Status({"HTTP 429"})}
    [] reply = "down" -> {Status({"HTTP 502"})}
    [] reply = "silence" -> {}

GrpcReply(reply) ==
  CASE reply = "answer" -> {NoError}
    [] reply = "undecodable" -> {Status({"decode"})}
    [] reply = "refusal" -> {Rpc({}, "other")}
    [] reply = "retired" -> {Rpc({"unsupported platform"}, "other")}
    [] reply = "page" -> {Rpc({"web page"}, "other")}
    [] reply = "429" -> {Rpc({"429"}, "Unavailable")}
    [] reply = "down" -> {Rpc({}, "Unavailable")}
    [] reply = "silence" -> {}

Reached(reply) ==
  IF kind # "grpc"
  THEN IF world.speaks = "bad tls" THEN {Transport("certificate")} ELSE HttpReply(reply)
  ELSE CASE Head(modes) = world.speaks -> GrpcReply(reply)
         [] Head(modes) = "tls" /\ world.speaks = "bad tls" -> {Transport("certificate")}
         [] Head(modes) = "tls" /\ world.speaks = "plain" ->
              {Rpc(IF world.hello = "not tls" THEN {"not a TLS handshake"} ELSE {}, "Unavailable")}
         [] Head(modes) = "plain" /\ world.speaks \in {"tls", "bad tls"} -> {}

Outcome(reply) ==
  CASE world.net = "no such name" -> {Transport("NXDOMAIN")}
    [] world.net = "broken resolver" -> {Transport("resolver error")}
    [] world.net = "closed port" -> {Transport("connection refused")}
    [] world.net = "no local route" -> {Transport("network unreachable")}
    [] world.net = "silent resolver" -> {}
    [] world.net = "fine" -> Reached(reply)

\* The deadline strikes, in the middle of a body perhaps.
Expired ==
  IF kind = "grpc"
  THEN {[marks |-> {"deadline", "rpc error"}, code |-> "DeadlineExceeded", net |-> FALSE]}
  ELSE IF world.net = "silent resolver"
  THEN {[marks |-> {"resolver error", "deadline"}, code |-> "none", net |-> TRUE]}
  ELSE {[marks |-> {"deadline"}, code |-> "none", net |-> TRUE]} \cup
       (IF world.net = "fine" THEN {Status({"deadline", "HTTP 200", "decode"})} ELSE {})

-----------------------------------------------------------------------------

MutantPlainOnly(f) ==
  CASE f \in {"https", "host:443", "host", "url"} -> <<"tls">>
    [] f \in {"other scheme", "host:port"} -> <<"plain">>

MutantPlainFirst(f) ==
  CASE f \in {"https", "host:443", "host", "url"} -> <<"tls">>
    [] f = "other scheme" -> <<"plain">>
    [] f = "host:port" -> <<"plain", "tls">>

\* ParseGRPCTarget; an HTTP URL has the one mode it states.
Modes(f) ==
  CASE f \in {"https", "host:443", "host", "url"} -> <<"tls">>
    [] f = "other scheme" -> <<"plain">>
    [] f = "host:port" -> <<"tls", "plain">>

\* An address nothing can be made of.  net/http rejects a bad host before the
\* request and a missing scheme in client.Do; for a missing scheme the WebSocket
\* dialer has a text of its own, which Classify does not know.
Unparsed ==
  CASE kind = "grpc" -> {Status({"malformed"})}
    [] kind = "wss" -> {Transport("malformed"), [marks |-> {}, code |-> "none", net |-> TRUE]}
    [] OTHER -> {Status({"malformed"}), Transport("malformed")}

MutantChainIDUnasked(result) == result.answer # "pass"

\* The chain-ID checks skip a probe that failed, and one that could only
\* confirm liveness by the fallback query.
ChainIDSkipped(result) == result.answer # "pass" \/ result.restricted

\* The probe is over: the two Evaluate functions.
Judge(result) ==
  /\ pc' = "done"
  /\ liveness' = result
  /\ chainID' \in IF ChainIDSkipped(result) THEN {"skip"}
                  ELSE {"pass", "fail"} \cup (IF kind = "evm" THEN {"skip"} ELSE {})

\* grpcAppLevelRefusal: a status from a working channel, and not what an HTTP
\* gateway made of a web page.
RefusedByName(e) == e.code = "other" /\ "web page" \notin e.marks

\* The loop of ProbeGRPCEndpoint after a mode that failed with e: keep the
\* first error, unless it only describes our dialing, and go on to the next
\* mode after a transport failure.
NextMode(e) ==
  LET k == IF kept = NoError \/ "not a TLS handshake" \in kept.marks THEN e ELSE kept
      n == k.code \in {"Unavailable", "DeadlineExceeded"}
  IN  /\ kept' = [k EXCEPT !.net = n]
      /\ IF e.code = "Unavailable" /\ Len(modes) > 1
         THEN modes' = Tail(modes) /\ pc' = "canary" /\ UNCHANGED <<liveness, chainID>>
         ELSE modes' = modes /\ Judge(Failure(kept'))

\* A request has come back.
Handle(e) ==
  \/ /\ e = NoError
     /\ Judge(Success(pc = "fallback"))
     /\ UNCHANGED <<modes, refused, kept>>
  \/ /\ e # NoError /\ kind # "grpc"
     /\ kept' = e
     /\ Judge(Failure(e))
     /\ UNCHANGED <<modes, refused>>
  \/ /\ e # NoError /\ kind = "grpc" /\ pc = "canary" /\ RefusedByName(e)
     /\ refused' = e
     /\ pc' = "fallback"
     /\ UNCHANGED <<modes, kept, liveness, chainID>>
  \/ /\ e # NoError /\ kind = "grpc" /\ pc = "canary" /\ ~RefusedByName(e)
     /\ NextMode(e)
     /\ UNCHANGED refused
  \/ /\ e # NoError /\ kind = "grpc" /\ pc = "fallback"
     /\ NextMode(refused)
     /\ UNCHANGED refused

\* An address that cannot be parsed fails the probe without a request.
Parse ==
  /\ pc = "parse"
  /\ IF form = "unusable"
     THEN /\ kept' \in Unparsed
          /\ Judge(Failure(kept'))
          /\ UNCHANGED modes
     ELSE /\ modes' = Modes(form)
          /\ pc' = "canary"
          /\ UNCHANGED <<kept, liveness, chainID>>
  /\ UNCHANGED <<kind, form, world, refused, late>>

Asked == IF pc = "canary" THEN world.canary ELSE world.fallback

Request ==
  /\ pc \in {"canary", "fallback"}
  /\ \E e \in Outcome(Asked) : Handle(e)
  /\ UNCHANGED <<kind, form, world, late>>

MutantNoReadDeadline ==
  /\ pc \in {"canary", "fallback"}
  /\ kind # "wss"
  /\ \E e \in Expired : Handle(e)
  /\ late' = (late \/ Outcome(Asked) # {})
  /\ UNCHANGED <<kind, form, world>>

Deadline ==
  /\ pc \in {"canary", "fallback"}
  /\ \E e \in Expired : Handle(e)
  /\ late' = (late \/ Outcome(Asked) # {})
  /\ UNCHANGED <<kind, form, world>>

\* The results go to the worker.
Done == pc = "done" /\ UNCHANGED vars

Next == Parse \/ Request \/ Deadline \/ Done

\* Time passes, and the prober acts on what comes back.
Spec == Init /\ [][Next]_vars /\ WF_vars(Next)

-----------------------------------------------------------------------------
(* Properties.                                                              *)

Failed == pc = "done" /\ liveness.answer = "fail"

\* Who is behind the address in a transport the address does not rule out, and
\* answers one of the queries.
Spoken ==
  /\ world.net = "fine"
  /\ CASE form = "unusable" -> FALSE
       [] form = "host:port" -> world.speaks # "bad tls"
       [] form = "other scheme" -> world.speaks = "plain"
       [] OTHER -> world.speaks = "tls"
Serves ==
  /\ Spoken
  /\ \/ world.canary = "answer"
     \/ kind = "grpc" /\ world.canary = "refusal" /\ world.fallback = "answer"

\* Alive is alive and dead is dead: only an endpoint that serves passes, and,
\* unless it is slow, every one does, whatever transport it hides behind a
\* nonstandard port and whichever query its gateway blocks.
VerdictIsTrue ==
  pc = "done" =>
    /\ liveness.answer = "pass" => Serves
    /\ Serves /\ ~late => liveness.answer = "pass"

\* classify.go: a structural class "cannot be explained by the prober being
\* throttled, blocked, or impatient": not by a deadline that struck, a 429, or
\* a resolver or routing table of its own.
StructuralIsTrue ==
  Failed /\ liveness.class \in Structural =>
    /\ ~Serves
    /\ form # "unusable" => world.net \in {"fine", "no such name", "closed port"}
    /\ Spoken => world.canary \notin {"429", "silence"}

\* What chain-death detection reads off the classes: in every protocol a broken
\* resolver or a missing route is blamed on the prober, and nothing else is.
VantageBlamed ==
  Failed =>
    /\ liveness.class \in {"dns_failure", "vantage_no_route"} =>
         world.net \in {"broken resolver", "silent resolver", "no local route"}
    /\ form # "unusable" /\ ~late /\ world.net \in {"broken resolver", "no local route"} =>
         liveness.class \in {"dns_failure", "vantage_no_route"}

\* A 429 to the first query never counts as a failure, in whatever protocol;
\* of two gRPC modes, as long as the plaintext server did not hang up on the
\* TLS handshake, whose error the probe then keeps.
ThrottledIsSkipped ==
  pc = "done" /\ ~late /\ Spoken /\ world.canary = "429" =>
    \/ liveness.answer = "skip"
    \/ form = "host:port" /\ world.speaks = "plain" /\ world.hello = "hangs up"

\* The chain ID is compared only when the endpoint is alive and has named its
\* network.
ChainIDIsKnown ==
  pc = "done" /\ chainID # "skip" => liveness.answer = "pass" /\ world.canary = "answer"

\* Every probe answers: the deadline covers every wait.
Answers == <>(pc = "done")
=============================================================================
