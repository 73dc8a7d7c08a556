------------------------ MODULE EndpointProbeProofs ------------------------
(***************************************************************************)
(* Proofs about EndpointProbe.  TLC visits all of its states, for it has   *)
(* no constants; what the proofs add is why the verdicts and classes are   *)
(* right, request by request and layer by layer.                           *)
(*                                                                         *)
(* An error is judged when it comes back (Honest): by then it is known     *)
(* what the world did to cause it.  What the probe keeps between requests  *)
(* is honest, the transport modes that are left still contain the one that *)
(* is spoken (OnTheWay), and an error that is kept from an earlier mode    *)
(* hides no later answer that counts (Throttled, Blamed).                  *)
(***************************************************************************)
EXTENDS EndpointProbe, TLAPS

-----------------------------------------------------------------------------
(* The inductive invariant.                                                 *)

Limited(marks) == marks \cap {"HTTP 429", "429"} # {}

Vantage == {"dns_failure", "vantage_no_route"}

\* A class that blames the endpoint, or the prober, does so rightly.
Honest(marks) ==
  ~Limited(marks) =>
    /\ Classify(marks) \in Structural =>
         /\ ~Serves
         /\ form # "unusable" => world.net \in {"fine", "no such name", "closed port"}
         /\ Spoken => world.canary \notin {"429", "silence"}
    /\ Classify(marks) \in Vantage =>
         world.net \in {"broken resolver", "silent resolver", "no local route"}

\* What Init says of kinds, forms and worlds stays so.
WorldInv ==
  /\ form \in IF kind = "grpc" THEN Form \ {"url"} ELSE {"url", "unusable"}
  /\ kind # "grpc" => world.speaks # "plain" /\ world.fallback = world.canary
  /\ world.canary = "retired" => world.fallback = "retired"

Asking == pc \in {"canary", "fallback"}

\* The first mode is tried with nothing kept, a second one after an error; the
\* fallback is asked where the canary was refused.
ModesInv ==
  /\ pc = "parse" => kept = NoError
  /\ Asking =>
       /\ form # "unusable"
       /\ \/ modes = Modes(form) /\ kept = NoError
          \/ kind = "grpc" /\ form = "host:port" /\ modes = <<"plain">> /\ kept.marks # {}
  /\ pc = "fallback" =>
       /\ kind = "grpc" /\ world.net = "fine" /\ Head(modes) = world.speaks
       /\ world.canary \in {"refusal", "retired"} /\ refused \in GrpcReply(world.canary)

TypeInv == TypeOK /\ WorldInv /\ ModesInv

-----------------------------------------------------------------------------
(* What can become of a request that came back with e: Handle, told apart   *)
(* by where the probe goes.                                                 *)

\* The error the probe keeps: the first one, unless it only describes our
\* dialing; a mode whose fallback fails has failed with the refused canary.
Reported(e) ==
  IF kept = NoError \/ "not a TLS handshake" \in kept.marks
  THEN IF pc = "fallback" THEN refused ELSE e
  ELSE kept

Passes(e) ==
  /\ e = NoError
  /\ Judge(Success(pc = "fallback"))
  /\ UNCHANGED <<modes, refused, kept>>

FallsBack(e) ==
  /\ e # NoError /\ kind = "grpc" /\ pc = "canary" /\ RefusedByName(e)
  /\ refused' = e
  /\ pc' = "fallback"
  /\ UNCHANGED <<modes, kept, liveness, chainID>>

GoesOn(e) ==
  /\ e # NoError /\ kind = "grpc" /\ pc = "canary" /\ ~RefusedByName(e)
  /\ modes = <<"tls", "plain">> /\ e.code = "Unavailable"
  /\ modes' = <<"plain">>
  /\ pc' = "canary"
  /\ kept' \in Error /\ kept'.marks = Reported(e).marks
  /\ UNCHANGED <<refused, liveness, chainID>>

Fails(e) ==
  /\ e # NoError
  /\ kind = "grpc" /\ pc = "canary" =>
       ~RefusedByName(e) /\ ~(modes = <<"tls", "plain">> /\ e.code = "Unavailable")
  /\ kept' \in Error /\ kept'.marks = Reported(e).marks
  /\ liveness' = Failure(kept')
  /\ pc' = "done"
  /\ chainID' = "skip"
  /\ UNCHANGED <<modes, refused>>

-----------------------------------------------------------------------------
(* The inductive invariant of the properties.                               *)

KeptHonest == Asking => kept = NoError \/ Honest(kept.marks)

\* Unless the deadline struck, an endpoint that serves is still to be asked in
\* the transport it speaks.
OnTheWay ==
  Asking /\ Serves /\ ~late =>
    Head(modes) = world.speaks \/ modes = <<"tls", "plain">>

\* A vantage error stays in force over the second mode.
Blamed ==
  Asking /\ ~late /\ world.net \in {"broken resolver", "no local route"} =>
    kept = NoError \/ (~Limited(kept.marks) /\ Classify(kept.marks) \in Vantage
                       /\ "not a TLS handshake" \notin kept.marks)

\* A 429 is still to come, or kept.
Throttled ==
  /\ Asking /\ ~late /\ Spoken /\ world.canary = "429"
  /\ ~(form = "host:port" /\ world.speaks = "plain" /\ world.hello = "hangs up")
  =>
    \/ kept = NoError /\ (Head(modes) = world.speaks \/ world.speaks = "plain")
    \/ world.speaks = "tls" /\ Limited(kept.marks) /\ "not a TLS handshake" \notin kept.marks
    \/ world.speaks = "plain" /\ "not a TLS handshake" \in kept.marks

ProbeInv ==
  /\ KeptHonest /\ OnTheWay /\ Blamed /\ Throttled
  /\ VerdictIsTrue /\ StructuralIsTrue /\ VantageBlamed /\ ThrottledIsSkipped /\ ChainIDIsKnown

-----------------------------------------------------------------------------
(* Classify.                                                                *)

LEMMA LayerCount == DOMAIN Layers = 1..15
BY DEF Layers

\* The first layer that left a mark gives the class.
LEMMA FirstMark ==
  ASSUME NEW marks, NEW i \in 1..15, Layers[i] \in marks,
         \A j \in 1..(i - 1) : Layers[j] \notin marks
  PROVE  Classify(marks) = ClassOf(Layers[i])
<1> DEFINE at == {n \in DOMAIN Layers : Layers[n] \in marks /\ \A j \in 1..(n - 1) : Layers[j] \notin marks}
<1>2. i \in at
  BY LayerCount
<1>3. ASSUME NEW n \in at PROVE n = i
  <2>1. n \in 1..15 /\ Layers[n] \in marks /\ \A j \in 1..(n - 1) : Layers[j] \notin marks
    BY LayerCount
  <2>2. ~(n < i)
    <3> SUFFICES ASSUME n < i PROVE FALSE
      OBVIOUS
    <3>1. n \in 1..(i - 1)
      BY <2>1
    <3> QED BY <2>1, <3>1
  <2>3. ~(i < n)
    <3> SUFFICES ASSUME i < n PROVE FALSE
      OBVIOUS
    <3>1. i \in 1..(n - 1)
      BY <2>1
    <3> QED BY <2>1, <3>1
  <2> QED BY <2>1, <2>2, <2>3
<1>4. Classify(marks) = IF at = {} THEN "other" ELSE ClassOf(Layers[CHOOSE n \in at : TRUE])
  BY DEF Classify
<1> HIDE DEF at
<1>5. (CHOOSE n \in at : TRUE) = i
  BY <1>2, <1>3
<1> QED BY <1>2, <1>4, <1>5

LEMMA LayerAt ==
  /\ Layers[1] = "unsupported platform" /\ Layers[2] = "NXDOMAIN" /\ Layers[3] = "resolver error"
  /\ Layers[4] = "connection refused" /\ Layers[5] = "network unreachable"
  /\ Layers[6] = "certificate" /\ Layers[7] = "deadline" /\ Layers[8] = "HTTP 200"
  /\ Layers[9] = "HTTP 403" /\ Layers[10] = "HTTP 404" /\ Layers[11] = "HTTP 429"
  /\ Layers[12] = "HTTP 502" /\ Layers[13] = "decode" /\ Layers[14] = "malformed"
  /\ Layers[15] = "rpc error"
BY DEF Layers

LEMMA ClassAt ==
  /\ ClassOf("unsupported platform") = "not_served_by_provider"
  /\ ClassOf("NXDOMAIN") = "dns_nxdomain" /\ ClassOf("resolver error") = "dns_failure"
  /\ ClassOf("connection refused") = "conn_refused" /\ ClassOf("network unreachable") = "vantage_no_route"
  /\ ClassOf("certificate") = "tls" /\ ClassOf("deadline") = "timeout"
  /\ ClassOf("HTTP 200") = "http_other" /\ ClassOf("HTTP 403") = "http_403"
  /\ ClassOf("HTTP 404") = "http_404" /\ ClassOf("HTTP 429") = "http_429"
  /\ ClassOf("HTTP 502") = "gateway_no_backend" /\ ClassOf("decode") = "bad_json"
  /\ ClassOf("malformed") = "malformed_registry_address" /\ ClassOf("rpc error") = "grpc"
BY DEF ClassOf, StatusClass

\* The class of every layer is one that the report knows.
LEMMA LayersHaveClasses == \A i \in 1..15 : ClassOf(Layers[i]) \in Class
<1> SUFFICES ASSUME NEW i \in 1..15 PROVE ClassOf(Layers[i]) \in Class
  OBVIOUS
<1>1. \/ i = 1 \/ i = 2 \/ i = 3 \/ i = 4 \/ i = 5
      \/ i = 6 \/ i = 7 \/ i = 8 \/ i = 9 \/ i = 10
      \/ i = 11 \/ i = 12 \/ i = 13 \/ i = 14 \/ i = 15
  OBVIOUS
<1>2. \/ i = 1 \/ i = 2 \/ i = 3 \/ i = 4 \/ i = 5 \/ i = 6 \/ i = 7
      => ClassOf(Layers[i]) \in Class
  BY LayerAt, ClassAt DEF Class
<1>3. \/ i = 8 \/ i = 9 \/ i = 10 \/ i = 11 \/ i = 12 \/ i = 13 \/ i = 14 \/ i = 15
      => ClassOf(Layers[i]) \in Class
  BY LayerAt, ClassAt DEF Class
<1> QED BY <1>1, <1>2, <1>3

LEMMA NotMarked ==
  ASSUME NEW marks, \A i \in 1..15 : Layers[i] \notin marks
  PROVE  Classify(marks) = "other"
BY LayerCount DEF Classify

LEMMA ClassifyTyped ==
  ASSUME NEW marks
  PROVE  Classify(marks) \in Class
<1> DEFINE at == {n \in DOMAIN Layers : Layers[n] \in marks /\ \A j \in 1..(n - 1) : Layers[j] \notin marks}
<1>2. Classify(marks) = IF at = {} THEN "other" ELSE ClassOf(Layers[CHOOSE n \in at : TRUE])
  BY DEF Classify
<1>3. at # {} => (CHOOSE n \in at : TRUE) \in 1..15
  <2>1. at \subseteq 1..15
    BY LayerCount
  <2> HIDE DEF at
  <2> QED BY <2>1
<1>4. "other" \in Class
  BY DEF Class
<1> HIDE DEF at
<1> QED BY <1>2, <1>3, <1>4, LayersHaveClasses

\* The layers are looked at one by one.
Unmarked(marks, k) == \A j \in 1..k : Layers[j] \notin marks

LEMMA NextLayer ==
  ASSUME NEW marks, NEW k \in 1..15, Unmarked(marks, k - 1)
  PROVE  IF Layers[k] \in marks THEN Classify(marks) = ClassOf(Layers[k]) ELSE Unmarked(marks, k)
<1>1. \A j \in 1..(k - 1) : Layers[j] \notin marks
  BY DEF Unmarked
<1>2. \A j \in 1..k : j = k \/ j \in 1..(k - 1)
  OBVIOUS
<1>3. CASE Layers[k] \in marks
  BY <1>1, <1>3, FirstMark
<1>4. CASE Layers[k] \notin marks
  BY <1>1, <1>2, <1>4 DEF Unmarked
<1> QED BY <1>3, <1>4

\* Classify, read as the chain of tests it is.
LEMMA Cascade ==
  ASSUME NEW marks
  PROVE  Classify(marks) =
           IF "unsupported platform" \in marks THEN "not_served_by_provider"
           ELSE IF "NXDOMAIN" \in marks THEN "dns_nxdomain"
           ELSE IF "resolver error" \in marks THEN "dns_failure"
           ELSE IF "connection refused" \in marks THEN "conn_refused"
           ELSE IF "network unreachable" \in marks THEN "vantage_no_route"
           ELSE IF "certificate" \in marks THEN "tls"
           ELSE IF "deadline" \in marks THEN "timeout"
           ELSE IF "HTTP 200" \in marks THEN "http_other"
           ELSE IF "HTTP 403" \in marks THEN "http_403"
           ELSE IF "HTTP 404" \in marks THEN "http_404"
           ELSE IF "HTTP 429" \in marks THEN "http_429"
           ELSE IF "HTTP 502" \in marks THEN "gateway_no_backend"
           ELSE IF "decode" \in marks THEN "bad_json"
           ELSE IF "malformed" \in marks THEN "malformed_registry_address"
           ELSE IF "rpc error" \in marks THEN "grpc"
           ELSE "other"
<1>0. Unmarked(marks, 0)
  BY DEF Unmarked
<1>1. Unmarked(marks, 0) =>
         IF "unsupported platform" \in marks THEN Classify(marks) = "not_served_by_provider" ELSE Unmarked(marks, 1)
  <2>1. 1 \in 1..15 /\ 1 - 1 = 0
    OBVIOUS
  <2>2. Unmarked(marks, 0) =>
          IF Layers[1] \in marks THEN Classify(marks) = ClassOf(Layers[1]) ELSE Unmarked(marks, 1)
    BY <2>1, NextLayer
  <2>3. Layers[1] = "unsupported platform" /\ ClassOf("unsupported platform") = "not_served_by_provider"
    BY LayerAt, ClassAt
  <2> QED BY <2>2, <2>3
<1>2. Unmarked(marks, 1) =>
         IF "NXDOMAIN" \in marks THEN Classify(marks) = "dns_nxdomain" ELSE Unmarked(marks, 2)
  <2>1. 2 \in 1..15 /\ 2 - 1 = 1
    OBVIOUS
  <2>2. Unmarked(marks, 1) =>
          IF Layers[2] \in marks THEN Classify(marks) = ClassOf(Layers[2]) ELSE Unmarked(marks, 2)
    BY <2>1, NextLayer
  <2>3. Layers[2] = "NXDOMAIN" /\ ClassOf("NXDOMAIN") = "dns_nxdomain"
    BY LayerAt, ClassAt
  <2> QED BY <2>2, <2>3
<1>3. Unmarked(marks, 2) =>
         IF "resolver error" \in marks THEN Classify(marks) = "dns_failure" ELSE Unmarked(marks, 3)
  <2>1. 3 \in 1..15 /\ 3 - 1 = 2
    OBVIOUS
  <2>2. Unmarked(marks, 2) =>
          IF Layers[3] \in marks THEN Classify(marks) = ClassOf(Layers[3]) ELSE Unmarked(marks, 3)
    BY <2>1, NextLayer
  <2>3. Layers[3] = "resolver error" /\ ClassOf("resolver error") = "dns_failure"
    BY LayerAt, ClassAt
  <2> QED BY <2>2, <2>3
<1>4. Unmarked(marks, 3) =>
         IF "connection refused" \in marks THEN Classify(marks) = "conn_refused" ELSE Unmarked(marks, 4)
  <2>1. 4 \in 1..15 /\ 4 - 1 = 3
    OBVIOUS
  <2>2. Unmarked(marks, 3) =>
          IF Layers[4] \in marks THEN Classify(marks) = ClassOf(Layers[4]) ELSE Unmarked(marks, 4)
    BY <2>1, NextLayer
  <2>3. Layers[4] = "connection refused" /\ ClassOf("connection refused") = "conn_refused"
    BY LayerAt, ClassAt
  <2> QED BY <2>2, <2>3
<1>5. Unmarked(marks, 4) =>
         IF "network unreachable" \in marks THEN Classify(marks) = "vantage_no_route" ELSE Unmarked(marks, 5)
  <2>1. 5 \in 1..15 /\ 5 - 1 = 4
    OBVIOUS
  <2>2. Unmarked(marks, 4) =>
          IF Layers[5] \in marks THEN Classify(marks) = ClassOf(Layers[5]) ELSE Unmarked(marks, 5)
    BY <2>1, NextLayer
  <2>3. Layers[5] = "network unreachable" /\ ClassOf("network unreachable") = "vantage_no_route"
    BY LayerAt, ClassAt
  <2> QED BY <2>2, <2>3
<1>6. Unmarked(marks, 5) =>
         IF "certificate" \in marks THEN Classify(marks) = "tls" ELSE Unmarked(marks, 6)
  <2>1. 6 \in 1..15 /\ 6 - 1 = 5
    OBVIOUS
  <2>2. Unmarked(marks, 5) =>
          IF Layers[6] \in marks THEN Classify(marks) = ClassOf(Layers[6]) ELSE Unmarked(marks, 6)
    BY <2>1, NextLayer
  <2>3. Layers[6] = "certificate" /\ ClassOf("certificate") = "tls"
    BY LayerAt, ClassAt
  <2> QED BY <2>2, <2>3
<1>7. Unmarked(marks, 6) =>
         IF "deadline" \in marks THEN Classify(marks) = "timeout" ELSE Unmarked(marks, 7)
  <2>1. 7 \in 1..15 /\ 7 - 1 = 6
    OBVIOUS
  <2>2. Unmarked(marks, 6) =>
          IF Layers[7] \in marks THEN Classify(marks) = ClassOf(Layers[7]) ELSE Unmarked(marks, 7)
    BY <2>1, NextLayer
  <2>3. Layers[7] = "deadline" /\ ClassOf("deadline") = "timeout"
    BY LayerAt, ClassAt
  <2> QED BY <2>2, <2>3
<1>8. Unmarked(marks, 7) =>
         IF "HTTP 200" \in marks THEN Classify(marks) = "http_other" ELSE Unmarked(marks, 8)
  <2>1. 8 \in 1..15 /\ 8 - 1 = 7
    OBVIOUS
  <2>2. Unmarked(marks, 7) =>
          IF Layers[8] \in marks THEN Classify(marks) = ClassOf(Layers[8]) ELSE Unmarked(marks, 8)
    BY <2>1, NextLayer
  <2>3. Layers[8] = "HTTP 200" /\ ClassOf("HTTP 200") = "http_other"
    BY LayerAt, ClassAt
  <2> QED BY <2>2, <2>3
<1>9. Unmarked(marks, 8) =>
         IF "HTTP 403" \in marks THEN Classify(marks) = "http_403" ELSE Unmarked(marks, 9)
  <2>1. 9 \in 1..15 /\ 9 - 1 = 8
    OBVIOUS
  <2>2. Unmarked(marks, 8) =>
          IF Layers[9] \in marks THEN Classify(marks) = ClassOf(Layers[9]) ELSE Unmarked(marks, 9)
    BY <2>1, NextLayer
  <2>3. Layers[9] = "HTTP 403" /\ ClassOf("HTTP 403") = "http_403"
    BY LayerAt, ClassAt
  <2> QED BY <2>2, <2>3
<1>10. Unmarked(marks, 9) =>
         IF "HTTP 404" \in marks THEN Classify(marks) = "http_404" ELSE Unmarked(marks, 10)
  <2>1. 10 \in 1..15 /\ 10 - 1 = 9
    OBVIOUS
  <2>2. Unmarked(marks, 9) =>
          IF Layers[10] \in marks THEN Classify(marks) = ClassOf(Layers[10]) ELSE Unmarked(marks, 10)
    BY <2>1, NextLayer
  <2>3. Layers[10] = "HTTP 404" /\ ClassOf("HTTP 404") = "http_404"
    BY LayerAt, ClassAt
  <2> QED BY <2>2, <2>3
<1>11. Unmarked(marks, 10) =>
         IF "HTTP 429" \in marks THEN Classify(marks) = "http_429" ELSE Unmarked(marks, 11)
  <2>1. 11 \in 1..15 /\ 11 - 1 = 10
    OBVIOUS
  <2>2. Unmarked(marks, 10) =>
          IF Layers[11] \in marks THEN Classify(marks) = ClassOf(Layers[11]) ELSE Unmarked(marks, 11)
    BY <2>1, NextLayer
  <2>3. Layers[11] = "HTTP 429" /\ ClassOf("HTTP 429") = "http_429"
    BY LayerAt, ClassAt
  <2> QED BY <2>2, <2>3
<1>12. Unmarked(marks, 11) =>
         IF "HTTP 502" \in marks THEN Classify(marks) = "gateway_no_backend" ELSE Unmarked(marks, 12)
  <2>1. 12 \in 1..15 /\ 12 - 1 = 11
    OBVIOUS
  <2>2. Unmarked(marks, 11) =>
          IF Layers[12] \in marks THEN Classify(marks) = ClassOf(Layers[12]) ELSE Unmarked(marks, 12)
    BY <2>1, NextLayer
  <2>3. Layers[12] = "HTTP 502" /\ ClassOf("HTTP 502") = "gateway_no_backend"
    BY LayerAt, ClassAt
  <2> QED BY <2>2, <2>3
<1>13. Unmarked(marks, 12) =>
         IF "decode" \in marks THEN Classify(marks) = "bad_json" ELSE Unmarked(marks, 13)
  <2>1. 13 \in 1..15 /\ 13 - 1 = 12
    OBVIOUS
  <2>2. Unmarked(marks, 12) =>
          IF Layers[13] \in marks THEN Classify(marks) = ClassOf(Layers[13]) ELSE Unmarked(marks, 13)
    BY <2>1, NextLayer
  <2>3. Layers[13] = "decode" /\ ClassOf("decode") = "bad_json"
    BY LayerAt, ClassAt
  <2> QED BY <2>2, <2>3
<1>14. Unmarked(marks, 13) =>
         IF "malformed" \in marks THEN Classify(marks) = "malformed_registry_address" ELSE Unmarked(marks, 14)
  <2>1. 14 \in 1..15 /\ 14 - 1 = 13
    OBVIOUS
  <2>2. Unmarked(marks, 13) =>
          IF Layers[14] \in marks THEN Classify(marks) = ClassOf(Layers[14]) ELSE Unmarked(marks, 14)
    BY <2>1, NextLayer
  <2>3. Layers[14] = "malformed" /\ ClassOf("malformed") = "malformed_registry_address"
    BY LayerAt, ClassAt
  <2> QED BY <2>2, <2>3
<1>15. Unmarked(marks, 14) =>
         IF "rpc error" \in marks THEN Classify(marks) = "grpc" ELSE Unmarked(marks, 15)
  <2>1. 15 \in 1..15 /\ 15 - 1 = 14
    OBVIOUS
  <2>2. Unmarked(marks, 14) =>
          IF Layers[15] \in marks THEN Classify(marks) = ClassOf(Layers[15]) ELSE Unmarked(marks, 15)
    BY <2>1, NextLayer
  <2>3. Layers[15] = "rpc error" /\ ClassOf("rpc error") = "grpc"
    BY LayerAt, ClassAt
  <2> QED BY <2>2, <2>3
<1>16. Unmarked(marks, 15) => Classify(marks) = "other"
  BY NotMarked DEF Unmarked
<1> QED BY <1>0, <1>1, <1>2, <1>3, <1>4, <1>5, <1>6, <1>7, <1>8, <1>9, <1>10, <1>11, <1>12, <1>13, <1>14, <1>15, <1>16

\* The classes of the errors that a probe can meet.
LEMMA ClassesMet ==
  /\ Classify({"unsupported platform", "HTTP 403"}) = "not_served_by_provider"
  /\ Classify({"unsupported platform", "rpc error"}) = "not_served_by_provider"
  /\ Classify({"NXDOMAIN"}) = "dns_nxdomain"
  /\ Classify({"NXDOMAIN", "rpc error"}) = "dns_nxdomain"
  /\ Classify({"resolver error"}) = "dns_failure"
  /\ Classify({"resolver error", "rpc error"}) = "dns_failure"
  /\ Classify({"resolver error", "deadline"}) = "dns_failure"
  /\ Classify({"connection refused"}) = "conn_refused"
  /\ Classify({"connection refused", "rpc error"}) = "conn_refused"
  /\ Classify({"network unreachable"}) = "vantage_no_route"
  /\ Classify({"network unreachable", "rpc error"}) = "vantage_no_route"
  /\ Classify({"certificate"}) = "tls"
  /\ Classify({"certificate", "rpc error"}) = "tls"
  /\ Classify({"deadline"}) = "timeout"
  /\ Classify({"deadline", "rpc error"}) = "timeout"
  /\ Classify({"deadline", "HTTP 200", "decode"}) = "timeout"
  /\ Classify({"HTTP 200"}) = "http_other"
  /\ Classify({"HTTP 200", "decode"}) = "http_other"
  /\ Classify({"HTTP 403"}) = "http_403"
  /\ Classify({"HTTP 404"}) = "http_404"
  /\ Classify({"HTTP 502"}) = "gateway_no_backend"
  /\ Classify({"decode"}) = "bad_json"
  /\ Classify({"malformed"}) = "malformed_registry_address"
  /\ Classify({"rpc error"}) = "grpc"
  /\ Classify({"web page", "rpc error"}) = "grpc"
  /\ Classify({"not a TLS handshake", "rpc error"}) = "grpc"
  /\ Classify({}) = "other"
<1>1. Classify({"unsupported platform", "HTTP 403"}) = "not_served_by_provider"
  BY Cascade
<1>2. Classify({"unsupported platform", "rpc error"}) = "not_served_by_provider"
  BY Cascade
<1>3. Classify({"NXDOMAIN"}) = "dns_nxdomain"
  BY Cascade
<1>4. Classify({"NXDOMAIN", "rpc error"}) = "dns_nxdomain"
  BY Cascade
<1>5. Classify({"resolver error"}) = "dns_failure"
  BY Cascade
<1>6. Classify({"resolver error", "rpc error"}) = "dns_failure"
  BY Cascade
<1>7. Classify({"resolver error", "deadline"}) = "dns_failure"
  BY Cascade
<1>8. Classify({"connection refused"}) = "conn_refused"
  BY Cascade
<1>9. Classify({"connection refused", "rpc error"}) = "conn_refused"
  BY Cascade
<1>10. Classify({"network unreachable"}) = "vantage_no_route"
  BY Cascade
<1>11. Classify({"network unreachable", "rpc error"}) = "vantage_no_route"
  BY Cascade
<1>12. Classify({"certificate"}) = "tls"
  BY Cascade
<1>13. Classify({"certificate", "rpc error"}) = "tls"
  BY Cascade
<1>14. Classify({"deadline"}) = "timeout"
  BY Cascade
<1>15. Classify({"deadline", "rpc error"}) = "timeout"
  BY Cascade
<1>16. Classify({"deadline", "HTTP 200", "decode"}) = "timeout"
  BY Cascade
<1>17. Classify({"HTTP 200"}) = "http_other"
  BY Cascade
<1>18. Classify({"HTTP 200", "decode"}) = "http_other"
  BY Cascade
<1>19. Classify({"HTTP 403"}) = "http_403"
  BY Cascade
<1>20. Classify({"HTTP 404"}) = "http_404"
  BY Cascade
<1>21. Classify({"HTTP 502"}) = "gateway_no_backend"
  BY Cascade
<1>22. Classify({"decode"}) = "bad_json"
  BY Cascade
<1>23. Classify({"malformed"}) = "malformed_registry_address"
  BY Cascade
<1>24. Classify({"rpc error"}) = "grpc"
  BY Cascade
<1>25. Classify({"web page", "rpc error"}) = "grpc"
  BY Cascade
<1>26. Classify({"not a TLS handshake", "rpc error"}) = "grpc"
  BY Cascade
<1>27. Classify({}) = "other"
  BY Cascade
<1> QED BY <1>1, <1>2, <1>3, <1>4, <1>5, <1>6, <1>7, <1>8, <1>9, <1>10, <1>11, <1>12, <1>13, <1>14, <1>15, <1>16, <1>17, <1>18, <1>19, <1>20, <1>21, <1>22, <1>23, <1>24, <1>25, <1>26, <1>27

-----------------------------------------------------------------------------
(* The types of errors and results.                                         *)

LEMMA MakesError ==
  ASSUME NEW m \in SUBSET Mark, NEW c \in Code, NEW n \in BOOLEAN
  PROVE  [marks |-> m, code |-> c, net |-> n] \in Error
BY DEF Error

LEMMA NoErrorTyped == NoError \in Error
BY DEF NoError, Error, Code

LEMMA TransportTyped ==
  ASSUME NEW m \in Mark
  PROVE  Transport(m) \in Error
<1>1. {m} \in SUBSET Mark /\ {m, "rpc error"} \in SUBSET Mark
  BY DEF Mark
<1>2. "Unavailable" \in Code /\ "none" \in Code
  BY DEF Code
<1> QED BY <1>1, <1>2, MakesError DEF Transport

LEMMA StatusTyped ==
  ASSUME NEW m \in SUBSET Mark
  PROVE  Status(m) \in Error
BY MakesError DEF Status, Code

LEMMA RpcTyped ==
  ASSUME NEW m \in SUBSET Mark, NEW c \in Code
  PROVE  Rpc(m, c) \in Error
<1>1. m \cup {"rpc error"} \in SUBSET Mark
  BY DEF Mark
<1> QED BY <1>1, MakesError DEF Rpc

LEMMA RepliesTyped ==
  ASSUME NEW reply \in Reply
  PROVE  HttpReply(reply) \subseteq Error /\ GrpcReply(reply) \subseteq Error
<1>1. /\ {"HTTP 200"} \in SUBSET Mark /\ {"HTTP 200", "decode"} \in SUBSET Mark
      /\ {"HTTP 403"} \in SUBSET Mark /\ {"HTTP 403", "unsupported platform"} \in SUBSET Mark
      /\ {"HTTP 404"} \in SUBSET Mark /\ {"HTTP 429"} \in SUBSET Mark
      /\ {"HTTP 502"} \in SUBSET Mark
  BY DEF Mark
<1>2. /\ {"decode"} \in SUBSET Mark /\ {} \in SUBSET Mark /\ {"unsupported platform"} \in SUBSET Mark
      /\ {"web page"} \in SUBSET Mark /\ {"429"} \in SUBSET Mark
  BY DEF Mark
<1>3. "other" \in Code /\ "Unavailable" \in Code
  BY DEF Code
<1>4. HttpReply(reply) \subseteq Error
  BY <1>1, NoErrorTyped, StatusTyped DEF HttpReply, Reply
<1>5. GrpcReply(reply) \subseteq Error
  BY <1>2, <1>3, NoErrorTyped, StatusTyped, RpcTyped DEF GrpcReply, Reply
<1> QED BY <1>4, <1>5

LEMMA FirstMode ==
  ASSUME TypeInv, Asking
  PROVE  /\ modes \in {<<"tls">>, <<"plain">>, <<"tls", "plain">>}
         /\ modes = <<"plain">> => Head(modes) = "plain"
         /\ modes \in {<<"tls">>, <<"tls", "plain">>} => Head(modes) = "tls"
         /\ Len(modes) > 1 => modes = <<"tls", "plain">>
         /\ modes = <<"tls", "plain">> => Len(modes) > 1 /\ Tail(modes) = <<"plain">>
<1>1. modes \in {<<"tls">>, <<"plain">>, <<"tls", "plain">>}
  BY DEF TypeInv, TypeOK, ModesInv, Asking, Modes, Form
<1>2. Head(<<"tls">>) = "tls" /\ Head(<<"plain">>) = "plain" /\ Head(<<"tls", "plain">>) = "tls"
  OBVIOUS
<1>3. ~(Len(<<"tls">>) > 1) /\ ~(Len(<<"plain">>) > 1) /\ Len(<<"tls", "plain">>) > 1
  OBVIOUS
<1>4. Tail(<<"tls", "plain">>) = <<"plain">>
  OBVIOUS
<1>5. <<"plain">> # <<"tls">> /\ <<"plain">> # <<"tls", "plain">>
  OBVIOUS
<1>6. modes = <<"plain">> => Head(modes) = "plain"
  BY <1>2
<1>7. modes \in {<<"tls">>, <<"tls", "plain">>} => Head(modes) = "tls"
  BY <1>2, Zenon
<1>8. Len(modes) > 1 => modes = <<"tls", "plain">>
  BY <1>1, <1>3, Zenon
<1>9. modes = <<"tls", "plain">> => Len(modes) > 1 /\ Tail(modes) = <<"plain">>
  BY <1>3, <1>4, Zenon
<1> QED BY <1>1, <1>6, <1>7, <1>8, <1>9, Zenon

LEMMA ReachedTyped ==
  ASSUME TypeInv, Asking, NEW reply \in Reply
  PROVE  Reached(reply) \subseteq Error
<1>1. world.speaks \in {"tls", "bad tls", "plain"} /\ Head(modes) \in {"tls", "plain"}
  BY FirstMode DEF TypeInv, TypeOK, World
<1>2. Transport("certificate") \in Error
  BY TransportTyped DEF Mark
<1>3. Rpc({"not a TLS handshake"}, "Unavailable") \in Error /\ Rpc({}, "Unavailable") \in Error
  BY RpcTyped DEF Mark, Code
<1> QED BY <1>1, <1>2, <1>3, RepliesTyped DEF Reached

LEMMA ComesBackTyped ==
  ASSUME TypeInv, Asking
  PROVE  /\ Asked \in Reply
         /\ Outcome(Asked) \subseteq Error
         /\ Expired \subseteq Error
<1>1. Asked \in Reply /\ world.net \in Net
  BY DEF TypeInv, TypeOK, World, Asked
<1>2. /\ Transport("NXDOMAIN") \in Error /\ Transport("resolver error") \in Error
      /\ Transport("connection refused") \in Error /\ Transport("network unreachable") \in Error
  BY TransportTyped DEF Mark
<1>3. Outcome(Asked) \subseteq Error
  BY <1>1, <1>2, ReachedTyped DEF Outcome, Net
<1>4. /\ {"deadline", "rpc error"} \in SUBSET Mark /\ {"resolver error", "deadline"} \in SUBSET Mark
      /\ {"deadline"} \in SUBSET Mark /\ {"deadline", "HTTP 200", "decode"} \in SUBSET Mark
  BY DEF Mark
<1>5. Expired \subseteq Error
  BY <1>4, MakesError, StatusTyped DEF Expired, Code
<1> QED BY <1>1, <1>3, <1>5

LEMMA UnparsedTyped == kind \in Kind => Unparsed \subseteq Error
<1>1. {"malformed"} \in SUBSET Mark /\ {} \in SUBSET Mark /\ "none" \in Code
  BY DEF Mark, Code
<1>2. Transport("malformed") \in Error
  BY TransportTyped DEF Mark
<1> QED BY <1>1, <1>2, StatusTyped, MakesError DEF Unparsed

\* A probe that reports an error fails, or skips when it was told to slow down.
LEMMA FailureIs ==
  ASSUME NEW e \in Error
  PROVE  /\ Failure(e) \in Result
         /\ Failure(e).answer = IF Limited(e.marks) THEN "skip" ELSE "fail"
         /\ Failure(e).class = IF Limited(e.marks) THEN "http_429" ELSE Classify(e.marks)
         /\ ChainIDSkipped(Failure(e))
<1>1. Classify(e.marks) \in Class /\ e.net \in BOOLEAN /\ "http_429" \in Class
  BY ClassifyTyped DEF Error, Class
<1>2. RateLimited(e) = Limited(e.marks)
  BY DEF RateLimited, Limited
<1>3. RateLimited(e) \in BOOLEAN
  BY DEF RateLimited
<1>4. /\ (IF RateLimited(e) THEN "skip" ELSE "fail") \in {"none", "pass", "fail", "skip"}
      /\ (IF RateLimited(e) THEN "http_429" ELSE Classify(e.marks)) \in Class
      /\ (~RateLimited(e) /\ e.net) \in BOOLEAN
  BY <1>1, <1>3
<1>5. Failure(e) \in Result
  BY <1>4 DEF Failure, Result
<1>6. /\ Failure(e).answer = IF RateLimited(e) THEN "skip" ELSE "fail"
      /\ Failure(e).class = IF RateLimited(e) THEN "http_429" ELSE Classify(e.marks)
  BY DEF Failure
<1>7. ChainIDSkipped(Failure(e))
  BY <1>6 DEF ChainIDSkipped
<1> QED BY <1>2, <1>5, <1>6, <1>7

LEMMA SuccessIs ==
  ASSUME NEW b \in BOOLEAN
  PROVE  /\ Success(b) \in Result
         /\ Success(b).answer = "pass"
         /\ ChainIDSkipped(Success(b)) <=> b
BY DEF Success, Result, Class, ChainIDSkipped

-----------------------------------------------------------------------------
(* What becomes of a request.                                               *)

LEMMA JudgedFailure ==
  ASSUME NEW e \in Error, Judge(Failure(e))
  PROVE  pc' = "done" /\ liveness' = Failure(e) /\ chainID' = "skip"
BY FailureIs DEF Judge

LEMMA AfterMode ==
  ASSUME TypeInv, Asking, NEW e \in Error, NextMode(e)
  PROVE  /\ kept' \in Error
         /\ kept'.marks = IF kept = NoError \/ "not a TLS handshake" \in kept.marks
                          THEN e.marks ELSE kept.marks
         /\ \/ /\ modes = <<"tls", "plain">> /\ e.code = "Unavailable"
               /\ modes' = <<"plain">> /\ pc' = "canary" /\ UNCHANGED <<liveness, chainID>>
            \/ /\ ~(modes = <<"tls", "plain">> /\ e.code = "Unavailable")
               /\ modes' = modes /\ pc' = "done" /\ liveness' = Failure(kept') /\ chainID' = "skip"
<1> DEFINE k == IF kept = NoError \/ "not a TLS handshake" \in kept.marks THEN e ELSE kept
           n == k.code \in {"Unavailable", "DeadlineExceeded"}
<1>1. k \in Error /\ n \in BOOLEAN
  <2>1. k \in Error
    BY DEF TypeInv, TypeOK
  <2>2. n \in BOOLEAN
    OBVIOUS
  <2> QED BY <2>1, <2>2
<1>2. /\ kept' = [k EXCEPT !.net = n]
      /\ IF e.code = "Unavailable" /\ Len(modes) > 1
         THEN modes' = Tail(modes) /\ pc' = "canary" /\ UNCHANGED <<liveness, chainID>>
         ELSE modes' = modes /\ Judge(Failure(kept'))
  BY Zenon DEF NextMode
<1> HIDE DEF n
<1>3. kept' \in Error /\ kept'.marks = k.marks
  <2> HIDE DEF k
  <2> QED BY <1>1, <1>2 DEF Error
<1>4. Len(modes) > 1 <=> modes = <<"tls", "plain">>
  BY FirstMode
<1>5. modes = <<"tls", "plain">> => Tail(modes) = <<"plain">>
  BY FirstMode
<1>6. CASE e.code = "Unavailable" /\ Len(modes) > 1
  BY <1>2, <1>3, <1>4, <1>5, <1>6
<1>7. CASE ~(e.code = "Unavailable" /\ Len(modes) > 1)
  <2>1. modes' = modes /\ Judge(Failure(kept'))
    BY <1>2, <1>7, Zenon
  <2>2. pc' = "done" /\ liveness' = Failure(kept') /\ chainID' = "skip"
    BY <2>1, <1>3, JudgedFailure
  <2> QED BY <1>3, <1>4, <1>7, <2>1, <2>2
<1> QED BY <1>6, <1>7

LEMMA RefusedIs ==
  ASSUME TypeInv, pc = "fallback"
  PROVE  /\ refused \in Error /\ refused.code = "other"
         /\ refused.marks = IF world.canary = "retired" THEN {"unsupported platform", "rpc error"}
                            ELSE {"rpc error"}
<1>1. world.canary \in {"refusal", "retired"} /\ refused \in GrpcReply(world.canary)
  BY DEF TypeInv, ModesInv
<1>2. refused = IF world.canary = "retired" THEN Rpc({"unsupported platform"}, "other")
                ELSE Rpc({}, "other")
  BY <1>1 DEF GrpcReply
<1> QED BY <1>2 DEF Rpc, TypeInv, TypeOK

LEMMA Moves ==
  ASSUME TypeInv, Asking, NEW e \in Error, Handle(e)
  PROVE  Passes(e) \/ FallsBack(e) \/ GoesOn(e) \/ Fails(e)
<1>1. CASE /\ e = NoError
           /\ Judge(Success(pc = "fallback"))
           /\ UNCHANGED <<modes, refused, kept>>
  BY <1>1 DEF Passes
<1>2. CASE /\ e # NoError /\ kind # "grpc"
           /\ kept' = e
           /\ Judge(Failure(e))
           /\ UNCHANGED <<modes, refused>>
  <2>1. pc = "canary" /\ kept = NoError
    BY <1>2 DEF TypeInv, ModesInv, Asking
  <2>2. pc' = "done" /\ liveness' = Failure(e) /\ chainID' = "skip"
    BY <1>2, JudgedFailure
  <2> QED BY <1>2, <2>1, <2>2 DEF Fails, Reported
<1>3. CASE /\ e # NoError /\ kind = "grpc" /\ pc = "canary" /\ RefusedByName(e)
           /\ refused' = e
           /\ pc' = "fallback"
           /\ UNCHANGED <<modes, kept, liveness, chainID>>
  BY <1>3 DEF FallsBack
<1>4. CASE /\ e # NoError /\ kind = "grpc" /\ pc = "canary" /\ ~RefusedByName(e)
           /\ NextMode(e)
           /\ UNCHANGED refused
  <2>1. kept' \in Error /\ kept'.marks = Reported(e).marks
    BY <1>4, AfterMode DEF Reported
  <2> QED BY <1>4, <2>1, AfterMode DEF GoesOn, Fails
<1>5. CASE /\ e # NoError /\ kind = "grpc" /\ pc = "fallback"
           /\ NextMode(refused)
           /\ UNCHANGED refused
  <2>1. refused \in Error /\ refused.code # "Unavailable"
    BY <1>5, RefusedIs
  <2>2. kept' \in Error /\ kept'.marks = Reported(e).marks
    BY <1>5, <2>1, AfterMode DEF Reported
  <2> QED BY <1>5, <2>1, <2>2, AfterMode DEF Fails
<1> QED BY <1>1, <1>2, <1>3, <1>4, <1>5, Zenon DEF Handle

LEMMA GrpcExpired ==
  ASSUME kind = "grpc", NEW e \in Expired
  PROVE  e.marks = {"deadline", "rpc error"} /\ e.code = "DeadlineExceeded"
<1>1. e = [marks |-> {"deadline", "rpc error"}, code |-> "DeadlineExceeded", net |-> FALSE]
  BY Zenon DEF Expired
<1> QED BY <1>1

\* Only the server itself refuses a query, on a channel that works.
LEMMA RefusalIs ==
  ASSUME TypeInv, kind = "grpc", pc = "canary", NEW e \in Outcome(Asked) \cup Expired, RefusedByName(e)
  PROVE  /\ world.net = "fine" /\ Head(modes) = world.speaks
         /\ world.canary \in {"refusal", "retired"} /\ e \in GrpcReply(world.canary)
<1>1. e.code = "other" /\ "web page" \notin e.marks
  BY DEF RefusedByName
<1>2. \A m : Transport(m).code # "other"
  BY DEF Transport
<1>3. \A m : Rpc(m, "Unavailable").code # "other"
  BY DEF Rpc
<1>4. e \notin Expired
  BY <1>1, GrpcExpired
<1>5. e \in Outcome(world.canary)
  BY <1>4 DEF Asked
<1>6. world.net = "fine" /\ e \in Reached(world.canary)
  BY <1>1, <1>2, <1>5 DEF Outcome, TypeInv, TypeOK, World, Net
<1>7. world.speaks \in {"tls", "bad tls", "plain"} /\ Head(modes) \in {"tls", "plain"}
  BY FirstMode DEF TypeInv, TypeOK, World, Asking
<1>8. Head(modes) = world.speaks /\ e \in GrpcReply(world.canary)
  BY <1>1, <1>2, <1>3, <1>6, <1>7 DEF Reached
<1>9. \A m : "web page" \in Rpc({"web page"}, m).marks
  BY DEF Rpc
<1>10. \A m : Status(m).code # "other"
  BY DEF Status
<1>11. NoError.code # "other"
  BY DEF NoError
<1>12. world.canary \in Reply
  BY DEF TypeInv, TypeOK, World
<1>13. world.canary \in {"refusal", "retired"}
  <2> SUFFICES ASSUME world.canary \notin {"refusal", "retired"} PROVE FALSE
    OBVIOUS
  <2>1. world.canary \in {"answer", "undecodable", "page", "429", "down", "silence"}
    BY <1>12 DEF Reply
  <2>2. CASE world.canary = "answer"
    BY <1>1, <1>8, <1>11, <2>2 DEF GrpcReply
  <2>3. CASE world.canary = "undecodable"
    BY <1>1, <1>8, <1>10, <2>3 DEF GrpcReply
  <2>4. CASE world.canary = "page"
    BY <1>1, <1>8, <1>9, <2>4 DEF GrpcReply
  <2>5. CASE world.canary \in {"429", "down"}
    BY <1>1, <1>3, <1>8, <2>5 DEF GrpcReply
  <2>6. CASE world.canary = "silence"
    BY <1>8, <2>6 DEF GrpcReply
  <2> QED BY <2>1, <2>2, <2>3, <2>4, <2>5, <2>6
<1> QED BY <1>6, <1>8, <1>13

\* A gRPC error always leaves its mark.
LEMMA GrpcMarks ==
  ASSUME TypeInv, Asking, kind = "grpc", NEW e \in Outcome(Asked) \cup Expired, e.code = "Unavailable"
  PROVE  e.marks # {}
<1>1. \A m : Transport(m).marks # {}
  BY DEF Transport
<1>2. \A m, c : Rpc(m, c).marks # {}
  BY DEF Rpc
<1>3. NoError.code # "Unavailable" /\ \A m : Status(m).code # "Unavailable"
  BY DEF NoError, Status
<1>4. CASE e \in Expired
  BY <1>4, GrpcExpired
<1>5. CASE e \in Outcome(Asked)
  <2>1. e \in Reached(Asked) => e.marks # {}
    <3>1. world.speaks \in {"tls", "bad tls", "plain"} /\ Head(modes) \in {"tls", "plain"}
      BY FirstMode DEF TypeInv, TypeOK, World
    <3>2. e \in GrpcReply(Asked) => e.marks # {}
      BY <1>2, <1>3, ComesBackTyped DEF GrpcReply, Reply
    <3> QED BY <1>1, <1>2, <3>1, <3>2 DEF Reached
  <2> QED BY <1>1, <1>5, <2>1 DEF Outcome, TypeInv, TypeOK, World, Net
<1> QED BY <1>4, <1>5

-----------------------------------------------------------------------------
(* The types, and what Init says of the world, are invariant.               *)

\* A request comes back in time, or the deadline ends it.
Answered(e) == e \in Outcome(Asked) /\ late' = late

TimedOut(e) == e \in Expired /\ late' = (late \/ Outcome(Asked) # {})

LEMMA Steps ==
  ASSUME TypeInv, [Next]_vars
  PROVE  \/ UNCHANGED vars
         \/ Parse
         \/ /\ Asking /\ UNCHANGED <<kind, form, world>>
            /\ \E e \in Error : /\ Answered(e) \/ TimedOut(e)
                                /\ Passes(e) \/ FallsBack(e) \/ GoesOn(e) \/ Fails(e)
<1>1. CASE Parse
  BY <1>1
<1>2. CASE Request
  <2>1. PICK e \in Outcome(Asked) : Handle(e)
    BY <1>2 DEF Request
  <2>2. Asking /\ UNCHANGED <<kind, form, world>> /\ late' = late
    BY <1>2 DEF Request, Asking
  <2>3. e \in Error /\ Answered(e)
    BY <2>2, ComesBackTyped DEF Answered
  <2>4. Passes(e) \/ FallsBack(e) \/ GoesOn(e) \/ Fails(e)
    BY <2>1, <2>2, <2>3, Moves
  <2> QED BY <2>2, <2>3, <2>4
<1>3. CASE Deadline
  <2>1. PICK e \in Expired : Handle(e)
    BY <1>3 DEF Deadline
  <2>2. Asking /\ UNCHANGED <<kind, form, world>> /\ late' = (late \/ Outcome(Asked) # {})
    BY <1>3, Zenon DEF Deadline, Asking
  <2>3. e \in Error /\ TimedOut(e)
    BY <2>2, ComesBackTyped DEF TimedOut
  <2>4. Passes(e) \/ FallsBack(e) \/ GoesOn(e) \/ Fails(e)
    BY <2>1, <2>2, <2>3, Moves
  <2> QED BY <2>2, <2>3, <2>4
<1>4. CASE Done \/ UNCHANGED vars
  BY <1>4 DEF Done
<1> QED BY <1>1, <1>2, <1>3, <1>4 DEF Next

LEMMA TypeInit == Init => TypeInv
<1> SUFFICES ASSUME Init PROVE TypeInv
  OBVIOUS
<1>1. NoResult \in Result
  BY DEF NoResult, Result, Class
<1>2. form \in Form
  BY DEF Init, Form
<1>3. TypeOK
  BY <1>1, <1>2, NoErrorTyped DEF Init, TypeOK
<1>4. WorldInv
  BY Zenon DEF Init, WorldInv
<1>5. ModesInv
  BY DEF Init, ModesInv, Asking
<1> QED BY <1>3, <1>4, <1>5 DEF TypeInv

LEMMA TypeParse ==
  ASSUME TypeInv, Parse
  PROVE  TypeInv'
<1>1. /\ pc = "parse" /\ kept = NoError
      /\ UNCHANGED <<kind, form, world, refused, late>>
  BY DEF Parse, TypeInv, ModesInv
<1>2. CASE form = "unusable"
  <2>1. kept' \in Unparsed /\ Judge(Failure(kept')) /\ modes' = modes
    BY <1>2 DEF Parse
  <2>2. kept' \in Error
    BY <2>1, UnparsedTyped DEF TypeInv, TypeOK
  <2>3. pc' = "done" /\ liveness' = Failure(kept') /\ chainID' = "skip"
    BY <2>1, <2>2, JudgedFailure
  <2>4. liveness' \in Result
    BY <2>2, <2>3, FailureIs
  <2>5. TypeOK'
    BY <1>1, <2>1, <2>2, <2>3, <2>4 DEF TypeInv, TypeOK
  <2>6. WorldInv'
    BY <1>1 DEF TypeInv, WorldInv
  <2>7. ModesInv'
    BY <2>3 DEF ModesInv, Asking
  <2> QED BY <2>5, <2>6, <2>7 DEF TypeInv
<1>3. CASE form # "unusable"
  <2>1. modes' = Modes(form) /\ pc' = "canary" /\ UNCHANGED <<kept, liveness, chainID>>
    BY <1>3 DEF Parse
  <2>2. modes' \in {<<"tls">>, <<"plain">>, <<"tls", "plain">>}
    BY <1>3, <2>1 DEF TypeInv, TypeOK, Form, Modes
  <2>3. TypeOK'
    BY <1>1, <2>1, <2>2 DEF TypeInv, TypeOK
  <2>4. WorldInv'
    BY <1>1 DEF TypeInv, WorldInv
  <2>5. Modes(form)' = Modes(form)
    BY <1>1
  <2>6. ModesInv'
    BY <1>1, <1>3, <2>1, <2>5 DEF ModesInv, Asking
  <2> QED BY <2>3, <2>4, <2>6 DEF TypeInv
<1> QED BY <1>2, <1>3

LEMMA TypeMoves ==
  ASSUME TypeInv, Asking, UNCHANGED <<kind, form, world>>,
         NEW e \in Error, Answered(e) \/ TimedOut(e),
         Passes(e) \/ FallsBack(e) \/ GoesOn(e) \/ Fails(e)
  PROVE  TypeInv'
<1>1. late' \in BOOLEAN
  BY DEF Answered, TimedOut, TypeInv, TypeOK
<1>2. WorldInv'
  BY DEF TypeInv, WorldInv
<1>3. e \in Outcome(Asked) \cup Expired
  BY DEF Answered, TimedOut
<1>4. CASE Passes(e)
  <2>1. /\ pc' = "done" /\ liveness' = Success(pc = "fallback")
        /\ chainID' \in {"none", "pass", "fail", "skip"} /\ UNCHANGED <<modes, refused, kept>>
    BY <1>4 DEF Passes, Judge
  <2>2. liveness' \in Result
    BY <2>1, SuccessIs
  <2>3. TypeOK'
    BY <1>1, <2>1, <2>2 DEF TypeInv, TypeOK
  <2>4. ModesInv'
    BY <2>1 DEF ModesInv, Asking
  <2> QED BY <1>2, <2>3, <2>4 DEF TypeInv
<1>5. CASE FallsBack(e)
  <2>1. TypeOK'
    BY <1>1, <1>5 DEF FallsBack, TypeInv, TypeOK
  <2>2. /\ world.net = "fine" /\ Head(modes) = world.speaks
        /\ world.canary \in {"refusal", "retired"} /\ e \in GrpcReply(world.canary)
    BY <1>3, <1>5, RefusalIs DEF FallsBack
  <2>3. ModesInv'
    BY <1>5, <2>2 DEF FallsBack, TypeInv, ModesInv, Asking, GrpcReply, Rpc, Status, Modes
  <2> QED BY <1>2, <2>1, <2>3 DEF TypeInv
<1>6. CASE GoesOn(e)
  <2>1. TypeOK'
    BY <1>1, <1>6 DEF GoesOn, TypeInv, TypeOK
  <2>2. kept = NoError /\ form = "host:port"
    BY <1>6 DEF GoesOn, TypeInv, TypeOK, Form, ModesInv, Modes, Asking
  <2>3. kept'.marks # {}
    BY <1>3, <1>6, <2>2, GrpcMarks DEF GoesOn, Reported
  <2>4. ModesInv'
    BY <1>6, <2>2, <2>3 DEF GoesOn, ModesInv, Asking
  <2> QED BY <1>2, <2>1, <2>4 DEF TypeInv
<1>7. CASE Fails(e)
  <2>1. kept' \in Error /\ liveness' = Failure(kept') /\ pc' = "done" /\ chainID' = "skip"
        /\ UNCHANGED <<modes, refused>>
    BY <1>7 DEF Fails
  <2>2. liveness' \in Result
    BY <2>1, FailureIs
  <2>3. TypeOK'
    BY <1>1, <2>1, <2>2 DEF TypeInv, TypeOK
  <2>4. ModesInv'
    BY <2>1 DEF ModesInv, Asking
  <2> QED BY <1>2, <2>3, <2>4 DEF TypeInv
<1> QED BY <1>4, <1>5, <1>6, <1>7

LEMMA TypeStep == TypeInv /\ [Next]_vars => TypeInv'
<1> SUFFICES ASSUME TypeInv, [Next]_vars PROVE TypeInv'
  OBVIOUS
<1>1. CASE UNCHANGED vars
  BY <1>1 DEF vars, TypeInv, TypeOK, WorldInv, ModesInv, Asking, Modes, GrpcReply, Status, Rpc
<1>2. CASE Parse
  BY <1>2, TypeParse
<1>3. CASE /\ Asking /\ UNCHANGED <<kind, form, world>>
           /\ \E e \in Error : /\ Answered(e) \/ TimedOut(e)
                               /\ Passes(e) \/ FallsBack(e) \/ GoesOn(e) \/ Fails(e)
  BY <1>3, TypeMoves
<1> QED BY <1>1, <1>2, <1>3, Steps

LEMMA TypeHolds == Spec => []TypeInv
BY TypeInit, TypeStep, PTL DEF Spec

\* Whatever the world does, the probe's variables keep their types: in
\* particular every failure has a class the report knows.
THEOREM TypeCorrect == Spec => []TypeOK
<1>1. TypeInv => TypeOK
  BY DEF TypeInv
<1> QED BY <1>1, TypeHolds, PTL

-----------------------------------------------------------------------------
(* What comes back from whom.                                               *)

LEMMA Replies ==
  /\ GrpcReply("answer") = {NoError} /\ HttpReply("answer") = {NoError}
  /\ GrpcReply("refusal") = {Rpc({}, "other")}
  /\ GrpcReply("429") = {Rpc({"429"}, "Unavailable")} /\ HttpReply("429") = {Status({"HTTP 429"})}
BY Zenon DEF GrpcReply, HttpReply

\* Whoever is spoken to in its own transport replies to the query.
LEMMA InTouch ==
  ASSUME TypeInv, Asking, world.net = "fine", Head(modes) = world.speaks
  PROVE  Outcome(Asked) = IF kind = "grpc" THEN GrpcReply(Asked) ELSE HttpReply(Asked)
<1>1. Outcome(Asked) = Reached(Asked)
  BY DEF Outcome
<1>2. Head(modes) \in {"tls", "plain"}
  BY FirstMode
<1>3. CASE kind = "grpc"
  <2>1. world.speaks # "bad tls"
    BY <1>2
  <2>2. Reached(Asked) = GrpcReply(Asked)
    BY <1>2, <1>3, <2>1 DEF Reached
  <2> QED BY <1>1, <1>3, <2>2
<1>4. CASE kind # "grpc"
  <2>1. world.speaks # "bad tls"
    BY <1>2
  <2>2. Reached(Asked) = HttpReply(Asked)
    BY <1>4, <2>1, Zenon DEF Reached
  <2> QED BY <1>1, <1>4, <2>2
<1> QED BY <1>3, <1>4

\* A plaintext server that is sent a TLS handshake.
LEMMA OutOfTouch ==
  ASSUME TypeInv, Asking, kind = "grpc", world.net = "fine", Head(modes) = "tls", world.speaks = "plain"
  PROVE  Outcome(Asked) =
           {Rpc(IF world.hello = "not tls" THEN {"not a TLS handshake"} ELSE {}, "Unavailable")}
<1>1. Outcome(Asked) = Reached(Asked)
  BY DEF Outcome
<1> QED BY <1>1 DEF Reached

\* The first mode is the spoken one, or the two modes of a bare host:port are
\* tried in turn.
LEMMA SpokenMode ==
  ASSUME TypeInv, Asking, Spoken, modes = Modes(form)
  PROVE  \/ Head(modes) = world.speaks
         \/ kind = "grpc" /\ form = "host:port" /\ world.speaks = "plain"
            /\ modes = <<"tls", "plain">> /\ Head(modes) = "tls"
<1>1. form \in {"url", "https", "other scheme", "host:443", "host", "host:port"}
  BY DEF TypeInv, TypeOK, ModesInv, Form
<1>2. world.speaks \in {"tls", "bad tls", "plain"}
  BY DEF TypeInv, TypeOK, World
<1>3. CASE form = "host:port"
  <2>1. modes = <<"tls", "plain">> /\ Head(modes) = "tls"
    BY <1>3, FirstMode DEF Modes
  <2>2. kind = "grpc"
    BY <1>3 DEF TypeInv, WorldInv
  <2>3. world.speaks # "bad tls"
    BY <1>3 DEF Spoken
  <2> QED BY <1>2, <1>3, <2>1, <2>2, <2>3
<1>4. CASE form = "other scheme"
  <2>1. modes = <<"plain">> /\ Head(modes) = "plain"
    BY <1>4, FirstMode DEF Modes
  <2>2. world.speaks = "plain"
    BY <1>4 DEF Spoken
  <2> QED BY <2>1, <2>2
<1>5. CASE form \in {"url", "https", "host:443", "host"}
  <2>1. modes = <<"tls">> /\ Head(modes) = "tls"
    BY <1>5, FirstMode DEF Modes
  <2>2. world.speaks = "tls"
    BY <1>5 DEF Spoken
  <2> QED BY <2>1, <2>2
<1> QED BY <1>1, <1>3, <1>4, <1>5

\* In one of its two modes a probe goes on; in its only one it does not.
LEMMA TwoModes ==
  ASSUME TypeInv, Asking, modes = <<"tls", "plain">>
  PROVE  kind = "grpc" /\ form = "host:port" /\ kept = NoError /\ Head(modes) = "tls"
         /\ modes = Modes(form)
<1>1. modes = Modes(form) /\ kept = NoError
  BY DEF TypeInv, ModesInv
<1>2. form = "host:port"
  <2>1. form \in {"url", "https", "other scheme", "host:443", "host", "host:port"}
    BY DEF TypeInv, TypeOK, ModesInv, Form
  <2>2. <<"tls", "plain">> # <<"tls">> /\ <<"tls", "plain">> # <<"plain">>
    OBVIOUS
  <2> QED BY <1>1, <2>1, <2>2 DEF Modes
<1>3. kind = "grpc"
  BY <1>2 DEF TypeInv, WorldInv
<1> QED BY <1>1, <1>2, <1>3, FirstMode

LEMMA ServesIs ==
  ASSUME TypeInv, Serves
  PROVE  /\ Spoken /\ world.net = "fine"
         /\ world.canary = "answer" \/ (kind = "grpc" /\ world.canary = "refusal" /\ world.fallback = "answer")
BY DEF Serves, Spoken

\* An error-free reply is the answer of an endpoint that serves.
LEMMA PassServes ==
  ASSUME TypeInv, Asking, NoError \in Outcome(Asked)
  PROVE  Serves /\ (pc = "canary" => world.canary = "answer")
<1>1. /\ \A m : Transport(m) # NoError
      /\ \A m, c : Rpc(m, c) # NoError
      /\ \A m : m # {} => Status(m) # NoError
  BY DEF Transport, Rpc, Status, NoError
<1>2. world.net = "fine" /\ NoError \in Reached(Asked)
  BY <1>1 DEF Outcome, TypeInv, TypeOK, World, Net
<1>3. world.speaks \in {"tls", "bad tls", "plain"} /\ Head(modes) \in {"tls", "plain"}
  BY FirstMode DEF TypeInv, TypeOK, World
<1>4. Asked \in Reply
  BY ComesBackTyped
<1>5. NoError \in HttpReply(Asked) => Asked = "answer"
  BY <1>1, <1>4 DEF HttpReply, Reply
<1>6. NoError \in GrpcReply(Asked) => Asked = "answer"
  BY <1>1, <1>4 DEF GrpcReply, Reply
<1>7. CASE kind # "grpc"
  <2>1. world.speaks = "tls" /\ NoError \in HttpReply(Asked)
    BY <1>1, <1>2, <1>3, <1>7 DEF Reached, TypeInv, WorldInv
  <2>2. form = "url" /\ pc = "canary"
    BY <1>7 DEF TypeInv, WorldInv, ModesInv, Asking
  <2>3. world.canary = "answer"
    BY <1>5, <2>1, <2>2 DEF Asked
  <2> QED BY <1>2, <2>1, <2>2, <2>3 DEF Serves, Spoken
<1>8. CASE kind = "grpc"
  <2>1. Head(modes) = world.speaks /\ NoError \in GrpcReply(Asked)
    BY <1>1, <1>2, <1>3, <1>8 DEF Reached
  <2>2. Spoken
    <3>1. form \in {"https", "other scheme", "host:443", "host", "host:port"}
      BY <1>8 DEF TypeInv, WorldInv, ModesInv, Form
    <3>2. form = "host:port" => world.speaks # "bad tls"
      BY <1>3, <2>1
    <3>3. form = "other scheme" => world.speaks = "plain"
      BY <2>1, FirstMode DEF TypeInv, ModesInv, Modes
    <3>4. form \in {"https", "host:443", "host"} => world.speaks = "tls"
      BY <2>1, FirstMode DEF TypeInv, ModesInv, Modes
    <3> QED BY <1>2, <3>1, <3>2, <3>3, <3>4 DEF Spoken
  <2>3. Asked = "answer"
    BY <1>6, <2>1
  <2>4. CASE pc = "canary"
    BY <2>2, <2>3, <2>4 DEF Asked, Serves
  <2>5. CASE pc = "fallback"
    <3>1. world.fallback = "answer" /\ world.canary \in {"refusal", "retired"}
      BY <2>3, <2>5 DEF Asked, TypeInv, ModesInv
    <3>2. world.canary = "refusal"
      BY <3>1 DEF TypeInv, WorldInv
    <3> QED BY <1>8, <2>2, <2>5, <3>1, <3>2 DEF Serves
  <2> QED BY <2>4, <2>5 DEF Asking
<1> QED BY <1>7, <1>8

\* The deadline never looks like an answer.
LEMMA PassAnswered ==
  ASSUME TypeInv, Asking, Answered(NoError) \/ TimedOut(NoError)
  PROVE  NoError \in Outcome(Asked) /\ late' = late
<1>1. NoError \notin Expired
  BY DEF Expired, NoError, Status
<1> QED BY <1>1 DEF Answered, TimedOut

\* An endpoint that serves is not failed before its deadline, and the mode
\* that is given up is not the one it speaks.
LEMMA ServedOn ==
  ASSUME TypeInv, OnTheWay, Asking, Serves, ~late', NEW e \in Error,
         Answered(e) \/ TimedOut(e)
  PROVE  ~Fails(e) /\ (GoesOn(e) => world.speaks = "plain")
<1>1. ~late
  BY DEF Answered, TimedOut, TypeInv, TypeOK
<1>2. Spoken /\ world.net = "fine"
  BY ServesIs
<1>3. ASSUME Outcome(Asked) # {} PROVE e \in Outcome(Asked)
  BY <1>3 DEF Answered, TimedOut
<1>4. CASE Head(modes) = world.speaks
  <2>1. Outcome(Asked) = IF kind = "grpc" THEN GrpcReply(Asked) ELSE HttpReply(Asked)
    BY <1>2, <1>4, InTouch
  <2>2. CASE Asked = "answer"
    <3>1. Outcome(Asked) = {NoError}
      BY <2>1, <2>2, Replies
    <3>2. e = NoError
      BY <1>3, <3>1
    <3> QED BY <3>2 DEF Fails, GoesOn
  <2>3. CASE Asked # "answer"
    <3>1. pc = "canary" /\ kind = "grpc" /\ world.canary = "refusal"
      BY <2>3, ServesIs DEF Asked, Asking, TypeInv, ModesInv
    <3>2. Outcome(Asked) = {Rpc({}, "other")}
      BY <2>1, <3>1, Replies DEF Asked
    <3>3. e = Rpc({}, "other")
      BY <1>3, <3>2
    <3>4. RefusedByName(e)
      BY <3>3 DEF RefusedByName, Rpc
    <3> QED BY <3>1, <3>4 DEF Fails, GoesOn
  <2> QED BY <2>2, <2>3
<1>5. CASE Head(modes) # world.speaks
  <2>1. modes = <<"tls", "plain">>
    BY <1>1, <1>5 DEF OnTheWay
  <2>2. kind = "grpc" /\ Head(modes) = "tls" /\ world.speaks = "plain"
    BY <1>2, <1>5, <2>1, TwoModes, SpokenMode
  <2>3. e.code = "Unavailable" /\ e # NoError
    <3> DEFINE m == IF world.hello = "not tls" THEN {"not a TLS handshake"} ELSE {}
    <3>1. Outcome(Asked) = {Rpc(m, "Unavailable")}
      BY <1>2, <2>2, OutOfTouch
    <3> HIDE DEF m
    <3>2. e = Rpc(m, "Unavailable")
      BY <1>3, <3>1
    <3> QED BY <3>2 DEF Rpc, NoError
  <2>4. pc = "canary"
    BY <1>5 DEF Asking, TypeInv, ModesInv
  <2>5. ~RefusedByName(e)
    BY <2>3 DEF RefusedByName
  <2> QED BY <2>1, <2>2, <2>3, <2>4, <2>5 DEF Fails
<1> QED BY <1>4, <1>5

-----------------------------------------------------------------------------
(* Every error is honest.                                                   *)

\* Classes that blame nobody need no excuse.
LEMMA Neutral ==
  ASSUME NEW m, Limited(m) \/ Classify(m) \notin Structural \cup Vantage
  PROVE  Honest(m)
BY DEF Honest

LEMMA NeutralMarks ==
  /\ Honest({}) /\ Honest({"rpc error"}) /\ Honest({"web page", "rpc error"})
  /\ Honest({"not a TLS handshake", "rpc error"})
  /\ Honest({"deadline"}) /\ Honest({"deadline", "rpc error"})
  /\ Honest({"deadline", "HTTP 200", "decode"})
  /\ Honest({"HTTP 200"}) /\ Honest({"HTTP 200", "decode"}) /\ Honest({"HTTP 403"})
  /\ Honest({"HTTP 429"}) /\ Honest({"429", "rpc error"})
<1>1. {"other", "grpc", "timeout", "http_other", "http_403"} \cap (Structural \cup Vantage) = {}
  BY DEF Structural, Vantage
<1>2. Limited({"HTTP 429"}) /\ Limited({"429", "rpc error"})
  BY DEF Limited
<1>3. Honest({}) /\ Honest({"rpc error"}) /\ Honest({"web page", "rpc error"})
      /\ Honest({"not a TLS handshake", "rpc error"})
  BY <1>1, ClassesMet, Neutral
<1>4. Honest({"deadline"}) /\ Honest({"deadline", "rpc error"})
      /\ Honest({"deadline", "HTTP 200", "decode"})
  BY <1>1, ClassesMet, Neutral
<1>5. Honest({"HTTP 200"}) /\ Honest({"HTTP 200", "decode"}) /\ Honest({"HTTP 403"})
  BY <1>1, ClassesMet, Neutral
<1>6. Honest({"HTTP 429"}) /\ Honest({"429", "rpc error"})
  BY <1>2, Neutral
<1> QED BY <1>3, <1>4, <1>5, <1>6

\* What no prober can cause.
Guilty ==
  /\ ~Serves
  /\ form # "unusable" => world.net \in {"fine", "no such name", "closed port"}
  /\ Spoken => world.canary \notin {"429", "silence"}

LEMMA Guilt ==
  ASSUME NEW m, Guilty, Classify(m) \notin Vantage
  PROVE  Honest(m)
BY DEF Guilty, Honest

LEMMA Confession ==
  ASSUME NEW m, \/ world.net = "broken resolver"
                \/ world.net = "silent resolver"
                \/ world.net = "no local route",
         Classify(m) \notin Structural
  PROVE  Honest(m)
BY DEF Honest

\* A transport error's marks, with and without the wrapping of grpc-go.
LEMMA TransportMarks ==
  ASSUME NEW m
  PROVE  Transport(m).marks = IF kind = "grpc" THEN {m, "rpc error"} ELSE {m}
BY DEF Transport

LEMMA TransportClass ==
  ASSUME NEW m
  PROVE  Classify(Transport(m).marks) =
           IF kind = "grpc" THEN Classify({m, "rpc error"}) ELSE Classify({m})
<1>1. CASE kind = "grpc"
  BY <1>1, TransportMarks
<1>2. CASE kind # "grpc"
  BY <1>2, TransportMarks
<1> QED BY <1>1, <1>2

LEMMA TransportClasses ==
  /\ Classify(Transport("NXDOMAIN").marks) = "dns_nxdomain"
  /\ Classify(Transport("connection refused").marks) = "conn_refused"
  /\ Classify(Transport("resolver error").marks) = "dns_failure"
  /\ Classify(Transport("network unreachable").marks) = "vantage_no_route"
  /\ Classify(Transport("certificate").marks) = "tls"
<1>1. /\ Classify({"NXDOMAIN"}) = "dns_nxdomain" /\ Classify({"NXDOMAIN", "rpc error"}) = "dns_nxdomain"
      /\ Classify({"connection refused"}) = "conn_refused"
      /\ Classify({"connection refused", "rpc error"}) = "conn_refused"
      /\ Classify({"resolver error"}) = "dns_failure" /\ Classify({"resolver error", "rpc error"}) = "dns_failure"
      /\ Classify({"network unreachable"}) = "vantage_no_route"
      /\ Classify({"network unreachable", "rpc error"}) = "vantage_no_route"
      /\ Classify({"certificate"}) = "tls" /\ Classify({"certificate", "rpc error"}) = "tls"
  BY ClassesMet, Zenon
<1>2. Classify(Transport("NXDOMAIN").marks) = "dns_nxdomain"
  BY <1>1, TransportClass
<1>3. Classify(Transport("connection refused").marks) = "conn_refused"
  BY <1>1, TransportClass
<1>4. Classify(Transport("resolver error").marks) = "dns_failure"
  BY <1>1, TransportClass
<1>5. Classify(Transport("network unreachable").marks) = "vantage_no_route"
  BY <1>1, TransportClass
<1>6. Classify(Transport("certificate").marks) = "tls"
  BY <1>1, TransportClass
<1> QED BY <1>2, <1>3, <1>4, <1>5, <1>6

LEMMA HonestTransport ==
  /\ world.net = "no such name" => Honest(Transport("NXDOMAIN").marks)
  /\ world.net = "closed port" => Honest(Transport("connection refused").marks)
  /\ world.net = "broken resolver" => Honest(Transport("resolver error").marks)
  /\ world.net = "no local route" => Honest(Transport("network unreachable").marks)
<1>1. {"dns_nxdomain", "conn_refused"} \cap Vantage = {}
  BY DEF Vantage
<1>2. "dns_failure" \notin Structural /\ "vantage_no_route" \notin Structural
  BY DEF Structural
<1>3. world.net \in {"no such name", "closed port"} => Guilty
  BY DEF Guilty, Serves, Spoken
<1>4. ASSUME world.net = "no such name" PROVE Honest(Transport("NXDOMAIN").marks)
  BY <1>1, <1>3, <1>4, TransportClasses, Guilt
<1>5. ASSUME world.net = "closed port" PROVE Honest(Transport("connection refused").marks)
  BY <1>1, <1>3, <1>5, TransportClasses, Guilt
<1>6. ASSUME world.net = "broken resolver" PROVE Honest(Transport("resolver error").marks)
  BY <1>2, <1>6, TransportClasses, Confession
<1>7. ASSUME world.net = "no local route" PROVE Honest(Transport("network unreachable").marks)
  BY <1>2, <1>7, TransportClasses, Confession
<1> QED BY <1>4, <1>5, <1>6, <1>7

LEMMA HonestHttp ==
  ASSUME kind # "grpc", world.net = "fine", world.canary \in Reply, NEW e \in HttpReply(world.canary)
  PROVE  Honest(e.marks)
<1>1. {"not_served_by_provider", "http_404", "gateway_no_backend"} \cap Vantage = {}
  BY DEF Vantage
<1>2. \A m : Status(m).marks = m
  BY DEF Status
<1>3. CASE world.canary = "answer"
  <2>1. e \in {NoError}
    BY <1>3, Replies, Zenon
  <2>2. e.marks = {}
    BY <2>1 DEF NoError
  <2> QED BY <2>2, NeutralMarks, Zenon
<1>4. CASE world.canary = "undecodable"
  <2>1. e.marks = {"HTTP 200"} \/ e.marks = {"HTTP 200", "decode"}
    BY <1>2, <1>4 DEF HttpReply
  <2> QED BY <2>1, NeutralMarks
<1>5. CASE world.canary = "refusal"
  <2>1. e.marks = {"HTTP 403"}
    BY <1>2, <1>5 DEF HttpReply
  <2> QED BY <2>1, NeutralMarks
<1>6. CASE world.canary \in {"retired", "page", "down"}
  <2>1. Guilty
    BY <1>6 DEF Guilty, Serves
  <2>2. \/ e.marks = {"unsupported platform", "HTTP 403"}
        \/ e.marks = {"HTTP 404"}
        \/ e.marks = {"HTTP 502"}
    BY <1>2, <1>6 DEF HttpReply
  <2>3. /\ Classify({"unsupported platform", "HTTP 403"}) = "not_served_by_provider"
        /\ Classify({"HTTP 404"}) = "http_404" /\ Classify({"HTTP 502"}) = "gateway_no_backend"
    BY ClassesMet, Zenon
  <2>4. Classify(e.marks) \in {"not_served_by_provider", "http_404", "gateway_no_backend"}
    BY <2>2, <2>3, Zenon
  <2>5. Classify(e.marks) \notin Vantage
    BY <1>1, <2>4
  <2> QED BY <2>1, <2>5, Guilt
<1>7. CASE world.canary = "429"
  <2>1. e.marks = {"HTTP 429"}
    BY <1>2, <1>7, Replies
  <2> QED BY <2>1, NeutralMarks
<1>8. CASE world.canary = "silence"
  BY <1>8 DEF HttpReply
<1> QED BY <1>3, <1>4, <1>5, <1>6, <1>7, <1>8 DEF Reply

LEMMA HonestGrpc ==
  ASSUME world.net = "fine", world.canary \in Reply, NEW e \in GrpcReply(world.canary)
  PROVE  Honest(e.marks)
<1>1. {"not_served_by_provider", "bad_json"} \cap Vantage = {}
  BY DEF Vantage
<1>2. /\ \A m : Status(m).marks = m
      /\ \A m, c : Rpc(m, c).marks = m \cup {"rpc error"}
  BY DEF Status, Rpc
<1>3. CASE world.canary = "answer"
  <2>1. e \in {NoError}
    BY <1>3, Replies, Zenon
  <2>2. e.marks = {}
    BY <2>1 DEF NoError
  <2> QED BY <2>2, NeutralMarks, Zenon
<1>4. CASE world.canary = "undecodable"
  <2>1. e.marks = {"decode"}
    BY <1>2, <1>4 DEF GrpcReply
  <2>2. Guilty
    BY <1>4 DEF Guilty, Serves
  <2>3. Classify(e.marks) = "bad_json"
    BY <2>1, ClassesMet, Zenon
  <2> QED BY <1>1, <2>2, <2>3, Guilt
<1>5. CASE world.canary \in {"refusal", "down"}
  <2>1. e.marks = {} \cup {"rpc error"}
    BY <1>2, <1>5 DEF GrpcReply
  <2>2. {} \cup {"rpc error"} = {"rpc error"}
    OBVIOUS
  <2> QED BY <2>1, <2>2, NeutralMarks
<1>6. CASE world.canary = "retired"
  <2>1. e.marks = {"unsupported platform"} \cup {"rpc error"}
    BY <1>2, <1>6 DEF GrpcReply
  <2>2. {"unsupported platform"} \cup {"rpc error"} = {"unsupported platform", "rpc error"}
    OBVIOUS
  <2>3. Guilty
    BY <1>6 DEF Guilty, Serves
  <2>4. Classify({"unsupported platform", "rpc error"}) = "not_served_by_provider"
    BY ClassesMet, Zenon
  <2>5. Classify(e.marks) = "not_served_by_provider"
    BY <2>1, <2>2, <2>4, Zenon
  <2> QED BY <1>1, <2>3, <2>5, Guilt
<1>7. CASE world.canary = "page"
  <2>1. e.marks = {"web page"} \cup {"rpc error"}
    BY <1>2, <1>7 DEF GrpcReply
  <2>2. {"web page"} \cup {"rpc error"} = {"web page", "rpc error"}
    OBVIOUS
  <2> QED BY <2>1, <2>2, NeutralMarks
<1>8. CASE world.canary = "429"
  <2>1. e.marks = {"429"} \cup {"rpc error"}
    BY <1>2, <1>8, Replies
  <2>2. {"429"} \cup {"rpc error"} = {"429", "rpc error"}
    OBVIOUS
  <2> QED BY <2>1, <2>2, NeutralMarks
<1>9. CASE world.canary = "silence"
  BY <1>9 DEF GrpcReply
<1> QED BY <1>3, <1>4, <1>5, <1>6, <1>7, <1>8, <1>9 DEF Reply

\* A certificate that no client accepts is not met on the way to an endpoint
\* that is spoken to.
LEMMA HonestCertificate ==
  ASSUME TypeInv, Asking, world.speaks = "bad tls", world.net = "fine"
  PROVE  Honest(Transport("certificate").marks)
<1>1. Classify(Transport("certificate").marks) = "tls"
  BY TransportClasses
<1>2. ~Spoken
  <2>1. form \in {"url", "https", "other scheme", "host:443", "host", "host:port"}
    BY DEF TypeInv, TypeOK, ModesInv, Form
  <2> QED BY <2>1 DEF Spoken
<1>3. Guilty
  BY <1>2 DEF Guilty, Serves
<1>4. "tls" \notin Vantage
  BY DEF Vantage
<1> QED BY <1>1, <1>3, <1>4, Guilt

LEMMA HonestExpired ==
  ASSUME TypeInv, NEW e \in Expired
  PROVE  Honest(e.marks)
<1>1. CASE kind = "grpc"
  BY <1>1, GrpcExpired, NeutralMarks
<1>2. CASE kind # "grpc" /\ world.net = "silent resolver"
  <2>1. e = [marks |-> {"resolver error", "deadline"}, code |-> "none", net |-> TRUE]
    BY <1>2, Zenon DEF Expired
  <2>2. e.marks = {"resolver error", "deadline"}
    BY <2>1
  <2>3. Classify(e.marks) = "dns_failure"
    BY <2>2, ClassesMet, Zenon
  <2>4. Classify(e.marks) \notin Structural
    BY <2>3 DEF Structural
  <2> QED BY <1>2, <2>4, Confession
<1>3. CASE kind # "grpc" /\ world.net # "silent resolver"
  <2>1. \/ e = [marks |-> {"deadline"}, code |-> "none", net |-> TRUE]
        \/ e = Status({"deadline", "HTTP 200", "decode"})
    BY <1>3 DEF Expired
  <2>2. CASE e = [marks |-> {"deadline"}, code |-> "none", net |-> TRUE]
    <3>1. e.marks = {"deadline"}
      BY <2>2
    <3> QED BY <3>1, NeutralMarks, Zenon
  <2>3. CASE e = Status({"deadline", "HTTP 200", "decode"})
    <3>1. e.marks = {"deadline", "HTTP 200", "decode"}
      BY <2>3 DEF Status
    <3> QED BY <3>1, NeutralMarks, Zenon
  <2> QED BY <2>1, <2>2, <2>3
<1> QED BY <1>1, <1>2, <1>3

LEMMA HonestOutcome ==
  ASSUME TypeInv, pc = "canary", NEW e \in Outcome(Asked)
  PROVE  Honest(e.marks)
<1>1. Asking /\ Asked = world.canary /\ world.canary \in Reply /\ world.net \in Net
  BY DEF Asking, Asked, TypeInv, TypeOK, World
<1>2. CASE world.net # "fine"
  <2>1. \/ world.net = "no such name" /\ e = Transport("NXDOMAIN")
        \/ world.net = "closed port" /\ e = Transport("connection refused")
        \/ world.net = "broken resolver" /\ e = Transport("resolver error")
        \/ world.net = "no local route" /\ e = Transport("network unreachable")
    BY <1>1, <1>2 DEF Outcome, Net
  <2> QED BY <2>1, HonestTransport
<1>3. CASE world.net = "fine" /\ kind # "grpc"
  <2>1. \/ world.speaks = "bad tls" /\ e = Transport("certificate")
        \/ e \in HttpReply(world.canary)
    BY <1>1, <1>3 DEF Outcome, Reached
  <2> QED BY <1>1, <1>3, <2>1, HonestCertificate, HonestHttp
<1>4. CASE world.net = "fine" /\ kind = "grpc"
  <2>1. world.speaks \in {"tls", "bad tls", "plain"} /\ Head(modes) \in {"tls", "plain"}
    BY <1>1, FirstMode DEF TypeInv, TypeOK, World
  <2>2. e \in Reached(world.canary)
    BY <1>1, <1>4 DEF Outcome
  <2>3. CASE Head(modes) = world.speaks
    BY <1>1, <1>4, <2>2, <2>3, HonestGrpc DEF Reached
  <2>4. CASE Head(modes) = "tls" /\ world.speaks = "bad tls"
    BY <1>1, <1>4, <2>2, <2>4, HonestCertificate DEF Reached
  <2>5. CASE Head(modes) = "tls" /\ world.speaks = "plain"
    <3>1. e = Rpc(IF world.hello = "not tls" THEN {"not a TLS handshake"} ELSE {}, "Unavailable")
      BY <1>1, <1>4, <2>5, OutOfTouch
    <3>2. CASE world.hello = "not tls"
      <4>1. e.marks = {"not a TLS handshake"} \cup {"rpc error"}
        BY <3>1, <3>2 DEF Rpc
      <4>2. {"not a TLS handshake"} \cup {"rpc error"} = {"not a TLS handshake", "rpc error"}
        OBVIOUS
      <4> QED BY <4>1, <4>2, NeutralMarks, Zenon
    <3>3. CASE world.hello # "not tls"
      <4>1. e.marks = {} \cup {"rpc error"}
        BY <3>1, <3>3 DEF Rpc
      <4>2. {} \cup {"rpc error"} = {"rpc error"}
        OBVIOUS
      <4> QED BY <4>1, <4>2, NeutralMarks, Zenon
    <3> QED BY <3>2, <3>3
  <2>6. CASE Head(modes) = "plain" /\ world.speaks \in {"tls", "bad tls"}
    BY <1>4, <2>2, <2>6 DEF Reached
  <2> QED BY <2>1, <2>3, <2>4, <2>5, <2>6
<1> QED BY <1>2, <1>3, <1>4

\* What the probe keeps of an error is honest.
LEMMA HonestReport ==
  ASSUME TypeInv, KeptHonest, Asking, NEW e \in Error, Answered(e) \/ TimedOut(e)
  PROVE  Honest(Reported(e).marks)
<1>1. CASE kept # NoError /\ "not a TLS handshake" \notin kept.marks
  BY <1>1 DEF Reported, KeptHonest
<1>2. CASE kept = NoError \/ "not a TLS handshake" \in kept.marks
  <2>1. CASE pc = "canary"
    BY <1>2, <2>1, HonestOutcome, HonestExpired DEF Reported, Answered, TimedOut
  <2>2. CASE pc = "fallback"
    <3>1. world.net = "fine" /\ world.canary \in Reply /\ refused \in GrpcReply(world.canary)
      BY <2>2 DEF TypeInv, TypeOK, World, ModesInv
    <3> QED BY <1>2, <2>2, <3>1, HonestGrpc DEF Reported
  <2> QED BY <2>1, <2>2 DEF Asking
<1> QED BY <1>1, <1>2

LEMMA HonestUnparsed ==
  ASSUME TypeInv, form = "unusable", NEW e \in Unparsed
  PROVE  Honest(e.marks)
<1>1. kind = "grpc" => e = Status({"malformed"})
  BY DEF Unparsed
<1>2. kind # "grpc" => e.marks = {"malformed"} \/ e.marks = {}
  BY TransportMarks DEF Unparsed, Status
<1>3. e.marks = {"malformed"} \/ e.marks = {}
  BY <1>1, <1>2 DEF Status
<1>4. Guilty
  BY DEF Guilty, Serves, Spoken
<1>5. Classify({"malformed"}) \notin Vantage
  BY ClassesMet DEF Vantage
<1> QED BY <1>3, <1>4, <1>5, Guilt, NeutralMarks

-----------------------------------------------------------------------------
(* The inductive invariant.                                                 *)

\* The world stays as it is while it is probed.
LEMMA WorldStays ==
  ASSUME UNCHANGED <<kind, form, world>>
  PROVE  /\ Spoken' <=> Spoken
         /\ Serves' <=> Serves
BY DEF Spoken, Serves

LEMMA HonestStays ==
  ASSUME UNCHANGED <<kind, form, world>>, Honest(kept'.marks)
  PROVE  Honest(kept.marks)'
BY WorldStays DEF Honest, Limited

LEMMA InitInv == Init => ProbeInv
<1> SUFFICES ASSUME Init PROVE ProbeInv
  OBVIOUS
<1>1. pc = "parse" /\ ~Asking /\ ~Failed
  BY DEF Init, Asking, Failed
<1> QED BY <1>1 DEF ProbeInv, KeptHonest, OnTheWay, Blamed, Throttled, VerdictIsTrue,
             StructuralIsTrue, VantageBlamed, ThrottledIsSkipped, ChainIDIsKnown

\* Before the probe is over, its properties say nothing.
LEMMA NotOver ==
  ASSUME pc' # "done"
  PROVE  /\ VerdictIsTrue' /\ StructuralIsTrue' /\ VantageBlamed'
         /\ ThrottledIsSkipped' /\ ChainIDIsKnown'
BY DEF VerdictIsTrue, StructuralIsTrue, VantageBlamed, ThrottledIsSkipped, ChainIDIsKnown, Failed

\* An honest failure is classified rightly.
LEMMA HonestFailure ==
  ASSUME UNCHANGED <<kind, form, world>>, kept' \in Error, liveness' = Failure(kept'),
         Honest(kept'.marks)
  PROVE  /\ StructuralIsTrue'
         /\ liveness'.answer = "fail" /\ liveness'.class \in Vantage =>
              world.net \in {"broken resolver", "silent resolver", "no local route"}
<1>1. /\ liveness'.answer = IF Limited(kept'.marks) THEN "skip" ELSE "fail"
      /\ liveness'.class = IF Limited(kept'.marks) THEN "http_429" ELSE Classify(kept'.marks)
  BY FailureIs
<1>2. liveness'.answer = "fail" => ~Limited(kept'.marks) /\ liveness'.class = Classify(kept'.marks)
  BY <1>1
<1>3. StructuralIsTrue'
  BY <1>2, WorldStays DEF StructuralIsTrue, Failed, Honest
<1>4. liveness'.answer = "fail" /\ liveness'.class \in Vantage =>
        world.net \in {"broken resolver", "silent resolver", "no local route"}
  BY <1>2 DEF Honest
<1> QED BY <1>3, <1>4

LEMMA ParseInv ==
  ASSUME TypeInv, ProbeInv, Parse
  PROVE  ProbeInv'
<1>1. kept = NoError /\ UNCHANGED <<kind, form, world, refused, late>>
  BY DEF Parse, TypeInv, ModesInv
<1>2. CASE form = "unusable"
  <2>1. kept' \in Unparsed /\ Judge(Failure(kept'))
    BY <1>2 DEF Parse
  <2>2. kept' \in Error
    BY <2>1, UnparsedTyped DEF TypeInv, TypeOK
  <2>3. pc' = "done" /\ liveness' = Failure(kept') /\ chainID' = "skip"
    BY <2>1, <2>2, JudgedFailure
  <2>4. Honest(kept'.marks)
    BY <1>2, <2>1, HonestUnparsed
  <2>5. liveness'.answer # "pass"
    BY <2>2, <2>3, FailureIs
  <2>6. ~Spoken' /\ ~Serves'
    BY <1>1, <1>2 DEF Spoken, Serves
  <2>7. VerdictIsTrue'
    BY <2>5, <2>6 DEF VerdictIsTrue
  <2>8. StructuralIsTrue'
    BY <1>1, <2>2, <2>3, <2>4, HonestFailure
  <2>9. VantageBlamed'
    BY <1>1, <1>2, <2>2, <2>3, <2>4, HonestFailure DEF VantageBlamed, Failed, Vantage
  <2>10. ThrottledIsSkipped'
    BY <2>6 DEF ThrottledIsSkipped
  <2>11. ChainIDIsKnown'
    BY <2>3 DEF ChainIDIsKnown
  <2>12. ~Asking'
    BY <2>3 DEF Asking
  <2>13. KeptHonest' /\ OnTheWay' /\ Blamed' /\ Throttled'
    BY <2>12 DEF KeptHonest, OnTheWay, Blamed, Throttled
  <2> QED BY <2>7, <2>8, <2>9, <2>10, <2>11, <2>13 DEF ProbeInv
<1>3. CASE form # "unusable"
  <2>1. modes' = Modes(form) /\ pc' = "canary" /\ kept' = NoError
    BY <1>1, <1>3 DEF Parse
  <2>2. TypeInv' /\ Asking'
    BY <2>1, TypeParse DEF Asking
  <2>3. Modes(form)' = Modes(form)
    BY <1>1
  <2>4. Spoken' => \/ Head(modes') = world'.speaks
                   \/ world'.speaks = "plain" /\ modes' = <<"tls", "plain">>
    <3>1. Head(<<"tls">>) = "tls" /\ Head(<<"plain">>) = "plain" /\ Head(<<"tls", "plain">>) = "tls"
      OBVIOUS
    <3>2. CASE form = "host:port"
      <4>1. modes' = <<"tls", "plain">>
        BY <2>1, <3>2 DEF Modes
      <4>2. world.speaks \in {"tls", "bad tls", "plain"}
        BY DEF TypeInv, TypeOK, World
      <4>3. Head(modes') = "tls"
        BY <3>1, <4>1
      <4> QED BY <1>1, <3>2, <4>1, <4>2, <4>3 DEF Spoken
    <3>3. CASE form = "other scheme"
      <4>1. modes' = <<"plain">>
        BY <2>1, <3>3 DEF Modes
      <4>2. Head(modes') = "plain"
        BY <3>1, <4>1
      <4> QED BY <1>1, <3>3, <4>2 DEF Spoken
    <3>4. CASE form \in {"url", "https", "host:443", "host"}
      <4>1. modes' = <<"tls">>
        BY <2>1, <3>4 DEF Modes
      <4>2. Head(modes') = "tls"
        BY <3>1, <4>1
      <4> QED BY <1>1, <3>4, <4>2 DEF Spoken
    <3> QED BY <1>3, <3>2, <3>3, <3>4 DEF TypeInv, TypeOK, Form
  <2>5. KeptHonest'
    BY <2>1 DEF KeptHonest
  <2>6. OnTheWay'
    BY <2>4 DEF OnTheWay, Serves
  <2>7. Blamed'
    BY <2>1 DEF Blamed
  <2>8. Throttled'
    BY <2>1, <2>4 DEF Throttled
  <2> QED BY <2>1, <2>5, <2>6, <2>7, <2>8, NotOver DEF ProbeInv
<1> QED BY <1>2, <1>3

LEMMA PassInv ==
  ASSUME TypeInv, ProbeInv, Asking, UNCHANGED <<kind, form, world>>,
         NEW e \in Error, Answered(e) \/ TimedOut(e), Passes(e)
  PROVE  ProbeInv'
<1>1. e = NoError /\ Judge(Success(pc = "fallback"))
  BY DEF Passes
<1>2. pc' = "done" /\ liveness' = Success(pc = "fallback")
  BY <1>1 DEF Judge
<1>3. (pc = "fallback") \in BOOLEAN
  OBVIOUS
<1>4. liveness'.answer = "pass" /\ (ChainIDSkipped(Success(pc = "fallback")) <=> pc = "fallback")
  BY <1>2, <1>3, SuccessIs
<1>5. pc = "fallback" => chainID' = "skip"
  BY <1>1, <1>4 DEF Judge
<1>6. Serves /\ (pc = "canary" => world.canary = "answer")
  BY <1>1, PassAnswered, PassServes
<1>7. Serves'
  BY <1>6, WorldStays
<1>8. VerdictIsTrue'
  BY <1>4, <1>7 DEF VerdictIsTrue
<1>9. StructuralIsTrue' /\ VantageBlamed'
  BY <1>4 DEF StructuralIsTrue, VantageBlamed, Failed
<1>10. ThrottledIsSkipped'
  BY <1>7 DEF ThrottledIsSkipped, Serves
<1>11. ChainIDIsKnown'
  BY <1>4, <1>5, <1>6 DEF ChainIDIsKnown, Asking
<1>12. ~Asking'
  BY <1>2 DEF Asking
<1>13. KeptHonest' /\ OnTheWay' /\ Blamed' /\ Throttled'
  BY <1>12 DEF KeptHonest, OnTheWay, Blamed, Throttled
<1> QED BY <1>8, <1>9, <1>10, <1>11, <1>13 DEF ProbeInv

LEMMA FallBackInv ==
  ASSUME TypeInv, ProbeInv, Asking, UNCHANGED <<kind, form, world>>,
         NEW e \in Error, Answered(e) \/ TimedOut(e), FallsBack(e)
  PROVE  ProbeInv'
<1>1. pc' = "fallback" /\ UNCHANGED <<modes, kept>> /\ pc = "canary"
  BY DEF FallsBack
<1>2. /\ world.net = "fine" /\ Head(modes) = world.speaks
      /\ world.canary \in {"refusal", "retired"}
  BY RefusalIs DEF FallsBack, Answered, TimedOut
<1>3. KeptHonest'
  <2>1. kept = NoError \/ Honest(kept'.marks)
    BY <1>1 DEF ProbeInv, KeptHonest
  <2> QED BY <1>1, <2>1, HonestStays DEF KeptHonest
<1>4. OnTheWay'
  BY <1>1, <1>2 DEF OnTheWay
<1>5. Blamed'
  BY <1>2 DEF Blamed
<1>6. Throttled'
  BY <1>2 DEF Throttled
<1> QED BY <1>1, <1>3, <1>4, <1>5, <1>6, NotOver DEF ProbeInv

\* While the prober's own network is broken, its errors say so.
LEMMA BlamedOutcome ==
  ASSUME TypeInv, Asking, ~late', world.net \in {"broken resolver", "no local route"},
         NEW e \in Error, Answered(e) \/ TimedOut(e)
  PROVE  /\ ~Limited(e.marks) /\ Classify(e.marks) \in Vantage
         /\ "not a TLS handshake" \notin e.marks /\ e # NoError /\ ~late /\ pc = "canary"
<1>1. Outcome(Asked) = {Transport(IF world.net = "broken resolver" THEN "resolver error"
                                  ELSE "network unreachable")}
  BY DEF Outcome
<1>2. e = Transport(IF world.net = "broken resolver" THEN "resolver error" ELSE "network unreachable")
  BY <1>1 DEF Answered, TimedOut
<1>3. \/ e.marks = {"resolver error"} \/ e.marks = {"resolver error", "rpc error"}
      \/ e.marks = {"network unreachable"} \/ e.marks = {"network unreachable", "rpc error"}
  BY <1>2, TransportMarks
<1>4. Classify(e.marks) \in Vantage
  BY <1>2, TransportClasses DEF Vantage
<1>5. ~Limited(e.marks) /\ "not a TLS handshake" \notin e.marks
  BY <1>3 DEF Limited
<1>6. e # NoError
  <2>1. e.marks # {}
    BY <1>3
  <2>2. NoError.marks = {}
    BY DEF NoError
  <2> QED BY <2>1, <2>2
<1>7. ~late
  BY DEF Answered, TimedOut, TypeInv, TypeOK
<1>8. pc = "canary"
  BY DEF Asking, TypeInv, ModesInv
<1> QED BY <1>4, <1>5, <1>6, <1>7, <1>8

\* A server that throttles is heard in its own transport.
LEMMA ThrottledOutcome ==
  ASSUME TypeInv, Asking, ~late', Spoken, world.canary = "429", Head(modes) = world.speaks,
         NEW e \in Error, Answered(e) \/ TimedOut(e)
  PROVE  Limited(e.marks) /\ "not a TLS handshake" \notin e.marks /\ ~late
<1>1. world.net = "fine" /\ pc = "canary" /\ Asked = "429"
  BY DEF Spoken, Asking, Asked, TypeInv, ModesInv
<1>2. Outcome(Asked) = {IF kind = "grpc" THEN Rpc({"429"}, "Unavailable") ELSE Status({"HTTP 429"})}
  BY <1>1, InTouch, Replies
<1>3. e = IF kind = "grpc" THEN Rpc({"429"}, "Unavailable") ELSE Status({"HTTP 429"})
  BY <1>2 DEF Answered, TimedOut
<1>4. e.marks = {"429"} \cup {"rpc error"} \/ e.marks = {"HTTP 429"}
  BY <1>3 DEF Rpc, Status
<1>5. ~late
  BY DEF Answered, TimedOut, TypeInv, TypeOK
<1> QED BY <1>4, <1>5 DEF Limited

LEMMA GoOnInv ==
  ASSUME TypeInv, ProbeInv, Asking, UNCHANGED <<kind, form, world>>,
         NEW e \in Error, Answered(e) \/ TimedOut(e), GoesOn(e)
  PROVE  ProbeInv'
<1>1. /\ kind = "grpc" /\ form = "host:port" /\ kept = NoError /\ Head(modes) = "tls"
      /\ modes = Modes(form)
  BY TwoModes DEF GoesOn
<1>2. pc = "canary" /\ pc' = "canary" /\ modes' = <<"plain">> /\ kept'.marks = e.marks
  BY <1>1 DEF GoesOn, Reported
<1>3. Head(modes') = "plain"
  BY <1>2
<1>4. KeptHonest'
  <2>1. Honest(Reported(e).marks)
    BY HonestReport DEF ProbeInv
  <2>2. Honest(kept'.marks)
    BY <2>1 DEF GoesOn
  <2> QED BY <2>2, HonestStays DEF KeptHonest
<1>5. OnTheWay'
  <2>1. Serves /\ ~late' => world.speaks = "plain"
    BY ServedOn DEF ProbeInv, GoesOn
  <2> QED BY <1>3, <2>1, WorldStays DEF OnTheWay
<1>6. Blamed'
  BY <1>2, BlamedOutcome DEF Blamed, Limited
<1>7. Throttled'
  <2> SUFFICES ASSUME ~late', Spoken, world.canary = "429",
                      ~(world.speaks = "plain" /\ world.hello = "hangs up")
               PROVE  \/ world.speaks = "tls" /\ Limited(e.marks) /\ "not a TLS handshake" \notin e.marks
                      \/ world.speaks = "plain" /\ "not a TLS handshake" \in e.marks
    BY <1>1, <1>2, WorldStays DEF Throttled, Limited
  <2>1. CASE Head(modes) = world.speaks
    BY <1>1, <2>1, ThrottledOutcome
  <2>2. CASE Head(modes) # world.speaks
    <3>1. world.speaks = "plain" /\ world.net = "fine"
      BY <1>1, <2>2, SpokenMode DEF Spoken
    <3>2. world.hello = "not tls"
      BY <3>1 DEF TypeInv, TypeOK, World
    <3>3. Outcome(Asked) = {Rpc({"not a TLS handshake"}, "Unavailable")}
      BY <1>1, <3>1, <3>2, OutOfTouch
    <3>4. e = Rpc({"not a TLS handshake"}, "Unavailable")
      BY <3>3 DEF Answered, TimedOut
    <3> QED BY <3>1, <3>4 DEF Rpc
  <2> QED BY <2>1, <2>2
<1> QED BY <1>2, <1>4, <1>5, <1>6, <1>7, NotOver DEF ProbeInv

LEMMA FailInv ==
  ASSUME TypeInv, ProbeInv, Asking, UNCHANGED <<kind, form, world>>,
         NEW e \in Error, Answered(e) \/ TimedOut(e), Fails(e)
  PROVE  ProbeInv'
<1>1. /\ e # NoError /\ kept' \in Error /\ kept'.marks = Reported(e).marks
      /\ liveness' = Failure(kept') /\ pc' = "done" /\ chainID' = "skip"
  BY DEF Fails
<1>2. /\ liveness'.answer = IF Limited(kept'.marks) THEN "skip" ELSE "fail"
      /\ liveness'.class = IF Limited(kept'.marks) THEN "http_429" ELSE Classify(kept'.marks)
  BY <1>1, FailureIs
<1>3. Honest(kept'.marks)
  <2>1. Honest(Reported(e).marks)
    BY HonestReport DEF ProbeInv
  <2> QED BY <1>1, <2>1
<1>4. VerdictIsTrue'
  <2>1. ~(Serves /\ ~late')
    BY ServedOn DEF ProbeInv
  <2> QED BY <1>2, <2>1, WorldStays DEF VerdictIsTrue
<1>5. StructuralIsTrue'
  BY <1>1, <1>3, HonestFailure
<1>6. VantageBlamed'
  <2>1. liveness'.answer = "fail" /\ liveness'.class \in Vantage =>
          world.net \in {"broken resolver", "silent resolver", "no local route"}
    BY <1>1, <1>3, HonestFailure
  <2>2. ASSUME ~late', world.net \in {"broken resolver", "no local route"}
        PROVE  liveness'.class \in Vantage
    <3>1. /\ ~Limited(e.marks) /\ Classify(e.marks) \in Vantage /\ ~late /\ pc = "canary"
      BY <2>2, BlamedOutcome
    <3>2. kept = NoError \/ (~Limited(kept.marks) /\ Classify(kept.marks) \in Vantage
                             /\ "not a TLS handshake" \notin kept.marks)
      BY <2>2, <3>1 DEF ProbeInv, Blamed
    <3>3. ~Limited(Reported(e).marks) /\ Classify(Reported(e).marks) \in Vantage
      BY <3>1, <3>2 DEF Reported
    <3> QED BY <1>1, <1>2, <3>3
  <2> QED BY <2>1, <2>2 DEF VantageBlamed, Failed, Vantage
<1>7. ThrottledIsSkipped'
  <2> SUFFICES ASSUME ~late', Spoken, world.canary = "429",
                      ~(form = "host:port" /\ world.speaks = "plain" /\ world.hello = "hangs up")
               PROVE  Limited(Reported(e).marks)
    BY <1>1, <1>2, WorldStays DEF ThrottledIsSkipped
  <2>1. pc = "canary" /\ ~late
    BY DEF Asking, TypeInv, TypeOK, ModesInv, Answered, TimedOut
  <2>2. \/ kept = NoError /\ (Head(modes) = world.speaks \/ world.speaks = "plain")
        \/ world.speaks = "tls" /\ Limited(kept.marks) /\ "not a TLS handshake" \notin kept.marks
        \/ world.speaks = "plain" /\ "not a TLS handshake" \in kept.marks
    BY <2>1 DEF ProbeInv, Throttled
  <2>3. CASE world.speaks = "tls" /\ Limited(kept.marks) /\ "not a TLS handshake" \notin kept.marks
    <3>1. kept # NoError
      <4>1. NoError.marks = {}
        BY DEF NoError
      <4>2. ~Limited({})
        BY DEF Limited
      <4> QED BY <2>3, <4>1, <4>2
    <3> QED BY <2>3, <3>1 DEF Reported
  <2>4. CASE Head(modes) = world.speaks /\ (kept = NoError \/ "not a TLS handshake" \in kept.marks)
    <3>1. Limited(e.marks)
      BY <2>4, ThrottledOutcome
    <3> QED BY <2>1, <2>4, <3>1 DEF Reported
  <2>5. CASE kept = NoError /\ world.speaks = "plain" /\ Head(modes) # world.speaks
    <3>1. modes = Modes(form)
      BY <2>5 DEF TypeInv, ModesInv, NoError
    <3>2. kind = "grpc" /\ modes = <<"tls", "plain">> /\ Head(modes) = "tls"
      BY <2>5, <3>1, SpokenMode
    <3>3. world.net = "fine"
      BY DEF Spoken
    <3>4. e.code = "Unavailable"
      <4> DEFINE m == IF world.hello = "not tls" THEN {"not a TLS handshake"} ELSE {}
      <4>1. Outcome(Asked) = {Rpc(m, "Unavailable")}
        BY <2>5, <3>2, <3>3, OutOfTouch
      <4> HIDE DEF m
      <4>2. e = Rpc(m, "Unavailable")
        BY <4>1 DEF Answered, TimedOut
      <4> QED BY <4>2 DEF Rpc
    <3> QED BY <2>1, <3>2, <3>4 DEF Fails
  <2>6. CASE world.speaks = "plain" /\ "not a TLS handshake" \in kept.marks
    <3>1. kept # NoError
      <4>1. NoError.marks = {}
        BY DEF NoError
      <4> QED BY <2>6, <4>1
    <3>2. modes = <<"plain">>
      BY <3>1 DEF TypeInv, ModesInv
    <3> QED BY <2>4, <2>6, <3>2, FirstMode
  <2> QED BY <2>2, <2>3, <2>4, <2>5, <2>6
<1>8. ChainIDIsKnown'
  BY <1>1 DEF ChainIDIsKnown
<1>9. ~Asking'
  BY <1>1 DEF Asking
<1>10. KeptHonest' /\ OnTheWay' /\ Blamed' /\ Throttled'
  BY <1>9 DEF KeptHonest, OnTheWay, Blamed, Throttled
<1> QED BY <1>4, <1>5, <1>6, <1>7, <1>8, <1>10 DEF ProbeInv

LEMMA StepInv == TypeInv /\ ProbeInv /\ [Next]_vars => ProbeInv'
<1> SUFFICES ASSUME TypeInv, ProbeInv, [Next]_vars PROVE ProbeInv'
  OBVIOUS
<1>1. CASE UNCHANGED vars
  <2>1. UNCHANGED <<kind, form, world>> /\ UNCHANGED <<pc, modes, kept, late, liveness, chainID>>
    BY <1>1 DEF vars
  <2>2. KeptHonest' /\ OnTheWay' /\ Blamed' /\ Throttled'
    BY <2>1, WorldStays DEF ProbeInv, KeptHonest, OnTheWay, Blamed, Throttled, Asking, Honest, Limited
  <2>3. VerdictIsTrue' /\ StructuralIsTrue' /\ VantageBlamed'
    BY <2>1, WorldStays DEF ProbeInv, VerdictIsTrue, StructuralIsTrue, VantageBlamed, Failed
  <2>4. ThrottledIsSkipped' /\ ChainIDIsKnown'
    BY <2>1, WorldStays DEF ProbeInv, ThrottledIsSkipped, ChainIDIsKnown
  <2> QED BY <2>2, <2>3, <2>4 DEF ProbeInv
<1>2. CASE Parse
  BY <1>2, ParseInv
<1>3. CASE /\ Asking /\ UNCHANGED <<kind, form, world>>
           /\ \E e \in Error : /\ Answered(e) \/ TimedOut(e)
                               /\ Passes(e) \/ FallsBack(e) \/ GoesOn(e) \/ Fails(e)
  BY <1>3, PassInv, FallBackInv, GoOnInv, FailInv
<1> QED BY <1>1, <1>2, <1>3, Steps

LEMMA InvHolds == Spec => []ProbeInv
BY InitInv, StepInv, TypeHolds, PTL DEF Spec

-----------------------------------------------------------------------------
(* The properties.                                                          *)

\* applyLiveness with ProbeGRPCEndpoint: only an endpoint that serves passes,
\* and every one that does passes unless the deadline cut it off.
THEOREM VerdictsTrue == Spec => []VerdictIsTrue
<1>1. ProbeInv => VerdictIsTrue
  BY DEF ProbeInv
<1> QED BY <1>1, InvHolds, PTL

\* classify.go: a structural class is never the prober's own doing.
THEOREM StructuralTrue == Spec => []StructuralIsTrue
<1>1. ProbeInv => StructuralIsTrue
  BY DEF ProbeInv
<1> QED BY <1>1, InvHolds, PTL

\* classify.go: the vantage classes name the prober's own resolver or route,
\* and are what a probe reports that these have stopped.
THEOREM VantageTrue == Spec => []VantageBlamed
<1>1. ProbeInv => VantageBlamed
  BY DEF ProbeInv
<1> QED BY <1>1, InvHolds, PTL

\* applyLiveness: who asks the prober to slow down is skipped, not failed.
THEOREM ThrottledSkipped == Spec => []ThrottledIsSkipped
<1>1. ProbeInv => ThrottledIsSkipped
  BY DEF ProbeInv
<1> QED BY <1>1, InvHolds, PTL

\* The chain-ID checks compare nothing that the endpoint has not said.
THEOREM ChainIDKnown == Spec => []ChainIDIsKnown
<1>1. ProbeInv => ChainIDIsKnown
  BY DEF ProbeInv
<1> QED BY <1>1, InvHolds, PTL
=============================================================================
