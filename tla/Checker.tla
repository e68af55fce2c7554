------------------------------ MODULE Checker ------------------------------
(***************************************************************************)
(* One batch of outbound checks (services/checker.ts, run by the           *)
(* Promise.all of cron.ts): an HTTP request with its optional digest       *)
(* retry and body assertion, a DNS-over-HTTPS query, a ping.  Every check  *)
(* has one AbortController and one timer for everything it waits for.      *)
(*                                                                         *)
(* The server may do anything: never answer, answer late, send its body    *)
(* drop by drop or without end, fail at any point.  Time is counted from   *)
(* the start of the batch; the event loop runs a timer that is due, and    *)
(* rejects the wait it aborts, before more time passes.                    *)
(***************************************************************************)
EXTENDS Integers

CONSTANTS
  Checks,      \* the checks of the batch
  Timeouts,    \* values monitor.timeout may have
  MaxDeadline, \* MAX_CHECK_DEADLINE_MS, in ticks
  BodyLimit,   \* MAX_JSON_RESPONSE_BYTES and MAX_DNS_RESPONSE_BYTES, in chunks
  LeaseLeft    \* time until the lease renewed before the batch runs out

ASSUME CheckerAssumption ==
  /\ Timeouts \subseteq Int
  /\ MaxDeadline \in Nat \ {0} /\ BodyLimit \in Nat
  /\ LeaseLeft \in Nat /\ MaxDeadline < LeaseLeft

VARIABLES
  elapsed,   \* time since the batch began
  asked,     \* each check's monitor: kind, timeout, digest, assert
  aborted,   \* the checks whose controller was aborted
  wait,      \* what each check awaits, "done" when it returned
  received,  \* chunks of the body read so far
  verdict    \* the status each check returned

checkVars == <<elapsed, asked, aborted, wait, received, verdict>>

\* The status line, and what the body says: for HTTP the JSON query finds the
\* value expected, another value, nothing, or no JSON; for DNS the answer has
\* the address expected, other or no addresses, an error code, or no sense.
Heads == {"expected", "other", "challenge"}
Bodies == {"match", "mismatch", "missing", "broken"}

\* authType digest is for HTTP only; jsonPath alone asserts presence, with
\* expectedValue (for DNS dnsExpectedIp) equality; a ping asserts nothing.
Monitor ==
  {m \in [kind: {"http", "dns", "ping"}, timeout: Timeouts, digest: {0, 1},
          assert: {"no", "presence", "value"}] :
    /\ m.digest = 1 => m.kind = "http"
    /\ m.kind = "ping" => m.assert = "no"
    /\ m.kind = "dns" => m.assert # "presence"}

CheckTypeOK ==
  /\ elapsed \in 0..(MaxDeadline + 1)
  /\ asked \in [Checks -> Monitor]
  /\ aborted \subseteq Checks
  /\ wait \in [Checks -> {"fetch", "digest", "body", "done"}]
  /\ received \in [Checks -> 0..(BodyLimit + 1)]
  /\ verdict \in [Checks -> {"none", "up", "down"}]

CheckInit ==
  /\ elapsed = 0
  /\ asked \in [Checks -> Monitor]
  /\ aborted = {}
  /\ wait = [k \in Checks |-> "fetch"]
  /\ received = [k \in Checks |-> 0]
  /\ verdict = [k \in Checks |-> "none"]

-----------------------------------------------------------------------------
(* Time.                                                                   *)

\* checkTimeoutSeconds.
Deadline(k) ==
  IF asked[k].timeout < 1 THEN 1
  ELSE IF asked[k].timeout > MaxDeadline THEN MaxDeadline ELSE asked[k].timeout

\* Mutant: the digest retry is sent without the signal.
FirstRequestAborts(k) == wait[k] \in {"fetch", "body"}

\* The awaits that end when the controller aborts: all of them.
Aborts(k) == wait[k] \in {"fetch", "digest", "body"}

TimerDue(k) == wait[k] # "done" /\ k \notin aborted /\ elapsed >= Deadline(k)
RejectionDue(k) == k \in aborted /\ Aborts(k)

PassTime ==
  /\ elapsed <= MaxDeadline
  /\ \A k \in Checks : ~TimerDue(k) /\ ~RejectionDue(k)
  /\ elapsed' = elapsed + 1
  /\ UNCHANGED <<asked, aborted, wait, received, verdict>>

\* setTimeout(() => controller.abort(), ...).
TimerFiresFor(k) ==
  /\ TimerDue(k)
  /\ aborted' = aborted \cup {k}
  /\ UNCHANGED <<elapsed, asked, wait, received, verdict>>

\* The check returns; finally clears its timer.
Return(k, status) ==
  /\ wait' = [wait EXCEPT ![k] = "done"]
  /\ verdict' = [verdict EXCEPT ![k] = status]

\* The abort, or an error of the connection, reaches the catch clause, even
\* from within the digest retry and the reading of the body.
Reject(k) ==
  /\ RejectionDue(k)
  /\ Return(k, "down")
  /\ UNCHANGED <<elapsed, asked, aborted, received>>

ConnectionFails(k) ==
  /\ wait[k] # "done"
  /\ Return(k, "down")
  /\ UNCHANGED <<elapsed, asked, aborted, received>>

-----------------------------------------------------------------------------
(* What the server sends, and what the check makes of it.                  *)

Await(k, place) == wait' = [wait EXCEPT ![k] = place] /\ UNCHANGED verdict

\* checkHttp after its first request.
AfterHttpHead(k, head) ==
  IF asked[k].digest = 1 /\ head = "challenge" THEN Await(k, "digest")
  ELSE IF head # "expected" THEN Return(k, "down")
  ELSE IF asked[k].assert # "no" THEN Await(k, "body")
  ELSE Return(k, "up")

\* checkDns: a resolver that answers at all has its body read.
AfterDnsHead(k, head) ==
  IF head = "expected" THEN Await(k, "body") ELSE Return(k, "down")

Headers(k, head) ==
  /\ wait[k] = "fetch"
  /\ CASE asked[k].kind = "http" -> AfterHttpHead(k, head)
       [] asked[k].kind = "dns"  -> AfterDnsHead(k, head)
       [] asked[k].kind = "ping" -> Return(k, "up")
  /\ UNCHANGED <<elapsed, asked, aborted, received>>

\* The port of a ping is open, although what answers is not HTTP.
ProtocolMismatch(k) ==
  /\ wait[k] = "fetch" /\ asked[k].kind = "ping"
  /\ k \notin aborted
  /\ Return(k, "up")
  /\ UNCHANGED <<elapsed, asked, aborted, received>>

\* doDigestAuth: the answer to the second request settles the check.
DigestAnswer(k, head) ==
  /\ wait[k] = "digest"
  /\ Return(k, IF head = "expected" THEN "up" ELSE "down")
  /\ UNCHANGED <<elapsed, asked, aborted, received>>

\* readArrayBufferWithLimit: another chunk, or one too many.
Chunk(k) ==
  /\ wait[k] = "body"
  /\ k \notin aborted
  /\ received' = [received EXCEPT ![k] = @ + 1]
  /\ IF received[k] + 1 > BodyLimit
       THEN Return(k, "down")
       ELSE UNCHANGED <<wait, verdict>>
  /\ UNCHANGED <<elapsed, asked, aborted>>

\* Found, and the value expected where one is.
Confirms(k, body) ==
  body = "match" \/ (body = "mismatch" /\ asked[k].assert # "value")

BodyEnds(k, body) ==
  /\ wait[k] = "body"
  /\ k \notin aborted
  /\ Return(k, IF Confirms(k, body) THEN "up" ELSE "down")
  /\ UNCHANGED <<elapsed, asked, aborted, received>>

CheckNext ==
  \/ PassTime
  \/ \E k \in Checks :
       \/ TimerFiresFor(k) \/ Reject(k) \/ ConnectionFails(k)
       \/ ProtocolMismatch(k) \/ Chunk(k)
       \/ \E head \in Heads : Headers(k, head) \/ DigestAnswer(k, head)
       \/ \E body \in Bodies : BodyEnds(k, body)

CheckSpec == CheckInit /\ [][CheckNext]_checkVars

-----------------------------------------------------------------------------
(* Properties.                                                             *)

\* No check waits past its own deadline, at most MAX_CHECK_DEADLINE_MS, so a
\* batch ends inside the lease renewed before it, although a check may make
\* two requests and read an endless body (checker.ts 34-42, 344-506;
\* docs/ARCHITECTURE.md 80).
EndsByDeadline ==
  \A k \in Checks : wait[k] # "done" => elapsed <= Deadline(k) /\ elapsed < LeaseLeft

=============================================================================
