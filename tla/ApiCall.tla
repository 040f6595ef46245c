------------------------------ MODULE ApiCall ------------------------------
(***************************************************************************)
(* One JSON request to the API (client.go, doJSON): how an answer is       *)
(* classified, and when the request is sent again.  Time is counted in     *)
(* units of a Duration, of which Second make a second.                     *)
(***************************************************************************)
EXTENDS Integers

CONSTANTS
  Second,
  Width,           \* a Duration has this many bits
  MaxAttempts, MaxWait, MaxTotal, \* maxRateLimitAttempts, ...Wait, ...Total
  Backoff,         \* rateLimitBackoffBase
  Asks             \* what Retry-After may say, in seconds

Silent == -1       \* no Retry-After, or one that does not parse

ASSUME ApiAssumption ==
  /\ {Second, Width, MaxAttempts, MaxWait, MaxTotal, Backoff} \subseteq Nat \ {0}
  /\ Asks \subseteq Nat \cup {Silent}

VARIABLE call  \* attempt, totalWait; asked: what the last answer asked for; slept: the wait since

Wrapped(d) == ((d + 2 ^ (Width - 1)) % 2 ^ Width) - 2 ^ (Width - 1)
Representable(seconds) == Wrapped(seconds * Second) = seconds * Second

capRateLimitWait(wait) == IF wait > MaxWait THEN MaxWait ELSE IF wait < 0 THEN 0 ELSE wait

parseRetryAfter(seconds) == Wrapped(seconds * Second)

(* A mutant of retryWait: the seconds asked for are taken for units.       *)
retryWaitUnits(seconds, attempt) ==
  capRateLimitWait(IF seconds # Silent THEN seconds ELSE Backoff * 2 ^ attempt)

retryWait(seconds, attempt) ==
  capRateLimitWait(IF seconds # Silent THEN parseRetryAfter(seconds) ELSE Backoff * 2 ^ attempt)

(* Answers.  "lost" is a connection that fails, before or after the server *)
(* has acted; "garbled" a success whose body does not decode; "refused"    *)
(* any other error: of the API, of a proxy (a Cloudflare challenge, a 429  *)
(* that is not JSON) or of the client itself.                              *)
Final == {"ok", "garbled", "lost", "refused"}
Acts(answer) == CASE answer \in {"ok", "garbled"} -> {TRUE}
                  [] answer = "lost" -> BOOLEAN
                  [] OTHER -> {FALSE}

(* A mutant of Resends: the request is sent again after a connection that  *)
(* failed, too.                                                            *)
ResendsLost(answer) == answer \in {"limited", "lost"}

(* The answers after which doJSON sends the same request once more.        *)
Resends(answer) == answer = "limited"

NoCall == [attempt |-> 0, totalWait |-> 0, asked |-> Silent, slept |-> 0]
callStart == call' = NoCall
callAgain == call' = [call EXCEPT !.asked = Silent, !.slept = 0]

(* 429 with a code that means a rate limit: again after a wait, while      *)
(* attempts and time are left.                                             *)
MayRetry(seconds) ==
  /\ call.attempt < MaxAttempts - 1
  /\ call.totalWait + retryWait(seconds, call.attempt) <= MaxTotal

Retry(seconds) ==
  LET wait == retryWait(seconds, call.attempt) IN
  call' = [attempt |-> call.attempt + 1, totalWait |-> call.totalWait + wait,
           asked |-> seconds, slept |-> wait]
=============================================================================
