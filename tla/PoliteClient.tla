---------------------------- MODULE PoliteClient ----------------------------
(***************************************************************************)
(* The HTTP client of the dump service (polite_http.rs): the requests of   *)
(* all clones of the client keep a minimum gap, and a 429 or 503 is waited *)
(* out as long as the server asks, within a cap and a number of retries.   *)
(*                                                                         *)
(* One GET per caller.  The gap is slept while the lock on last_request is *)
(* held, the Retry-After without it.  Time is kept as what is left of each *)
(* sleep, so that it needs no horizon.  The server is external: it         *)
(* answers, throttles with or without a hint, or the request fails.        *)
(***************************************************************************)
EXTENDS Naturals, FiniteSets

CONSTANTS Caller,             \* GETs under way at the same time
          MinGap,             \* min_gap, in ticks
          MaxRetryAfter,      \* max_retry_after
          MaxThrottleRetries, \* max_throttle_retries
          Backoff,            \* the first default backoff
          Hint,               \* Retry-After values a server may send
          None                \* no hint; nobody

ASSUME CallersAreFinite == IsFiniteSet(Caller) /\ None \notin Caller /\ None \notin Nat
ASSUME PoliteNat == /\ MinGap \in Nat /\ MaxRetryAfter \in Nat /\ MaxThrottleRetries \in Nat
                    /\ Backoff \in Nat \ {0} /\ Hint \subseteq Nat

VARIABLES recent,     \* what is left of the gap after the last admitted request
          holder,     \* who holds the lock on last_request
          pc,         \* where each GET stands
          left,       \* what is left of its sleep
          owed,       \* what is left of the time the server asked it to wait
          throttled   \* its throttled attempts

vars == <<recent, holder, pc, left, owed, throttled>>

Init ==
  /\ recent = 0 /\ holder = None
  /\ pc = [c \in Caller |-> "lock"]
  /\ left = [c \in Caller |-> 0]
  /\ owed = [c \in Caller |-> 0]
  /\ throttled = [c \in Caller |-> 0]

Goto(c, where) == pc' = [pc EXCEPT ![c] = where]

Least(a, b) == IF a < b THEN a ELSE b
Less(n) == IF n > 0 THEN n - 1 ELSE 0

-----------------------------------------------------------------------------
(* wait_for_polite_gap.                                                    *)

\* Mutant: the lock is released while the caller sleeps.
LockBriefly(c) ==
  /\ pc[c] = "lock" /\ holder = None
  /\ left' = [left EXCEPT ![c] = recent]
  /\ Goto(c, "gap")
  /\ UNCHANGED <<recent, holder, owed, throttled>>

Lock(c) ==
  /\ pc[c] = "lock" /\ holder = None
  /\ holder' = c
  /\ left' = [left EXCEPT ![c] = recent]
  /\ Goto(c, "gap")
  /\ UNCHANGED <<recent, owed, throttled>>

Admit(c) ==
  /\ pc[c] = "gap" /\ left[c] = 0
  /\ recent' = MinGap
  /\ holder' = None
  /\ Goto(c, "request")
  /\ UNCHANGED <<left, owed, throttled>>

-----------------------------------------------------------------------------
(* get.                                                                    *)

\* Mutant: the default backoff whatever the server asks.
ChosenWaitDeaf(hint, attempt) == Least(Backoff * 2 ^ (attempt - 1), MaxRetryAfter)

\* The server's wish, or a backoff that doubles, within the cap.
ChosenWait(hint, attempt) ==
  Least(IF hint = None THEN Backoff * 2 ^ (attempt - 1) ELSE hint, MaxRetryAfter)

\* Mutant: a throttled request does not count against the retries.
ThrottledFreely(c, hint) ==
  /\ pc[c] = "request"
  /\ owed' = [owed EXCEPT ![c] = Least(IF hint = None THEN Backoff ELSE hint, MaxRetryAfter)]
  /\ left' = [left EXCEPT ![c] = ChosenWait(hint, 1)]
  /\ Goto(c, "backoff")
  /\ UNCHANGED <<recent, holder, throttled>>

Throttled(c, hint) ==
  /\ pc[c] = "request"
  /\ throttled' = [throttled EXCEPT ![c] = @ + 1]
  /\ owed' = [owed EXCEPT ![c] = Least(IF hint = None THEN Backoff ELSE hint, MaxRetryAfter)]
  /\ IF throttled'[c] > MaxThrottleRetries
       THEN Goto(c, "err") /\ UNCHANGED left
       ELSE /\ left' = [left EXCEPT ![c] = ChosenWait(hint, throttled'[c])]
            /\ Goto(c, "backoff")
  /\ UNCHANGED <<recent, holder>>

\* Any other status is the caller's business; a failed request is an error.
Answered(c) ==
  /\ pc[c] = "request"
  /\ Goto(c, "ok") \/ Goto(c, "err")
  /\ UNCHANGED <<recent, holder, left, owed, throttled>>

Retry(c) ==
  /\ pc[c] = "backoff" /\ left[c] = 0
  /\ Goto(c, "lock")
  /\ UNCHANGED <<recent, holder, left, owed, throttled>>

Step(c) ==
  \/ Lock(c) \/ Admit(c) \/ Answered(c) \/ Retry(c)
  \/ \E hint \in Hint \cup {None} : Throttled(c, hint)

Tick ==
  /\ recent' = Less(recent)
  /\ left' = [c \in Caller |-> Less(left[c])]
  /\ owed' = [c \in Caller |-> Less(owed[c])]
  /\ UNCHANGED <<holder, pc, throttled>>

Next == Tick \/ \E c \in Caller : Step(c)

Spec == Init /\ [][Next]_vars

\* Time passes, requests end (read_timeout), and tokio's mutex is fair.
ClientFairness == WF_vars(Tick) /\ \A c \in Caller : WF_vars(Step(c)) /\ SF_vars(Lock(c))

-----------------------------------------------------------------------------
(* Properties.                                                             *)

Admitted(c) == pc[c] = "gap" /\ pc'[c] = "request"

\* Any two requests that share the client are admitted at least the gap apart,
\* first attempts and retries of all callers taken together (polite_http.rs:134-146).
GapKept == [][\A c \in Caller : Admitted(c) => recent = 0]_vars

\* No caller asks again before the time the server asked for is over, unless it
\* asked for more than the cap (polite_http.rs:112-133).
ServerIsHeard == [][\A c \in Caller : Admitted(c) => owed[c] = 0]_vars

\* However the server throttles, a GET returns.
GetReturns == \A c \in Caller : <>(pc[c] \in {"ok", "err"})
=============================================================================
