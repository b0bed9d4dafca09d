------------------------------ MODULE Transport ------------------------------
(***************************************************************************)
(* GithubClient::send_with_policy: how a request goes to the provider.     *)
(* Requests run concurrently (repository scans do) over one client.  A     *)
(* read is sent up to four times, after a backoff or after the wait the    *)
(* provider asked for; a mutation is sent once, and the mutations of the   *)
(* client are spaced.                                                      *)
(*                                                                         *)
(* Time is counted in seconds.  A task that sleeps is woken late, and an   *)
(* answer takes time: by at most MaxLate, without which nothing bounds the *)
(* time of an instance.  What a call returns is left to the modules of its *)
(* callers, which get any error at any time.                               *)
(***************************************************************************)
EXTENDS Naturals, FiniteSets

CONSTANTS
  Read, Mutation,   \* the requests
  MaxAttempts,      \* of a read
  Pacing,           \* MUTATION_PACING
  MaxWait,          \* the longest wait a read accepts (60)
  Fallback,         \* the wait when the provider names none (60, doubled each time)
  MaxFallback,      \* and its limit (300)
  Waits,            \* the waits a provider may ask for
  Nothing,          \* no mutation yet
  MaxLate           \* bound: how late a task wakes or an answer comes

Call == Read \cup Mutation

ASSUME CallsAssumption ==
  /\ Read \cap Mutation = {}
  /\ IsFiniteSet(Call)

ASSUME TimesAssumption ==
  /\ {MaxAttempts, Pacing, MaxWait, Fallback, MaxFallback} \subseteq Nat \ {0}
  /\ Waits \subseteq Nat
  /\ MaxLate \in Nat
  /\ Nothing \notin Nat

\* The backoff doubles, and MaxAttempts is more than one; the provers know nothing of
\* powers.
ASSUME BackoffAssumption ==
  /\ MaxAttempts > 1
  /\ \A n \in 0..MaxAttempts : 2^n \in Nat /\ \A m \in 0..n : 2^m <= 2^n

VARIABLES
  clock,     \* Instant::now()
  slot,      \* last_mutation_slot
  stage,     \* where each call is
  attempt,   \* its attempts that failed
  since,     \* when it has to wake, or was sent
  sent,      \* how often it was sent
  open,      \* not to be sent again before this time: what the provider asked for
  begun,     \* when it was called
  first      \* when the first mutation was reserved

transport == <<clock, slot, stage, attempt, since, sent, open, begun, first>>

TransportTypeOK ==
  /\ clock \in Nat
  /\ slot \in Nat \cup {Nothing}
  /\ stage \in [Call -> {"idle", "sleep", "flight", "done"}]
  /\ attempt \in [Call -> 0..(MaxAttempts - 1)]
  /\ since \in [Call -> Nat]
  /\ sent \in [Call -> Nat]
  /\ open \in [Call -> Nat]
  /\ begun \in [Call -> Nat]
  /\ first \in Nat \cup {Nothing}

TransportInit ==
  /\ clock = 0
  /\ slot = Nothing
  /\ stage = [c \in Call |-> "idle"]
  /\ attempt = [c \in Call |-> 0]
  /\ since = [c \in Call |-> 0]
  /\ sent = [c \in Call |-> 0]
  /\ open = [c \in Call |-> 0]
  /\ begun = [c \in Call |-> 0]
  /\ first = Nothing

-----------------------------------------------------------------------------
Least(m, n) == IF m < n THEN m ELSE n
Most(m, n) == IF m < n THEN n ELSE m

\* Mutation of Attempts: mutations are retried as reads are.
AttemptsOfAll(c) == MaxAttempts

Attempts(c) == IF c \in Read THEN MaxAttempts ELSE 1

\* Mutation of ReservedAt: the slot is the time of the last call, not of its turn.
ReservedFromNow ==
  IF slot # Nothing /\ slot + Pacing > clock + Pacing THEN slot + Pacing ELSE clock

\* reserve_mutation_delay
ReservedAt ==
  IF slot # Nothing /\ slot + Pacing > clock THEN slot + Pacing ELSE clock

\* The slot is taken under the mutex, the sleep comes after it.
Begin(c) ==
  /\ stage[c] = "idle"
  /\ stage' = [stage EXCEPT ![c] = "sleep"]
  /\ IF c \in Mutation
     THEN /\ slot' = ReservedAt
          /\ since' = [since EXCEPT ![c] = ReservedAt]
          /\ first' = IF first = Nothing THEN ReservedAt ELSE first
     ELSE since' = [since EXCEPT ![c] = clock] /\ UNCHANGED <<slot, first>>
  /\ begun' = [begun EXCEPT ![c] = clock]
  /\ UNCHANGED <<clock, attempt, sent, open>>

Send(c) ==
  /\ stage[c] = "sleep"
  /\ clock >= since[c]
  /\ stage' = [stage EXCEPT ![c] = "flight"]
  /\ since' = [since EXCEPT ![c] = clock]
  /\ sent' = [sent EXCEPT ![c] = @ + 1]
  /\ UNCHANGED <<clock, slot, attempt, open, begun, first>>

-----------------------------------------------------------------------------
(* The answers: the status, and the wait the headers ask for, if they do.   *)
(* A wait stands for retry-after, or for x-ratelimit-reset with nothing     *)
(* remaining; "limited" alone for a 429 or a 403 that only says so;         *)
(* "exhausted" for nothing remaining and no reset that can be read.         *)

Plain == {"lost", "success", "missing", "unauthorized", "limited", "exhausted", "failed",
          "forbidden", "other"}

Answers ==
  [status : Plain, wait : {Nothing}] \cup
  [status : {"success", "missing", "unauthorized", "limited", "failed", "forbidden"},
   wait : Waits]

\* is_rate_limited, asked after success, 404 and 401 are settled: a header is enough.
IsRateLimited(a) == a.status \in {"limited", "exhausted"} \/ a.wait # Nothing

\* rate_limit_delay, an Option: none when it is not known until when nothing remains.
RateLimitDelay(c, a) ==
  IF a.wait # Nothing THEN {a.wait}
  ELSE IF a.status = "exhausted" THEN {}
  ELSE {Least(Fallback * 2^attempt[c], MaxFallback)}

Backoff(c) == 2^attempt[c]

Settled == {"success", "missing", "unauthorized"}

\* Mutation of Pauses: a limit is taken for a failure.
PausesAsFailed(c, a) ==
  IF a.status \in {"lost", "failed", "limited", "exhausted"} THEN {Backoff(c)} ELSE {}

\* Mutation of Pauses: any wait is accepted.
PausesAsAsked(c, a) ==
  IF a.status \in Settled THEN {}
  ELSE IF IsRateLimited(a) THEN {Most(d, 1) : d \in RateLimitDelay(c, a)}
  ELSE IF a.status \in {"lost", "failed"} THEN {Backoff(c)}
  ELSE {}

\* How long the call pauses before it is sent again; none if it is not.
Pauses(c, a) ==
  IF a.status \in Settled THEN {}
  ELSE IF IsRateLimited(a)
       THEN {Most(d, 1) : d \in RateLimitDelay(c, a) \cap 0..MaxWait}
  ELSE IF a.status \in {"lost", "failed"} THEN {Backoff(c)}
  ELSE {}

Answer(c, a) ==
  /\ stage[c] = "flight"
  /\ \/ /\ attempt[c] + 1 < Attempts(c)
        /\ \E d \in Pauses(c, a) :
             /\ stage' = [stage EXCEPT ![c] = "sleep"]
             /\ since' = [since EXCEPT ![c] = clock + d]
        /\ attempt' = [attempt EXCEPT ![c] = @ + 1]
        /\ open' = [open EXCEPT ![c] = IF a.wait = Nothing THEN @ ELSE clock + a.wait]
        /\ UNCHANGED begun
     \/ /\ attempt[c] + 1 = Attempts(c) \/ Pauses(c, a) = {}
        /\ stage' = [stage EXCEPT ![c] = "done"]
        /\ since' = [since EXCEPT ![c] = 0]
        /\ open' = [open EXCEPT ![c] = 0]
        /\ begun' = [begun EXCEPT ![c] = 0]
        /\ UNCHANGED attempt
  /\ UNCHANGED <<clock, slot, sent, first>>

Pass ==
  /\ \E c \in Call : stage[c] \in {"sleep", "flight"}
  /\ \A c \in Call : stage[c] \in {"sleep", "flight"} => clock < since[c] + MaxLate
  /\ clock' = clock + 1
  /\ UNCHANGED <<slot, stage, attempt, since, sent, open, begun, first>>

-----------------------------------------------------------------------------
TransportNext ==
  \/ Pass
  \/ \E c \in Call : Begin(c) \/ Send(c) \/ \E a \in Answers : Answer(c, a)

TransportSpec == TransportInit /\ [][TransportNext]_transport

-----------------------------------------------------------------------------
(* Properties *)

\* reserve_mutation_delay paces the mutations of all callers together: after n seconds
\* not more than one for each full MUTATION_PACING has gone out, and the first one,
\* however late the tasks wake.
MutationsArePaced ==
  first # Nothing =>
    Pacing * Cardinality({m \in Mutation : sent[m] > 0}) <= Pacing + Most(clock, first) - first

\* A request is sent again only if it is a read, and not before the provider allows it:
\* an answer that is lost never repeats a DELETE.
SentAgainAsAllowed ==
  [][\A c \in Call : sent[c] > 0 /\ sent'[c] > sent[c] => c \in Read /\ clock >= open[c]]_transport

\* A read returns in time, whatever the provider asks for: it waits between its attempts,
\* never longer than MaxWait or the last backoff, and gives up rather than wait longer.
\* The answers themselves are taken to come within MaxLate; nothing in the code sees to that.
ReturnsInTime ==
  \A c \in Read : stage[c] \in {"sleep", "flight"} =>
    clock <= begun[c] + MaxAttempts * 2 * MaxLate
                    + (MaxAttempts - 1) * Most(MaxWait, 2^(MaxAttempts - 2))
=============================================================================
