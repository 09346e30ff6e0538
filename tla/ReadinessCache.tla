----------------------------- MODULE ReadinessCache -----------------------------
(***************************************************************************)
(* GET /readiness of the backend: cheap checks at every request, and       *)
(* expensive ones that are cached for TTL seconds.  The endpoint and the   *)
(* stream's generator run in threads of their own, and nothing locks the   *)
(* cache: each step is what a thread does between two moments at which     *)
(* another may come in.                                                    *)
(***************************************************************************)
EXTENDS Integers, Sequences

CONSTANTS
  Readers,      \* requests for the readiness
  Expensive,    \* the names of the expensive checks, in the order of running
  Optional,     \* of these, the optional ones; the others are required
  TTL,          \* READINESS_CACHE_TTL_SEC
  LastSecond,   \* the clock stops here
  MaxOutages    \* dependencies go down or come back at most this often

Never == -1   \* a time that has not come

ASSUME ReadinessAssumption ==
  /\ Expensive \in Seq(STRING)
  /\ TTL \in Nat \ {0} /\ LastSecond \in Nat /\ MaxOutages \in Nat

VARIABLES
  clock,
  down_since,     \* down_since[n]: since when n's dependency is down, or Never
  turns,          \* how often dependencies have gone down or come back
  generated_at, checks,   \* _readiness_cache; checks is {} for None
  adjacent,       \* whether no other thread comes in between two statements of
                  \* the cache that follow one another
  reader_stage,   \* reader_stage[r]: what the request's thread does next
  fresh,          \* fresh[r]: the parameter fresh
  asked,          \* asked[r]: build_readiness's now
  found,          \* found[r]: the checks made or found so far: [name, status]
  answers         \* answers[r]: {} or the answer

cache == <<generated_at, checks>>
reader == <<reader_stage, fresh, asked, found, answers>>
readiness_vars == <<clock, down_since, turns, cache, adjacent, reader>>

Names == {Expensive[i] : i \in 1..Len(Expensive)}

ReadinessInit ==
  /\ clock = 0
  /\ down_since = [n \in Names |-> Never]
  /\ turns = 0
  /\ generated_at = 0 /\ checks = {}
  /\ adjacent \in BOOLEAN
  /\ reader_stage = [r \in Readers |-> "calling"]
  /\ fresh \in [Readers -> BOOLEAN]
  /\ asked = [r \in Readers |-> Never]
  /\ found = [r \in Readers |-> << >>]
  /\ answers = [r \in Readers |-> {}]

At(r, stage) == reader_stage[r] = stage
GoTo(r, stage) == reader_stage' = [reader_stage EXCEPT ![r] = stage]

\* The threads that are between two statements of the cache.
Between == {r \in Readers : reader_stage[r] \in {"taking", "storing"}}

MayRun(r) == adjacent => Between \subseteq {r}

\* build_readiness reads the clock.
AskReadiness(r) ==
  /\ At(r, "calling")
  /\ asked' = [asked EXCEPT ![r] = clock]
  /\ GoTo(r, "looking")
  /\ UNCHANGED <<fresh, found, answers, cache>>

Usable(r) == ~fresh[r] /\ checks # {} /\ asked[r] - generated_at < TTL

\* cached_expensive_checks decides whether the cache will do...
LookUp(r) ==
  /\ At(r, "looking")
  /\ GoTo(r, IF Usable(r) THEN "taking" ELSE "checking")
  /\ UNCHANGED <<fresh, asked, found, answers, cache>>

\* ... and takes what is in it then.
TakeCached(r) ==
  /\ At(r, "taking")
  /\ found' = [found EXCEPT ![r] = CHOOSE c \in checks : TRUE]
  /\ GoTo(r, "answering")
  /\ UNCHANGED <<fresh, asked, answers, cache>>

\* A failed check of an optional dependency only degrades.
CheckStatus(n) ==
  IF down_since[n] = Never THEN "ready" ELSE IF n \in Optional THEN "degraded" ELSE "not_ready"

\* run_expensive_checks, one check at a time.
RunCheck(r) ==
  /\ At(r, "checking")
  /\ Len(found[r]) < Len(Expensive)
  /\ LET n == Expensive[Len(found[r]) + 1]
     IN  found' = [found EXCEPT ![r] = Append(@, [name |-> n, status |-> CheckStatus(n)])]
  /\ UNCHANGED <<reader_stage, fresh, asked, answers, cache>>

\* Seeded fault: the cache is as old as the end of the checks.
StampAtEnd(r) == clock

Stamp(r) == asked[r]

StoreTime(r) ==
  /\ At(r, "checking")
  /\ Len(found[r]) = Len(Expensive)
  /\ generated_at' = Stamp(r)
  /\ GoTo(r, "storing")
  /\ UNCHANGED <<fresh, asked, found, answers, checks>>

StoreChecks(r) ==
  /\ At(r, "storing")
  /\ checks' = {found[r]}
  /\ GoTo(r, "answering")
  /\ UNCHANGED <<fresh, asked, found, answers, generated_at>>

\* overall_status; the cheap checks look at what the backend itself needs,
\* and pass.
OverallStatus(results) ==
  IF \E i \in 1..Len(results) : results[i].status = "not_ready" THEN "not_ready"
  ELSE IF \E i \in 1..Len(results) : results[i].status # "ready" THEN "degraded"
  ELSE "ready"

\* History: the dependencies that were down for a whole TTL when the request
\* came, and still are; for a fresh one, those that were down before it came.
Outages(r) ==
  {n \in Names : /\ down_since[n] # Never
                 /\ down_since[n] + (IF fresh[r] THEN 1 ELSE TTL) <= asked[r]}

AnswerReadiness(r) ==
  /\ At(r, "answering")
  /\ answers' = [answers EXCEPT ![r] = {[status |-> OverallStatus(found[r]), outages |-> Outages(r)]}]
  /\ GoTo(r, "answered")
  /\ UNCHANGED <<fresh, asked, found, cache>>

ReaderStep(r) ==
  /\ MayRun(r)
  /\ \/ AskReadiness(r) \/ LookUp(r) \/ TakeCached(r) \/ RunCheck(r)
     \/ StoreTime(r) \/ StoreChecks(r) \/ AnswerReadiness(r)
  /\ UNCHANGED <<clock, down_since, turns, adjacent>>

SecondPasses ==
  /\ clock < LastSecond
  /\ clock' = clock + 1
  /\ UNCHANGED <<down_since, turns, adjacent, cache, reader>>

DependencyTurns ==
  /\ turns < MaxOutages
  /\ turns' = turns + 1
  /\ \E n \in Names :
       down_since' = [down_since EXCEPT ![n] = IF @ = Never THEN clock ELSE Never]
  /\ UNCHANGED <<clock, adjacent, cache, reader>>

ReadinessNext == (\E r \in Readers : ReaderStep(r)) \/ SecondPasses \/ DependencyTurns

ReadinessSafety == ReadinessInit /\ [][ReadinessNext]_readiness_vars

-----------------------------------------------------------------------------
(* Properties.                                                             *)

\* An outage shows within the cache's time to live: no answer is ready while a
\* dependency has been down for TTL seconds since before the request, and none
\* but not_ready when a required one has.  A fresh request shows any outage that
\* it finds, even when threads tear the cache; the others need a cache whose
\* time and checks are written and read together.
OutageReported ==
  \A r \in Readers : \A a \in answers[r] :
    adjacent \/ fresh[r] =>
      /\ a.outages # {} => a.status # "ready"
      /\ a.outages \ Optional # {} => a.status = "not_ready"
=============================================================================
