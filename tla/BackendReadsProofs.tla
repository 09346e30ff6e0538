--------------------------- MODULE BackendReadsProofs ---------------------------
(***************************************************************************)
(* What the backend and the bridge serve to readers is right, for all      *)
(* reports, registries, files, checks, limits and lists, however many      *)
(* readers, messages, changes and selections there are: each subject's     *)
(* invariant, and all of them side by side.  And the dashboard always has  *)
(* a way to read it: a stream, or polls and a timer that tries for a       *)
(* stream, and it gives up no stream that is well, for all intervals with  *)
(* which it is patient enough.                                             *)
(***************************************************************************)
EXTENDS BackendReads, LiveView, TLAPS, FiniteSetTheorems, WellFoundedInduction

-----------------------------------------------------------------------------
(* BridgeCache: the inductive invariant.                                    *)

Kinds == StateKinds \cup EventKinds
BridgeEvents == Kinds \X Nat

BridgeTypes ==
  /\ event_history_limit \in Nat
  /\ arrivals \in Nat
  /\ latest \in [Kinds -> Nat]
  /\ event_history \in Seq(BridgeEvents)
  /\ announcing \in {<< >>} \cup (EventKinds \X Nat)
  /\ announced \in Seq(BridgeEvents)

\* How many events the code's slice leaves: a limit of 0 cuts nothing.
Stored == IF event_history_limit > 0 THEN Kept ELSE Len(announced)

\* The history is the end of all that was announced.
HistoryIsTail ==
  /\ Len(event_history) = Stored
  /\ \A i \in 1..Stored : event_history[Stored + 1 - i] = announced[Len(announced) + 1 - i]

\* Whoever knows of an event finds it, or a newer one, as the resource.
Readable(e, resources) == e[1] \in EventKinds => resources[e[1]] >= e[2]

\* The event that is on its way to the history is younger than those in it, and
\* already a resource; nothing is younger than the newest arrival.
Announced ==
  /\ \A k \in Kinds : latest[k] <= arrivals
  /\ \A i \in 1..Len(announced) : announced[i][2] <= arrivals /\ Readable(announced[i], latest)
  /\ \A i, j \in 1..Len(announced) : i < j => announced[i][2] < announced[j][2]
  /\ announcing # << >> =>
       /\ announcing[2] <= arrivals /\ Readable(announcing, latest)
       /\ \A i \in 1..Len(announced) : announced[i][2] < announcing[2]

BridgeInv == BridgeTypes /\ HistoryIsTail /\ Announced

-----------------------------------------------------------------------------
(* Adding an event.                                                         *)

LEMMA KeptInLists == ASSUME BridgeTypes PROVE Stored \in 0..Len(announced)
  BY DEF BridgeTypes, Stored, Kept

LEMMA HistoryKept ==
  ASSUME BridgeTypes, HistoryIsTail, NEW e \in BridgeEvents, AddEvent(e),
         event_history_limit' = event_history_limit
  PROVE  event_history' \in Seq(BridgeEvents) /\ announced' \in Seq(BridgeEvents) /\ HistoryIsTail'
<1> DEFINE h == Append(event_history, e)
           l == event_history_limit
           n == Len(announced)
<1>1. /\ h \in Seq(BridgeEvents) /\ Len(h) = Stored + 1 /\ h[Stored + 1] = e
      /\ \A i \in 1..Stored : h[i] = event_history[i]
  BY DEF BridgeTypes, HistoryIsTail
<1>2. /\ announced' \in Seq(BridgeEvents) /\ Len(announced') = n + 1 /\ announced'[n + 1] = e
      /\ \A i \in 1..n : announced'[i] = announced[i]
  BY DEF BridgeTypes, AddEvent
<1>3. event_history' = Newest(h, l) /\ l \in Nat /\ n \in Nat /\ Stored \in 0..n
  BY KeptInLists DEF AddEvent, BridgeTypes
<1> HIDE DEF h, l
<1>4. Stored = IF l > 0 /\ n > l THEN l ELSE n
  BY DEF Stored, Kept, l
<1>5. Stored' = IF l > 0 /\ n + 1 > l THEN l ELSE n + 1
  BY <1>2 DEF Stored, Kept, l
<1>6. \A i \in 1..Stored + 1 : h[Stored + 2 - i] = announced'[n + 2 - i]
  <2> SUFFICES ASSUME NEW i \in 1..Stored + 1 PROVE h[Stored + 2 - i] = announced'[n + 2 - i]
    OBVIOUS
  <2>1. CASE i = 1
    BY <1>1, <1>2, <1>3, <2>1
  <2>2. CASE i > 1
    <3> DEFINE j == i - 1
    <3>1. j \in 1..Stored /\ Stored + 2 - i = Stored + 1 - j /\ n + 2 - i = n + 1 - j
      BY <1>3, <2>2
    <3>2. Stored + 1 - j \in 1..Stored /\ n + 1 - j \in 1..n
      BY <1>3, <3>1
    <3>3. event_history[Stored + 1 - j] = announced[n + 1 - j]
      BY <3>1 DEF HistoryIsTail
    <3> QED  BY <1>1, <1>2, <3>1, <3>2, <3>3
  <2> QED  BY <1>3, <2>1, <2>2
<1>7. CASE l > 0 /\ Stored + 1 > l
  <2>1. Stored = l /\ Stored' = l
    BY <1>3, <1>4, <1>5, <1>7
  <2>2. event_history' = SubSeq(h, 2, l + 1)
    BY <1>1, <1>3, <1>7, <2>1 DEF Newest
  <2>3. /\ event_history' \in Seq(BridgeEvents) /\ Len(event_history') = l
        /\ \A i \in 1..l : event_history'[i] = h[i + 1]
    BY <1>1, <1>3, <2>1, <2>2
  <2>4. \A i \in 1..l : event_history'[l + 1 - i] = announced'[Len(announced') + 1 - i]
    <3> SUFFICES ASSUME NEW i \in 1..l
                 PROVE  event_history'[l + 1 - i] = announced'[Len(announced') + 1 - i]
      OBVIOUS
    <3>1. l + 1 - i \in 1..l /\ (l + 1 - i) + 1 = Stored + 2 - i /\ i \in 1..Stored + 1
      BY <1>3, <2>1
    <3>2. event_history'[l + 1 - i] = h[Stored + 2 - i]
      BY <2>3, <3>1
    <3>3. h[Stored + 2 - i] = announced'[n + 2 - i]
      BY <1>6, <3>1
    <3>4. Len(announced') + 1 - i = n + 2 - i
      BY <1>2, <1>3
    <3> QED  BY <3>2, <3>3, <3>4
  <2> QED  BY <1>2, <2>1, <2>3, <2>4 DEF HistoryIsTail
<1>8. CASE ~(l > 0 /\ Stored + 1 > l)
  <2>1. Stored = n /\ Stored' = n + 1
    BY <1>3, <1>4, <1>5, <1>8
  <2>2. event_history' = h
    BY <1>1, <1>3, <1>8 DEF Newest
  <2>3. \A i \in 1..n + 1 : event_history'[n + 2 - i] = announced'[Len(announced') + 1 - i]
    BY <1>2, <1>3, <1>6, <2>1, <2>2
  <2> QED  BY <1>1, <1>2, <1>3, <2>1, <2>2, <2>3 DEF HistoryIsTail
<1> QED  BY <1>7, <1>8

\* An event that is younger than all others and already a resource may be added.
LEMMA AnnouncedKept ==
  ASSUME BridgeTypes', Announced, announced \in Seq(BridgeEvents), arrivals \in Nat,
         NEW e \in BridgeEvents, announced' = Append(announced, e),
         \A k \in Kinds : latest'[k] <= arrivals',
         arrivals <= arrivals', e[2] <= arrivals', Readable(e, latest'),
         \A i \in 1..Len(announced) : Readable(announced[i], latest'),
         \A i \in 1..Len(announced) : announced[i][2] < e[2],
         announcing' = << >>
  PROVE  Announced'
<1>1. /\ Len(announced) \in Nat /\ Len(announced') = Len(announced) + 1
      /\ announced'[Len(announced) + 1] = e
      /\ \A i \in 1..Len(announced) : announced'[i] = announced[i]
  OBVIOUS
<1>2. arrivals' \in Nat /\ e[2] \in Nat /\ \A i \in 1..Len(announced) : announced[i][2] \in Nat
  BY DEF BridgeTypes, BridgeEvents
<1>3. \A i \in 1..Len(announced') : announced'[i][2] <= arrivals' /\ Readable(announced'[i], latest')
  BY <1>1, <1>2 DEF Announced, Readable
<1>4. \A i, j \in 1..Len(announced') : i < j => announced'[i][2] < announced'[j][2]
  BY <1>1 DEF Announced
<1> QED  BY <1>3, <1>4 DEF Announced, Readable

-----------------------------------------------------------------------------
(* The invariant is kept.                                                   *)

LEMMA InitBridge == BridgeInit => BridgeInv
<1> SUFFICES ASSUME BridgeInit PROVE BridgeInv  OBVIOUS
<1>1. BridgeTypes
  BY BridgeAssumption DEF BridgeInit, BridgeTypes, Kinds
<1>2. HistoryIsTail
  BY <1>1 DEF BridgeInit, HistoryIsTail, Stored, Kept, BridgeTypes
<1>3. Announced
  BY DEF BridgeInit, Announced, Kinds
<1> QED  BY <1>1, <1>2, <1>3 DEF BridgeInv

\* A resource that is replaced by what arrives is no older for it.
LEMMA ResourceReplaced ==
  ASSUME BridgeInv, NEW k \in Kinds, Arrive, latest' = [latest EXCEPT ![k] = arrivals']
  PROVE  /\ arrivals' = arrivals + 1 /\ arrivals \in Nat /\ latest' \in [Kinds -> Nat]
         /\ latest'[k] = arrivals'
         /\ \A c \in Kinds : latest'[c] <= arrivals' /\ latest[c] <= latest'[c]
         /\ \A i \in 1..Len(announced) : Readable(announced[i], latest')
<1>1. arrivals' = arrivals + 1 /\ arrivals \in Nat /\ latest' \in [Kinds -> Nat]
  BY DEF BridgeInv, BridgeTypes, Arrive
<1>2. latest'[k] = arrivals'
  BY DEF BridgeInv, BridgeTypes
<1>3. \A c \in Kinds : latest'[c] <= arrivals' /\ latest[c] <= latest'[c]
  BY <1>1 DEF BridgeInv, BridgeTypes, Announced
<1>4. \A i \in 1..Len(announced) : announced[i] \in BridgeEvents
  BY DEF BridgeInv, BridgeTypes
<1>5. \A i \in 1..Len(announced) : Readable(announced[i], latest')
  BY <1>1, <1>3, <1>4 DEF BridgeInv, BridgeTypes, Announced, Readable, BridgeEvents, Kinds
<1> QED  BY <1>1, <1>2, <1>3, <1>5

LEMMA StateStep == ASSUME BridgeInv, NEW k \in StateKinds, OnState(k) PROVE BridgeInv'
<1>1. /\ UNCHANGED <<event_history_limit, event_history, announcing, announced>>
      /\ announcing = << >> /\ k \in Kinds
  BY DEF OnState, Arrive, Kinds
<1>2. /\ arrivals' = arrivals + 1 /\ arrivals \in Nat /\ latest' \in [Kinds -> Nat]
      /\ \A c \in Kinds : latest'[c] <= arrivals'
      /\ \A i \in 1..Len(announced) : Readable(announced[i], latest')
  BY <1>1, ResourceReplaced DEF OnState
<1>3. BridgeTypes'
  BY <1>1, <1>2 DEF BridgeInv, BridgeTypes
<1>4. HistoryIsTail'
  BY <1>1 DEF BridgeInv, HistoryIsTail, Stored, Kept
<1>5. \A i \in 1..Len(announced) : announced[i][2] <= arrivals'
  BY <1>2 DEF BridgeInv, BridgeTypes, Announced, BridgeEvents
<1>6. Announced'
  BY <1>1, <1>2, <1>5 DEF BridgeInv, Announced, Readable
<1> QED  BY <1>3, <1>4, <1>6 DEF BridgeInv

LEMMA MissionEventStep == ASSUME BridgeInv, OnMissionEvent PROVE BridgeInv'
<1> DEFINE e == <<"mission", arrivals'>>
<1>1. /\ arrivals' = arrivals + 1 /\ arrivals \in Nat /\ AddEvent(e) /\ announcing = << >>
      /\ UNCHANGED <<event_history_limit, latest, announcing>>
  BY DEF OnMissionEvent, Arrive, BridgeInv, BridgeTypes
<1>2. e \in BridgeEvents /\ e[1] \notin EventKinds /\ e[2] = arrivals'
  BY <1>1 DEF BridgeEvents, Kinds, StateKinds, EventKinds
<1> HIDE DEF e
<1>3. event_history' \in Seq(BridgeEvents) /\ announced' \in Seq(BridgeEvents) /\ HistoryIsTail'
  BY <1>1, <1>2, HistoryKept DEF BridgeInv
<1>4. BridgeTypes'
  BY <1>1, <1>3 DEF BridgeInv, BridgeTypes
<1>5. \A k \in Kinds : latest'[k] <= arrivals'
  BY <1>1 DEF BridgeInv, BridgeTypes, Announced
<1>6. \A i \in 1..Len(announced) : announced[i][2] < e[2] /\ Readable(announced[i], latest')
  <2>1. \A i \in 1..Len(announced) : announced[i][2] \in Nat
    BY DEF BridgeInv, BridgeTypes, BridgeEvents
  <2> QED  BY <1>1, <1>2, <2>1 DEF BridgeInv, Announced
<1>7. Readable(e, latest')
  BY <1>2 DEF Readable, e
<1>8. Announced'
  BY <1>1, <1>2, <1>4, <1>5, <1>6, <1>7, AnnouncedKept DEF BridgeInv, BridgeTypes, AddEvent
<1> QED  BY <1>3, <1>4, <1>8 DEF BridgeInv

LEMMA EventStep == ASSUME BridgeInv, NEW k \in EventKinds, OnEvent(k) PROVE BridgeInv'
<1>1. /\ UNCHANGED <<event_history_limit, event_history, announced>>
      /\ announcing' = <<k, arrivals'>> /\ k \in Kinds
  BY DEF OnEvent, Arrive, Kinds
<1>2. /\ arrivals' = arrivals + 1 /\ arrivals \in Nat /\ latest' \in [Kinds -> Nat]
      /\ latest'[k] = arrivals'
      /\ \A c \in Kinds : latest'[c] <= arrivals'
      /\ \A i \in 1..Len(announced) : Readable(announced[i], latest')
  BY <1>1, ResourceReplaced DEF OnEvent
<1>3. BridgeTypes'
  BY <1>1, <1>2 DEF BridgeInv, BridgeTypes
<1>4. HistoryIsTail'
  BY <1>1 DEF BridgeInv, HistoryIsTail, Stored, Kept
<1>5. \A i \in 1..Len(announced) : announced[i][2] < arrivals' /\ announced[i][2] <= arrivals'
  <2>1. \A i \in 1..Len(announced) : announced[i][2] \in Nat
    BY DEF BridgeInv, BridgeTypes, BridgeEvents
  <2>2. \A i \in 1..Len(announced) : announced[i][2] <= arrivals
    BY DEF BridgeInv, Announced
  <2> QED  BY <1>2, <2>1, <2>2
<1>6. announcing'[1] = k /\ announcing'[2] = arrivals' /\ Readable(announcing', latest')
  BY <1>1, <1>2 DEF Readable
<1>7. Announced'
  BY <1>1, <1>2, <1>5, <1>6 DEF BridgeInv, Announced, Readable
<1> QED  BY <1>3, <1>4, <1>7 DEF BridgeInv

LEMMA AnnounceStep == ASSUME BridgeInv, Announce PROVE BridgeInv'
<1>1. /\ announcing # << >> /\ AddEvent(announcing) /\ announcing' = << >>
      /\ UNCHANGED <<event_history_limit, arrivals, latest>>
  BY DEF Announce
<1>2. announcing \in BridgeEvents
  BY <1>1 DEF BridgeInv, BridgeTypes, BridgeEvents, Kinds
<1>3. event_history' \in Seq(BridgeEvents) /\ announced' \in Seq(BridgeEvents) /\ HistoryIsTail'
  BY <1>1, <1>2, HistoryKept DEF BridgeInv
<1>4. BridgeTypes'
  BY <1>1, <1>3 DEF BridgeInv, BridgeTypes
<1>5. /\ announcing[2] <= arrivals' /\ arrivals \in Nat /\ arrivals <= arrivals'
      /\ Readable(announcing, latest')
      /\ \A i \in 1..Len(announced) : announced[i][2] < announcing[2]
  BY <1>1 DEF BridgeInv, BridgeTypes, Announced
<1>6. /\ \A i \in 1..Len(announced) : Readable(announced[i], latest')
      /\ \A k \in Kinds : latest'[k] <= arrivals'
  BY <1>1 DEF BridgeInv, Announced
<1>7. Announced'
  BY <1>1, <1>2, <1>4, <1>5, <1>6, AnnouncedKept DEF BridgeInv, BridgeTypes, AddEvent
<1> QED  BY <1>3, <1>4, <1>7 DEF BridgeInv

LEMMA BridgeStep == BridgeInv /\ [BridgeNext]_bridge_vars => BridgeInv'
<1> SUFFICES ASSUME BridgeInv, [BridgeNext]_bridge_vars PROVE BridgeInv'  OBVIOUS
<1>1. CASE UNCHANGED bridge_vars
  BY <1>1 DEF bridge_vars, BridgeInv, BridgeTypes, HistoryIsTail, Stored, Kept, Announced, Readable
<1> QED  BY <1>1, StateStep, MissionEventStep, EventStep, AnnounceStep DEF BridgeNext

LEMMA BridgeConsistent == BridgeInv => SnapshotsConsistent
<1>0. BridgeInv => Len(event_history) = Stored /\ (event_history_limit > 0 => Stored = Kept)
  BY DEF BridgeInv, HistoryIsTail, Stored
<1> SUFFICES ASSUME BridgeInv, NEW i \in 1..Stored
             PROVE  event_history[i][1] \in EventKinds => latest[event_history[i][1]] >= event_history[i][2]
  BY <1>0 DEF BridgeInv, HistoryIsTail, Announced, SnapshotsConsistent
<1>1. Stored \in 0..Len(announced) /\ Len(announced) \in Nat
  BY KeptInLists DEF BridgeInv, BridgeTypes
<1> DEFINE j == Stored + 1 - i
           n == Len(announced) + 1 - j
<1>2. j \in 1..Stored /\ Stored + 1 - j = i /\ n \in 1..Len(announced)
  BY <1>1
<1>3. event_history[i] = announced[n]
  BY <1>2 DEF BridgeInv, HistoryIsTail
<1>4. Readable(announced[n], latest)
  BY <1>2 DEF BridgeInv, Announced
<1> QED  BY <1>3, <1>4 DEF Readable

\* Whatever a reader finds in the history it finds, or a newer one, as the
\* resource; and the history is the newest that a positive limit allows.
THEOREM SnapshotsStayConsistent == BridgeSafety => []SnapshotsConsistent
BY BridgeConsistent, InitBridge, BridgeStep, PTL DEF BridgeSafety

-----------------------------------------------------------------------------
(* ReadinessCache: the inductive invariant.                                 *)

ReaderStages ==
  {"calling", "looking", "taking", "checking", "storing", "answering", "answered"}

CheckResults == [name : STRING, status : {"ready", "degraded", "not_ready"}]

ReadinessTypes ==
  /\ clock \in Nat /\ generated_at \in Int
  /\ down_since \in [Names -> Int]
  /\ \A c \in checks : c \in Seq(CheckResults)
  /\ reader_stage \in [Readers -> ReaderStages]
  /\ fresh \in [Readers -> BOOLEAN]
  /\ asked \in [Readers -> Int]
  /\ found \in [Readers -> Seq(CheckResults)]
  /\ DOMAIN answers = Readers

\* What a check of n finds while n's dependency is down.
Due(n) == IF n \in Optional THEN "degraded" ELSE "not_ready"

\* The results show every outage that began before the time and lasts.
Shows(down, results, time) ==
  /\ Len(results) <= Len(Expensive)
  /\ \A i \in 1..Len(results) :
       down[Expensive[i]] # Never /\ down[Expensive[i]] < time =>
         results[i].status = Due(Expensive[i])

Complete(results) == Len(results) = Len(Expensive)

\* The answer shows what began before this.
Oldest(r) == IF fresh[r] THEN asked[r] ELSE asked[r] - TTL + 1

NothingIsYetToCome ==
  /\ generated_at <= clock
  /\ \A r \in Readers : asked[r] <= clock
  /\ \A n \in Names : down_since[n] <= clock

\* With the statements adjacent one thread at most is between two of them, and
\* the cache is whole unless that one is storing.
CacheWhole ==
  adjacent =>
    /\ \A r, s \in Between : r = s
    /\ (\A r \in Readers : ~At(r, "storing")) =>
         \A c \in checks : Complete(c) /\ Shows(down_since, c, generated_at)

Progress(r) ==
  /\ reader_stage[r] \in {"calling", "looking"} => found[r] = << >>
  /\ reader_stage[r] \in {"checking", "storing"} => Shows(down_since, found[r], asked[r])
  /\ reader_stage[r] = "storing" =>
       Complete(found[r]) /\ (adjacent => generated_at = asked[r])
  /\ reader_stage[r] = "taking" =>
       ~fresh[r] /\ checks # {} /\ (adjacent => asked[r] - generated_at < TTL)
  /\ reader_stage[r] = "answering" /\ (adjacent \/ fresh[r]) =>
       Complete(found[r]) /\ Shows(down_since, found[r], Oldest(r))
  /\ reader_stage[r] # "answered" => answers[r] = {}

ReadinessInv ==
  /\ ReadinessTypes /\ NothingIsYetToCome /\ CacheWhole
  /\ \A r \in Readers : Progress(r)
  /\ OutageReported

-----------------------------------------------------------------------------
(* What results show.                                                       *)

LEMMA ShowsEarlier ==
  ASSUME NEW down \in [Names -> Int], NEW results \in Seq(CheckResults),
         NEW time \in Int, NEW earlier \in Int, earlier <= time, Shows(down, results, time)
  PROVE  Shows(down, results, earlier)
<1>1. \A i \in 1..Len(results) : Expensive[i] \in Names
  BY ReadinessAssumption DEF Shows, Names
<1>2. \A i \in 1..Len(results) : down[Expensive[i]] \in Int
  BY <1>1
<1> QED  BY <1>2 DEF Shows

\* An outage that begins, or ends, changes nothing about earlier ones.
LEMMA ShowsTurned ==
  ASSUME NEW down \in [Names -> Int], NEW results \in Seq(CheckResults),
         NEW time \in Int, NEW now \in Int, time <= now, Shows(down, results, time), NEW n \in Names
  PROVE  Shows([down EXCEPT ![n] = IF @ = Never THEN now ELSE Never], results, time)
<1> DEFINE turned == [down EXCEPT ![n] = IF @ = Never THEN now ELSE Never]
<1>1. \A m \in Names :
        turned[m] = down[m] \/ turned[m] = Never \/ turned[m] = now
  OBVIOUS
<1> HIDE DEF turned
<1>2. \A i \in 1..Len(results) : Expensive[i] \in Names
  BY ReadinessAssumption DEF Shows, Names
<1>3. ASSUME NEW i \in 1..Len(results),
             turned[Expensive[i]] # Never, turned[Expensive[i]] < time
      PROVE  results[i].status = Due(Expensive[i])
  <2>1. turned[Expensive[i]] = down[Expensive[i]]
    BY <1>1, <1>2, <1>3
  <2> QED  BY <1>3, <2>1 DEF Shows
<1>4. Shows(turned, results, time)
  BY <1>3 DEF Shows
<1> QED  BY <1>4 DEF turned

LEMMA ShowsChecked ==
  ASSUME ReadinessTypes, NEW results \in Seq(CheckResults), NEW time,
         Shows(down_since, results, time), Len(results) < Len(Expensive)
  PROVE  LET n == Expensive[Len(results) + 1]
             more == Append(results, [name |-> n, status |-> CheckStatus(n)])
         IN  more \in Seq(CheckResults) /\ Shows(down_since, more, time)
<1> DEFINE n == Expensive[Len(results) + 1]
           result == [name |-> n, status |-> CheckStatus(n)]
           more == Append(results, result)
<1>1. Len(Expensive) \in Nat /\ Len(results) + 1 \in 1..Len(Expensive)
  BY ReadinessAssumption
<1>2. n \in STRING /\ CheckStatus(n) \in {"ready", "degraded", "not_ready"}
  <2>1. n \in STRING
    BY <1>1, ReadinessAssumption
  <2>2. CheckStatus(n) \in {"ready", "degraded", "not_ready"}
    BY DEF CheckStatus
  <2> QED  BY <2>1, <2>2
<1>3. /\ more \in Seq(CheckResults) /\ Len(more) = Len(results) + 1
      /\ more[Len(results) + 1] = result
      /\ \A i \in 1..Len(results) : more[i] = results[i]
  BY <1>2 DEF CheckResults
<1>4. down_since[n] # Never => result.status = Due(n)
  BY DEF CheckStatus, Due
<1> HIDE DEF result, more
<1>5. Shows(down_since, more, time)
  BY <1>1, <1>3, <1>4 DEF Shows
<1> QED  BY <1>3, <1>5 DEF result, more

-----------------------------------------------------------------------------
(* The steps of the reader.                                                 *)

LEMMA InitReadiness == ReadinessInit => ReadinessInv
<1> SUFFICES ASSUME ReadinessInit PROVE ReadinessInv  OBVIOUS
<1>1. /\ clock = 0 /\ down_since = [n \in Names |-> Never] /\ generated_at = 0 /\ checks = {}
      /\ reader_stage = [r \in Readers |-> "calling"] /\ fresh \in [Readers -> BOOLEAN]
      /\ asked = [r \in Readers |-> Never] /\ found = [r \in Readers |-> << >>]
      /\ answers = [r \in Readers |-> {}]
  BY DEF ReadinessInit
<1>2. << >> \in Seq(CheckResults)
  OBVIOUS
<1>3. ReadinessTypes
  BY <1>1, <1>2 DEF ReadinessTypes, ReaderStages, Never
<1>4. NothingIsYetToCome
  BY <1>1 DEF NothingIsYetToCome, Never
<1>5. CacheWhole
  BY <1>1 DEF CacheWhole, Between
<1>6. \A r \in Readers : Progress(r)
  BY <1>1 DEF Progress
<1>7. OutageReported
  BY <1>1 DEF OutageReported
<1> QED  BY <1>3, <1>4, <1>5, <1>6, <1>7 DEF ReadinessInv

ReaderFrame == UNCHANGED <<clock, down_since, turns, adjacent>>

\* What a reader's step leaves to the others.
Elsewhere(r) ==
  \A s \in Readers \ {r} :
    /\ reader_stage'[s] = reader_stage[s] /\ fresh'[s] = fresh[s] /\ asked'[s] = asked[s]
    /\ found'[s] = found[s] /\ answers'[s] = answers[s]

\* Nobody else is between two adjacent statements when a reader runs, so what
\* the reader does to the cache disturbs nobody; it only ever fills it.
LEMMA OthersProgress ==
  ASSUME ReadinessInv, NEW r \in Readers, MayRun(r), ReaderFrame, Elsewhere(r),
         checks # {} => checks' # {},
         NEW s \in Readers \ {r}
  PROVE  Progress(s)'
<1>1. Progress(s)
  BY DEF ReadinessInv
<1>2. /\ reader_stage'[s] = reader_stage[s] /\ fresh'[s] = fresh[s] /\ asked'[s] = asked[s]
      /\ found'[s] = found[s] /\ answers'[s] = answers[s]
      /\ down_since' = down_since /\ adjacent' = adjacent
  BY DEF Elsewhere, ReaderFrame
<1>3. adjacent => reader_stage[s] \notin {"taking", "storing"}
  BY DEF MayRun, Between
<1>4. Oldest(s)' = Oldest(s)
  BY <1>2 DEF Oldest
<1> QED  BY <1>1, <1>2, <1>3, <1>4 DEF Progress

\* The invariant of a reader's step that leaves the cache alone.
LEMMA CacheLeftAlone ==
  ASSUME ReadinessInv, NEW r \in Readers, MayRun(r), ReaderFrame, Elsewhere(r), UNCHANGED cache,
         ~At(r, "storing"), reader_stage'[r] # "storing"
  PROVE  CacheWhole'
<1>1. \A s \in Readers : reader_stage'[s] = "storing" <=> reader_stage[s] = "storing"
  BY DEF Elsewhere, At
<1>2. ASSUME adjacent' PROVE \A s, t \in Between' : s = t
  <2>1. adjacent /\ Between \subseteq {r}
    BY <1>2 DEF MayRun, ReaderFrame
  <2>2. \A s \in Between' : s = r
    BY <2>1 DEF Between, Elsewhere
  <2> QED  BY <2>2
<1>3. UNCHANGED <<adjacent, down_since, generated_at, checks>>
  BY DEF ReaderFrame, cache
<1>4. CacheWhole
  BY DEF ReadinessInv
<1> QED  BY <1>1, <1>2, <1>3, <1>4 DEF CacheWhole, At

LEMMA AnswersLeft ==
  ASSUME ReadinessInv, ReadinessTypes', UNCHANGED <<adjacent, fresh, answers>> PROVE OutageReported'
BY DEF ReadinessInv, OutageReported

\* A step by which a reader goes to a stage.
LEMMA Went ==
  ASSUME ReadinessTypes, NEW r \in Readers, NEW stage \in ReaderStages, GoTo(r, stage)
  PROVE  /\ reader_stage' \in [Readers -> ReaderStages] /\ reader_stage'[r] = stage
         /\ \A s \in Readers \ {r} : reader_stage'[s] = reader_stage[s]
BY DEF ReadinessTypes, GoTo

LEMMA AskedStep ==
  ASSUME ReadinessInv, NEW r \in Readers, MayRun(r), AskReadiness(r), ReaderFrame
  PROVE  ReadinessInv'
<1>1. /\ reader_stage[r] = "calling" /\ asked' = [asked EXCEPT ![r] = clock]
      /\ UNCHANGED <<fresh, found, answers, generated_at, checks, clock, down_since, adjacent>>
  BY DEF AskReadiness, At, cache, ReaderFrame
<1>2. /\ reader_stage' \in [Readers -> ReaderStages] /\ reader_stage'[r] = "looking"
      /\ \A s \in Readers \ {r} : reader_stage'[s] = reader_stage[s]
  BY Went DEF AskReadiness, ReadinessInv, ReaderStages
<1>3. ReadinessTypes'
  <2>1. asked' \in [Readers -> Int]
    BY <1>1 DEF ReadinessInv, ReadinessTypes
  <2> QED  BY <1>1, <1>2, <2>1 DEF ReadinessInv, ReadinessTypes
<1>4. NothingIsYetToCome'
  BY <1>1 DEF ReadinessInv, ReadinessTypes, NothingIsYetToCome
<1>5. Elsewhere(r)
  BY <1>1, <1>2 DEF Elsewhere, ReadinessInv, ReadinessTypes
<1>6. CacheWhole'
  BY <1>1, <1>2, <1>5, CacheLeftAlone DEF cache, At
<1>7. Progress(r)'
  BY <1>1, <1>2 DEF ReadinessInv, Progress
<1>8. \A s \in Readers : Progress(s)'
  BY <1>1, <1>5, <1>7, OthersProgress
<1> QED  BY <1>1, <1>3, <1>4, <1>6, <1>8, AnswersLeft DEF ReadinessInv

LEMMA LookedStep ==
  ASSUME ReadinessInv, NEW r \in Readers, MayRun(r), LookUp(r), ReaderFrame
  PROVE  ReadinessInv'
<1>1. /\ reader_stage[r] = "looking"
      /\ UNCHANGED <<fresh, asked, found, answers, generated_at, checks, clock, down_since, adjacent>>
  BY DEF LookUp, At, cache, ReaderFrame
<1>2. /\ reader_stage' \in [Readers -> ReaderStages]
      /\ reader_stage'[r] = IF Usable(r) THEN "taking" ELSE "checking"
      /\ \A s \in Readers \ {r} : reader_stage'[s] = reader_stage[s]
  <2>1. (IF Usable(r) THEN "taking" ELSE "checking") \in ReaderStages
    BY DEF ReaderStages
  <2> QED  BY <2>1, Went DEF LookUp, ReadinessInv
<1>3. ReadinessTypes'
  BY <1>1, <1>2 DEF ReadinessInv, ReadinessTypes
<1>4. NothingIsYetToCome'
  BY <1>1 DEF ReadinessInv, NothingIsYetToCome
<1>5. Elsewhere(r)
  BY <1>1, <1>2 DEF Elsewhere
<1>6. CacheWhole'
  BY <1>1, <1>2, <1>5, CacheLeftAlone DEF cache, At
<1>7. Progress(r)'
  <2>1. found[r] = << >> /\ answers[r] = {}
    BY <1>1 DEF ReadinessInv, Progress
  <2>2. Shows(down_since, << >>, asked[r])
    BY ReadinessAssumption DEF Shows
  <2> QED  BY <1>1, <1>2, <2>1, <2>2 DEF Progress, Usable
<1>8. \A s \in Readers : Progress(s)'
  BY <1>1, <1>5, <1>7, OthersProgress
<1> QED  BY <1>1, <1>3, <1>4, <1>6, <1>8, AnswersLeft DEF ReadinessInv

LEMMA TakenStep ==
  ASSUME ReadinessInv, NEW r \in Readers, MayRun(r), TakeCached(r), ReaderFrame
  PROVE  ReadinessInv'
<1> DEFINE c == CHOOSE x \in checks : TRUE
<1>1. /\ reader_stage[r] = "taking" /\ found' = [found EXCEPT ![r] = c]
      /\ UNCHANGED <<fresh, asked, answers, generated_at, checks, clock, down_since, adjacent>>
  BY DEF TakeCached, At, cache, ReaderFrame
<1>2. /\ reader_stage' \in [Readers -> ReaderStages] /\ reader_stage'[r] = "answering"
      /\ \A s \in Readers \ {r} : reader_stage'[s] = reader_stage[s]
  BY Went DEF TakeCached, ReadinessInv, ReaderStages
<1>3. ~fresh[r] /\ checks # {} /\ (adjacent => asked[r] - generated_at < TTL) /\ answers[r] = {}
  BY <1>1 DEF ReadinessInv, Progress
<1>4. c \in checks /\ c \in Seq(CheckResults)
  BY <1>3 DEF ReadinessInv, ReadinessTypes
<1> HIDE DEF c
<1>5. ReadinessTypes'
  BY <1>1, <1>2, <1>4 DEF ReadinessInv, ReadinessTypes
<1>6. NothingIsYetToCome'
  BY <1>1 DEF ReadinessInv, NothingIsYetToCome
<1>7. Elsewhere(r)
  BY <1>1, <1>2 DEF Elsewhere, ReadinessInv, ReadinessTypes
<1>8. CacheWhole'
  BY <1>1, <1>2, <1>7, CacheLeftAlone DEF cache, At
<1>9. ASSUME adjacent PROVE Complete(c) /\ Shows(down_since, c, asked[r] - TTL + 1)
  <2>1. \A s \in Readers : ~At(s, "storing")
    BY <1>1, <1>9 DEF MayRun, Between, At
  <2>2. Complete(c) /\ Shows(down_since, c, generated_at)
    BY <1>4, <1>9, <2>1 DEF ReadinessInv, CacheWhole
  <2>3. asked[r] - TTL + 1 <= generated_at /\ asked[r] - TTL + 1 \in Int /\ generated_at \in Int
    BY <1>3, <1>9, ReadinessAssumption DEF ReadinessInv, ReadinessTypes
  <2> QED  BY <1>4, <2>2, <2>3, ShowsEarlier DEF ReadinessInv, ReadinessTypes
<1>10. Progress(r)'
  <2>1. found'[r] = c /\ fresh'[r] = FALSE /\ Oldest(r)' = asked[r] - TTL + 1
    BY <1>1, <1>3 DEF Oldest, ReadinessInv, ReadinessTypes
  <2> QED  BY <1>1, <1>2, <1>3, <1>9, <2>1 DEF Progress
<1>11. \A s \in Readers : Progress(s)'
  BY <1>1, <1>7, <1>10, OthersProgress
<1> QED  BY <1>1, <1>5, <1>6, <1>8, <1>11, AnswersLeft DEF ReadinessInv

LEMMA CheckedStep ==
  ASSUME ReadinessInv, NEW r \in Readers, MayRun(r), RunCheck(r), ReaderFrame
  PROVE  ReadinessInv'
<1> DEFINE n == Expensive[Len(found[r]) + 1]
           more == Append(found[r], [name |-> n, status |-> CheckStatus(n)])
<1>1. /\ reader_stage[r] = "checking" /\ Len(found[r]) < Len(Expensive)
      /\ found' = [found EXCEPT ![r] = more]
      /\ UNCHANGED <<reader_stage, fresh, asked, answers, generated_at, checks, clock, down_since,
                     adjacent>>
  BY DEF RunCheck, At, cache, ReaderFrame, ReadinessInv, ReadinessTypes
<1>2. found[r] \in Seq(CheckResults) /\ Shows(down_since, found[r], asked[r]) /\ answers[r] = {}
  BY <1>1 DEF ReadinessInv, ReadinessTypes, Progress
<1>3. more \in Seq(CheckResults) /\ Shows(down_since, more, asked[r])
  BY <1>1, <1>2, ShowsChecked DEF ReadinessInv
<1> HIDE DEF more
<1>4. ReadinessTypes'
  BY <1>1, <1>3 DEF ReadinessInv, ReadinessTypes
<1>5. NothingIsYetToCome'
  BY <1>1 DEF ReadinessInv, NothingIsYetToCome
<1>6. Elsewhere(r)
  BY <1>1 DEF Elsewhere, ReadinessInv, ReadinessTypes
<1>7. CacheWhole'
  BY <1>1, <1>6, CacheLeftAlone DEF cache, At
<1>8. Progress(r)'
  <2>1. found'[r] = more
    BY <1>1 DEF ReadinessInv, ReadinessTypes
  <2> QED  BY <1>1, <1>2, <1>3, <2>1 DEF Progress
<1>9. \A s \in Readers : Progress(s)'
  BY <1>1, <1>6, <1>8, OthersProgress
<1> QED  BY <1>1, <1>4, <1>5, <1>7, <1>9, AnswersLeft DEF ReadinessInv

LEMMA TimeStoredStep ==
  ASSUME ReadinessInv, NEW r \in Readers, MayRun(r), StoreTime(r), ReaderFrame
  PROVE  ReadinessInv'
<1>1. /\ reader_stage[r] = "checking" /\ Len(found[r]) = Len(Expensive) /\ generated_at' = asked[r]
      /\ UNCHANGED <<fresh, asked, found, answers, checks, clock, down_since, adjacent>>
  BY DEF StoreTime, Stamp, At, ReaderFrame
<1>2. /\ reader_stage' \in [Readers -> ReaderStages] /\ reader_stage'[r] = "storing"
      /\ \A s \in Readers \ {r} : reader_stage'[s] = reader_stage[s]
  BY Went DEF StoreTime, ReadinessInv, ReaderStages
<1>3. Shows(down_since, found[r], asked[r]) /\ answers[r] = {}
  BY <1>1 DEF ReadinessInv, Progress
<1>4. ReadinessTypes'
  BY <1>1, <1>2 DEF ReadinessInv, ReadinessTypes
<1>5. NothingIsYetToCome'
  BY <1>1 DEF ReadinessInv, NothingIsYetToCome
<1>6. Elsewhere(r)
  BY <1>1, <1>2 DEF Elsewhere
<1>7. CacheWhole'
  <2>1. ASSUME adjacent' PROVE \A s, t \in Between' : s = t
    <3>1. adjacent /\ Between \subseteq {r}
      BY <1>1, <2>1 DEF MayRun
    <3>2. \A s \in Between' : s = r
      BY <1>2, <3>1 DEF Between
    <3> QED  BY <3>2
  <2>2. ~(\A s \in Readers : ~At(s, "storing"))'
    BY <1>2 DEF At
  <2> QED  BY <2>1, <2>2 DEF CacheWhole
<1>8. Progress(r)'
  BY <1>1, <1>2, <1>3 DEF Progress, Complete
<1>9. \A s \in Readers : Progress(s)'
  BY <1>1, <1>6, <1>8, OthersProgress
<1> QED  BY <1>1, <1>4, <1>5, <1>7, <1>9, AnswersLeft DEF ReadinessInv

LEMMA ChecksStoredStep ==
  ASSUME ReadinessInv, NEW r \in Readers, MayRun(r), StoreChecks(r), ReaderFrame
  PROVE  ReadinessInv'
<1>1. /\ reader_stage[r] = "storing" /\ checks' = {found[r]}
      /\ UNCHANGED <<fresh, asked, found, answers, generated_at, clock, down_since, adjacent>>
  BY DEF StoreChecks, At, ReaderFrame
<1>2. /\ reader_stage' \in [Readers -> ReaderStages] /\ reader_stage'[r] = "answering"
      /\ \A s \in Readers \ {r} : reader_stage'[s] = reader_stage[s]
  BY Went DEF StoreChecks, ReadinessInv, ReaderStages
<1>3. /\ Shows(down_since, found[r], asked[r]) /\ Complete(found[r]) /\ answers[r] = {}
      /\ adjacent => generated_at = asked[r]
  BY <1>1 DEF ReadinessInv, Progress
<1>4. found[r] \in Seq(CheckResults) /\ asked[r] \in Int
  BY DEF ReadinessInv, ReadinessTypes
<1>5. ReadinessTypes'
  BY <1>1, <1>2, <1>4 DEF ReadinessInv, ReadinessTypes
<1>6. NothingIsYetToCome'
  BY <1>1 DEF ReadinessInv, NothingIsYetToCome
<1>7. Elsewhere(r)
  BY <1>1, <1>2 DEF Elsewhere
<1>8. CacheWhole'
  <2>1. ASSUME adjacent' PROVE \A s, t \in Between' : s = t
    <3>1. adjacent /\ Between \subseteq {r}
      BY <1>1, <2>1 DEF MayRun
    <3>2. \A s \in Between' : s = r
      BY <1>2, <3>1 DEF Between
    <3> QED  BY <3>2
  <2>2. adjacent' => \A c \in checks' : Complete(c) /\ Shows(down_since', c, generated_at')
    BY <1>1, <1>3
  <2> QED  BY <2>1, <2>2 DEF CacheWhole
<1>9. Shows(down_since, found[r], Oldest(r))
  <2>1. Oldest(r) \in Int /\ Oldest(r) <= asked[r]
    BY <1>4, ReadinessAssumption DEF Oldest
  <2> QED  BY <1>3, <1>4, <2>1, ShowsEarlier DEF ReadinessInv, ReadinessTypes
<1>10. Progress(r)'
  BY <1>1, <1>2, <1>3, <1>9 DEF Progress, Oldest
<1>11. \A s \in Readers : Progress(s)'
  BY <1>1, <1>7, <1>10, OthersProgress
<1> QED  BY <1>1, <1>5, <1>6, <1>8, <1>11, AnswersLeft DEF ReadinessInv

\* Complete results that show an outage make an answer that reports it.
LEMMA OutagesMakeStatus ==
  ASSUME ReadinessTypes, NEW r \in Readers, Complete(found[r]),
         Shows(down_since, found[r], Oldest(r))
  PROVE  /\ Outages(r) # {} => OverallStatus(found[r]) # "ready"
         /\ Outages(r) \ Optional # {} => OverallStatus(found[r]) = "not_ready"
<1>1. ASSUME NEW n \in Outages(r)
      PROVE  \E i \in 1..Len(found[r]) : found[r][i].status = Due(n)
  <2>1. PICK i \in 1..Len(Expensive) : n = Expensive[i]
    BY DEF Outages, Names
  <2>2. /\ down_since[n] # Never /\ n \in Names
        /\ down_since[n] + (IF fresh[r] THEN 1 ELSE TTL) <= asked[r]
    BY DEF Outages
  <2>3. down_since[n] \in Int /\ asked[r] \in Int /\ TTL \in Nat
    BY <2>2, ReadinessAssumption DEF ReadinessTypes
  <2>4. down_since[n] < Oldest(r)
    BY <2>2, <2>3 DEF Oldest
  <2> QED  BY <2>1, <2>2, <2>4 DEF Shows, Complete
<1>2. ASSUME NEW n \in Outages(r) PROVE OverallStatus(found[r]) # "ready"
  BY <1>1 DEF OverallStatus, Due
<1>3. ASSUME NEW n \in Outages(r) \ Optional PROVE OverallStatus(found[r]) = "not_ready"
  BY <1>1 DEF OverallStatus, Due
<1> QED  BY <1>2, <1>3

LEMMA ReadinessAnsweredStep ==
  ASSUME ReadinessInv, NEW r \in Readers, MayRun(r), AnswerReadiness(r), ReaderFrame
  PROVE  ReadinessInv'
<1> DEFINE a == [status |-> OverallStatus(found[r]), outages |-> Outages(r)]
<1>1. /\ reader_stage[r] = "answering" /\ answers' = [answers EXCEPT ![r] = {a}]
      /\ UNCHANGED <<fresh, asked, found, generated_at, checks, clock, down_since, adjacent>>
  BY DEF AnswerReadiness, At, cache, ReaderFrame
<1>2. /\ reader_stage' \in [Readers -> ReaderStages] /\ reader_stage'[r] = "answered"
      /\ \A s \in Readers \ {r} : reader_stage'[s] = reader_stage[s]
  BY Went DEF AnswerReadiness, ReadinessInv, ReaderStages
<1>3. /\ DOMAIN answers' = Readers /\ answers'[r] = {a}
      /\ \A s \in Readers \ {r} : answers'[s] = answers[s]
  BY <1>1 DEF ReadinessInv, ReadinessTypes
<1>4. ReadinessTypes'
  BY <1>1, <1>2, <1>3 DEF ReadinessInv, ReadinessTypes
<1>5. NothingIsYetToCome'
  BY <1>1 DEF ReadinessInv, NothingIsYetToCome
<1>6. Elsewhere(r)
  BY <1>1, <1>2, <1>3 DEF Elsewhere
<1>7. CacheWhole'
  BY <1>1, <1>2, <1>6, CacheLeftAlone DEF cache, At
<1>8. Progress(r)'
  BY <1>2 DEF Progress
<1>9. \A s \in Readers : Progress(s)'
  BY <1>1, <1>6, <1>8, OthersProgress
<1>10. ASSUME adjacent \/ fresh[r]
       PROVE  /\ a.outages # {} => a.status # "ready"
              /\ a.outages \ Optional # {} => a.status = "not_ready"
  <2>1. Complete(found[r]) /\ Shows(down_since, found[r], Oldest(r))
    BY <1>1, <1>10 DEF ReadinessInv, Progress
  <2> QED  BY <2>1, OutagesMakeStatus DEF ReadinessInv
<1> HIDE DEF a
<1>11. OutageReported'
  BY <1>1, <1>3, <1>10 DEF ReadinessInv, OutageReported
<1> QED  BY <1>4, <1>5, <1>7, <1>9, <1>11 DEF ReadinessInv

-----------------------------------------------------------------------------
(* Time and outages.                                                        *)

LEMMA SecondStep == ASSUME ReadinessInv, SecondPasses PROVE ReadinessInv'
<1>1. /\ clock' = clock + 1
      /\ UNCHANGED <<down_since, adjacent, generated_at, checks, reader_stage, fresh, asked, found,
                     answers>>
  BY DEF SecondPasses, cache, reader
<1>2. ReadinessTypes'
  BY <1>1 DEF ReadinessInv, ReadinessTypes
<1>3. NothingIsYetToCome'
  BY <1>1 DEF ReadinessInv, ReadinessTypes, NothingIsYetToCome
<1>4. CacheWhole'
  BY <1>1 DEF ReadinessInv, CacheWhole, Between, At
<1>5. \A r \in Readers : Progress(r)'
  BY <1>1 DEF ReadinessInv, Progress, Oldest
<1> QED  BY <1>1, <1>2, <1>3, <1>4, <1>5, AnswersLeft DEF ReadinessInv

LEMMA TurnStep == ASSUME ReadinessInv, DependencyTurns PROVE ReadinessInv'
<1>1. UNCHANGED <<clock, adjacent, generated_at, checks, reader_stage, fresh, asked, found, answers>>
  BY DEF DependencyTurns, cache, reader
<1>2. PICK n \in Names :
        down_since' = [down_since EXCEPT ![n] = IF @ = Never THEN clock ELSE Never]
  BY DEF DependencyTurns
<1>3. ReadinessTypes'
  BY <1>1, <1>2 DEF ReadinessInv, ReadinessTypes, Never
<1>4. NothingIsYetToCome'
  BY <1>1, <1>2 DEF ReadinessInv, ReadinessTypes, NothingIsYetToCome, Never
<1>5. ASSUME NEW results \in Seq(CheckResults), NEW time \in Int, time <= clock,
             Shows(down_since, results, time)
      PROVE  Shows(down_since', results, time)
  <2>1. clock \in Int /\ down_since \in [Names -> Int]
    BY DEF ReadinessInv, ReadinessTypes
  <2> QED  BY <1>2, <1>5, <2>1, ShowsTurned
<1>6. CacheWhole'
  <2>1. generated_at \in Int /\ generated_at <= clock /\ \A c \in checks : c \in Seq(CheckResults)
    BY DEF ReadinessInv, ReadinessTypes, NothingIsYetToCome
  <2>2. \A c \in checks : Shows(down_since, c, generated_at) => Shows(down_since', c, generated_at)
    BY <1>5, <2>1
  <2> QED  BY <1>1, <2>2 DEF ReadinessInv, CacheWhole, Between, At
<1>7. ASSUME NEW r \in Readers PROVE Progress(r)'
  <2>1. /\ found[r] \in Seq(CheckResults) /\ asked[r] \in Int /\ asked[r] <= clock
        /\ Oldest(r) \in Int /\ Oldest(r) <= clock
    BY ReadinessAssumption DEF ReadinessInv, ReadinessTypes, NothingIsYetToCome, Oldest
  <2>2. /\ Shows(down_since, found[r], asked[r]) => Shows(down_since', found[r], asked[r])
        /\ Shows(down_since, found[r], Oldest(r)) => Shows(down_since', found[r], Oldest(r))
    BY <1>5, <2>1
  <2>3. Oldest(r)' = Oldest(r)
    BY <1>1 DEF Oldest
  <2> QED  BY <1>1, <2>2, <2>3 DEF ReadinessInv, Progress
<1> QED  BY <1>1, <1>3, <1>4, <1>6, <1>7, AnswersLeft DEF ReadinessInv

LEMMA ReadinessStep == ReadinessInv /\ [ReadinessNext]_readiness_vars => ReadinessInv'
<1> SUFFICES ASSUME ReadinessInv, [ReadinessNext]_readiness_vars PROVE ReadinessInv'  OBVIOUS
<1>1. ASSUME NEW r \in Readers, ReaderStep(r) PROVE ReadinessInv'
  <2>1. MayRun(r) /\ ReaderFrame
    BY <1>1 DEF ReaderStep, ReaderFrame
  <2> QED
    BY <1>1, <2>1, AskedStep, LookedStep, TakenStep, CheckedStep, TimeStoredStep, ChecksStoredStep,
       ReadinessAnsweredStep DEF ReaderStep
<1>2. CASE UNCHANGED readiness_vars
  <2>1. UNCHANGED <<clock, down_since, adjacent, generated_at, checks, reader_stage, fresh, asked,
                    found, answers>>
    BY <1>2 DEF readiness_vars, cache, reader
  <2>2. ReadinessTypes' /\ NothingIsYetToCome' /\ CacheWhole'
    BY <2>1 DEF ReadinessInv, ReadinessTypes, NothingIsYetToCome, CacheWhole, Between, At
  <2>3. \A r \in Readers : Progress(r)'
    BY <2>1 DEF ReadinessInv, Progress, Oldest
  <2> QED  BY <2>1, <2>2, <2>3, AnswersLeft DEF ReadinessInv
<1> QED  BY <1>1, <1>2, SecondStep, TurnStep DEF ReadinessNext

\* No answer hides an outage for longer than the cache lives, and no fresh one
\* hides any that it finds: for any readers, checks, time to live and outages.
THEOREM OutagesAreReported == ReadinessSafety => []OutageReported
<1>1. ReadinessInv => OutageReported
  BY DEF ReadinessInv
<1> QED  BY <1>1, InitReadiness, ReadinessStep, PTL DEF ReadinessSafety

-----------------------------------------------------------------------------
(* EvidenceExport: downloads.                                               *)

Registered == \E row \in RowsOf(artifact) : row.inside

DownloadTypes ==
  /\ files \in [Artifacts -> FileContents]
  /\ endpoint = "download" => artifact \in Artifacts

\* What artifact_file has found out holds for as long as the file is not changed.
Served ==
  /\ export_stage \in {"download", "comparing", "sending", "answered"}
  /\ export_stage # "answered" => status = 0
  /\ export_stage \in {"comparing", "sending"} =>
       Registered /\ (Undisturbed => files[artifact] # {})
  /\ export_stage = "sending" /\ "sending" \notin changed_in =>
       files[artifact] # {} /\ HashCompared

DownloadInv == DownloadTypes /\ (endpoint = "download" => Served) /\ DownloadVerdict

LEMMA OneRow == ASSUME NEW a, NEW row \in RowsOf(a) PROVE The(RowsOf(a)) = row
<1>1. \A other \in RowsOf(a) : other = row
  BY ExportAssumption DEF RowsOf
<1> QED  BY <1>1 DEF The

LEMMA HashOfFile == ASSUME NEW f \in FileContents, f # {} PROVE Hash(The(f)) = f
<1>1. PICK c : f = {c}
  BY DEF FileContents
<1>2. The(f) = c
  BY <1>1 DEF The
<1> QED  BY <1>1, <1>2 DEF Hash

LEMMA InitDownload == ExportInit => DownloadInv
<1> SUFFICES ASSUME ExportInit PROVE DownloadInv  OBVIOUS
<1>1. files \in [Artifacts -> FileContents] /\ status = 0 /\ export_stage = endpoint
  BY DEF ExportInit
<1>2. endpoint = "download" => artifact \in Artifacts
  BY DEF ExportInit
<1> QED  BY <1>1, <1>2 DEF DownloadInv, DownloadTypes, Served, DownloadVerdict

\* A step of the request leaves the files and what was asked for alone.
LEMMA FoundStep ==
  ASSUME DownloadInv, FindArtifact, UNCHANGED <<files, endpoint, artifact, changed_in>>,
         endpoint = "download"
  PROVE  Served' /\ DownloadVerdict'
<1>1. export_stage = "download" /\ status = 0
  BY DEF FindArtifact, DownloadInv, Served
<1>2. CASE \E row \in RowsOf(artifact) : row.inside /\ files[artifact] # {}
  <2>1. export_stage' = "comparing" /\ status' = 0 /\ Registered' /\ files'[artifact'] # {}
    BY <1>1, <1>2 DEF FindArtifact, Registered, RowsOf
  <2> QED  BY <2>1 DEF Served, DownloadVerdict
<1>3. CASE ~\E row \in RowsOf(artifact) : row.inside /\ files[artifact] # {}
  <2>1. export_stage' = "answered" /\ status' = 404
    BY <1>1, <1>3 DEF FindArtifact, Answer
  <2>2. ~\E row \in RowsOf(artifact') : row.inside /\ files'[artifact'] # {}
    BY <1>3
  <2> QED  BY <2>1, <2>2 DEF Served, DownloadVerdict, RowsOf
<1> QED  BY <1>2, <1>3

LEMMA ComparedStep ==
  ASSUME DownloadInv, CompareHash, UNCHANGED <<files, endpoint, artifact, changed_in>>,
         endpoint = "download"
  PROVE  Served' /\ DownloadVerdict'
<1>1. export_stage = "comparing" /\ status = 0 /\ Registered /\ (Undisturbed => files[artifact] # {})
  BY DEF CompareHash, DownloadInv, Served
<1>2. PICK row \in RowsOf(artifact) : row.inside
  BY <1>1 DEF Registered
<1>3. HashCompared <=> Hash(The(files[artifact])) = row.sha256_hash
  BY <1>2, OneRow DEF HashCompared
<1>4. \A other \in RowsOf(artifact) : other = row
  BY <1>2, OneRow
<1>5. files[artifact] \in FileContents
  BY DEF DownloadInv, DownloadTypes
<1>6. CASE files[artifact] = {} /\ Answer(500)
  <2>1. ~Undisturbed' /\ status' = 500 /\ export_stage' = "answered"
    BY <1>1, <1>6 DEF Undisturbed, Answer
  <2> QED  BY <2>1 DEF Served, DownloadVerdict
<1>7. CASE files[artifact] # {} /\ ~HashCompared /\ Answer(409)
  <2>1. status' = 409 /\ export_stage' = "answered"
    BY <1>7 DEF Answer
  <2>2. files[artifact] # row.sha256_hash
    BY <1>3, <1>5, <1>7, HashOfFile
  <2>3. /\ \E r \in RowsOf(artifact') : r.inside /\ files'[artifact'] # {}
        /\ ~\E r \in RowsOf(artifact') : files'[artifact'] = r.sha256_hash
    BY <1>2, <1>4, <1>7, <2>2
  <2> QED  BY <2>1, <2>3 DEF Served, DownloadVerdict, RowsOf
<1>8. CASE files[artifact] # {} /\ HashCompared /\ export_stage' = "sending" /\ UNCHANGED status
  <2>1. status' = 0 /\ Registered' /\ files'[artifact'] # {} /\ HashCompared'
    BY <1>1, <1>8 DEF Registered, HashCompared, RowsOf
  <2> QED  BY <1>8, <2>1 DEF Served, DownloadVerdict
<1> QED  BY <1>6, <1>7, <1>8 DEF CompareHash

LEMMA SentStep ==
  ASSUME DownloadInv, SendFile, UNCHANGED <<files, endpoint, artifact, changed_in>>,
         endpoint = "download"
  PROVE  Served' /\ DownloadVerdict'
<1>1. /\ export_stage = "sending" /\ Registered /\ (Undisturbed => files[artifact] # {})
      /\ "sending" \notin changed_in => files[artifact] # {} /\ HashCompared
  BY DEF SendFile, DownloadInv, Served
<1>2. PICK row \in RowsOf(artifact) : row.inside
  BY <1>1 DEF Registered
<1>3. HashCompared <=> Hash(The(files[artifact])) = row.sha256_hash
  BY <1>2, OneRow DEF HashCompared
<1>4. files[artifact] \in FileContents
  BY DEF DownloadInv, DownloadTypes
<1>5. Undisturbed => "sending" \notin changed_in
  BY DEF Undisturbed
<1>6. export_stage' = "answered" /\ download' = files[artifact]
      /\ status' = IF files[artifact] = {} THEN 500 ELSE 200
  BY DEF SendFile, Answer
<1>7. status' = 200 /\ "sending" \notin changed_in' =>
        \E r \in RowsOf(artifact') : r.inside /\ Hash(The(download')) = r.sha256_hash
  BY <1>1, <1>2, <1>3, <1>6
<1>8. ASSUME Undisturbed'
      PROVE  /\ status' = 200
             /\ \E r \in RowsOf(artifact') : r.inside /\ files'[artifact'] # {}
             /\ \E r \in RowsOf(artifact') : files'[artifact'] = r.sha256_hash
  <2>1. files[artifact] # {} /\ HashCompared
    BY <1>1, <1>5, <1>8 DEF Undisturbed
  <2>2. files[artifact] = row.sha256_hash
    BY <1>3, <1>4, <2>1, HashOfFile
  <2> QED  BY <1>2, <1>6, <2>1, <2>2
<1> QED  BY <1>6, <1>7, <1>8 DEF Served, DownloadVerdict, RowsOf

LEMMA DownloadRequest == ASSUME DownloadInv, Request PROVE DownloadInv'
<1>1. UNCHANGED <<files, endpoint, report, artifact, changed_in>>
  BY DEF Request
<1>2. DownloadTypes'
  BY <1>1 DEF DownloadInv, DownloadTypes
<1>3. CASE endpoint # "download"
  BY <1>1, <1>2, <1>3 DEF DownloadInv, DownloadVerdict
<1>4. CASE endpoint = "download"
  <2>1. Served /\ export_stage \in {"download", "comparing", "sending", "answered"}
    BY <1>4 DEF DownloadInv, Served
  <2>2. CASE Verify
    <3>1. UNCHANGED <<export_stage, status, download>>
      BY <2>2 DEF Verify
    <3> QED
      BY <1>1, <1>2, <2>1, <3>1
      DEF DownloadInv, DownloadVerdict, Served, Registered, HashCompared, Undisturbed, RowsOf
  <2>3. CASE FindArtifact \/ CompareHash \/ SendFile
    BY <1>1, <1>2, <1>4, <2>3, FoundStep, ComparedStep, SentStep DEF DownloadInv
  <2>4. ~(ReportNotFound \/ ListArtifacts \/ ArtifactFileNotFound \/ ReadBytes \/ HashArtifact
          \/ AnswerBundle \/ AnswerPackage \/ AlterBundle)
    BY <1>4, <2>1 DEF ReportNotFound, ListArtifacts, ArtifactFileNotFound, ReadBytes,
                      HashArtifact, AnswerBundle, AnswerPackage, AlterBundle
  <2> QED  BY <2>2, <2>3, <2>4 DEF Request
<1> QED  BY <1>3, <1>4

LEMMA DownloadFileChanges == ASSUME DownloadInv, ChangeFile PROVE DownloadInv'
<1>1. /\ export_stage # "answered" /\ changed_in' = changed_in \cup {export_stage}
      /\ UNCHANGED <<endpoint, artifact, export_stage, status>>
  BY DEF ChangeFile
<1>2. PICK a \in Touched, c \in FileContents : files' = [files EXCEPT ![a] = c]
  BY DEF ChangeFile
<1>3. DownloadTypes'
  BY <1>1, <1>2 DEF DownloadInv, DownloadTypes
<1>4. ASSUME endpoint = "download" PROVE Served' /\ DownloadVerdict'
  <2>1. status = 0 /\ Served
    BY <1>1, <1>4 DEF DownloadInv, Served
  <2>2. ~Undisturbed' /\ (export_stage = "sending" => "sending" \in changed_in')
    BY <1>1 DEF Undisturbed
  <2> QED  BY <1>1, <2>1, <2>2 DEF Served, DownloadVerdict, Registered, RowsOf
<1> QED  BY <1>1, <1>3, <1>4 DEF DownloadInv, DownloadVerdict

LEMMA DownloadStep == DownloadInv /\ [ExportNext]_export_vars => DownloadInv'
<1> SUFFICES ASSUME DownloadInv, [ExportNext]_export_vars PROVE DownloadInv'  OBVIOUS
<1>1. CASE UNCHANGED export_vars
  BY <1>1 DEF export_vars, progress, DownloadInv, DownloadTypes, DownloadVerdict, Served,
              Registered, HashCompared, Undisturbed, RowsOf
<1> QED  BY <1>1, DownloadRequest, DownloadFileChanges DEF ExportNext

\* A download is what the registry's hash is of unless the file changed after it
\* was hashed, and its status says why it is refused: for any registry, any files
\* and any changes of them.
THEOREM DownloadsMatch == ExportSafety => []DownloadVerdict
BY InitDownload, DownloadStep, PTL DEF ExportSafety, DownloadInv

-----------------------------------------------------------------------------
(* EvidenceVerifier: what the verifier makes of a bundle.                   *)

PayloadIds(read) == {p.artifact_id : p \in read}

OnePerArtifact(read) == \A p, q \in read : p.artifact_id = q.artifact_id => p = q

Entry(p) == [artifact_id |-> p.artifact_id, sha256_hash |-> p.sha256_hash,
             size_bytes |-> p.size_bytes]

Entries(read) == {Entry(p) : p \in read}

LEMMA EntriesCounted ==
  ASSUME NEW read, IsFiniteSet(read), OnePerArtifact(read)
  PROVE  Cardinality(Entries(read)) = Cardinality(read)
<1> DEFINE f == [p \in read |-> Entry(p)]
<1>1. f \in [read -> Entries(read)]
  BY DEF Entries
<1>2. \A p, q \in read : f[p] = f[q] => p = q
  BY DEF OnePerArtifact, Entry
<1>3. \A e \in Entries(read) : \E p \in read : f[p] = e
  BY DEF Entries
<1> HIDE DEF f
<1>4. f \in Bijection(read, Entries(read))
  BY <1>1, <1>2, <1>3 DEF Bijection, Injection, Surjection, IsInjective
<1>5. ExistsBijection(read, Entries(read))
  BY <1>4 DEF ExistsBijection
<1> QED  BY <1>5, FS_Bijection

\* The parts of a bundle.
LEMMA BundleBuilt ==
  ASSUME NEW r, NEW read
  PROVE  LET bundle == BuildEvidenceBundle(r, read)
             package == BuildEvidencePackage(r)
             manifest == BuildManifest(package, read)
         IN  /\ bundle = [sorted |-> TRUE, present |-> Required, manifest |-> manifest,
                          package |-> package, artifact_bytes |-> bundle.artifact_bytes]
             /\ DOMAIN bundle.artifact_bytes = PayloadIds(read)
             /\ OnePerArtifact(read) =>
                  \A p \in read : bundle.artifact_bytes[p.artifact_id] = p.bytes_data
<1> DEFINE bundle == BuildEvidenceBundle(r, read)
           package == BuildEvidencePackage(r)
           manifest == BuildManifest(package, read)
           bytes == [a \in PayloadIds(read) |->
                       (CHOOSE p \in read : p.artifact_id = a).bytes_data]
<1>1. bundle = [sorted |-> TRUE, present |-> Required, manifest |-> manifest,
                package |-> package, artifact_bytes |-> bytes]
  BY DEF BuildEvidenceBundle, PayloadIds
<1> HIDE DEF bundle, package, manifest
<1>2. bundle.artifact_bytes = bytes
  BY <1>1
<1>3. ASSUME OnePerArtifact(read), NEW p \in read
      PROVE  bytes[p.artifact_id] = p.bytes_data
  <2>1. p.artifact_id \in PayloadIds(read)
    BY DEF PayloadIds
  <2>2. \A q \in read : q.artifact_id = p.artifact_id => q = p
    BY <1>3 DEF OnePerArtifact
  <2>3. (CHOOSE q \in read : q.artifact_id = p.artifact_id) = p
    BY <2>2
  <2> QED  BY <2>1, <2>3
<1>4. DOMAIN bytes = PayloadIds(read)
  OBVIOUS
<1> HIDE DEF bytes
<1> QED  BY <1>1, <1>2, <1>3, <1>4 DEF bundle, package, manifest

LEMMA ManifestBuilt ==
  ASSUME NEW package, NEW read
  PROVE  LET manifest == BuildManifest(package, read)
         IN  /\ manifest = [schema |-> BundleSchema, bundle_hash |-> manifest.bundle_hash,
                            evidence_package_hash |-> HashEvidencePackage(package),
                            artifact_count |-> Cardinality(read), artifacts |-> Entries(read)]
             /\ manifest.bundle_hash = HashBundleManifest(manifest)
<1> DEFINE h == HashEvidencePackage(package)
           n == Cardinality(read)
           a == Entries(read)
           blank == [schema |-> BundleSchema, bundle_hash |-> NoHash,
                     evidence_package_hash |-> h, artifact_count |-> n, artifacts |-> a]
           manifest == BuildManifest(package, read)
<1>1. manifest = [blank EXCEPT !.bundle_hash = HashBundleManifest(blank)]
  BY DEF BuildManifest, Entries, Entry
<1> HIDE DEF h, n, a, manifest
<1>2. [blank EXCEPT !.bundle_hash = NoHash] = blank
  OBVIOUS
<1>3. manifest = [schema |-> BundleSchema, bundle_hash |-> Hash(blank),
                  evidence_package_hash |-> h, artifact_count |-> n, artifacts |-> a]
  BY <1>1, <1>2 DEF HashBundleManifest
<1>4. [manifest EXCEPT !.bundle_hash = NoHash] = blank
  BY <1>3
<1>5. manifest.bundle_hash = HashBundleManifest(manifest)
  BY <1>3, <1>4 DEF HashBundleManifest
<1>6. manifest.bundle_hash = Hash(blank)
  BY <1>3
<1> QED  BY <1>3, <1>5, <1>6 DEF h, n, a, manifest

\* Whatever is accepted, as it was built or altered, has the report's package
\* and, for every artifact that was read, bytes with the hash that was taken.
LEMMA AcceptedBundle ==
  ASSUME NEW r, NEW read, OnePerArtifact(read), NEW bundle,
         LET built == BuildEvidenceBundle(r, read)
         IN  bundle = built \/ bundle \in Alterations(built) \ {built},
         VerifyEvidenceBundle(bundle) = ExitValid
  PROVE  /\ bundle.package = BuildEvidencePackage(r)
         /\ bundle.manifest = BuildManifest(bundle.package, read)
         /\ \A p \in read : /\ p.artifact_id \in DOMAIN bundle.artifact_bytes
                            /\ Hash(bundle.artifact_bytes[p.artifact_id]) = p.sha256_hash
<1> DEFINE built == BuildEvidenceBundle(r, read)
           package == BuildEvidencePackage(r)
           manifest == BuildManifest(package, read)
           bytes == built.artifact_bytes
<1>1. /\ built = [sorted |-> TRUE, present |-> Required, manifest |-> manifest,
                  package |-> package, artifact_bytes |-> bytes]
      /\ DOMAIN bytes = PayloadIds(read)
  BY BundleBuilt
<1>2. /\ manifest = [schema |-> BundleSchema, bundle_hash |-> manifest.bundle_hash,
                     evidence_package_hash |-> HashEvidencePackage(package),
                     artifact_count |-> Cardinality(read), artifacts |-> Entries(read)]
      /\ manifest.bundle_hash = HashBundleManifest(manifest)
  BY ManifestBuilt
<1>3. /\ bundle.sorted /\ Required \subseteq bundle.present /\ UnsafeMember \notin bundle.present
      /\ ValidBundleHashes(bundle) /\ ValidBundleSemantics(bundle)
  BY DEF VerifyEvidenceBundle, ExitValid, ExitHashMismatch, ExitSchemaMismatch,
         ExitSemanticFailure
<1>4. bundle = built \/ bundle \in Alterations(built) \ {built}
  OBVIOUS
<1> HIDE DEF built, package, manifest, bytes
<1>5. package.mission_report = r /\ "mission_report" \in DOMAIN package
  BY DEF package, BuildEvidencePackage
<1>6. \A p \in read : Entry(p) \in Entries(read) /\ p.artifact_id \in PayloadIds(read)
  BY DEF Entries, PayloadIds
\* What is left of the alterations when the manifest and the package are those
\* that were built.
<1> DEFINE Unharmed == /\ bundle.manifest = manifest /\ bundle.package = package
                       /\ PayloadIds(read) \subseteq DOMAIN bundle.artifact_bytes
<1>7. ASSUME Unharmed
      PROVE  \A p \in read : /\ p.artifact_id \in DOMAIN bundle.artifact_bytes
                            /\ Hash(bundle.artifact_bytes[p.artifact_id]) = p.sha256_hash
  <2> SUFFICES ASSUME NEW p \in read
               PROVE  /\ p.artifact_id \in DOMAIN bundle.artifact_bytes
                      /\ Hash(bundle.artifact_bytes[p.artifact_id]) = p.sha256_hash
    OBVIOUS
  <2>1. Entry(p) \in bundle.manifest.artifacts
    BY <1>2, <1>6, <1>7
  <2>2. Entry(p).artifact_id = p.artifact_id /\ Entry(p).sha256_hash = p.sha256_hash
    BY DEF Entry
  <2> QED  BY <1>3, <1>6, <1>7, <2>1, <2>2 DEF ValidBundleHashes
<1>8. ASSUME bundle = built PROVE Unharmed
  <2>1. bundle.manifest = manifest /\ bundle.package = package /\ bundle.artifact_bytes = bytes
    BY <1>1, <1>8
  <2> QED  BY <1>1, <2>1
<1>9. ASSUME bundle = [built EXCEPT !.sorted = FALSE] PROVE FALSE
  BY <1>1, <1>3, <1>9
<1>10. ASSUME NEW name \in Required, bundle = [built EXCEPT !.present = @ \ {name}] PROVE FALSE
  BY <1>1, <1>3, <1>10
<1>11. ASSUME NEW other, other # built.package.mission_report,
              bundle = [built EXCEPT !.package.mission_report = other]
       PROVE  FALSE
  <2>1. /\ bundle.manifest = manifest
        /\ bundle.package = [package EXCEPT !.mission_report = other]
        /\ built.package = package
    BY <1>1, <1>11
  <2>2. HashEvidencePackage(package) = HashEvidencePackage(bundle.package)
    BY <1>2, <1>3, <2>1 DEF ValidBundleHashes
  <2>3. [package EXCEPT !.export_hash = NoHash] = [bundle.package EXCEPT !.export_hash = NoHash]
    BY <2>2 DEF HashEvidencePackage, Hash
  <2>4. bundle.package.mission_report = other /\ "mission_report" \in DOMAIN bundle.package
    BY <1>5, <2>1
  <2>5. /\ [package EXCEPT !.export_hash = NoHash].mission_report = package.mission_report
        /\ [bundle.package EXCEPT !.export_hash = NoHash].mission_report
             = bundle.package.mission_report
    BY <1>5, <2>4
  <2> QED  BY <1>11, <2>1, <2>3, <2>4, <2>5
<1>12. ASSUME NEW a \in built.manifest.artifacts,
              bundle = [built EXCEPT !.manifest.artifacts = @ \ {a}]
       PROVE  FALSE
  <2>1. /\ bundle.manifest = [manifest EXCEPT !.artifacts = @ \ {a}]
        /\ built.manifest = manifest
    BY <1>1, <1>12
  <2>2. /\ bundle.manifest.bundle_hash = manifest.bundle_hash
        /\ a \notin bundle.manifest.artifacts /\ a \in manifest.artifacts
    BY <1>2, <2>1
  <2>3. HashBundleManifest(bundle.manifest) = HashBundleManifest(manifest)
    BY <1>2, <1>3, <2>2 DEF ValidBundleHashes
  <2>4. [bundle.manifest EXCEPT !.bundle_hash = NoHash] = [manifest EXCEPT !.bundle_hash = NoHash]
    BY <2>3 DEF HashBundleManifest, Hash
  <2>5. "artifacts" \in DOMAIN manifest /\ "artifacts" \in DOMAIN bundle.manifest
    BY <1>2, <2>1
  <2>6. /\ [bundle.manifest EXCEPT !.bundle_hash = NoHash].artifacts = bundle.manifest.artifacts
        /\ [manifest EXCEPT !.bundle_hash = NoHash].artifacts = manifest.artifacts
    BY <2>5
  <2> QED  BY <2>2, <2>4, <2>6
<1>13. ASSUME NEW a \in DOMAIN bytes, NEW c, bundle = [built EXCEPT !.artifact_bytes[a] = c]
       PROVE  Unharmed
  BY <1>1, <1>13
<1>14. ASSUME NEW a \in DOMAIN bytes,
              bundle = [built EXCEPT !.artifact_bytes = [b \in DOMAIN @ \ {a} |-> @[b]]]
       PROVE  FALSE
  <2>1. bundle.manifest = manifest /\ DOMAIN bundle.artifact_bytes = PayloadIds(read) \ {a}
    BY <1>1, <1>14
  <2>2. PICK p \in read : p.artifact_id = a
    BY <1>1, <1>14 DEF PayloadIds
  <2>3. Entry(p) \in bundle.manifest.artifacts /\ Entry(p).artifact_id = a
    BY <1>2, <1>6, <2>1, <2>2 DEF Entry
  <2> QED  BY <1>3, <2>1, <2>3 DEF ValidBundleSemantics
<1>15. ASSUME NEW name,
              bundle = [built EXCEPT !.present = @ \cup {name}]
       PROVE  Unharmed
  BY <1>1, <1>15
<1>16. ASSUME NEW a, NEW c,
              bundle = [built EXCEPT !.artifact_bytes =
                          [b \in DOMAIN @ \cup {a} |-> IF b = a THEN c ELSE @[b]]]
       PROVE  Unharmed
  BY <1>1, <1>16
<1>17. ASSUME bundle \in Alterations(built) \ {built} PROVE Unharmed
  <2> DEFINE unsorted == {[built EXCEPT !.sorted = FALSE]}
             absent == {[built EXCEPT !.present = @ \ {name}] : name \in Required}
             about == {[built EXCEPT !.package.mission_report = other] :
                         other \in Reports \ {built.package.mission_report}}
             unlisted == {[built EXCEPT !.manifest.artifacts = @ \ {a}] :
                            a \in built.manifest.artifacts}
             replaced == {[built EXCEPT !.artifact_bytes[a] = c] : a \in DOMAIN bytes, c \in Contents}
             removed == {[built EXCEPT !.artifact_bytes = [b \in DOMAIN @ \ {a} |-> @[b]]] :
                           a \in DOMAIN bytes}
             beside == {[built EXCEPT !.present = @ \cup {name}] :
                          name \in {"notes.txt", UnsafeMember}}
             extended(a, c) == [built EXCEPT !.artifact_bytes =
                                  [b \in DOMAIN @ \cup {a} |-> IF b = a THEN c ELSE @[b]]]
             added == {extended(a, c) : a \in Artifacts \ DOMAIN bytes, c \in Contents}
  <2>1. Alterations(built)
          = unsorted \cup absent \cup about \cup unlisted \cup replaced \cup removed
              \cup beside \cup added
    BY DEF Alterations, bytes
  <2>2. bundle \notin absent
    BY <1>10
  <2>3. bundle \notin about
    BY <1>11
  <2>4. bundle \notin unlisted
    BY <1>12
  <2>5. bundle \notin removed
    BY <1>14
  <2>6. bundle \notin unsorted
    BY <1>9
  <2>7. bundle \in replaced => Unharmed
    BY <1>13
  <2>8. bundle \in beside => Unharmed
    BY <1>15
  <2>9. bundle \in added => Unharmed
    <3>1. \A a, c : bundle = extended(a, c) => Unharmed
      BY <1>16
    <3> HIDE DEF extended, Unharmed
    <3> QED  BY <3>1
  <2> HIDE DEF unsorted, absent, about, unlisted, replaced, removed, beside, added, Unharmed
  <2> QED  BY <1>17, <2>1, <2>2, <2>3, <2>4, <2>5, <2>6, <2>7, <2>8, <2>9
<1>18. Unharmed
  BY <1>4, <1>8, <1>17
<1> QED  BY <1>7, <1>18 DEF package, manifest

\* The verdict on the package of a report is what the report deserves: building it
\* leaves the report as it is, and its own hashes and counts are right.
LEMMA PackageJudged ==
  ASSUME NEW r PROVE VerifyEvidencePackage(BuildEvidencePackage(r)) = Owed(r)
<1> DEFINE header == [report_id |-> r.report_id, content_hash |-> r.content_hash]
           counts == BuildSummary(r)
           events == ArtifactManifest(r)
           With(hash) == [schema |-> PackageSchema, export_hash |-> hash, report |-> header,
                          summary |-> counts, artifact_manifest |-> events, mission_report |-> r]
           blank == With(NoHash)
           package == BuildEvidencePackage(r)
<1>1. package = [blank EXCEPT !.export_hash = HashEvidencePackage(blank)]
  BY DEF BuildEvidencePackage
<1> HIDE DEF counts, events, header, package
<1>2. package = With(HashEvidencePackage(blank))
  BY <1>1
<1>3. [package EXCEPT !.export_hash = NoHash] = blank /\ [blank EXCEPT !.export_hash = NoHash] = blank
  BY <1>2
<1>4. /\ package.schema = PackageSchema /\ package.mission_report = r
      /\ package.report.content_hash = r.content_hash /\ package.summary = BuildSummary(r)
      /\ package.export_hash = HashEvidencePackage(blank)
  BY <1>2 DEF header, counts
<1>5. package.export_hash = HashEvidencePackage(package)
  BY <1>3, <1>4 DEF HashEvidencePackage
<1> HIDE DEF blank, With
<1>6. ValidHashes(package) <=> r.content_hash = HashMissionReport(r)
  BY <1>4, <1>5 DEF ValidHashes
<1>7. ValidSemantics(package)
        <=> /\ \A list \in Lists : Monotonic(r[list])
            /\ CommandsResolve(Items(r.safety_events), Items(r.robot_commands))
  BY <1>4 DEF ValidSemantics
<1>8. VerifyEvidencePackage(package) = Owed(r)
  BY <1>4, <1>6, <1>7 DEF VerifyEvidencePackage, Owed
<1> QED  BY <1>8 DEF package

\* The verdict on a bundle of sound payloads is the verdict on its package.
LEMMA SoundBundle ==
  ASSUME NEW r, NEW read, IsFiniteSet(read), OnePerArtifact(read),
         \A p \in read : p.size_bytes = p.bytes_data.size /\ p.sha256_hash = Hash(p.bytes_data)
  PROVE  VerifyEvidenceBundle(BuildEvidenceBundle(r, read))
           = VerifyEvidencePackage(BuildEvidencePackage(r))
<1> DEFINE bundle == BuildEvidenceBundle(r, read)
           package == BuildEvidencePackage(r)
           manifest == BuildManifest(package, read)
           bytes == bundle.artifact_bytes
<1>1. /\ bundle = [sorted |-> TRUE, present |-> Required, manifest |-> manifest,
                   package |-> package, artifact_bytes |-> bytes]
      /\ DOMAIN bytes = PayloadIds(read)
      /\ \A p \in read : bytes[p.artifact_id] = p.bytes_data
  BY BundleBuilt
<1>2. /\ manifest = [schema |-> BundleSchema, bundle_hash |-> manifest.bundle_hash,
                     evidence_package_hash |-> HashEvidencePackage(package),
                     artifact_count |-> Cardinality(read), artifacts |-> Entries(read)]
      /\ manifest.bundle_hash = HashBundleManifest(manifest)
  BY ManifestBuilt
<1> HIDE DEF bundle, package, manifest, bytes
<1>3. /\ bundle.sorted /\ bundle.present = Required /\ bundle.manifest = manifest
      /\ bundle.package = package /\ bundle.artifact_bytes = bytes
      /\ manifest.schema = BundleSchema /\ manifest.artifacts = Entries(read)
      /\ manifest.artifact_count = Cardinality(read)
      /\ manifest.evidence_package_hash = HashEvidencePackage(package)
  BY <1>1, <1>2
<1>4. \A e \in Entries(read) :
        /\ e.artifact_id \in DOMAIN bytes
        /\ e.sha256_hash = Hash(bytes[e.artifact_id]) /\ e.size_bytes = bytes[e.artifact_id].size
  <2> SUFFICES ASSUME NEW p \in read
               PROVE  /\ p.artifact_id \in DOMAIN bytes
                      /\ p.sha256_hash = Hash(bytes[p.artifact_id])
                      /\ p.size_bytes = bytes[p.artifact_id].size
    BY DEF Entries, Entry
  <2> QED  BY <1>1 DEF PayloadIds
<1>5. ValidBundleHashes(bundle)
  BY <1>2, <1>3, <1>4 DEF ValidBundleHashes
<1>6. ValidBundleSemantics(bundle)
  BY <1>3, <1>4, EntriesCounted DEF ValidBundleSemantics
<1>7. VerifyEvidenceBundle(bundle)
        = IF VerifyEvidencePackage(package) # ExitValid THEN VerifyEvidencePackage(package)
          ELSE ExitValid
  BY <1>3, <1>5, <1>6 DEF VerifyEvidenceBundle, Required, UnsafeMember
<1> QED  BY <1>7 DEF bundle, package

-----------------------------------------------------------------------------
(* EvidenceExport: exports.                                                 *)

ReportTypes == report \in {{}} \cup {{r} : r \in Reports}

StagesOf ==
  [e \in {"export-bundle", "export", "download"} |->
     CASE e = "export-bundle" -> {"export-bundle", "reading", "hashing", "answered"}
       [] e = "export" -> {"export", "answered"}
       [] e = "download" -> {"download", "comparing", "sending", "answered"}]

InStages == endpoint \in DOMAIN StagesOf /\ export_stage \in StagesOf[endpoint]

\* What was read and hashed in a bundle's time.
PayloadsSound ==
  /\ IsFiniteSet(payloads) /\ OnePerArtifact(payloads)
  /\ \A p \in payloads : p.size_bytes = p.bytes_data.size
  /\ Undisturbed => \A p \in payloads : p.sha256_hash = Hash(p.bytes_data)

\* The linked artifacts are the payloads and those that are still to be read.
Collecting ==
  /\ export_stage = "export-bundle" => payloads = {}
  /\ export_stage \in {"reading", "hashing"} =>
       /\ report # {} /\ to_read \subseteq Linked(The(report))
       /\ PayloadIds(payloads) = Linked(The(report)) \ to_read
  /\ export_stage = "hashing" => to_read # {} /\ (Undisturbed => reading = files[NextToRead])

\* An export is what was built, or one alteration of it.
Built ==
  /\ export_stage # "answered" => exported = {} /\ status = 0 /\ ~altered
  /\ exported = {} => exit_code = -1
  /\ exported # {} /\ endpoint = "export" =>
       /\ report # {} /\ ~altered
       /\ exported = {BuildEvidencePackage(The(report))}
  /\ exported # {} /\ endpoint = "export-bundle" =>
       /\ report # {} /\ PayloadIds(payloads) = Linked(The(report))
       /\ LET bundle == BuildEvidenceBundle(The(report), payloads)
          IN  IF altered THEN \E b \in Alterations(bundle) \ {bundle} : exported = {b}
              ELSE exported = {bundle}
  /\ exported # {} => endpoint # "download"

ExportInv ==
  ReportTypes /\ InStages /\ PayloadsSound /\ Collecting /\ Built /\ ExportVerdict

LEMMA ReportIs == ASSUME ReportTypes, report # {} PROVE The(report) \in Reports
<1>1. PICK r \in Reports : report = {r}
  BY DEF ReportTypes
<1> QED  BY <1>1 DEF The

LEMMA OnlyElement == ASSUME NEW x PROVE The({x}) = x
BY DEF The

\* The artifact that is read next is one of those that are to be read.
LEMMA NextIsToRead ==
  ASSUME to_read # {}, NEW r, to_read \subseteq Linked(r) PROVE NextToRead \in to_read
<1> DEFINE less == OpToRel(<, Nat)
<1>1. to_read \subseteq Nat
  BY ExportAssumption DEF Linked
<1>2. \A a, b \in Nat : a < b => <<a, b>> \in less
  BY DEF OpToRel
<1>3. IsWellFoundedOn(less, Nat)
  BY NatLessThanWellFounded
<1> HIDE DEF less
<1>4. PICK a \in to_read : \A b \in to_read : ~(<<b, a>> \in less)
  BY <1>1, <1>3, WFMin
<1>5. ASSUME NEW b \in to_read PROVE a <= b
  <2>1. a \in Nat /\ b \in Nat /\ ~(b < a)
    BY <1>1, <1>2, <1>4
  <2> QED  BY <2>1
<1> QED  BY <1>5 DEF NextToRead

LEMMA InitExport == ExportInit => ExportInv
<1> SUFFICES ASSUME ExportInit PROVE ExportInv  OBVIOUS
<1>1. /\ export_stage = endpoint /\ to_read = {} /\ payloads = {} /\ status = 0
      /\ exported = {} /\ ~altered /\ exit_code = -1
  BY DEF ExportInit
<1>2. ReportTypes
  BY DEF ExportInit, ReportTypes
<1>3. InStages
  BY <1>1 DEF ExportInit, InStages, StagesOf
<1>4. PayloadsSound
  BY <1>1, FS_EmptySet DEF PayloadsSound, OnePerArtifact
<1>5. Collecting /\ Built
  BY <1>1, <1>3 DEF Collecting, Built, InStages, StagesOf
<1>6. ExportVerdict
  BY <1>1 DEF ExportVerdict, ExitValid
<1> QED  BY <1>2, <1>3, <1>4, <1>5, <1>6 DEF ExportInv

\* As long as there is no verdict and no 404 there is nothing to judge.
LEMMA NothingToJudge ==
  ASSUME Built', exported' = {}, status' # 404 PROVE ExportVerdict'
BY DEF Built, ExportVerdict, ExitValid

RequestFrame == UNCHANGED <<files, endpoint, report, artifact, changed_in>>

LEMMA ListedStep == ASSUME ExportInv, ListArtifacts, RequestFrame PROVE ExportInv'
<1>1. /\ export_stage = "export-bundle" /\ report # {} /\ to_read' = Linked(The(report))
      /\ export_stage' = "reading"
      /\ UNCHANGED <<status, reading, payloads, exported, download, altered, exit_code>>
  BY DEF ListArtifacts
<1>2. /\ UNCHANGED <<files, endpoint, report, artifact, changed_in>> /\ exported = {} /\ status = 0
      /\ payloads = {} /\ endpoint = "export-bundle"
  BY <1>1 DEF RequestFrame, ExportInv, Built, Collecting, InStages, StagesOf
<1>3. ReportTypes' /\ InStages'
  BY <1>1, <1>2 DEF ExportInv, ReportTypes, InStages, StagesOf
<1>4. PayloadsSound'
  BY <1>1, <1>2 DEF ExportInv, PayloadsSound, OnePerArtifact, Undisturbed
<1>5. Collecting'
  BY <1>1, <1>2 DEF Collecting, PayloadIds, Linked
<1>6. Built'
  BY <1>1, <1>2 DEF ExportInv, Built
<1> QED  BY <1>1, <1>2, <1>3, <1>4, <1>5, <1>6, NothingToJudge DEF ExportInv

LEMMA RefusedStep ==
  ASSUME ExportInv, ReportNotFound \/ ArtifactFileNotFound, RequestFrame PROVE ExportInv'
<1>1. /\ export_stage' = "answered" /\ status' = 404 /\ UNCHANGED progress
      /\ export_stage # "answered"
  BY DEF ReportNotFound, ArtifactFileNotFound, Answer
<1>2. /\ UNCHANGED <<files, endpoint, report, artifact, changed_in>> /\ exported = {} /\ exported' = {}
      /\ UNCHANGED <<payloads, to_read, reading, altered, exit_code>>
  BY <1>1 DEF RequestFrame, ExportInv, Built, progress
<1>3. ReportTypes' /\ InStages'
  BY <1>1, <1>2 DEF ExportInv, ReportTypes, InStages, StagesOf
<1>4. PayloadsSound'
  BY <1>1, <1>2 DEF ExportInv, PayloadsSound, OnePerArtifact, Undisturbed
<1>5. Collecting'
  BY <1>1 DEF Collecting
<1>6. Built'
  BY <1>1, <1>2 DEF ExportInv, Built
<1>7. report = {} \/ \E a \in Linked(The(report)) : files[a] = {}
  <2>1. CASE ReportNotFound
    BY <2>1 DEF ReportNotFound
  <2>2. CASE ArtifactFileNotFound
    <3>1. /\ to_read # {} /\ files[NextToRead] = {} /\ export_stage \in {"reading", "hashing"}
      BY <2>2 DEF ArtifactFileNotFound
    <3>2. to_read \subseteq Linked(The(report))
      BY <3>1 DEF ExportInv, Collecting
    <3>3. NextToRead \in to_read
      BY <3>1, <3>2, NextIsToRead
    <3> QED  BY <3>1, <3>2, <3>3
  <2> QED  BY <2>1, <2>2
<1>8. (report = {} \/ \E a \in Linked(The(report)) : files[a] = {})'
  BY <1>2, <1>7 DEF Linked
<1>9. exit_code' = -1
  BY <1>2, <1>6 DEF Built
<1>10. ExportVerdict'
  BY <1>8, <1>9 DEF ExportVerdict, ExitValid
<1> QED  BY <1>3, <1>4, <1>5, <1>6, <1>10 DEF ExportInv

LEMMA ReadStep == ASSUME ExportInv, ReadBytes, RequestFrame PROVE ExportInv'
<1>1. /\ export_stage = "reading" /\ to_read # {} /\ reading' = files[NextToRead]
      /\ export_stage' = "hashing"
      /\ UNCHANGED <<status, to_read, payloads, exported, download, altered, exit_code>>
  BY DEF ReadBytes
<1>2. /\ UNCHANGED <<files, endpoint, report, artifact, changed_in>> /\ exported = {} /\ status = 0
      /\ endpoint = "export-bundle"
  BY <1>1 DEF RequestFrame, ExportInv, Built, InStages, StagesOf
<1>3. ReportTypes' /\ InStages'
  BY <1>1, <1>2 DEF ExportInv, ReportTypes, InStages, StagesOf
<1>4. PayloadsSound'
  BY <1>1, <1>2 DEF ExportInv, PayloadsSound, OnePerArtifact, Undisturbed
<1>5. Collecting'
  BY <1>1, <1>2 DEF ExportInv, Collecting, PayloadIds, Linked, NextToRead
<1>6. Built'
  BY <1>1, <1>2 DEF ExportInv, Built
<1> QED  BY <1>1, <1>2, <1>3, <1>4, <1>5, <1>6, NothingToJudge DEF ExportInv

LEMMA HashedStep == ASSUME ExportInv, HashArtifact, RequestFrame PROVE ExportInv'
<1> DEFINE p == [artifact_id |-> NextToRead, bytes_data |-> The(reading),
                 size_bytes |-> The(reading).size, sha256_hash |-> Hash(The(files[NextToRead]))]
<1>1. /\ export_stage = "hashing" /\ payloads' = payloads \cup {p}
      /\ to_read' = to_read \ {NextToRead} /\ export_stage' = "reading"
      /\ UNCHANGED <<status, exported, download, altered, exit_code>>
  BY DEF HashArtifact
<1>2. /\ UNCHANGED <<files, endpoint, report, artifact, changed_in>> /\ exported = {} /\ status = 0
      /\ endpoint = "export-bundle"
  BY <1>1 DEF RequestFrame, ExportInv, Built, InStages, StagesOf
<1>3. /\ to_read # {} /\ report # {} /\ to_read \subseteq Linked(The(report))
      /\ PayloadIds(payloads) = Linked(The(report)) \ to_read
      /\ Undisturbed => reading = files[NextToRead]
  BY <1>1 DEF ExportInv, Collecting
<1>4. NextToRead \in to_read
  BY <1>3, NextIsToRead
<1>5. ReportTypes' /\ InStages'
  BY <1>1, <1>2 DEF ExportInv, ReportTypes, InStages, StagesOf
<1>6. /\ p.artifact_id = NextToRead /\ p.size_bytes = p.bytes_data.size
      /\ Undisturbed => p.sha256_hash = Hash(p.bytes_data)
  BY <1>3
<1> HIDE DEF p
<1>7. \A q \in payloads : q.artifact_id # p.artifact_id
  BY <1>3, <1>4, <1>6 DEF PayloadIds
<1>8. PayloadsSound'
  <2>1. IsFiniteSet(payloads')
    BY <1>1, FS_AddElement DEF ExportInv, PayloadsSound
  <2>2. OnePerArtifact(payloads')
    BY <1>1, <1>7 DEF ExportInv, PayloadsSound, OnePerArtifact
  <2>3. Undisturbed' = Undisturbed
    BY <1>2 DEF Undisturbed
  <2>4. /\ \A q \in payloads' : q.size_bytes = q.bytes_data.size
        /\ Undisturbed => \A q \in payloads' : q.sha256_hash = Hash(q.bytes_data)
    BY <1>1, <1>6 DEF ExportInv, PayloadsSound
  <2> QED  BY <2>1, <2>2, <2>3, <2>4 DEF PayloadsSound, OnePerArtifact
<1>9. PayloadIds(payloads') = Linked(The(report)) \ to_read'
  BY <1>1, <1>3, <1>4, <1>6 DEF PayloadIds
<1>10. Collecting'
  BY <1>1, <1>2, <1>3, <1>9 DEF Collecting, Linked, PayloadIds
<1>11. Built'
  BY <1>1, <1>2 DEF ExportInv, Built
<1> QED  BY <1>1, <1>2, <1>5, <1>8, <1>10, <1>11, NothingToJudge DEF ExportInv

LEMMA AnsweredStep ==
  ASSUME ExportInv, AnswerBundle \/ AnswerPackage, RequestFrame PROVE ExportInv'
<1>1. /\ export_stage \in {"reading", "export"} /\ export_stage' = "answered"
      /\ status' \in {200, 500}
      /\ UNCHANGED <<to_read, reading, payloads, download, altered, exit_code>>
  BY DEF AnswerBundle, AnswerPackage, Answer
<1>2. /\ UNCHANGED <<files, endpoint, report, artifact, changed_in>> /\ exported = {} /\ ~altered
      /\ endpoint = IF export_stage = "reading" THEN "export-bundle" ELSE "export"
      /\ exit_code = -1
  BY <1>1 DEF RequestFrame, ExportInv, Built, InStages, StagesOf
<1>3. ReportTypes' /\ InStages'
  BY <1>1, <1>2 DEF ExportInv, ReportTypes, InStages, StagesOf
<1>4. PayloadsSound'
  BY <1>1, <1>2 DEF ExportInv, PayloadsSound, OnePerArtifact, Undisturbed
<1>5. Collecting'
  BY <1>1 DEF Collecting
<1>6. Built'
  <2>1. CASE AnswerBundle
    <3>1. /\ export_stage = "reading" /\ to_read = {}
          /\ exported' = {BuildEvidenceBundle(The(report), payloads)}
      BY <2>1 DEF AnswerBundle
    <3>2. report # {} /\ PayloadIds(payloads) = Linked(The(report))
      BY <3>1 DEF ExportInv, Collecting
    <3>3. /\ endpoint' = "export-bundle" /\ report' # {}
          /\ PayloadIds(payloads') = Linked(The(report'))
          /\ exported' = {BuildEvidenceBundle(The(report'), payloads')} /\ ~altered'
          /\ exit_code' = -1 /\ export_stage' = "answered"
      BY <1>1, <1>2, <3>1, <3>2
    <3> QED  BY <3>3 DEF Built, Linked, PayloadIds
  <2>2. CASE AnswerPackage
    <3>1. /\ endpoint' = "export" /\ report' # {} /\ ~altered' /\ exit_code' = -1
          /\ exported' \in {{}, {BuildEvidencePackage(The(report'))}} /\ export_stage' = "answered"
      BY <1>1, <1>2, <2>2 DEF AnswerPackage
    <3> QED  BY <3>1 DEF Built
  <2> QED  BY <2>1, <2>2
<1>7. ExportVerdict'
  BY <1>1, <1>2 DEF ExportVerdict, ExitValid
<1> QED  BY <1>3, <1>4, <1>5, <1>6, <1>7 DEF ExportInv

LEMMA AlteredStep == ASSUME ExportInv, AlterBundle, RequestFrame PROVE ExportInv'
<1>1. /\ endpoint = "export-bundle" /\ export_stage = "answered" /\ exported # {} /\ ~altered
      /\ exit_code = -1 /\ altered'
      /\ UNCHANGED <<export_stage, status, to_read, reading, payloads, download, exit_code>>
  BY DEF AlterBundle
<1>2. UNCHANGED <<files, endpoint, report, artifact, changed_in>>
  BY DEF RequestFrame
<1> DEFINE bundle == BuildEvidenceBundle(The(report), payloads)
<1>3. report # {} /\ PayloadIds(payloads) = Linked(The(report)) /\ exported = {bundle}
  BY <1>1 DEF ExportInv, Built
<1>4. The(exported) = bundle
  BY <1>3, OnlyElement
<1>5. PICK b \in Alterations(bundle) \ {bundle} : exported' = {b}
  BY <1>3, <1>4 DEF AlterBundle
<1>6. bundle' = bundle /\ Alterations(bundle)' = Alterations(bundle)
  BY <1>1, <1>2
<1>7. ReportTypes' /\ InStages'
  BY <1>1, <1>2 DEF ExportInv, ReportTypes, InStages
<1>8. PayloadsSound'
  BY <1>1, <1>2 DEF ExportInv, PayloadsSound, OnePerArtifact, Undisturbed
<1>9. Collecting'
  BY <1>1 DEF Collecting
<1>10. (PayloadIds(payloads) = Linked(The(report)))'
  BY <1>1, <1>2, <1>3 DEF PayloadIds, Linked
<1> HIDE DEF bundle
<1>11. Built'
  BY <1>1, <1>2, <1>3, <1>5, <1>6, <1>10 DEF Built, bundle
<1>12. ExportVerdict'
  BY <1>1, <1>2 DEF ExportInv, ExportVerdict, ExitValid, Linked, Undisturbed
<1> QED  BY <1>7, <1>8, <1>9, <1>11, <1>12 DEF ExportInv

LEMMA VerifiedStep ==
  ASSUME ExportInv, Verify, RequestFrame PROVE ExportInv'
<1>1. /\ export_stage = "answered" /\ exported # {}
      /\ UNCHANGED <<export_stage, status, to_read, reading, payloads, exported, download, altered>>
      /\ exit_code' = IF endpoint = "export-bundle" THEN VerifyEvidenceBundle(The(exported))
                      ELSE VerifyEvidencePackage(The(exported))
  BY DEF Verify
<1>2. UNCHANGED <<files, endpoint, report, artifact, changed_in>>
  BY DEF RequestFrame
<1>3. /\ report # {} /\ endpoint \in {"export", "export-bundle"}
      /\ PayloadsSound /\ Built
  BY <1>1 DEF ExportInv, Built, InStages, StagesOf
<1>4. VerifyEvidencePackage(BuildEvidencePackage(The(report))) = Owed(The(report))
  BY PackageJudged
<1>5. ReportTypes' /\ InStages'
  BY <1>1, <1>2 DEF ExportInv, ReportTypes, InStages
<1>6. PayloadsSound'
  BY <1>1, <1>2 DEF ExportInv, PayloadsSound, OnePerArtifact, Undisturbed
<1>7. Collecting'
  BY <1>1 DEF Collecting
<1>8. Built'
  BY <1>1, <1>2, <1>3 DEF Built, PayloadIds, Linked
<1> DEFINE built == BuildEvidenceBundle(The(report), payloads)
<1>9. ASSUME exit_code' = ExitValid, endpoint = "export-bundle"
      PROVE  /\ The(exported).package = BuildEvidencePackage(The(report))
             /\ The(exported).manifest = BuildManifest(The(exported).package, payloads)
             /\ {p.artifact_id : p \in payloads} = Linked(The(report))
             /\ \A p \in payloads :
                  /\ p.artifact_id \in DOMAIN The(exported).artifact_bytes
                  /\ Hash(The(exported).artifact_bytes[p.artifact_id]) = p.sha256_hash
  <2>1. /\ PayloadIds(payloads) = Linked(The(report))
        /\ \E b : exported = {b} /\ (b = built \/ b \in Alterations(built) \ {built})
    BY <1>1, <1>3, <1>9 DEF Built
  <2>2. The(exported) = built \/ The(exported) \in Alterations(built) \ {built}
    BY <2>1, OnlyElement
  <2>3. VerifyEvidenceBundle(The(exported)) = ExitValid
    BY <1>1, <1>9
  <2>4. OnePerArtifact(payloads)
    BY <1>3 DEF PayloadsSound
  <2> HIDE DEF built
  <2>5. /\ The(exported).package = BuildEvidencePackage(The(report))
        /\ The(exported).manifest = BuildManifest(The(exported).package, payloads)
        /\ \A p \in payloads :
             /\ p.artifact_id \in DOMAIN The(exported).artifact_bytes
             /\ Hash(The(exported).artifact_bytes[p.artifact_id]) = p.sha256_hash
    BY <2>2, <2>3, <2>4, AcceptedBundle DEF built
  <2> QED  BY <2>1, <2>5 DEF PayloadIds
<1>10. ASSUME Undisturbed, ~altered PROVE exit_code' = Owed(The(report))
  <2>1. CASE endpoint = "export"
    <3>1. The(exported) = BuildEvidencePackage(The(report))
      BY <1>1, <1>3, <2>1, OnlyElement DEF Built
    <3> QED  BY <1>1, <1>4, <2>1, <3>1
  <2>2. CASE endpoint = "export-bundle"
    <3>1. The(exported) = built
      BY <1>1, <1>3, <1>10, <2>2, OnlyElement DEF Built
    <3>2. VerifyEvidenceBundle(built) = VerifyEvidencePackage(BuildEvidencePackage(The(report)))
      BY <1>3, <1>10, SoundBundle DEF PayloadsSound
    <3> QED  BY <1>1, <1>4, <2>2, <3>1, <3>2
  <2> QED  BY <1>3, <2>1, <2>2
<1> HIDE DEF built
<1>11. ExportVerdict'
  <2>1. ExportVerdict
    BY DEF ExportInv
  <2> QED  BY <1>1, <1>2, <1>9, <1>10, <2>1 DEF ExportVerdict, Linked, Undisturbed
<1> QED  BY <1>5, <1>6, <1>7, <1>8, <1>11 DEF ExportInv

LEMMA DownloadsExportNothing ==
  ASSUME ExportInv, FindArtifact \/ CompareHash \/ SendFile, RequestFrame PROVE ExportInv'
<1>1. /\ export_stage \in {"download", "comparing", "sending"}
      /\ export_stage' \in {"comparing", "sending", "answered"}
      /\ UNCHANGED <<to_read, reading, payloads, exported, altered, exit_code>>
  BY DEF FindArtifact, CompareHash, SendFile, Answer, progress
<1>2. /\ UNCHANGED <<files, endpoint, report, artifact, changed_in>> /\ exported = {} /\ ~altered
      /\ endpoint = "download" /\ exit_code = -1
  BY <1>1 DEF RequestFrame, ExportInv, Built, InStages, StagesOf
<1>3. status' = 0 \/ export_stage' = "answered"
  BY <1>1 DEF FindArtifact, CompareHash, SendFile, Answer, ExportInv, Built
<1>4. ReportTypes' /\ InStages'
  BY <1>1, <1>2 DEF ExportInv, ReportTypes, InStages, StagesOf
<1>5. PayloadsSound'
  BY <1>1, <1>2 DEF ExportInv, PayloadsSound, OnePerArtifact, Undisturbed
<1>6. Collecting'
  BY <1>1 DEF Collecting
<1>7. Built'
  BY <1>1, <1>2, <1>3 DEF Built
<1>8. ExportVerdict'
  BY <1>1, <1>2 DEF ExportVerdict, ExitValid
<1> QED  BY <1>4, <1>5, <1>6, <1>7, <1>8 DEF ExportInv

LEMMA ExportFileChanges == ASSUME ExportInv, ChangeFile PROVE ExportInv'
<1>1. /\ export_stage # "answered" /\ ~Undisturbed'
      /\ UNCHANGED <<endpoint, report, artifact, export_stage, status>>
      /\ UNCHANGED <<to_read, reading, payloads, exported, download, altered, exit_code>>
  BY DEF ChangeFile, Undisturbed, progress
<1>2. exported = {} /\ status = 0
  BY <1>1 DEF ExportInv, Built
<1>3. ReportTypes' /\ InStages'
  BY <1>1 DEF ExportInv, ReportTypes, InStages
<1>4. PayloadsSound'
  BY <1>1 DEF ExportInv, PayloadsSound, OnePerArtifact
<1>5. Collecting'
  BY <1>1 DEF ExportInv, Collecting, PayloadIds, Linked
<1>6. Built'
  BY <1>1, <1>2 DEF ExportInv, Built
<1> QED  BY <1>1, <1>2, <1>3, <1>4, <1>5, <1>6, NothingToJudge DEF ExportInv

LEMMA ExportStep ==
  ExportInv /\ [ExportNext]_export_vars => ExportInv'
<1> SUFFICES ASSUME ExportInv, [ExportNext]_export_vars PROVE ExportInv'  OBVIOUS
<1>1. CASE Request
  <2>1. RequestFrame
    BY <1>1 DEF Request, RequestFrame
  <2> QED
    BY <1>1, <2>1, ListedStep, RefusedStep, ReadStep, HashedStep, AnsweredStep, AlteredStep,
       VerifiedStep, DownloadsExportNothing DEF Request
<1>2. CASE UNCHANGED export_vars
  <2>1. UNCHANGED <<files, endpoint, report, artifact, export_stage, status, changed_in, to_read,
                    reading, payloads, exported, download, altered, exit_code>>
    BY <1>2 DEF export_vars, progress
  <2>2. ReportTypes' /\ InStages' /\ PayloadsSound' /\ Collecting'
    BY <2>1 DEF ExportInv, ReportTypes, InStages, PayloadsSound, OnePerArtifact, Undisturbed,
                Collecting, PayloadIds, Linked, NextToRead
  <2>3. Built'
    BY <2>1 DEF ExportInv, Built, PayloadIds, Linked
  <2>4. ExportVerdict'
    BY <2>1 DEF ExportInv, ExportVerdict, Linked, Undisturbed
  <2> QED  BY <2>2, <2>3, <2>4 DEF ExportInv
<1> QED  BY <1>1, <1>2, ExportFileChanges DEF ExportNext

\* What the verifier accepts has the report, and every linked artifact as it was
\* hashed, however files change while it is read and whatever members are then
\* taken out, replaced, added or moved; an undisturbed export gets the verdict
\* that its report deserves: for any reports, registry, files and changes.
THEOREM ExportsJudged == ExportSafety => []ExportVerdict
<1>1. ExportInv => ExportVerdict
  BY DEF ExportInv
<1> QED  BY <1>1, InitExport, ExportStep, PTL DEF ExportSafety

-----------------------------------------------------------------------------
(* ReportBrowser: the inductive invariant.                                  *)

Ids == DOMAIN FrameCount
MaybeId == Ids \cup {NoReport}

Fetches ==
  {FetchList} \cup {FetchReport(by, id) : by \in {"refresh", "click"}, id \in Ids}
  \cup {FetchReplay(id) : id \in Ids}

BrowserTypes ==
  /\ selectedReportId \in MaybeId /\ replay_of \in MaybeId
  /\ reports \in Seq(Ids) /\ sent \in Seq(Fetches)
  /\ replayIndex \in Int /\ url_frame \in Int

OnlyReplays(wanted) == \A i \in 1..Len(wanted) : wanted[i].of = "replay"

\* A fetch behind which no list and no report is wanted for has the last word on
\* what is shown: it is a list, which makes a selection, or is about this report.
Settles(wanted, id) ==
  \A i \in 1..Len(wanted) :
    (\A j \in (i + 1)..Len(wanted) : wanted[j].of = "replay") =>
      wanted[i].of = "list" \/ wanted[i].id = id

Shown ==
  /\ Settles(sent, selectedReportId)
  /\ OnlyReplays(sent) => /\ shown_report = selectedReportId
                          /\ selectedReportId # NoReport => latestReport = selectedReportId
  /\ sent = << >> => replay_of = selectedReportId

FrameShown == HasFrames => replayIndex < FrameCount[replay_of]

BrowserInv == BrowserTypes /\ (in_order /\ ~failed => Shown) /\ FrameShown

-----------------------------------------------------------------------------
(* What is settled.                                                         *)

LEMMA OthersLeft ==
  ASSUME sent \in Seq(Fetches), NEW i \in 1..Len(sent)
  PROVE  /\ Others(i) \in Seq(Fetches) /\ Len(Others(i)) = Len(sent) - 1
         /\ i = 1 => \A j \in 1..Len(Others(1)) : Others(1)[j] = sent[j + 1]
<1> DEFINE before == SubSeq(sent, 1, i - 1)
           after == SubSeq(sent, i + 1, Len(sent))
<1>1. /\ before \in Seq(Fetches) /\ Len(before) = i - 1
      /\ after \in Seq(Fetches) /\ Len(after) = Len(sent) - i
      /\ \A j \in 1..Len(after) : after[j] = sent[i + j]
  OBVIOUS
<1>2. Others(i) = before \o after
  BY DEF Others
<1> HIDE DEF before, after
<1>3. Others(i) \in Seq(Fetches) /\ Len(Others(i)) = Len(sent) - 1
  BY <1>1, <1>2
<1>4. ASSUME i = 1, NEW j \in 1..Len(Others(1)) PROVE Others(1)[j] = sent[j + 1]
  <2>1. Len(before) = 0 /\ j \in 1..Len(after)
    BY <1>1, <1>3, <1>4
  <2>2. (before \o after)[j] = after[j]
    BY <1>1, <2>1
  <2> QED  BY <1>1, <1>2, <1>4, <2>1, <2>2
<1> QED
  BY <1>3, <1>4

LEMMA FetchKinds ==
  /\ FetchList \in Fetches /\ FetchList.of = "list"
  /\ \A id \in Ids : \A by \in {"refresh", "click"} :
       /\ FetchReport(by, id) \in Fetches
       /\ FetchReport(by, id).of = "report" /\ FetchReport(by, id).id = id
  /\ \A id \in Ids : /\ FetchReplay(id) \in Fetches
                     /\ FetchReplay(id).of = "replay" /\ FetchReplay(id).id = id
  /\ \A f \in Fetches : f.of \in {"report", "replay"} => f.id \in Ids /\ f.id # NoReport
<1>1. NoReport \notin Ids
  BY BrowserAssumption DEF Ids
<1>2. FetchList \in Fetches /\ FetchList.of = "list"
  BY DEF Fetches, FetchList
<1>3. \A id \in Ids : \A by \in {"refresh", "click"} :
        /\ FetchReport(by, id) \in Fetches
        /\ FetchReport(by, id).of = "report" /\ FetchReport(by, id).id = id
  BY DEF Fetches, FetchReport
<1>4. \A id \in Ids : /\ FetchReplay(id) \in Fetches
                      /\ FetchReplay(id).of = "replay" /\ FetchReplay(id).id = id
  BY DEF Fetches, FetchReplay
<1>5. ASSUME NEW f \in Fetches, f.of \in {"report", "replay"} PROVE f.id \in Ids
  <2>1. f # FetchList
    BY <1>5 DEF FetchList
  <2> QED  BY <1>3, <1>4, <1>5, <2>1 DEF Fetches
<1> QED
  BY <1>1, <1>2, <1>3, <1>4, <1>5

\* A list or a report of the selection, sent last, settles whatever was sent.
LEMMA SettledByLast ==
  ASSUME NEW wanted \in Seq(Fetches), NEW last \in Fetches, NEW id,
         last.of # "replay", last.of = "list" \/ last.id = id
  PROVE  /\ Settles(Append(wanted, last), id)
         /\ ~OnlyReplays(Append(wanted, last)) /\ Append(wanted, last) # << >>
<1> DEFINE more == Append(wanted, last)
           n == Len(wanted) + 1
<1>1. /\ more \in Seq(Fetches) /\ Len(more) = n /\ n \in Nat /\ n >= 1 /\ more[n] = last
  OBVIOUS
<1> HIDE DEF more, n
<1>2. ASSUME NEW i \in 1..Len(more), \A j \in (i + 1)..Len(more) : more[j].of = "replay"
      PROVE  more[i].of = "list" \/ more[i].id = id
  <2>1. i = n
    BY <1>1, <1>2
  <2> QED  BY <1>1, <2>1
<1>3. Settles(more, id)
  BY <1>2 DEF Settles
<1>4. ~OnlyReplays(more) /\ more # << >>
  BY <1>1 DEF OnlyReplays
<1> QED  BY <1>3, <1>4 DEF more

\* So does the replay of the selection, if the others are settled already.
LEMMA SettledByReplay ==
  ASSUME NEW wanted \in Seq(Fetches), NEW id \in Ids, Settles(wanted, id)
  PROVE  /\ Settles(Append(wanted, FetchReplay(id)), id)
         /\ OnlyReplays(Append(wanted, FetchReplay(id))) => OnlyReplays(wanted)
         /\ Append(wanted, FetchReplay(id)) # << >>
<1> DEFINE last == FetchReplay(id)
           more == Append(wanted, last)
           n == Len(wanted) + 1
<1>1. last.of = "replay" /\ last.id = id /\ last \in Fetches
  BY FetchKinds
<1> HIDE DEF last
<1>2. /\ more \in Seq(Fetches) /\ Len(more) = n /\ n \in Nat /\ n >= 1 /\ more[n] = last
      /\ Len(wanted) = n - 1
      /\ \A i \in 1..n - 1 : more[i] = wanted[i]
  BY <1>1
<1> HIDE DEF more, n
<1>3. ASSUME NEW i \in 1..Len(more), \A j \in (i + 1)..Len(more) : more[j].of = "replay"
      PROVE  more[i].of = "list" \/ more[i].id = id
  <2>1. CASE i = n
    BY <1>1, <1>2, <2>1
  <2>2. CASE i < n
    <3>1. i \in 1..Len(wanted) /\ more[i] = wanted[i]
      BY <1>2, <2>2
    <3>2. \A j \in (i + 1)..Len(wanted) : wanted[j].of = "replay"
      BY <1>2, <1>3
    <3> QED  BY <3>1, <3>2 DEF Settles
  <2> QED  BY <1>2, <2>1, <2>2
<1>4. Settles(more, id)
  BY <1>3 DEF Settles
<1>5. (OnlyReplays(more) => OnlyReplays(wanted)) /\ more # << >>
  BY <1>2 DEF OnlyReplays
<1> QED  BY <1>4, <1>5 DEF more, last

\* What the first answer leaves is settled; and the first answer has the last
\* word if only replays follow it.
LEMMA SettledAfterFirst ==
  ASSUME NEW id, sent \in Seq(Fetches), 1 \in 1..Len(sent), Settles(sent, id)
  PROVE  /\ Settles(Others(1), id)
         /\ OnlyReplays(Others(1)) => sent[1].of = "list" \/ sent[1].id = id
         /\ OnlyReplays(Others(1)) /\ sent[1].of = "replay" => OnlyReplays(sent)
         /\ Others(1) = << >> => Len(sent) = 1
<1> DEFINE rest == Others(1)
<1>1. /\ rest \in Seq(Fetches) /\ Len(rest) = Len(sent) - 1 /\ Len(sent) \in Nat
      /\ \A j \in 1..Len(rest) : rest[j] = sent[j + 1]
  <2>1. Len(sent) \in Nat
    OBVIOUS
  <2> QED  BY <2>1, OthersLeft
<1> HIDE DEF rest
<1>2. ASSUME NEW i \in 1..Len(rest), \A j \in (i + 1)..Len(rest) : rest[j].of = "replay"
      PROVE  rest[i].of = "list" \/ rest[i].id = id
  <2>1. i + 1 \in 1..Len(sent) /\ rest[i] = sent[i + 1]
    BY <1>1
  <2>2. ASSUME NEW j \in (i + 2)..Len(sent) PROVE sent[j].of = "replay"
    <3>1. j - 1 \in (i + 1)..Len(rest) /\ rest[j - 1] = sent[(j - 1) + 1] /\ (j - 1) + 1 = j
      BY <1>1
    <3> QED  BY <1>2, <3>1
  <2> QED  BY <2>1, <2>2 DEF Settles
<1>3. Settles(rest, id)
  BY <1>2 DEF Settles
<1>4. ASSUME OnlyReplays(rest), NEW j \in 2..Len(sent) PROVE sent[j].of = "replay"
  <2>1. j - 1 \in 1..Len(rest) /\ rest[j - 1] = sent[(j - 1) + 1] /\ (j - 1) + 1 = j
    BY <1>1
  <2> QED  BY <1>4, <2>1 DEF OnlyReplays
<1>5. OnlyReplays(rest) => sent[1].of = "list" \/ sent[1].id = id
  BY <1>4 DEF Settles
<1>6. OnlyReplays(rest) /\ sent[1].of = "replay" => OnlyReplays(sent)
  <2> SUFFICES ASSUME OnlyReplays(rest), sent[1].of = "replay", NEW i \in 1..Len(sent)
               PROVE  sent[i].of = "replay"
    BY DEF OnlyReplays
  <2> QED  BY <1>1, <1>4
<1>7. rest = << >> => Len(sent) = 1
  BY <1>1
<1> QED  BY <1>3, <1>5, <1>6, <1>7 DEF rest

-----------------------------------------------------------------------------
(* Its steps.                                                               *)

LEMMA InitBrowser == BrowserInit => BrowserInv
<1> SUFFICES ASSUME BrowserInit PROVE BrowserInv  OBVIOUS
<1>1. /\ selectedReportId = NoReport /\ reports = << >> /\ replay_of = NoReport
      /\ replayIndex = 0 /\ url_frame = -1 /\ sent = <<FetchList>>
  BY DEF BrowserInit
<1>2. FetchList \in Fetches /\ FetchList.of = "list"
  BY FetchKinds
<1>3. BrowserTypes
  BY <1>1, <1>2 DEF BrowserTypes, MaybeId
<1>4. Len(sent) = 1 /\ sent[1] = FetchList /\ sent # << >>
  BY <1>1
<1>5. Shown
  BY <1>2, <1>4 DEF Shown, Settles, OnlyReplays
<1>6. FrameShown
  BY <1>1 DEF FrameShown, HasFrames
<1> QED  BY <1>3, <1>5, <1>6 DEF BrowserInv

LEMMA FrameSet ==
  ASSUME NEW index \in Int, NEW of \in Ids, SetReplayFrame(index, of), replayIndex \in Int
  PROVE  replayIndex' \in Int /\ (FrameCount[of] > 0 => replayIndex' < FrameCount[of])
<1>1. FrameCount[of] \in Nat
  BY BrowserAssumption DEF Ids
<1> QED  BY <1>1 DEF SetReplayFrame, Clamp

LEMMA ListStep ==
  ASSUME BrowserInv, NEW i \in 1..Len(sent), in_order => i = 1, ListAnswered(i), UNCHANGED in_order
  PROVE  BrowserInv'
<1> DEFINE sel == selectedReportId'
<1>1. /\ reports' \in Seq(Ids) /\ sel \in MaybeId
      /\ sel = IF selectedReportId = NoReport /\ reports' # << >> THEN Head(reports')
               ELSE selectedReportId
      /\ UNCHANGED <<latestReport, failed>>
  <2>1. reports' \in Seq(Ids)
    BY BrowserAssumption DEF ListAnswered, Ids
  <2> QED  BY <2>1 DEF ListAnswered, BrowserInv, BrowserTypes, MaybeId
<1>2. sent \in Seq(Fetches) /\ Others(i) \in Seq(Fetches) /\ sent[i].of = "list"
  BY OthersLeft DEF BrowserInv, BrowserTypes, ListAnswered
<1>3. CASE sel # NoReport
  <2> DEFINE last == FetchReport("refresh", sel)
  <2>1. sent' = Append(Others(i), last) /\ UNCHANGED <<shown_report, playback>>
    BY <1>3 DEF ListAnswered
  <2>2. last \in Fetches /\ last.of = "report" /\ last.id = sel
    BY <1>1, <1>3, FetchKinds DEF MaybeId
  <2> HIDE DEF last
  <2>3. BrowserTypes' /\ FrameShown'
    BY <1>1, <1>2, <2>1, <2>2 DEF BrowserInv, BrowserTypes, FrameShown, HasFrames, playback
  <2>4. Shown'
    BY <1>2, <2>1, <2>2, SettledByLast DEF Shown
  <2> QED  BY <2>3, <2>4 DEF BrowserInv
<1>4. CASE sel = NoReport
  <2>1. /\ sent' = Others(i) /\ shown_report' = NoReport /\ replay_of' = NoReport
        /\ UNCHANGED <<replayIndex, url_frame>>
    BY <1>4 DEF ListAnswered, RenderReportUnavailable
  <2>2. selectedReportId = NoReport
    BY <1>1, <1>4
  <2>3. BrowserTypes' /\ FrameShown'
    BY <1>1, <1>2, <2>1 DEF BrowserInv, BrowserTypes, FrameShown, HasFrames, MaybeId
  <2>4. ASSUME in_order', ~failed' PROVE Shown'
    <3>1. Settles(sent, NoReport) /\ i = 1
      BY <1>1, <2>2, <2>4 DEF BrowserInv, Shown
    <3>2. Settles(Others(1), NoReport)
      BY <1>2, <3>1, SettledAfterFirst
    <3> QED  BY <1>4, <2>1, <3>1, <3>2 DEF Shown
  <2> QED  BY <2>3, <2>4 DEF BrowserInv
<1> QED  BY <1>3, <1>4

LEMMA ReportStep ==
  ASSUME BrowserInv, NEW i \in 1..Len(sent), in_order => i = 1, ReportAnswered(i), UNCHANGED in_order
  PROVE  BrowserInv'
<1> DEFINE sel == selectedReportId
<1>1. /\ sent[i].of = "report" /\ latestReport' = sent[i].id /\ shown_report' = sent[i].id
      /\ sent' = IF sel = NoReport THEN Others(i) ELSE Append(Others(i), FetchReplay(sel))
      /\ UNCHANGED <<selectedReportId, reports, replay_of, replayIndex, url_frame, failed>>
  BY DEF ReportAnswered
<1>2. sent \in Seq(Fetches) /\ Others(i) \in Seq(Fetches) /\ sel \in MaybeId
  BY OthersLeft DEF BrowserInv, BrowserTypes
<1>3. sent[i].id # NoReport
  BY <1>1, <1>2, FetchKinds
<1>4. sel # NoReport => sel \in Ids /\ FetchReplay(sel) \in Fetches
  BY <1>2, FetchKinds DEF MaybeId
<1>5. BrowserTypes' /\ FrameShown'
  BY <1>1, <1>2, <1>4 DEF BrowserInv, BrowserTypes, FrameShown, HasFrames
<1>6. ASSUME in_order', ~failed' PROVE Shown'
  <2>1. Settles(sent, sel) /\ i = 1
    BY <1>1, <1>6 DEF BrowserInv, Shown
  <2>2. Settles(Others(1), sel) /\ (OnlyReplays(Others(1)) => sent[1].id = sel)
    BY <1>1, <1>2, <2>1, SettledAfterFirst
  <2>3. CASE sel = NoReport
    <3>1. ~OnlyReplays(Others(1)) /\ sent' = Others(1)
      BY <1>1, <1>3, <2>1, <2>2, <2>3
    <3>2. sent' # << >>
      BY <3>1 DEF OnlyReplays
    <3> QED  BY <1>1, <2>2, <3>1, <3>2 DEF Shown
  <2>4. CASE sel # NoReport
    <3>1. sent' = Append(Others(1), FetchReplay(sel))
      BY <1>1, <2>1, <2>4
    <3>2. Settles(sent', sel) /\ (OnlyReplays(sent') => OnlyReplays(Others(1))) /\ sent' # << >>
      BY <1>2, <1>4, <2>1, <2>2, <2>4, <3>1, SettledByReplay
    <3> QED  BY <1>1, <2>1, <2>2, <3>2 DEF Shown
  <2> QED  BY <2>3, <2>4
<1> QED  BY <1>5, <1>6 DEF BrowserInv

LEMMA ReplayAnsweredStep ==
  ASSUME BrowserInv, NEW i \in 1..Len(sent), in_order => i = 1, ReplayAnswered(i), UNCHANGED in_order
  PROVE  BrowserInv'
<1> DEFINE id == sent[i].id
<1>1. /\ sent[i].of = "replay" /\ replay_of' = id /\ sent' = Others(i)
      /\ UNCHANGED <<selectedReportId, reports, latestReport, shown_report, url_frame, failed>>
  BY DEF ReplayAnswered, selection
<1>2. sent \in Seq(Fetches) /\ Others(i) \in Seq(Fetches)
  BY OthersLeft DEF BrowserInv, BrowserTypes
<1>3. id \in Ids /\ id # NoReport
  BY <1>1, <1>2, FetchKinds
<1>4. replayIndex' \in Int /\ (FrameCount[id] > 0 => replayIndex' < FrameCount[id])
  <2>1. PICK index \in Int : SetReplayFrame(index, id)
    BY DEF ReplayAnswered, BrowserInv, BrowserTypes
  <2> QED  BY <1>3, <2>1, FrameSet DEF BrowserInv, BrowserTypes
<1>5. BrowserTypes' /\ FrameShown'
  BY <1>1, <1>2, <1>3, <1>4 DEF BrowserInv, BrowserTypes, FrameShown, HasFrames, MaybeId
<1>6. ASSUME in_order', ~failed' PROVE Shown'
  <2>1. Shown /\ i = 1 /\ Settles(sent, selectedReportId)
    BY <1>1, <1>6 DEF BrowserInv, Shown
  <2>2. /\ Settles(Others(1), selectedReportId)
        /\ OnlyReplays(Others(1)) => sent[1].id = selectedReportId
        /\ OnlyReplays(Others(1)) => OnlyReplays(sent)
    BY <1>1, <1>2, <2>1, SettledAfterFirst
  <2>3. Others(1) = << >> => OnlyReplays(Others(1))
    BY DEF OnlyReplays
  <2> QED  BY <1>1, <2>1, <2>2, <2>3 DEF Shown
<1> QED  BY <1>5, <1>6 DEF BrowserInv

LEMMA FailureStep ==
  ASSUME BrowserInv, NEW i \in 1..Len(sent), FetchFails(i) PROVE BrowserInv'
<1>1. /\ failed' /\ sent' = Others(i) /\ UNCHANGED <<selectedReportId, replayIndex, url_frame>>
      /\ replay_of' \in {replay_of, NoReport} /\ reports' \in {reports, << >>}
  BY DEF FetchFails, RenderReportUnavailable, selection, playback
<1>2. Others(i) \in Seq(Fetches)
  BY OthersLeft DEF BrowserInv, BrowserTypes
<1>3. BrowserTypes'
  <2>1. reports' \in Seq(Ids)
    <3>1. << >> \in Seq(Ids)
      OBVIOUS
    <3> QED  BY <1>1, <3>1 DEF BrowserInv, BrowserTypes
  <2>2. replay_of' \in MaybeId
    BY <1>1 DEF BrowserInv, BrowserTypes, MaybeId
  <2> QED  BY <1>1, <1>2, <2>1, <2>2 DEF BrowserInv, BrowserTypes
<1>4. FrameShown'
  BY <1>1 DEF BrowserInv, FrameShown, HasFrames
<1> QED  BY <1>1, <1>3, <1>4 DEF BrowserInv

LEMMA AskStep ==
  ASSUME BrowserInv, UNCHANGED <<in_order, failed>>,
         (\E reset \in BOOLEAN : RefreshLatestReport(reset)) \/ SelectReport
  PROVE  BrowserInv'
<1>1. PICK last \in Fetches :
        /\ sent' = Append(sent, last) /\ last.of # "replay"
        /\ last.of = "list" \/ last.id = selectedReportId'
        /\ selectedReportId' \in MaybeId
  <2>1. CASE \E reset \in BOOLEAN : RefreshLatestReport(reset)
    BY <2>1, FetchKinds DEF RefreshLatestReport, BrowserInv, BrowserTypes, MaybeId
  <2>2. CASE SelectReport
    <3>1. PICK k \in 1..Len(reports) :
            /\ selectedReportId' = reports[k]
            /\ sent' = Append(sent, FetchReport("click", reports[k]))
      BY <2>2 DEF SelectReport
    <3>2. reports[k] \in Ids
      BY DEF BrowserInv, BrowserTypes
    <3> QED  BY <3>1, <3>2, FetchKinds DEF MaybeId
  <2> QED  BY <2>1, <2>2
<1>2. UNCHANGED <<reports, replay_of, replayIndex, url_frame>> /\ sent \in Seq(Fetches)
  BY DEF RefreshLatestReport, SelectReport, playback, BrowserInv, BrowserTypes
<1>3. BrowserTypes' /\ FrameShown'
  BY <1>1, <1>2 DEF BrowserInv, BrowserTypes, FrameShown, HasFrames
<1>4. Shown'
  BY <1>1, <1>2, SettledByLast DEF Shown
<1> QED  BY <1>3, <1>4 DEF BrowserInv

LEMMA PlaybackStep ==
  ASSUME BrowserInv, UNCHANGED <<in_order, failed>>,
         SeekFrame \/ ToggleReplayPlayback \/ ReplayTimer
  PROVE  BrowserInv'
<1>1. UNCHANGED <<selectedReportId, reports, latestReport, shown_report, replay_of, sent>>
  BY DEF SeekFrame, ToggleReplayPlayback, ReplayTimer, selection
<1>2. \/ UNCHANGED <<replayIndex, url_frame>>
      \/ /\ HasFrames /\ url_frame' = replayIndex'
         /\ \E index \in Int : SetReplayFrame(index, replay_of)
  <2>1. CASE SeekFrame
    BY <2>1 DEF SeekFrame
  <2>2. CASE ToggleReplayPlayback
    BY <2>2 DEF ToggleReplayPlayback
  <2>3. CASE ReplayTimer
    <3>1. CASE HasFrames /\ replayIndex < FrameCount[replay_of] - 1
      <4>1. replayIndex + 1 \in Int
        BY DEF BrowserInv, BrowserTypes
      <4> QED  BY <2>3, <3>1, <4>1 DEF ReplayTimer
    <3>2. CASE ~(HasFrames /\ replayIndex < FrameCount[replay_of] - 1)
      BY <2>3, <3>2 DEF ReplayTimer
    <3> QED  BY <3>1, <3>2
  <2> QED  BY <2>1, <2>2, <2>3
<1>3. BrowserTypes' /\ FrameShown'
  <2>1. HasFrames => replay_of \in Ids
    BY DEF HasFrames, BrowserInv, BrowserTypes, MaybeId
  <2>2. HasFrames' = HasFrames
    BY <1>1 DEF HasFrames
  <2>3. CASE UNCHANGED <<replayIndex, url_frame>>
    BY <1>1, <2>2, <2>3 DEF BrowserInv, BrowserTypes, FrameShown
  <2>4. ASSUME NEW index \in Int, HasFrames, url_frame' = replayIndex',
               SetReplayFrame(index, replay_of)
        PROVE  BrowserTypes' /\ FrameShown'
    <3>1. replayIndex' \in Int /\ (FrameCount[replay_of] > 0 => replayIndex' < FrameCount[replay_of])
      BY <2>1, <2>4, FrameSet DEF BrowserInv, BrowserTypes
    <3> QED
      BY <1>1, <2>2, <2>4, <3>1 DEF BrowserInv, BrowserTypes, FrameShown, HasFrames
  <2> QED  BY <1>2, <2>3, <2>4
<1>4. Shown => Shown'
  BY <1>1 DEF Shown
<1> QED  BY <1>3, <1>4 DEF BrowserInv

LEMMA BrowserStep == BrowserInv /\ [BrowserNext]_browser_vars => BrowserInv'
<1> SUFFICES ASSUME BrowserInv, [BrowserNext]_browser_vars PROVE BrowserInv'  OBVIOUS
<1>1. CASE Answered
  BY <1>1, ListStep, ReportStep, ReplayAnsweredStep, FailureStep DEF Answered
<1>2. CASE Operator
  BY <1>2, AskStep, PlaybackStep DEF Operator
<1>3. CASE ReplayTimer
  BY <1>3, PlaybackStep DEF ReplayTimer
<1>4. CASE UNCHANGED browser_vars
  BY <1>4 DEF browser_vars, selection, playback, BrowserInv, BrowserTypes, Shown, FrameShown,
              HasFrames
<1> QED  BY <1>1, <1>2, <1>3, <1>4 DEF BrowserNext

LEMMA BrowserShows == BrowserInv => ShowsSelected
<1>1. sent = << >> => OnlyReplays(sent)
  BY DEF OnlyReplays
<1> QED  BY <1>1 DEF BrowserInv, Shown, FrameShown, ShowsSelected

\* Once all is answered the report, its hash and its replay on display are those
\* of the selected report, for any lists of reports and any number of selections
\* and refreshes; and the frame on display is one of the replay's.
THEOREM SelectedIsShown == BrowserSafety => []ShowsSelected
BY BrowserShows, InitBrowser, BrowserStep, PTL DEF BrowserSafety

-----------------------------------------------------------------------------
(* ReplayTimeline: places in an order.                                      *)

LEMMA CountedTo == ASSUME NEW n \in Nat PROVE IsFiniteSet(1..n) /\ Cardinality(1..n) = n
BY FS_Interval

\* below[i] holds what stands before i in a total order, and i.
Ordered(D, below) ==
  /\ below \in [D -> SUBSET D]
  /\ \A i \in D : i \in below[i]
  /\ \A i, j \in D : j \in below[i] \/ i \in below[j]
  /\ \A i, j \in D : j \in below[i] /\ i \in below[j] => i = j
  /\ \A i, j \in D : j \in below[i] => below[j] \subseteq below[i]

PlaceOf(below, i) == Cardinality(below[i])
StandingAt(D, below, k) == CHOOSE i \in D : PlaceOf(below, i) = k

\* The places of a finite order's elements are counted from 1, each is taken
\* once, and what stands before another has the lower place.
LEMMA PlacesTaken ==
  ASSUME NEW D, IsFiniteSet(D), NEW below, Ordered(D, below)
  PROVE  /\ \A i \in D : PlaceOf(below, i) \in 1..Cardinality(D)
         /\ \A i, j \in D : PlaceOf(below, j) <= PlaceOf(below, i) => j \in below[i]
         /\ \A k \in 1..Cardinality(D) : \E i \in D : PlaceOf(below, i) = k
<1> DEFINE n == Cardinality(D)
           P(i) == PlaceOf(below, i)
<1>0. n \in Nat
  BY FS_CardinalityType
<1>1. ASSUME NEW i \in D PROVE IsFiniteSet(below[i]) /\ P(i) \in 1..n
  <2>1. below[i] \in SUBSET D /\ below[i] # {}
    BY DEF Ordered
  <2>2. IsFiniteSet(below[i]) /\ P(i) <= n
    BY <2>1, FS_Subset DEF PlaceOf
  <2>3. P(i) \in Nat /\ P(i) # 0
    BY <2>1, <2>2, FS_CardinalityType, FS_EmptySet DEF PlaceOf
  <2> HIDE DEF n, P
  <2> QED  BY <1>0, <2>2, <2>3
<1>2. ASSUME NEW i \in D, NEW j \in D, j \in below[i], i # j PROVE P(j) < P(i)
  <2>1. below[j] \in SUBSET below[i] /\ i \in below[i] /\ i \notin below[j]
    BY <1>2 DEF Ordered
  <2>2. P(j) <= P(i) /\ P(i) # P(j)
    BY <1>1, <2>1, FS_Subset DEF PlaceOf
  <2>3. P(i) \in Nat /\ P(j) \in Nat
    BY <1>0, <1>1
  <2> HIDE DEF P
  <2> QED  BY <2>2, <2>3
<1>3. ASSUME NEW i \in D, NEW j \in D, P(j) <= P(i) PROVE j \in below[i]
  <2> SUFFICES ASSUME j \notin below[i] PROVE FALSE  OBVIOUS
  <2>1. i \in below[j] /\ i # j
    BY DEF Ordered
  <2>2. P(i) < P(j)
    BY <1>2, <2>1
  <2>3. P(i) \in Nat /\ P(j) \in Nat
    BY <1>0, <1>1
  <2> HIDE DEF P
  <2> QED  BY <1>3, <2>2, <2>3
<1>4. ASSUME NEW k \in 1..n PROVE \E i \in D : P(i) = k
  <2> DEFINE place == [i \in D |-> P(i)]
  <2>1. place \in Injection(D, 1..n)
    <3>1. place \in [D -> 1..n]
      BY <1>1
    <3>2. ASSUME NEW i \in D, NEW j \in D, P(i) = P(j) PROVE i = j
      <4>1. P(i) \in Nat
        BY <1>0, <1>1
      <4>2. P(j) <= P(i) /\ P(i) <= P(j)
        <5> HIDE DEF P
        <5> QED  BY <3>2, <4>1
      <4>3. j \in below[i] /\ i \in below[j]
        BY <1>3, <4>2
      <4> QED  BY <4>3 DEF Ordered
    <3> HIDE DEF P
    <3> QED  BY <3>1, <3>2 DEF Injection, IsInjective
  <2>2. IsFiniteSet(1..n) /\ Cardinality(1..n) = Cardinality(D)
    <3> HIDE DEF n
    <3>1. IsFiniteSet(1..n) /\ Cardinality(1..n) = n
      BY <1>0, CountedTo
    <3> QED  BY <3>1 DEF n
  <2>3. place \in Surjection(D, 1..n)
    <3> HIDE DEF place, n
    <3> QED  BY <2>1, <2>2, FS_Injection
  <2>4. \E i \in D : place[i] = k
    <3> HIDE DEF place, n, P
    <3> QED  BY <2>3 DEF Surjection
  <2> QED  BY <2>4
<1> QED  BY <1>1, <1>3, <1>4

\* The element that stands at a place.
LEMMA StandsAt ==
  ASSUME NEW D, IsFiniteSet(D), NEW below, Ordered(D, below)
  PROVE  /\ \A k \in 1..Cardinality(D) :
              StandingAt(D, below, k) \in D /\ PlaceOf(below, StandingAt(D, below, k)) = k
         /\ \A i \in D : StandingAt(D, below, PlaceOf(below, i)) = i
         /\ \A k, l \in 1..Cardinality(D) :
              k <= l => StandingAt(D, below, k) \in below[StandingAt(D, below, l)]
<1>1. ASSUME NEW k \in 1..Cardinality(D)
      PROVE  StandingAt(D, below, k) \in D /\ PlaceOf(below, StandingAt(D, below, k)) = k
  BY PlacesTaken DEF StandingAt
<1>2. ASSUME NEW i \in D PROVE StandingAt(D, below, PlaceOf(below, i)) = i
  <2> DEFINE a == StandingAt(D, below, PlaceOf(below, i))
  <2>1. PlaceOf(below, i) \in 1..Cardinality(D)
    BY PlacesTaken
  <2>2. a \in D /\ PlaceOf(below, a) = PlaceOf(below, i)
    BY <1>1, <2>1
  <2>3. PlaceOf(below, i) <= PlaceOf(below, a) /\ PlaceOf(below, a) <= PlaceOf(below, i)
    <3> HIDE DEF a
    <3> QED  BY <2>1, <2>2, FS_CardinalityType
  <2>4. i \in below[a] /\ a \in below[i]
    BY <2>2, <2>3, PlacesTaken
  <2> QED  BY <2>2, <2>4 DEF Ordered
<1>3. ASSUME NEW k \in 1..Cardinality(D), NEW l \in 1..Cardinality(D), k <= l
      PROVE  StandingAt(D, below, k) \in below[StandingAt(D, below, l)]
  BY <1>1, <1>3, PlacesTaken
<1> QED  BY <1>1, <1>2, <1>3

-----------------------------------------------------------------------------
(* ReplayTimeline: a replay is its matching records, one after the other.   *)

\* The frames at or before the i-th once they are sorted, and among those kept.
NotLater(all) ==
  [i \in 1..Len(all) |->
     {j \in 1..Len(all) :
        \/ all[j].timestamp_sec < all[i].timestamp_sec
        \/ all[j].timestamp_sec = all[i].timestamp_sec /\ j <= i}]

NotAfter(kept) == [i \in kept |-> {j \in kept : j <= i}]

Timed(all) == Len(all) \in Nat /\ \A i \in 1..Len(all) : all[i].timestamp_sec \in Nat

LEMMA SortOrders == ASSUME NEW all, Timed(all) PROVE Ordered(1..Len(all), NotLater(all))
<1> DEFINE D == 1..Len(all)
           t(i) == all[i].timestamp_sec
           below == NotLater(all)
<1>1. \A i, j \in D : j \in below[i] <=> t(j) < t(i) \/ (t(j) = t(i) /\ j <= i)
  BY DEF NotLater
<1>2. \A i \in D : t(i) \in Nat /\ i \in Nat
  BY DEF Timed
<1>3. below \in [D -> SUBSET D]
  BY DEF NotLater
<1> HIDE DEF D, t, below
<1>4. \A i \in D : i \in below[i]
  BY <1>1, <1>2
<1>5. \A i, j \in D : j \in below[i] \/ i \in below[j]
  BY <1>1, <1>2
<1>6. \A i, j \in D : j \in below[i] /\ i \in below[j] => i = j
  BY <1>1, <1>2
<1>7. ASSUME NEW i \in D, NEW j \in D, j \in below[i], NEW k \in below[j] PROVE k \in below[i]
  <2>1. k \in D
    BY <1>3
  <2> QED  BY <1>1, <1>2, <1>7, <2>1
<1>8. Ordered(D, below)
  BY <1>3, <1>4, <1>5, <1>6, <1>7 DEF Ordered
<1> QED  BY <1>8 DEF D, below

LEMMA KeptOrders == ASSUME NEW kept \in SUBSET Nat PROVE Ordered(kept, NotAfter(kept))
<1> DEFINE below == NotAfter(kept)
<1>1. below \in [kept -> SUBSET kept]
  BY DEF NotAfter
<1>2. \A i, j \in kept : j \in below[i] <=> j <= i
  BY DEF NotAfter
<1>3. \A i \in kept : i \in Nat
  OBVIOUS
<1> HIDE DEF below
<1>4. /\ \A i \in kept : i \in below[i]
      /\ \A i, j \in kept : j \in below[i] \/ i \in below[j]
      /\ \A i, j \in kept : j \in below[i] /\ i \in below[j] => i = j
  BY <1>2, <1>3
<1>5. ASSUME NEW i \in kept, NEW j \in kept, j \in below[i], NEW k \in below[j]
      PROVE  k \in below[i]
  BY <1>1, <1>2, <1>3, <1>5
<1>6. Ordered(kept, below)
  BY <1>1, <1>4, <1>5, Zenon DEF Ordered
<1> QED  BY <1>6 DEF below

\* Which of all the frames each one of a reply is: each is one that matches,
\* all of these have a place, and the places are in order.
InPlaces(of, all, filter, reply) ==
  LET matching == {i \in 1..Len(all) : FrameMatches(all[i], filter)}
  IN  /\ of \in [1..Cardinality(matching) -> matching]
      /\ Len(reply) = Cardinality(matching)
      /\ \A k \in 1..Len(reply) : reply[k] = all[of[k]]
      /\ \A i \in matching : \E k \in 1..Len(reply) : of[k] = i
      /\ \A k, l \in 1..Len(reply) : k <= l => of[k] \in NotLater(all)[of[l]]

LEMMA ReplayPlaces ==
  ASSUME NEW all, Timed(all), NEW filter
  PROVE  \E of : InPlaces(of, all, filter, KeptFrames(SortedByTime(all), filter))
<1> DEFINE D == 1..Len(all)
           later == NotLater(all)
           at(k) == StandingAt(D, later, k)
           sorted == SortedByTime(all)
           kept == {k \in 1..Len(sorted) : FrameMatches(sorted[k], filter)}
           matching == {i \in D : FrameMatches(all[i], filter)}
           m == Cardinality(kept)
           pick(k) == StandingAt(kept, NotAfter(kept), k)
           reply == KeptFrames(sorted, filter)
           of == [k \in 1..m |-> at(pick(k))]
<1>1. /\ Len(all) \in Nat /\ IsFiniteSet(D) /\ Cardinality(D) = Len(all)
      /\ Ordered(D, later)
  <2>1. Len(all) \in Nat
    BY DEF Timed
  <2>2. IsFiniteSet(D) /\ Cardinality(D) = Len(all)
    BY <2>1, CountedTo
  <2>3. Ordered(D, later)
    BY SortOrders
  <2> QED  BY <2>1, <2>2, <2>3
<1>2. Len(sorted) = Len(all) /\ \A k \in D : sorted[k] = all[at(k)]
  <2>1. \A i \in D : SortedPlace(all, i) = PlaceOf(later, i)
    BY DEF SortedPlace, PlaceOf, NotLater
  <2>2. \A k \in D : (CHOOSE i \in D : SortedPlace(all, i) = k) = at(k)
    BY <2>1 DEF StandingAt
  <2>3. sorted = [k \in D |-> all[CHOOSE i \in D : SortedPlace(all, i) = k]]
    BY DEF SortedByTime
  <2>4. Len(sorted) = Len(all)
    <3> HIDE DEF sorted
    <3> QED  BY <1>1, <2>3
  <2> HIDE DEF sorted, at, D
  <2> QED  BY <2>2, <2>3, <2>4, Zenon
<1>3. /\ \A k \in D : at(k) \in D /\ PlaceOf(later, at(k)) = k
      /\ \A i \in D : PlaceOf(later, i) \in D /\ at(PlaceOf(later, i)) = i
      /\ \A k, l \in D : k <= l => at(k) \in later[at(l)]
  <2> HIDE DEF later
  <2>1. Cardinality(D) = Len(all)
    BY <1>1
  <2> QED  BY <1>1, StandsAt, PlacesTaken
<1>4. /\ kept \in SUBSET D /\ IsFiniteSet(kept) /\ m \in Nat
      /\ Ordered(kept, NotAfter(kept))
  <2>1. kept \in SUBSET D /\ kept \in SUBSET Nat
    BY <1>1, <1>2
  <2> HIDE DEF kept
  <2> QED  BY <1>1, <2>1, FS_Subset, FS_CardinalityType, KeptOrders
<1>5. /\ \A k \in 1..m : pick(k) \in kept
      /\ \A i \in kept : \E k \in 1..m : pick(k) = i
      /\ \A k, l \in 1..m : k <= l => pick(k) <= pick(l)
  <2> HIDE DEF kept
  <2>1. /\ \A k \in 1..m : pick(k) \in kept
        /\ \A k, l \in 1..m : k <= l => pick(k) \in NotAfter(kept)[pick(l)]
    BY <1>4, StandsAt
  <2>2. \A i \in kept : PlaceOf(NotAfter(kept), i) \in 1..m /\ pick(PlaceOf(NotAfter(kept), i)) = i
    BY <1>4, StandsAt, PlacesTaken
  <2>3. \A k, l \in 1..m : k <= l => pick(k) <= pick(l)
    <3> HIDE DEF pick
    <3> QED  BY <2>1 DEF NotAfter
  <2> HIDE DEF pick, m
  <2> QED  BY <2>1, <2>2, <2>3
<1>6. Len(reply) = m /\ \A k \in 1..m : reply[k] = sorted[pick(k)]
  <2>1. \A i \in kept : Cardinality({j \in kept : j <= i}) = PlaceOf(NotAfter(kept), i)
    <3> HIDE DEF kept
    <3> QED  BY DEF PlaceOf, NotAfter
  <2>2. \A k \in 1..m : (CHOOSE i \in kept : Cardinality({j \in kept : j <= i}) = k) = pick(k)
    <3> HIDE DEF kept
    <3> QED  BY <2>1 DEF StandingAt
  <2>3. reply = [k \in 1..m |->
                   sorted[CHOOSE i \in kept : Cardinality({j \in kept : j <= i}) = k]]
    BY DEF KeptFrames
  <2> HIDE DEF kept, sorted, reply, pick, m
  <2> QED
    <3>1. Len(reply) = m
      BY <1>4, <2>3
    <3> QED  BY <2>2, <2>3, <3>1
<1>7. \A k \in D : k \in kept <=> at(k) \in matching
  BY <1>2, <1>3
<1>8. of \in [1..m -> matching]
  BY <1>4, <1>5, <1>7
<1>9. \A i \in matching : \E k \in 1..m : of[k] = i
  <2> SUFFICES ASSUME NEW i \in matching PROVE \E k \in 1..m : of[k] = i  OBVIOUS
  <2>1. PlaceOf(later, i) \in kept /\ at(PlaceOf(later, i)) = i
    BY <1>3, <1>7
  <2>2. PICK k \in 1..m : pick(k) = PlaceOf(later, i)
    BY <1>5, <2>1
  <2> QED  BY <2>1, <2>2
<1>10. \A k \in 1..m : reply[k] = all[of[k]]
  BY <1>2, <1>4, <1>5, <1>6
<1>11. \A k, l \in 1..m : k <= l => of[k] \in later[of[l]]
  BY <1>3, <1>4, <1>5
<1>12. Cardinality(matching) = m
  <2>1. \A k, l \in 1..m : of[k] = of[l] => k = l
    <3> SUFFICES ASSUME NEW k \in 1..m, NEW l \in 1..m, of[k] = of[l] PROVE k = l  OBVIOUS
    <3>1. pick(k) = pick(l)
      BY <1>3, <1>4, <1>5
    <3>2. PlaceOf(NotAfter(kept), pick(k)) = k /\ PlaceOf(NotAfter(kept), pick(l)) = l
      <4> HIDE DEF kept
      <4> QED  BY <1>4, StandsAt
    <3> QED  BY <3>1, <3>2
  <2>2. of \in Bijection(1..m, matching)
    <3> HIDE DEF of, matching, m
    <3> QED  BY <1>8, <1>9, <2>1 DEF Bijection, Injection, Surjection, IsInjective
  <2>3. IsFiniteSet(1..m) /\ Cardinality(1..m) = m
    <3> HIDE DEF m
    <3> QED  BY <1>4, CountedTo
  <2>4. ExistsBijection(1..m, matching)
    <3> HIDE DEF of, matching, m
    <3> QED  BY <2>2 DEF ExistsBijection
  <2> HIDE DEF matching, m
  <2> QED  BY <2>3, <2>4, FS_Bijection
<1> HIDE DEF D, of, matching, m, reply, sorted, later
<1>13. of \in [1..Cardinality(matching) -> matching]
  BY <1>8, <1>12
<1>14. InPlaces(of, all, filter, reply)
  <2>1. matching = {i \in 1..Len(all) : FrameMatches(all[i], filter)}
    BY DEF matching, D
  <2>2. later = NotLater(all)
    BY DEF later
  <2> QED  BY <1>6, <1>9, <1>10, <1>11, <1>12, <1>13, <2>1, <2>2 DEF InPlaces
<1> QED  BY <1>14 DEF reply, sorted

-----------------------------------------------------------------------------
(* ReplayTimeline: no verdict before its command.                           *)

\* What the gate says of a command comes no earlier than the command: of all
\* commands that have the id, one is stamped no later than the verdict.
TimelyReports ==
  \A r \in ReplayReports : \A i \in 1..Len(r.safety_events) :
    r.safety_events[i].command_id \in CommandIds(r) =>
      \E c \in 1..Len(r.robot_commands) :
        /\ r.robot_commands[c].command_id = r.safety_events[i].command_id
        /\ StampSeconds(r.robot_commands[c].stamp) <= StampSeconds(r.safety_events[i].stamp)

LEMMA StampsCount == ASSUME NEW s \in Nat \cup {NoStamp} PROVE StampSeconds(s) \in Nat
BY ReplayAssumption DEF StampSeconds, NoStamp

\* The frames of one list are as many as its records and stand for them.
StandFor(fs, category, list) ==
  /\ Len(list) \in Nat /\ Len(fs) = Len(list)
  /\ \A i \in 1..Len(list) :
       /\ fs[i].timestamp_sec = StampSeconds(list[i].stamp)
       /\ fs[i].timestamp_sec \in Nat
       /\ fs[i].category = category
       /\ fs[i].command_id = list[i].command_id

LEMMA ListFrames ==
  ASSUME NEW r \in ReplayReports, NEW list \in RecordLists(r), NEW category, NEW S,
         \A i \in 1..Len(list) : BaseFrames(category, list)[i] \in S
  PROVE  StandFor(BaseFrames(category, list), category, list)
         /\ BaseFrames(category, list) \in Seq(S)
<1> DEFINE fs == BaseFrames(category, list)
<1>1. Len(list) \in Nat /\ \A i \in 1..Len(list) : list[i].stamp \in Nat \cup {NoStamp}
  BY ReplayAssumption
<1>2. fs = [i \in 1..Len(list) |->
              [timestamp_sec |-> StampSeconds(list[i].stamp), category |-> category,
               source_id |-> list[i].id, command_id |-> list[i].command_id]]
  BY DEF BaseFrames
<1>3. \A i \in 1..Len(list) : StampSeconds(list[i].stamp) \in Nat
  BY <1>1, StampsCount
<1> HIDE DEF fs
<1>4. Len(fs) = Len(list)
  BY <1>1, <1>2
<1>5. fs \in Seq(S)
  <2>1. fs \in [1..Len(list) -> S]
    BY <1>2 DEF fs
  <2> QED  BY <1>1, <2>1
<1>6. \A i \in 1..Len(list) :
        /\ fs[i].timestamp_sec = StampSeconds(list[i].stamp)
        /\ fs[i].category = category
        /\ fs[i].command_id = list[i].command_id
  BY <1>2
<1> QED  BY <1>1, <1>3, <1>4, <1>5, <1>6 DEF fs, StandFor

\* All the frames have a time; those of the commands stand before those of the
\* verdicts; and the frames of either are where the list's records put them.
LEMMA AllFrames ==
  ASSUME NEW r \in ReplayReports
  PROVE  LET all == BuildAllFrames(r)
         IN  /\ Timed(all)
             /\ \A i \in 1..Len(all) : all[i].category = "safety" =>
                  \E e \in 1..Len(r.safety_events) :
                    /\ i = Len(r.mission_events) + Len(r.robot_commands) + e
                    /\ all[i].timestamp_sec = StampSeconds(r.safety_events[e].stamp)
                    /\ all[i].command_id = r.safety_events[e].command_id
             /\ \A c \in 1..Len(r.robot_commands) :
                  LET i == Len(r.mission_events) + c
                  IN  /\ i \in 1..Len(all)
                      /\ all[i].category = "command"
                      /\ all[i].timestamp_sec = StampSeconds(r.robot_commands[c].stamp)
                      /\ all[i].command_id = r.robot_commands[c].command_id
<1> DEFINE M == BaseFrames("mission", r.mission_events)
           C == BaseFrames("command", r.robot_commands)
           E == BaseFrames("safety", r.safety_events)
           P == BaseFrames("perception", r.perception_events)
           L == BaseFrames("payload", r.payload_results)
           frame == UNION {{M[i] : i \in 1..Len(r.mission_events)},
                           {C[i] : i \in 1..Len(r.robot_commands)},
                           {E[i] : i \in 1..Len(r.safety_events)},
                           {P[i] : i \in 1..Len(r.perception_events)},
                           {L[i] : i \in 1..Len(r.payload_results)}}
           all == BuildAllFrames(r)
<1>1. /\ r.mission_events \in RecordLists(r) /\ r.robot_commands \in RecordLists(r)
      /\ r.safety_events \in RecordLists(r) /\ r.perception_events \in RecordLists(r)
      /\ r.payload_results \in RecordLists(r)
  BY DEF RecordLists
<1>2. StandFor(M, "mission", r.mission_events) /\ M \in Seq(frame)
  <2>1. \A i \in 1..Len(r.mission_events) : M[i] \in frame
    OBVIOUS
  <2> HIDE DEF frame
  <2> QED  BY <1>1, <2>1, ListFrames
<1>3. StandFor(C, "command", r.robot_commands) /\ C \in Seq(frame)
  <2>1. \A i \in 1..Len(r.robot_commands) : C[i] \in frame
    OBVIOUS
  <2> HIDE DEF frame
  <2> QED  BY <1>1, <2>1, ListFrames
<1>4. StandFor(E, "safety", r.safety_events) /\ E \in Seq(frame)
  <2>1. \A i \in 1..Len(r.safety_events) : E[i] \in frame
    OBVIOUS
  <2> HIDE DEF frame
  <2> QED  BY <1>1, <2>1, ListFrames
<1>5. StandFor(P, "perception", r.perception_events) /\ P \in Seq(frame)
  <2>1. \A i \in 1..Len(r.perception_events) : P[i] \in frame
    OBVIOUS
  <2> HIDE DEF frame
  <2> QED  BY <1>1, <2>1, ListFrames
<1>6. StandFor(L, "payload", r.payload_results) /\ L \in Seq(frame)
  <2>1. \A i \in 1..Len(r.payload_results) : L[i] \in frame
    OBVIOUS
  <2> HIDE DEF frame
  <2> QED  BY <1>1, <2>1, ListFrames
<1>7. Len(M) \in Nat /\ Len(C) \in Nat /\ Len(E) \in Nat /\ Len(P) \in Nat /\ Len(L) \in Nat
  BY <1>2, <1>3, <1>4, <1>5, <1>6 DEF StandFor
<1>8. all = M \o C \o E \o P \o L
  BY DEF BuildAllFrames
<1> HIDE DEF M, C, E, P, L, frame, all
<1>9. Len(all) = Len(M) + Len(C) + Len(E) + Len(P) + Len(L)
  BY <1>2, <1>3, <1>4, <1>5, <1>6, <1>8
<1>10. /\ \A i \in 1..Len(M) : all[i] = M[i]
       /\ \A i \in 1..Len(C) : all[Len(M) + i] = C[i]
       /\ \A i \in 1..Len(E) : all[Len(M) + Len(C) + i] = E[i]
       /\ \A i \in 1..Len(P) : all[Len(M) + Len(C) + Len(E) + i] = P[i]
       /\ \A i \in 1..Len(L) : all[Len(M) + Len(C) + Len(E) + Len(P) + i] = L[i]
  <2>1. M \in Seq(frame) /\ C \in Seq(frame) /\ E \in Seq(frame) /\ P \in Seq(frame)
        /\ L \in Seq(frame)
    BY <1>2, <1>3, <1>4, <1>5, <1>6
  <2> QED  BY <1>7, <1>8, <2>1, SMTT(30)
<1>11. ASSUME NEW i \in 1..Len(all)
       PROVE  \/ \E k \in 1..Len(M) : i = k /\ all[i] = M[k]
              \/ \E k \in 1..Len(C) : i = Len(M) + k /\ all[i] = C[k]
              \/ \E k \in 1..Len(E) : i = Len(M) + Len(C) + k /\ all[i] = E[k]
              \/ \E k \in 1..Len(P) : i = Len(M) + Len(C) + Len(E) + k /\ all[i] = P[k]
              \/ \E k \in 1..Len(L) : all[i] = L[k]
  <2>1. i \in Nat /\ 1 <= i /\ i <= Len(M) + Len(C) + Len(E) + Len(P) + Len(L)
    BY <1>7, <1>9
  <2>2. CASE i <= Len(M)
    <3>1. i \in 1..Len(M)
      BY <1>7, <2>1, <2>2
    <3> QED  BY <1>10, <3>1
  <2>3. CASE Len(M) < i /\ i <= Len(M) + Len(C)
    <3> DEFINE k == i - Len(M)
    <3>1. k \in 1..Len(C) /\ i = Len(M) + k
      BY <1>7, <2>1, <2>3
    <3> HIDE DEF k
    <3> QED  BY <1>10, <3>1
  <2>4. CASE Len(M) + Len(C) < i /\ i <= Len(M) + Len(C) + Len(E)
    <3> DEFINE k == i - (Len(M) + Len(C))
    <3>1. k \in 1..Len(E) /\ i = Len(M) + Len(C) + k
      BY <1>7, <2>1, <2>4
    <3> HIDE DEF k
    <3> QED  BY <1>10, <3>1
  <2>5. CASE /\ Len(M) + Len(C) + Len(E) < i
             /\ i <= Len(M) + Len(C) + Len(E) + Len(P)
    <3> DEFINE k == i - (Len(M) + Len(C) + Len(E))
    <3>1. k \in 1..Len(P) /\ i = Len(M) + Len(C) + Len(E) + k
      BY <1>7, <2>1, <2>5
    <3> HIDE DEF k
    <3> QED  BY <1>10, <3>1
  <2>6. CASE Len(M) + Len(C) + Len(E) + Len(P) < i
    <3> DEFINE k == i - (Len(M) + Len(C) + Len(E) + Len(P))
    <3>1. k \in 1..Len(L) /\ i = Len(M) + Len(C) + Len(E) + Len(P) + k
      BY <1>7, <2>1, <2>6
    <3> HIDE DEF k
    <3> QED  BY <1>10, <3>1
  <2> QED  BY <1>7, <2>1, <2>2, <2>3, <2>4, <2>5, <2>6
<1>12. Timed(all)
  <2>1. /\ \A k \in 1..Len(M) : M[k].timestamp_sec \in Nat
        /\ \A k \in 1..Len(C) : C[k].timestamp_sec \in Nat
        /\ \A k \in 1..Len(E) : E[k].timestamp_sec \in Nat
        /\ \A k \in 1..Len(P) : P[k].timestamp_sec \in Nat
        /\ \A k \in 1..Len(L) : L[k].timestamp_sec \in Nat
    BY <1>2, <1>3, <1>4, <1>5, <1>6 DEF StandFor
  <2>2. \A i \in 1..Len(all) : all[i].timestamp_sec \in Nat
    BY <1>11, <2>1
  <2> QED  BY <1>7, <1>9, <2>2 DEF Timed
<1>13. ASSUME NEW i \in 1..Len(all), all[i].category = "safety"
       PROVE  \E e \in 1..Len(r.safety_events) :
                /\ i = Len(r.mission_events) + Len(r.robot_commands) + e
                /\ all[i].timestamp_sec = StampSeconds(r.safety_events[e].stamp)
                /\ all[i].command_id = r.safety_events[e].command_id
  <2> DEFINE Verdict(f) == f.category = "safety"
  <2>0. /\ \A k \in 1..Len(M) : ~Verdict(M[k])
        /\ \A k \in 1..Len(C) : ~Verdict(C[k])
        /\ \A k \in 1..Len(P) : ~Verdict(P[k])
        /\ \A k \in 1..Len(L) : ~Verdict(L[k])
        /\ Verdict(all[i])
    BY <1>2, <1>3, <1>5, <1>6, <1>13 DEF StandFor
  <2> HIDE DEF Verdict
  <2>1. PICK e \in 1..Len(E) : i = Len(M) + Len(C) + e /\ all[i] = E[e]
    BY <1>11, <2>0
  <2>2. /\ Len(M) = Len(r.mission_events) /\ Len(C) = Len(r.robot_commands)
        /\ Len(E) = Len(r.safety_events)
    BY <1>2, <1>3, <1>4 DEF StandFor
  <2> QED  BY <1>4, <2>1, <2>2 DEF StandFor
<1>14. ASSUME NEW c \in 1..Len(r.robot_commands)
       PROVE  LET i == Len(r.mission_events) + c
              IN  /\ i \in 1..Len(all)
                  /\ all[i].category = "command"
                  /\ all[i].timestamp_sec = StampSeconds(r.robot_commands[c].stamp)
                  /\ all[i].command_id = r.robot_commands[c].command_id
  <2>1. Len(M) = Len(r.mission_events) /\ Len(C) = Len(r.robot_commands)
    BY <1>2, <1>3 DEF StandFor
  <2>2. Len(M) + c \in 1..Len(all) /\ all[Len(M) + c] = C[c]
    <3>1. c \in 1..Len(C)
      BY <2>1
    <3>2. all[Len(M) + c] = C[c]
      BY <1>10, <3>1
    <3> QED  BY <1>7, <1>9, <3>1, <3>2
  <2> QED  BY <1>3, <2>1, <2>2 DEF StandFor
<1> QED  BY <1>12, <1>13, <1>14 DEF all

-----------------------------------------------------------------------------
(* ReplayTimeline: the answer.                                              *)

ReplayInv ==
  /\ replay_report \in ReplayReports
  /\ replayed => frames = BuildReplayFrames(replay_report, replay_filter)

LEMMA InitReplay == ReplayInit => ReplayInv
BY DEF ReplayInit, ReplayInv

LEMMA ReplayStep == ReplayInv /\ [GetReplay]_replay_vars => ReplayInv'
BY DEF ReplayInv, GetReplay, replay_vars

LEMMA ReplayShows == ASSUME TimelyReports, ReplayInv PROVE ReplayInOrder
<1> SUFFICES ASSUME replayed PROVE ReplayInOrder
  BY DEF ReplayInOrder
<1> DEFINE r == replay_report
           all == BuildAllFrames(r)
           matching == {i \in 1..Len(all) : FrameMatches(all[i], replay_filter)}
<1>1. r \in ReplayReports /\ frames = KeptFrames(SortedByTime(all), replay_filter)
  BY DEF ReplayInv, BuildReplayFrames
<1>2. Timed(all)
  BY <1>1, AllFrames
<1>3. PICK of : InPlaces(of, all, replay_filter, frames)
  <2> HIDE DEF all
  <2> QED  BY <1>1, <1>2, ReplayPlaces
<1>p. /\ of \in [1..Cardinality(matching) -> matching]
      /\ Len(frames) = Cardinality(matching)
      /\ \A k \in 1..Len(frames) : frames[k] = all[of[k]]
      /\ \A i \in matching : \E k \in 1..Len(frames) : of[k] = i
      /\ \A k, l \in 1..Len(frames) : k <= l => of[k] \in NotLater(all)[of[l]]
  <2> HIDE DEF all
  <2> QED  BY <1>3 DEF InPlaces
<1>4. Len(frames) \in Nat
  <2>1. matching \in SUBSET (1..Len(all)) /\ IsFiniteSet(1..Len(all))
    <3>1. Len(all) \in Nat
      BY <1>2 DEF Timed
    <3> HIDE DEF all
    <3> QED  BY <3>1, CountedTo
  <2> HIDE DEF matching, all
  <2> QED  BY <1>p, <2>1, FS_Subset, FS_CardinalityType
<1>5. \A k \in 1..Len(frames) : of[k] \in matching /\ of[k] \in 1..Len(all)
  BY <1>p
<1>6. /\ \A i \in 1..Len(all) : all[i].timestamp_sec \in Nat
      /\ \A i, j \in 1..Len(all) : j \in NotLater(all)[i] <=>
           \/ all[j].timestamp_sec < all[i].timestamp_sec
           \/ all[j].timestamp_sec = all[i].timestamp_sec /\ j <= i
  BY <1>2 DEF Timed, NotLater
<1> HIDE DEF all
<1>7. \A k, l \in 1..Len(frames) : k < l => frames[k].timestamp_sec <= frames[l].timestamp_sec
  <2> SUFFICES ASSUME NEW k \in 1..Len(frames), NEW l \in 1..Len(frames), k < l
               PROVE  frames[k].timestamp_sec <= frames[l].timestamp_sec
    OBVIOUS
  <2>1. of[k] \in NotLater(all)[of[l]]
    <3>1. k <= l
      BY <1>4
    <3> QED  BY <1>p, <3>1
  <2>2. of[k] \in 1..Len(all) /\ of[l] \in 1..Len(all)
    BY <1>5
  <2>3. all[of[k]].timestamp_sec \in Nat /\ all[of[l]].timestamp_sec \in Nat
    BY <1>6, <2>2
  <2>4. \/ all[of[k]].timestamp_sec < all[of[l]].timestamp_sec
        \/ all[of[k]].timestamp_sec = all[of[l]].timestamp_sec
    BY <1>6, <2>1, <2>2
  <2>5. frames[k] = all[of[k]] /\ frames[l] = all[of[l]]
    BY <1>p
  <2> QED  BY <2>3, <2>4, <2>5
<1>8. ASSUME NEW i \in matching PROVE \E k \in 1..Len(frames) : frames[k] = all[i]
  <2>1. PICK k \in 1..Len(frames) : of[k] = i
    BY <1>p
  <2>2. frames[k] = all[of[k]]
    BY <1>p
  <2> QED  BY <2>1, <2>2
<1>9. ASSUME replay_filter.category = Everything, replay_filter.since = 0,
             NEW k \in 1..Len(frames), frames[k].category = "safety",
             frames[k].command_id \in CommandIds(r)
      PROVE  \E l \in 1..(k - 1) : /\ frames[l].category = "command"
                                   /\ frames[l].command_id = frames[k].command_id
  <2> DEFINE i == of[k]
  <2>1. i \in matching /\ i \in 1..Len(all) /\ frames[k] = all[i]
    BY <1>p, <1>5
  <2>2. PICK e \in 1..Len(r.safety_events) :
          /\ i = Len(r.mission_events) + Len(r.robot_commands) + e
          /\ all[i].timestamp_sec = StampSeconds(r.safety_events[e].stamp)
          /\ all[i].command_id = r.safety_events[e].command_id
    <3>1. all[i].category = "safety"
      BY <1>9, <2>1
    <3> HIDE DEF i
    <3> QED  BY <1>1, <2>1, <3>1, AllFrames DEF all
  <2>3. PICK c \in 1..Len(r.robot_commands) :
          /\ r.robot_commands[c].command_id = r.safety_events[e].command_id
          /\ StampSeconds(r.robot_commands[c].stamp) <= StampSeconds(r.safety_events[e].stamp)
    BY <1>1, <1>9, <2>1, <2>2 DEF TimelyReports
  <2> DEFINE j == Len(r.mission_events) + c
  <2>4. /\ j \in 1..Len(all) /\ all[j].category = "command"
        /\ all[j].timestamp_sec = StampSeconds(r.robot_commands[c].stamp)
        /\ all[j].command_id = r.robot_commands[c].command_id
    BY <1>1, AllFrames DEF all
  <2>5. j < i
    <3>1. /\ Len(r.mission_events) \in Nat /\ Len(r.robot_commands) \in Nat
          /\ Len(r.safety_events) \in Nat
      BY <1>1, ReplayAssumption DEF RecordLists
    <3> DEFINE m == Len(r.mission_events)
               n == Len(r.robot_commands)
    <3>2. m \in Nat /\ n \in Nat /\ c \in 1..n /\ i = m + n + e /\ j = m + c
      BY <2>2, <3>1
    <3>3. e \in Nat /\ e # 0
      BY <3>1
    <3> HIDE DEF i, j, m, n
    <3> QED  BY <3>2, <3>3
  <2>6. /\ all[j].command_id = all[i].command_id
        /\ all[j].timestamp_sec <= all[i].timestamp_sec
    BY <2>2, <2>3, <2>4
  <2> HIDE DEF i, j
  <2>7. j \in matching
    BY <1>6, <1>9, <2>1, <2>4, <2>6 DEF FrameMatches
  <2>8. PICK l \in 1..Len(frames) : of[l] = j
    BY <1>p, <2>7
  <2>9. frames[l] = all[j]
    BY <1>p, <2>8
  <2>10. l < k
    <3> SUFFICES ASSUME k <= l PROVE FALSE
      BY <1>4
    <3>1. of[k] \in NotLater(all)[of[l]]
      BY <1>p
    <3>2. i \in NotLater(all)[j]
      BY <2>8, <3>1 DEF i
    <3>3. \/ all[i].timestamp_sec < all[j].timestamp_sec
          \/ i <= j
      BY <1>6, <2>1, <2>4, <3>2
    <3>4. all[i].timestamp_sec \in Nat /\ all[j].timestamp_sec \in Nat /\ i \in Nat /\ j \in Nat
      BY <1>2, <1>6, <2>1, <2>4 DEF Timed
    <3> QED  BY <2>5, <2>6, <3>3, <3>4
  <2>11. l \in 1..(k - 1)
    BY <1>4, <2>10
  <2> QED  BY <2>1, <2>4, <2>6, <2>9, <2>11
<1>10. Len(frames) = Cardinality(matching)
  BY <1>p
<1> QED  BY <1>7, <1>8, <1>9, <1>10 DEF ReplayInOrder, all

\* A replay's frames never go back in time, hold each matching record once, and
\* show no verdict before its command, for all reports, filters and resolutions,
\* if no verdict is stamped before all the commands that it may be about.
THEOREM ReplaysInOrder ==
  ASSUME TimelyReports PROVE ReplayInit /\ [][GetReplay]_replay_vars => []ReplayInOrder
<1>1. ReplayInv => ReplayInOrder
  BY ReplayShows
<1> QED  BY <1>1, InitReplay, ReplayStep, PTL

-----------------------------------------------------------------------------
(* All subjects side by side.                                               *)

\* Whichever subject is looked at, the others' promises hold too: what one does
\* is nothing to the others.
THEOREM ReadersServed ==
  ASSUME TimelyReports
  PROVE  BackendSafety =>
           [](SnapshotsConsistent /\ OutageReported /\ ExportVerdict /\ DownloadVerdict
              /\ ReplayInOrder /\ ShowsSelected)
<1> DEFINE Inv == /\ BridgeInv /\ ReadinessInv /\ ExportInv /\ DownloadInv
                  /\ ReplayInv /\ BrowserInv
<1>1. BackendInit => Inv
  BY InitBridge, InitReadiness, InitExport, InitDownload, InitReplay, InitBrowser
  DEF BackendInit
<1>2. Inv /\ [BackendNext]_readers_vars => Inv'
  <2> SUFFICES ASSUME Inv, [BackendNext]_readers_vars PROVE Inv'  OBVIOUS
  <2>1. /\ [BridgeNext]_bridge_vars /\ [ReadinessNext]_readiness_vars
        /\ [ExportNext]_export_vars /\ [GetReplay]_replay_vars /\ [BrowserNext]_browser_vars
    BY DEF BackendNext, readers_vars
  <2> QED
    BY <2>1, BridgeStep, ReadinessStep, ExportStep, DownloadStep, ReplayStep,
       BrowserStep
<1>3. Inv => /\ SnapshotsConsistent /\ OutageReported /\ ExportVerdict /\ DownloadVerdict
             /\ ReplayInOrder /\ ShowsSelected
  BY BridgeConsistent, ReplayShows, BrowserShows DEF ReadinessInv, ExportInv, DownloadInv
<1> QED  BY <1>1, <1>2, <1>3, PTL DEF BackendSafety

-----------------------------------------------------------------------------
(* LiveView: the inductive invariant.                                       *)

StateEvents == [kind : {"runtime_state"}, version : Versions] \cup [kind : {"runtime_error"}]
Heartbeat == [kind |-> "heartbeat"]

\* What one round of the generator sends is all that is on its way.
WireOK ==
  \/ wire = <<>> \/ wire = <<Heartbeat>>
  \/ \E s \in StateEvents : wire = <<s>> \/ wire = <<s, Heartbeat>>

HeartbeatUnderWay == wire # <<>> /\ wire[Len(wire)] = Heartbeat

\* An open stream is relied on, and the status has been set.
PageOK ==
  /\ source = "open" => connected = TRUE
  /\ connected = TRUE => stream_status # "pending"

Waited == WatchdogAfter - watchdog
LongestGap == HeartbeatEvery + PollEvery + 1

\* How long the watchdog of a healthy stream has waited: no longer than since
\* the last heartbeat was sent, and when one is due, the next round is near.
WaitOK ==
  /\ HeartbeatUnderWay => Waited <= LongestGap
  /\ ~HeartbeatUnderWay /\ beat < HeartbeatEvery => Waited <= beat
  /\ ~HeartbeatUnderWay /\ beat = HeartbeatEvery => Waited + next_state <= LongestGap

SteadyOK == source = "open" /\ steady = TRUE => server = "up" /\ WaitOK

\* The type invariant but for the wire, whose type WireOK implies.
Types ==
  /\ version \in Versions /\ bridge \in {"up", "hung", "down"}
  /\ server \in {"up", "silent", "dead"}
  /\ next_state \in 0..PollEvery + 1 /\ beat \in 0..HeartbeatEvery
  /\ source \in {"none", "connecting", "open", "broken"} /\ connected \in BOOLEAN
  /\ stream_status \in {"pending", "live", "degraded", "fallback"}
  /\ watchdog \in Off..WatchdogAfter /\ retry_timer \in Off..RetryAfter
  /\ poll_timer \in Off..PollEvery
  /\ fetches \in [Places -> Versions \cup {Free, Sent}]
  /\ shown \in Versions \cup {Nothing} /\ steady \in BOOLEAN

LEMMA WireTyped == Types /\ WireOK => TypeOK
<1> SUFFICES ASSUME Types, WireOK PROVE TypeOK  OBVIOUS
<1> DEFINE Events == [kind : {"runtime_state"}, version : Versions]
                     \cup [kind : {"runtime_error", "heartbeat"}]
<1>1. Heartbeat \in Events
  BY DEF Heartbeat
<1>2. \A s \in StateEvents : s \in Events
  BY DEF StateEvents
<1> HIDE DEF Events
<1>3. wire \in Seq(Events)
  <2>1. CASE wire = <<>> \/ wire = <<Heartbeat>>
    <3>1. <<>> \in Seq(Events) /\ <<Heartbeat>> \in Seq(Events)
      BY <1>1
    <3> QED  BY <2>1, <3>1
  <2>2. ASSUME NEW s \in StateEvents, wire = <<s>> \/ wire = <<s, Heartbeat>>
        PROVE  wire \in Seq(Events)
    <3>1. <<s>> \in Seq(Events) /\ <<s, Heartbeat>> \in Seq(Events)
      BY <1>1, <1>2
    <3> QED  BY <2>2, <3>1
  <2> QED  BY <2>1, <2>2 DEF WireOK
<1> QED  BY <1>3 DEF Types, TypeOK, Events

LEMMA WireStep == Types /\ WireOK /\ [Next]_live => WireOK'
<1> SUFFICES ASSUME Types, WireOK, [Next]_live PROVE WireOK'  OBVIOUS
<1>1. CASE wire' = wire
  BY <1>1 DEF WireOK, StateEvents, Versions
<1>2. CASE wire' = <<>>
  BY <1>2 DEF WireOK
<1>3. CASE Dispatch
  <2>1. wire # <<>> /\ wire' = Tail(wire)
    BY <1>3 DEF Dispatch
  <2>2. wire' \in {<<>>, <<Heartbeat>>}
    <3>1. CASE wire = <<Heartbeat>>
      BY <2>1, <3>1
    <3>2. ASSUME NEW s \in StateEvents, wire = <<s>> \/ wire = <<s, Heartbeat>>
          PROVE  wire' \in {<<>>, <<Heartbeat>>}
      <4>1. Tail(<<s>>) = <<>> /\ Tail(<<s, Heartbeat>>) = <<Heartbeat>>
        OBVIOUS
      <4> QED  BY <2>1, <3>2, <4>1
    <3> QED  BY <2>1, <3>1, <3>2 DEF WireOK
  <2> QED  BY <2>2 DEF WireOK
<1>4. CASE Generate
  <2>1. PICK s \in StateEvents : wire' = <<s>> \/ wire' = <<s, Heartbeat>>
    BY <1>4 DEF Generate, StateEvents, Heartbeat, Types
  <2> QED  BY <2>1 DEF WireOK
<1> QED
  BY <1>1, <1>2, <1>3, <1>4
  DEF Next, Dashboard, Open, Disconnect, WatchdogTimer, RetryTimer, StartRuntimeStream,
      ScheduleStreamRetry, PollTimer, Press, Fetch, Serve, Show, Hear, BridgeTurns,
      ServerTurns, Tick, live, stream

LEMMA TypeStep == Types /\ WireOK /\ [Next]_live => Types'
<1> SUFFICES ASSUME Types, WireOK, [Next]_live PROVE Types'  OBVIOUS
<1> USE LiveAssumption DEF Types, Off, servers, stream, timers, page
<1>1. CASE Open
  BY <1>1 DEF Open, StopPollingFallback, ResetStreamHeartbeatWatchdog
<1>2. CASE Disconnect
  <2>1. /\ poll_timer' \in Off..PollEvery /\ retry_timer' \in Off..RetryAfter
        /\ watchdog' \in Off..WatchdogAfter
    BY <1>2 DEF Disconnect, ActivatePollingFallback, ScheduleStreamRetry
  <2> QED  BY <1>2, <2>1 DEF Disconnect, ActivatePollingFallback, ScheduleStreamRetry
<1>3. CASE WatchdogTimer
  <2>1. /\ poll_timer' \in Off..PollEvery /\ retry_timer' \in Off..RetryAfter
        /\ watchdog' \in Off..WatchdogAfter
    BY <1>3 DEF WatchdogTimer, ActivatePollingFallback, ScheduleStreamRetry
  <2> QED  BY <1>3, <2>1 DEF WatchdogTimer, ActivatePollingFallback, ScheduleStreamRetry
<1>4. CASE RetryTimer
  BY <1>4 DEF RetryTimer, StartRuntimeStream
<1>5. CASE Dispatch
  <2>1. Head(wire).kind = "runtime_state" => Head(wire).version \in Versions
    BY <1>5 DEF Dispatch, WireOK, StateEvents, Heartbeat
  <2>2. ShownAfter(Head(wire)) \in Versions \cup {Nothing}
    BY <2>1 DEF ShownAfter
  <2>3. StatusAfter(Head(wire)) \in {"pending", "live", "degraded", "fallback"}
    BY DEF StatusAfter
  <2>4. watchdog' \in Off..WatchdogAfter
    BY <1>5 DEF Dispatch, ResetStreamHeartbeatWatchdog
  <2> QED  BY <1>5, <2>2, <2>3, <2>4 DEF Dispatch
<1>6. CASE PollTimer
  BY <1>6 DEF PollTimer, RefreshRuntime
<1>7. CASE Press
  BY <1>7 DEF Press, RefreshRuntime
<1>8. ASSUME NEW i \in Places, Fetch(i) PROVE Types'
  BY <1>8 DEF Fetch, Serve, Show
<1>9. CASE Generate
  BY <1>9 DEF Generate, HeartbeatDue
<1>10. CASE Hear
  BY <1>10 DEF Hear, Versions
<1>11. CASE BridgeTurns
  BY <1>11 DEF BridgeTurns, Versions
<1>12. CASE ServerTurns
  BY <1>12 DEF ServerTurns
<1>13. CASE Tick
  BY <1>13 DEF Tick, Less
<1>14. CASE UNCHANGED live
  BY <1>14 DEF live
<1> QED
  BY <1>1, <1>2, <1>3, <1>4, <1>5, <1>6, <1>7, <1>8, <1>9, <1>10, <1>11, <1>12, <1>13, <1>14
  DEF Next, Dashboard

Page == PageOK /\ NeverGivesUp /\ LiveOrPolling /\ StreamWatched

LEMMA PageStep == Types /\ Page /\ [Next]_live => Page'
<1> SUFFICES ASSUME Types, Page, [Next]_live PROVE Page'  OBVIOUS
<1> USE LiveAssumption
    DEF Types, Page, PageOK, NeverGivesUp, LiveOrPolling, StreamWatched, Off,
        servers, stream, timers, page
<1>1. CASE Open
  BY <1>1 DEF Open, StopPollingFallback, ResetStreamHeartbeatWatchdog
<1>2. CASE Disconnect
  BY <1>2 DEF Disconnect, ActivatePollingFallback, ScheduleStreamRetry
<1>3. CASE WatchdogTimer
  BY <1>3 DEF WatchdogTimer, ActivatePollingFallback, ScheduleStreamRetry
<1>4. CASE RetryTimer
  BY <1>4 DEF RetryTimer, StartRuntimeStream
<1>5. CASE Dispatch
  BY <1>5 DEF Dispatch, StatusAfter, ResetStreamHeartbeatWatchdog
<1>6. CASE PollTimer
  BY <1>6 DEF PollTimer
<1>7. CASE ServerTurns
  BY <1>7 DEF ServerTurns
<1>8. CASE Tick
  BY <1>8 DEF Tick, Less
<1>9. CASE Generate \/ Press \/ Hear \/ BridgeTurns \/ \E i \in Places : Fetch(i)
  BY <1>9 DEF Generate, Press, Hear, BridgeTurns, Fetch, Serve, Show
<1>10. CASE UNCHANGED live
  BY <1>10 DEF live
<1> QED
  BY <1>1, <1>2, <1>3, <1>4, <1>5, <1>6, <1>7, <1>8, <1>9, <1>10 DEF Next, Dashboard

-----------------------------------------------------------------------------
(* The watchdog of a healthy stream.                                        *)

LEMMA WaitStep ==
  Types /\ WireOK /\ StreamWatched /\ SteadyOK /\ [Next]_live => SteadyOK'
<1> SUFFICES ASSUME Types, WireOK, StreamWatched, SteadyOK, [Next]_live,
                    source' = "open", steady' = TRUE
             PROVE  server' = "up" /\ WaitOK'
  BY DEF SteadyOK
<1>t. /\ next_state \in 0..PollEvery + 1 /\ beat \in 0..HeartbeatEvery
      /\ watchdog \in Off..WatchdogAfter
      /\ PollEvery \in Nat /\ HeartbeatEvery \in Nat \ {0} /\ WatchdogAfter \in Nat
  BY LiveAssumption DEF Types
<1>1. CASE Open
  <2>1. watchdog' = WatchdogAfter /\ next_state' = next_state /\ beat' = beat
    BY <1>1 DEF Open, ResetStreamHeartbeatWatchdog, stream
  <2>2. server' = "up"
    BY <1>1 DEF Open, servers
  <2> QED  BY <1>t, <2>1, <2>2 DEF WaitOK, Waited, LongestGap
<1>2. ASSUME UNCHANGED <<server, source, steady, next_state, beat, wire, watchdog>>
      PROVE  server' = "up" /\ WaitOK'
  BY <1>2 DEF SteadyOK, WaitOK, Waited, HeartbeatUnderWay
<1>3. CASE Dispatch
  <2>1. source = "open" /\ steady = TRUE /\ server' = server
    BY <1>3 DEF Dispatch, servers
  <2>2. server = "up" /\ WaitOK
    BY <2>1 DEF SteadyOK
  <2>3. UNCHANGED <<next_state, beat>> /\ wire # <<>> /\ wire' = Tail(wire)
    BY <1>3 DEF Dispatch
  <2>4. CASE Head(wire).kind = "heartbeat"
    <3>1. watchdog' = WatchdogAfter
      BY <1>3, <2>4 DEF Dispatch, ResetStreamHeartbeatWatchdog
    <3> QED  BY <1>t, <2>1, <2>2, <2>3, <3>1 DEF WaitOK, Waited, LongestGap
  <2>5. CASE Head(wire).kind # "heartbeat"
    <3>1. watchdog' = watchdog
      BY <1>3, <2>5 DEF Dispatch
    <3>2. HeartbeatUnderWay' = HeartbeatUnderWay
      <4>1. wire # <<Heartbeat>>
        BY <2>5 DEF Heartbeat
      <4>2. PICK s \in StateEvents : wire = <<s>> \/ wire = <<s, Heartbeat>>
        BY <2>3, <4>1 DEF WireOK
      <4>3. CASE wire = <<s>>
        BY <2>3, <4>3 DEF HeartbeatUnderWay, Heartbeat, StateEvents
      <4>4. CASE wire = <<s, Heartbeat>>
        BY <2>3, <4>4 DEF HeartbeatUnderWay
      <4> QED  BY <4>2, <4>3, <4>4
    <3> QED  BY <2>1, <2>2, <2>3, <3>1, <3>2 DEF WaitOK, Waited
  <2> QED  BY <2>4, <2>5
<1>4. CASE Generate
  <2>1. source = "open" /\ steady = TRUE /\ UNCHANGED <<server, watchdog>>
    BY <1>4 DEF Generate, servers, timers, page
  <2>2. server = "up" /\ WaitOK
    BY <2>1 DEF SteadyOK
  <2>3. /\ ~HeartbeatUnderWay
        /\ next_state = 0 /\ next_state' \in {PollEvery, PollEvery + 1}
        /\ beat' = IF HeartbeatDue THEN 0 ELSE beat
    BY <1>4 DEF Generate, HeartbeatUnderWay
  <2>4. CASE HeartbeatDue
    <3>1. beat = HeartbeatEvery /\ beat' = 0
      BY <1>t, <2>3, <2>4 DEF HeartbeatDue
    <3>2. Waited <= LongestGap
      BY <1>t, <2>2, <2>3, <3>1 DEF WaitOK, Waited, LongestGap
    <3>3. HeartbeatUnderWay'
      <4>1. PICK s \in StateEvents : wire' = <<s, Heartbeat>>
        BY <1>4, <2>4 DEF Generate, StateEvents, Heartbeat, Types
      <4> QED  BY <4>1 DEF HeartbeatUnderWay
    <3> QED  BY <2>1, <2>2, <3>2, <3>3 DEF WaitOK, Waited, LongestGap
  <2>5. CASE ~HeartbeatDue
    <3>1. beat < HeartbeatEvery /\ beat' = beat
      BY <1>t, <2>3, <2>5 DEF HeartbeatDue
    <3>2. ~HeartbeatUnderWay'
      <4>1. PICK s \in StateEvents : wire' = <<s>>
        BY <1>4, <2>5 DEF Generate, StateEvents, Types
      <4> QED  BY <4>1 DEF HeartbeatUnderWay, StateEvents, Heartbeat
    <3> QED  BY <1>t, <2>1, <2>2, <2>3, <3>1, <3>2 DEF WaitOK, Waited
  <2> QED  BY <2>4, <2>5
<1>5. CASE Tick
  <2>1. source = "open" /\ steady = TRUE /\ UNCHANGED <<server, wire>>
    BY <1>5 DEF Tick, servers, page
  <2>2. server = "up" /\ WaitOK
    BY <2>1 DEF SteadyOK
  <2>3. wire = <<>> /\ next_state > 0 /\ next_state' = next_state - 1
    BY <1>5, <1>t, <2>1, <2>2 DEF Tick, Settled, Less
  <2>4. ~HeartbeatUnderWay /\ ~HeartbeatUnderWay'
    BY <2>1, <2>3 DEF HeartbeatUnderWay
  <2>5. watchdog > 0 /\ watchdog' = watchdog - 1
    BY <1>5, <1>t, <2>1 DEF Tick, Less, StreamWatched, Off
  <2>6. beat' = IF beat < HeartbeatEvery THEN beat + 1 ELSE beat
    BY <1>5 DEF Tick
  <2> QED  BY <1>t, <2>1, <2>2, <2>3, <2>4, <2>5, <2>6 DEF WaitOK, Waited, LongestGap
<1>6. CASE Disconnect \/ WatchdogTimer \/ RetryTimer \/ ServerTurns
  BY <1>6 DEF Disconnect, WatchdogTimer, ScheduleStreamRetry, RetryTimer, StartRuntimeStream,
              ServerTurns
<1>7. CASE PollTimer \/ Press \/ Hear \/ BridgeTurns \/ \E i \in Places : Fetch(i)
  BY <1>2, <1>7
  DEF PollTimer, Press, Hear, BridgeTurns, Fetch, Serve, Show, servers, stream, timers, page
<1>8. CASE UNCHANGED live
  BY <1>2, <1>8 DEF live, servers, stream, timers, page
<1> QED
  BY <1>1, <1>3, <1>4, <1>5, <1>6, <1>7, <1>8 DEF Next, Dashboard

-----------------------------------------------------------------------------
(* The theorems.                                                            *)

LiveInv == Types /\ WireOK /\ Page /\ SteadyOK

LEMMA InitLive == Init => LiveInv
<1> SUFFICES ASSUME Init PROVE LiveInv  OBVIOUS
<1> USE LiveAssumption DEF Init
<1>1. Types
  <2>1. fetches \in [Places -> Versions \cup {Free, Sent}]
    BY DEF Places, Free, Sent
  <2>2. /\ version \in Versions /\ shown \in Versions \cup {Nothing}
        /\ next_state \in 0..PollEvery + 1 /\ beat \in 0..HeartbeatEvery
        /\ watchdog \in Off..WatchdogAfter /\ retry_timer \in Off..RetryAfter
        /\ poll_timer \in Off..PollEvery
    BY DEF Versions, Off, Nothing
  <2> QED  BY <2>1, <2>2 DEF Types
<1>2. WireOK /\ Page /\ SteadyOK
  BY DEF WireOK, Page, PageOK, NeverGivesUp, LiveOrPolling, StreamWatched, SteadyOK
<1> QED  BY <1>1, <1>2 DEF LiveInv

\* The invariant holds of every behaviour, whatever fails and whenever.
THEOREM LiveConsistent == Safety => []LiveInv
<1>1. LiveInv /\ [Next]_live => LiveInv'
  BY TypeStep, WireStep, PageStep, WaitStep DEF LiveInv, Page
<1> QED  BY InitLive, <1>1, PTL DEF Safety

\* The variables keep their types: the dashboard's timers are its own four.
THEOREM LiveTypeCorrect == Safety => []TypeOK
<1>1. LiveInv => TypeOK
  BY WireTyped DEF LiveInv
<1> QED  BY LiveConsistent, <1>1, PTL

\* Whatever fails and whenever, the dashboard has exactly one of a stream and
\* a timer that will open one, polls when it has no stream it relies on and only
\* then, and watches every open stream.
THEOREM DataPathAlwaysKept == Safety => []DataPathKept
<1>1. LiveInv => DataPathKept
  BY DEF LiveInv, Page, DataPathKept
<1> QED  BY LiveConsistent, <1>1, PTL

\* A stream whose server has been up is never given up, for all intervals that
\* leave room for one round that the bridge holds up.
THEOREM HealthyStreamsKept == Safety => []HealthyStreamKept
<1>1. LiveInv => HealthyStreamKept
  <2> SUFFICES ASSUME LiveInv, source = "open", steady = TRUE PROVE watchdog > 0
    BY DEF HealthyStreamKept, LiveInv, Types
  <2>1. WaitOK
    BY DEF LiveInv, SteadyOK
  <2>2. /\ next_state \in Nat /\ beat \in 0..HeartbeatEvery /\ watchdog \in Int
        /\ PollEvery \in Nat /\ HeartbeatEvery \in Nat /\ WatchdogAfter \in Nat
    BY LiveAssumption DEF LiveInv, Types, Off
  <2>3. WatchdogAfter - watchdog <= HeartbeatEvery + PollEvery + 1
    BY <2>1, <2>2 DEF WaitOK, Waited, LongestGap
  <2> QED  BY <2>2, <2>3, PatienceAssumption
<1> QED  BY LiveConsistent, <1>1, PTL
=============================================================================
