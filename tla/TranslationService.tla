-------------------------- MODULE TranslationService --------------------------
(***************************************************************************)
(* TranslationService: the texts asked for, the queue, the detached        *)
(* threads that empty it, and the requests to two providers, one of which  *)
(* wants a token first.  A critical section of State::mutex is an action.  *)
(*                                                                         *)
(* Threads that are about to call schedule_pump, wait for the time to send *)
(* or are inside pump_requests have no names: they are counted.  A batch   *)
(* may leave any text out, for its size or its script; an answer of the    *)
(* network may come at once or late, as an answer or an error.  The two    *)
(* lookups differ in the completion they bring; the files are left out.    *)
(***************************************************************************)
EXTENDS Naturals, Sequences, FiniteSets, SequencesExt

CONSTANTS
  Texts,
  Configurations, \* TranslationConfiguration; lookups is a bound on the calls
  MaxPrefetches   \* maximum_prefetch_pending

ASSUME TranslationAssumption ==
  /\ IsFiniteSet(Texts) /\ MaxPrefetches \in Nat
  /\ Configurations \subseteq
       [enabled : BOOLEAN, automatic : BOOLEAN, pending : Nat \ {0}, concurrent : Nat \ {0},
        batch : Nat \ {0}, lookups : Nat]

VARIABLES
  configuration, \* it stays the same; the provider is automatic or Google
  cache,         \* the texts with a translation
  scheduled, prefetched, waiters, \* texts of these maps
  retry,         \* texts whose retry_after has not passed
  queue,         \* State::pending
  requests,      \* the requests under way
  inFlight,      \* in_flight
  pumpScheduled, \* pump_scheduled
  stopped,
  preferred,     \* preferred_automatic_provider
  blocked,       \* providers whose blocked_until has not passed
  pace,          \* what next_request_at waits for, if it has not passed
  token,         \* there is a Bing token
  scheduling, timing, pumping, \* threads in each place
  drawn,         \* history: texts drawn as they are, till their request ends
  generation,    \* only its changes count
  lookups        \* how many calls the program has made

textVars == <<cache, scheduled, prefetched, waiters, retry, queue>>
requestVars == <<requests, inFlight>>
providerVars == <<preferred, blocked, pace, token>>
poolVars == <<pumpScheduled, scheduling, timing, pumping>>
callerVars == <<configuration, drawn, generation, lookups>>
translationVars == <<textVars, requestVars, providerVars, poolVars, callerVars, stopped>>

TranslationInit ==
  /\ configuration \in Configurations
  /\ cache = {} /\ scheduled = {} /\ prefetched = {} /\ waiters = {} /\ retry = {}
  /\ queue = <<>> /\ requests = {} /\ inFlight = 0
  /\ preferred = "google" /\ blocked = {} /\ pace = "none" /\ token = FALSE
  /\ pumpScheduled = FALSE /\ scheduling = 0 /\ timing = 0 /\ pumping = 0
  /\ drawn = {} /\ generation = 0 /\ lookups = 0 /\ stopped = FALSE

Entry(x, prefetch) == [text |-> x, single |-> FALSE, prefetch |-> prefetch]
TextsOf(s) == {s[i].text : i \in DOMAIN s}
Prefetches(s) == SelectSeq(s, LAMBDA e : e.prefetch)
-----------------------------------------------------------------------------
(* The callers.                                                            *)

MoreCalls == configuration.enabled /\ lookups < configuration.lookups
Called == MoreCalls /\ ~stopped /\ lookups' = lookups + 1 /\ UNCHANGED configuration

AppendEntry(x, prefetch) ==
  /\ scheduled' = scheduled \cup {x} /\ queue' = Append(queue, Entry(x, prefetch))
  /\ scheduling' = scheduling + 1

NotPromoted(x) == UNCHANGED <<prefetched, queue, scheduling>> \* wrong: it stays a prefetch
\* A prefetch that is drawn after all comes first, if it is not under way yet.
Promoted(x) ==
  LET at == {i \in DOMAIN queue : queue[i].text = x /\ queue[i].prefetch}
  IN  /\ prefetched' = prefetched \ {x}
      /\ \/ \E i \in at :
              /\ queue' = <<[queue[i] EXCEPT !.prefetch = FALSE]>> \o RemoveAt(queue, i)
              /\ scheduling' = scheduling + 1
         \/ at = {} /\ UNCHANGED <<queue, scheduling>>

\* lookup_or_request, lookup_or_request_utf8.  A text that is refused is not
\* waited for.
LookUp(x) ==
  /\ Called /\ x \notin cache \cup retry
  /\ \/ x \in scheduled /\ Promoted(x) /\ UNCHANGED scheduled
     \/ /\ x \notin scheduled /\ Cardinality(scheduled) < configuration.pending
        /\ AppendEntry(x, FALSE) /\ UNCHANGED prefetched
  /\ waiters' = waiters \cup {x}
  /\ drawn' = drawn \cup {x}
  /\ UNCHANGED <<cache, retry, requestVars, providerVars, pumpScheduled, timing, pumping,
                 generation, stopped>>

Refused(x) ==
  /\ Called
  /\ x \in retry \/ (x \notin cache \cup scheduled /\ Cardinality(scheduled) >= configuration.pending)
  /\ waiters' = waiters \ {x}
  /\ UNCHANGED <<cache, scheduled, prefetched, retry, queue, requestVars, providerVars,
                 poolVars, drawn, generation, stopped>>

Prefetch(x) ==
  /\ Called /\ x \notin cache \cup scheduled \cup retry
  /\ Cardinality(scheduled) < configuration.pending /\ Len(Prefetches(queue)) < MaxPrefetches
  /\ AppendEntry(x, TRUE) /\ prefetched' = prefetched \cup {x}
  /\ UNCHANGED <<cache, waiters, retry, requestVars, providerVars, pumpScheduled, timing,
                 pumping, drawn, generation, stopped>>

\* ~TranslationService; the requests under way keep the state alive.  A bound:
\* it comes after the last call.
Destroy ==
  /\ configuration.enabled /\ ~MoreCalls /\ ~stopped /\ stopped' = TRUE
  /\ queue' = <<>> /\ scheduled' = {} /\ prefetched' = {} /\ waiters' = {} /\ drawn' = {}
  /\ pumpScheduled' = FALSE
  /\ UNCHANGED <<cache, retry, requestVars, providerVars, scheduling, timing, pumping,
                 configuration, generation, lookups>>
-----------------------------------------------------------------------------
(* The pump.                                                               *)

\* One detached thread waits at a time, or that is the idea.
SchedulePump ==
  /\ scheduling > 0 /\ scheduling' = scheduling - 1
  /\ \/ (stopped \/ pumpScheduled) /\ UNCHANGED <<pumpScheduled, timing>>
     \/ ~stopped /\ ~pumpScheduled /\ pumpScheduled' = TRUE /\ timing' = timing + 1
  /\ UNCHANGED <<textVars, requestVars, providerVars, pumping, callerVars, stopped>>

\* The thread has slept; it looks again whether the deadline was moved.
TimeToPump ==
  /\ timing > 0 /\ timing' = timing - 1
  /\ \/ stopped /\ pumpScheduled' = FALSE /\ UNCHANGED pumping
     \/ ~stopped /\ pace = "none" /\ pumping' = pumping + 1 /\ UNCHANGED pumpScheduled
  /\ UNCHANGED <<textVars, requestVars, providerVars, scheduling, callerVars, stopped>>

Providers == {"google", "bing"}
Other(p) == IF p = "google" THEN "bing" ELSE "google"
\* choose_provider
Chosen ==
  IF ~configuration.automatic THEN {"google"} \ blocked
  ELSE IF preferred \notin blocked THEN {preferred} ELSE {Other(preferred)} \ blocked

PumpReturns == pumping' = pumping - 1 /\ UNCHANGED <<queue, scheduling, pace, requestVars>>
PumpLater ==
  /\ pumping' = pumping - 1 /\ scheduling' = scheduling + 1
  /\ pace' = IF pace = "none" THEN "provider" ELSE pace
  /\ UNCHANGED <<queue, requestVars>>

\* "Only one request may bootstrap the Bing token session."
AwaitsToken(p) == p = "bing" /\ ~token /\ inFlight # 0

\* What is drawn before what may be drawn.
First == IF \E i \in DOMAIN queue : ~queue[i].prefetch
         THEN CHOOSE i \in DOMAIN queue :
                ~queue[i].prefetch /\ \A k \in 1..(i - 1) : queue[k].prefetch
         ELSE 1

\* The places in the queue that go along with the first.
Companions ==
  IF queue[First].single THEN {}
  ELSE {i \in DOMAIN queue \ {First} :
          ~queue[i].single /\ queue[i].prefetch = queue[First].prefetch}

Rank(places, i) == Cardinality({j \in places : j <= i})
Pick(s, places) ==
  [k \in 1..Cardinality(places) |-> s[CHOOSE i \in places : Rank(places, i) = k]]

StartRequest(p) ==
  \E along \in SUBSET Companions :
    LET taken == {First} \cup along
        batch == <<queue[First].text>>
                   \o [k \in 1..Cardinality(along) |-> Pick(queue, along)[k].text]
    IN  /\ Cardinality(taken) <= configuration.batch
        /\ queue' = Pick(queue, DOMAIN queue \ taken)
        /\ inFlight' = inFlight + 1
        /\ pace' = "interval"
        /\ requests' = requests \cup
             {[texts |-> batch, place |-> IF p = "bing" THEN "bingStart" ELSE "google",
               refresh |-> FALSE, again |-> TRUE, fallback |-> configuration.automatic, answer |-> "none"]}
        /\ UNCHANGED <<scheduling, pumping>>

\* A round of pump_requests.
Pump ==
  /\ pumping > 0 /\ pumpScheduled' = FALSE
  /\ IF stopped \/ inFlight >= configuration.concurrent \/ queue = <<>> THEN PumpReturns
     ELSE IF pace # "none" \/ Chosen = {} THEN PumpLater
     ELSE \E p \in Chosen : IF AwaitsToken(p) THEN PumpReturns ELSE StartRequest(p)
  /\ UNCHANGED <<cache, scheduled, prefetched, waiters, retry, preferred, blocked, token,
                 timing, callerVars, stopped>>
-----------------------------------------------------------------------------
(* A request.                                                              *)

Turns(r, s) == requests' = (requests \ {r}) \cup {s}
ProviderWorks(p) ==
  /\ blocked' = blocked \ {p}
  /\ preferred' = IF configuration.automatic THEN p ELSE preferred
ProviderFails(p) == blocked' = blocked \cup {p} /\ UNCHANGED preferred

\* After p has failed: the other provider, once, if it is ready.
GoesOn(r, p) ==
  IF r.fallback /\ Other(p) \notin blocked
  THEN Turns(r, [r EXCEPT !.place = IF p = "google" THEN "bingStart" ELSE "google",
                          !.refresh = FALSE, !.again = TRUE, !.fallback = FALSE])
  ELSE Turns(r, [r EXCEPT !.place = "finish"])

\* A translation that does not split into its texts is an answer, but no use.
Answered(r, p) ==
  /\ ProviderWorks(p)
  /\ \E useful \in BOOLEAN :
       /\ ~useful => Len(r.texts) > 1
       /\ Turns(r, [r EXCEPT !.place = "finish",
                             !.answer = IF useful THEN "good" ELSE "none"])

\* complete_google_request
GoogleAnswers(r) ==
  /\ r.place = "google"
  /\ Answered(r, "google") \/ (ProviderFails("google") /\ GoesOn(r, "google"))
  /\ UNCHANGED token

\* start_bing_request
BingStarts(r) ==
  /\ r.place = "bingStart"
  /\ token' = (token /\ ~r.refresh)
  /\ Turns(r, [r EXCEPT !.place = IF token' THEN "bingSend" ELSE "home"])
  /\ UNCHANGED <<preferred, blocked>>

\* complete_bing_home_request
HomeAnswers(r) ==
  /\ r.place = "home"
  /\ \/ /\ token' = TRUE /\ Turns(r, [r EXCEPT !.place = "bingSend"])
        /\ UNCHANGED <<preferred, blocked>>
     \/ token' = FALSE /\ ProviderFails("bing") /\ GoesOn(r, "bing")

\* perform_bing_translation reads the token anew; there may be none left.
BingSends(r) ==
  /\ r.place = "bingSend"
  /\ Turns(r, [r EXCEPT !.place = IF token THEN "bing" ELSE "unsent"])
  /\ UNCHANGED <<preferred, blocked, token>>

\* complete_bing_request: a token that may be stale is renewed once.
BingAnswers(r) ==
  /\ r.place \in {"bing", "unsent"} /\ UNCHANGED token
  /\ \/ r.place = "bing" /\ Answered(r, "bing")
     \/ /\ r.place = "bing" /\ r.again
        /\ Turns(r, [r EXCEPT !.place = "bingStart", !.refresh = TRUE, !.again = FALSE])
        /\ UNCHANGED <<preferred, blocked>>
     \/ ProviderFails("bing") /\ GoesOn(r, "bing")

\* finish_request.  A batch that failed is queued again, each text by itself.
Singles(s) ==
  [k \in DOMAIN s |-> [text |-> s[k], single |-> TRUE, prefetch |-> s[k] \in prefetched]]

StillScheduled(xs) == scheduled \* wrong: a text that failed stays scheduled
Unscheduled(xs) == scheduled \ xs
Forget(xs) ==
  /\ scheduled' = Unscheduled(xs)
  /\ prefetched' = prefetched \ xs /\ waiters' = waiters \ xs /\ drawn' = drawn \ xs

Finishes(r) ==
  LET xs == Range(r.texts)
  IN  /\ r.place = "finish"
      /\ requests' = requests \ {r}
      /\ inFlight' = IF inFlight > 0 THEN inFlight - 1 ELSE 0
      /\ \/ /\ r.answer = "good" /\ ~stopped
            /\ Forget(xs) /\ cache' = cache \cup xs /\ retry' = retry \ xs
            /\ generation' = IF xs \subseteq prefetched THEN generation ELSE 1 - generation
            /\ scheduling' = scheduling + 1 /\ UNCHANGED <<queue, pumping>>
         \/ /\ r.answer # "good" /\ Len(r.texts) > 1 /\ ~stopped
            /\ queue' = Singles(r.texts) \o queue
            /\ pumping' = pumping + 1
            /\ UNCHANGED <<scheduled, prefetched, waiters, drawn, cache, retry, generation,
                           scheduling>>
         \/ /\ r.answer # "good" /\ Len(r.texts) > 1 /\ stopped
            /\ Forget(xs) /\ pumping' = pumping + 1
            /\ UNCHANGED <<queue, cache, retry, generation, scheduling>>
         \/ /\ IF r.answer = "good" THEN stopped ELSE Len(r.texts) = 1
            /\ Forget(xs) /\ retry' = retry \cup xs
            /\ scheduling' = scheduling + 1
            /\ UNCHANGED <<queue, cache, generation, pumping>>
      /\ UNCHANGED <<providerVars, configuration, lookups>>

RequestStep(r) ==
  /\ \/ /\ GoogleAnswers(r) \/ BingStarts(r) \/ HomeAnswers(r) \/ BingSends(r) \/ BingAnswers(r)
        /\ UNCHANGED <<textVars, inFlight, pace, scheduling, pumping, callerVars>>
     \/ Finishes(r)
  /\ UNCHANGED <<pumpScheduled, timing, stopped>>
-----------------------------------------------------------------------------
(* Time.                                                                   *)

\* A bound: it passes while there are calls left to notice it.
RetryPasses(x) ==
  /\ x \in retry /\ MoreCalls /\ retry' = retry \ {x}
  /\ UNCHANGED <<cache, scheduled, prefetched, waiters, queue, requestVars, providerVars,
                 poolVars, callerVars, stopped>>

ProviderReady(p) ==
  /\ p \in blocked /\ blocked' = blocked \ {p}
  /\ UNCHANGED <<textVars, requestVars, preferred, pace, token, poolVars, callerVars, stopped>>

RequestTime ==
  /\ pace # "none" /\ (pace = "provider" => Chosen # {}) /\ pace' = "none"
  /\ UNCHANGED <<textVars, requestVars, preferred, blocked, token, poolVars, callerVars,
                 stopped>>
-----------------------------------------------------------------------------
Program(x) == LookUp(x) \/ Refused(x) \/ Prefetch(x)

ServiceStep ==
  \/ SchedulePump \/ TimeToPump \/ Pump \/ \E r \in requests : RequestStep(r)
  \/ \E p \in Providers : ProviderReady(p)
  \/ RequestTime

TranslationNext ==
  \/ \E x \in Texts : Program(x) \/ RetryPasses(x)
  \/ Destroy \/ ServiceStep

TranslationFairness ==
  /\ WF_translationVars(SchedulePump) /\ WF_translationVars(TimeToPump)
  /\ WF_translationVars(Pump) /\ WF_translationVars(RequestTime)
  /\ \A x \in Texts : WF_translationVars(\E r \in requests : x = r.texts[1] /\ RequestStep(r))
  /\ \A p \in Providers : WF_translationVars(ProviderReady(p))

TranslationSpec == TranslationInit /\ [][TranslationNext]_translationVars
TranslationFairSpec == TranslationSpec /\ TranslationFairness
-----------------------------------------------------------------------------
Places == {"google", "bingStart", "home", "bingSend", "bing", "unsent", "finish"}

TranslationTypeOK ==
  /\ {cache, scheduled, prefetched, waiters, retry, drawn} \subseteq SUBSET Texts
  /\ queue \in Seq([text : Texts, single : BOOLEAN, prefetch : BOOLEAN])
  /\ \A r \in requests :
       /\ r.texts \in Seq(Texts) /\ r.place \in Places /\ r.answer \in {"none", "good"}
       /\ {r.refresh, r.again, r.fallback} \subseteq BOOLEAN
  /\ {inFlight, scheduling, timing, pumping, lookups} \subseteq Nat
  /\ pumpScheduled \in BOOLEAN /\ stopped \in BOOLEAN /\ token \in BOOLEAN
  /\ preferred \in Providers /\ blocked \subseteq Providers
  /\ pace \in {"none", "interval", "provider"} /\ generation \in {0, 1}

InRequests == UNION {Range(r.texts) : r \in requests}

\* "A cache miss schedules one asynchronous request": a scheduled text is in the
\* queue or in a request, and only once; whoever waits, waits for one of those.
RequestsAccounted ==
  /\ inFlight = Cardinality(requests)
  /\ \A r, s \in requests : r # s => Range(r.texts) \cap Range(s.texts) = {}
  /\ Cardinality(TextsOf(queue)) = Len(queue) /\ TextsOf(queue) \cap InRequests = {}
  /\ scheduled = TextsOf(queue) \cup (IF stopped THEN {} ELSE InRequests)
  /\ prefetched \cup waiters \cup drawn \subseteq scheduled
  /\ scheduled \cap (cache \cup retry) = {}

\* The service keeps the promise of TextTranslations.
Promise == INSTANCE TextTranslations WITH
  status <- [x \in Texts |-> IF x \in cache THEN "known"
                             ELSE IF x \in scheduled THEN "requested" ELSE "unknown"]
ImplementsTextTranslations == Promise!FairSpec
=============================================================================
