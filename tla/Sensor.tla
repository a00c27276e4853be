------------------------------- MODULE Sensor -------------------------------
(***************************************************************************)
(* The Chimera sensor (sensor_chimera/app.py, middleware.py, geoip.py):    *)
(* each visit is a coroutine of one loop.  Its body is read up to a limit, *)
(* the visitor's address is looked up in a bounded cache that all visits   *)
(* share, a suspicious visitor is kept waiting, and the visit is published *)
(* before it gets its decoy.                                               *)
(***************************************************************************)
EXTENDS EventBus, Ordering

CONSTANTS
    Visits,
    VisitOf,              \* of each: its address, the chunks of its body, or
                          \*   none if its method has none, and its suspicion
    NoGeo,                \* nothing is known of an address
    max_bytes,            \* of a body
    _MAX_CACHE_ENTRIES,
    _CACHE_TTL_SECONDS,
    MaxClock              \* bound: the seconds that pass

ASSUME VisitAssumption ==
    /\ \A v \in Visits : VisitOf[v].body \in Seq(Nat) /\ VisitOf[v].suspicious \in BOOLEAN
    /\ max_bytes \in Nat /\ MaxClock \in Nat
    /\ _MAX_CACHE_ENTRIES \in Nat \ {0} /\ _CACHE_TTL_SECONDS \in Nat \ {0}

VARIABLES
    visits,    \* of each visit: where it is, the chunks it sent, what was found
    cache,     \* GeoIpLookup._cache: what was answered of which address and when
    clock,
    uses       \* history: the addresses found in the cache or put there

sensorVars == <<visits, cache, clock, uses>>

Ip(v) == VisitOf[v].ip
Body(v) == VisitOf[v].body
Buffered(v) == Total(SubSeq(Body(v), 1, visits[v].got))

SensorInit ==
    /\ visits = [v \in Visits |-> [at |-> "away", got |-> 0, geo |-> NoGeo,
                                   news |-> NotPublished]]
    /\ cache = <<>>
    /\ clock = 0
    /\ uses = <<>>

Moves(v, stage) == visits' = [visits EXCEPT ![v].at = stage]

-----------------------------------------------------------------------------
(* RequestSizeLimitMiddleware *)

Arrive(v) ==
    /\ visits[v].at = "away"
    /\ Moves(v, IF Body(v) = <<>> THEN "arrived" ELSE "reading")
    /\ UNCHANGED <<cache, clock, uses>>

\* A chunk is added to the buffer; one byte too many is a 413.
Receive(v) ==
    LET got == visits[v].got + 1
    IN  /\ visits[v].at = "reading"
        /\ visits' = [visits EXCEPT ![v].got = got,
              ![v].at = IF Buffered(v) + Body(v)[got] > max_bytes THEN "rejected"
                        ELSE IF got = Len(Body(v)) THEN "arrived"
                        ELSE "reading"]
        /\ UNCHANGED <<cache, clock, uses>>

\* A visitor who hangs up leaves a body cut short, which is served as if whole.
HangUp(v) ==
    /\ visits[v].at = "reading"
    /\ Moves(v, "arrived")
    /\ UNCHANGED <<cache, clock, uses>>

-----------------------------------------------------------------------------
(* GeoIpLookup.lookup *)

\* The limiter of requests by address answers instead of the handler.
Limited(v) ==
    /\ visits[v].at = "arrived"
    /\ Moves(v, "limited")
    /\ UNCHANGED <<cache, clock, uses>>

Known(ip) == {e \in ToSet(cache) : e.ip = ip /\ clock - e.at < _CACHE_TTL_SECONDS}

\* The cache with an entry at its end, where the latest used ones are.
MovedToEnd(entry) == Append(Kept(cache, LAMBDA e : e.ip # entry.ip), entry)

\* What is known from an entry, and how old that is when it is used.
Of(entry) == [ip |-> entry.ip, age |-> clock - entry.at]

\* lookup returns; a suspicious visitor waits in the tarpit first.
Learns(v, geo) ==
    visits' = [visits EXCEPT ![v].at = IF VisitOf[v].suspicious THEN "tarpit" ELSE "publishing",
                             ![v].geo = geo]

\* Mutant of Hit: an entry that is used stays where it is.
Hit_Unmoved(v) ==
    /\ visits[v].at = "arrived"
    /\ \E entry \in Known(Ip(v)) : Learns(v, Of(entry))
    /\ uses' = Append(uses, Ip(v))
    /\ UNCHANGED <<cache, clock>>

Hit(v) ==
    /\ visits[v].at = "arrived"
    /\ \E entry \in Known(Ip(v)) :
          /\ cache' = MovedToEnd(entry)
          /\ Learns(v, Of(entry))
    /\ uses' = Append(uses, Ip(v))
    /\ UNCHANGED clock

\* Nothing fresh is known: the provider is asked, an old entry kept meanwhile.
Miss(v) ==
    /\ visits[v].at = "arrived"
    /\ Known(Ip(v)) = {}
    /\ Moves(v, "asking")
    /\ UNCHANGED <<cache, clock, uses>>

\* The call raises, or its answer is no object: nothing is kept of it.
GeoFails(v) ==
    /\ visits[v].at = "asking"
    /\ Learns(v, NoGeo)
    /\ UNCHANGED <<cache, clock, uses>>

\* The answer replaces what the cache has of the address by now; if that is
\* one entry too many, the first leaves.
GeoAnswers(v) ==
    LET entry == [ip |-> Ip(v), at |-> clock]
    IN  /\ visits[v].at = "asking"
        /\ cache' = IF Len(MovedToEnd(entry)) > _MAX_CACHE_ENTRIES THEN Tail(MovedToEnd(entry))
                    ELSE MovedToEnd(entry)
        /\ Learns(v, Of(entry))
        /\ uses' = Append(uses, Ip(v))
        /\ UNCHANGED clock

-----------------------------------------------------------------------------
(* The rest of catch_all *)

\* The delay is over, of whatever length.
WakeUp(v) ==
    /\ visits[v].at = "tarpit"
    /\ Moves(v, "publishing")
    /\ UNCHANGED <<cache, clock, uses>>

\* The bus offers the event to its next sink; after the last the decoy is served.
Announce(v) ==
    /\ visits[v].at = "publishing"
    /\ \E outcome \in emit(Sinks[visits[v].news.offered + 1]) :
          LET news == publish(visits[v].news, outcome)
          IN  visits' = [visits EXCEPT ![v].news = news,
                                       ![v].at = IF Published(news) THEN "answered" ELSE @]
    /\ UNCHANGED <<cache, clock, uses>>

SensorTick ==
    /\ clock < MaxClock
    /\ clock' = clock + 1
    /\ UNCHANGED <<visits, cache, uses>>

CatchAll(v) ==
    Limited(v) \/ Hit(v) \/ Miss(v) \/ GeoFails(v) \/ GeoAnswers(v) \/ WakeUp(v) \/ Announce(v)

SensorNext ==
    \/ SensorTick
    \/ \E v \in Visits : Arrive(v) \/ Receive(v) \/ HangUp(v) \/ CatchAll(v)

SensorSpec == SensorInit /\ [][SensorNext]_sensorVars

-----------------------------------------------------------------------------
(* Properties *)

Handled == {"arrived", "asking", "tarpit", "publishing"}

\* The types, and the limit of a body: nothing longer reaches the handler.
SensorTypeOK ==
    /\ \A v \in Visits :
          /\ visits[v].at \in {"away", "reading", "rejected", "limited", "answered"} \cup Handled
          /\ visits[v].got \in 0..Len(Body(v))
          /\ visits[v].news \in Publication
          /\ visits[v].at = "rejected" <=> Buffered(v) > max_bytes
    /\ clock \in 0..MaxClock

\* "caches per-IP for a few minutes" and "bounded (LRU ...)" (GeoIpLookup): however
\* lookups overlap, the cache has just the latest used addresses, as many as it may
\* hold, and no visit goes by what was said of another address, or too long ago.
RecentVisitorsAreKnown ==
    /\ [i \in DOMAIN cache |-> cache[i].ip]
          = Reverse(FirstOf(FromKeys(Reverse(uses)), _MAX_CACHE_ENTRIES))
    /\ \A v \in Visits : visits[v].geo # NoGeo =>
          /\ visits[v].geo.ip = Ip(v)
          /\ visits[v].geo.age < _CACHE_TTL_SECONDS
=============================================================================
