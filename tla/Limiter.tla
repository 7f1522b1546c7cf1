------------------------------ MODULE Limiter -------------------------------
(***************************************************************************)
(* The limited listener (limiter.go): a connection is refused when another *)
(* one from the same host was accepted within the last Limit units of      *)
(* time.  The history of accepted connections is cut at every attempt: all *)
(* of it when the last one is out of range, its old prefix otherwise.      *)
(*                                                                         *)
(* Time is a clock that Tick moves; one attempt is handled at one instant. *)
(***************************************************************************)
EXTENDS Integers, Sequences

CONSTANTS
    Host,        \* remote ips
    Limit,       \* conf.ListenLimit; NewLimitedListener refuses negative ones
    MaxTime      \* bound: the clock stops here

ASSUME LimiterAssumption == Limit \in Nat /\ MaxTime \in Nat

VARIABLES
    now,             \* the clock
    lastConnection,  \* time of the last accepted connection
    history,         \* the attempts kept, each [host, time], oldest first
    accepted         \* ghost: per host, when it was accepted last

limiterVars == <<now, lastConnection, history, accepted>>

Past == -1 - Limit   \* long ago: the zero time.Time

-----------------------------------------------------------------------------
LimiterInit ==
    /\ now = 0
    /\ lastConnection = Past
    /\ history = << >>
    /\ accepted = [h \in Host |-> Past]

\* The loop over the history: how many attempts at its start are out of range.
Expired(hist, tl) ==
    CHOOSE i \in 0..Len(hist) :
        /\ \A j \in 1..i : hist[j].time <= tl
        /\ i < Len(hist) => hist[i + 1].time > tl

\* As ClearHistory, but with a time limit one unit too early.
ClearHistoryLate ==
    LET tl == now - Limit - 1
        kept == IF lastConnection < tl THEN << >> ELSE history
    IN  SubSeq(kept, Expired(kept, tl) + 1, Len(kept))

\* clearHistory: the history without the attempts that are out of range.
ClearHistory ==
    LET tl == now - Limit
        kept == IF lastConnection < tl THEN << >> ELSE history
    IN  SubSeq(kept, Expired(kept, tl) + 1, Len(kept))

InHistory(host, hist) == \E i \in DOMAIN hist : hist[i].host = host

\* The attempt is let through and remembered.
Accepts(host) ==
    /\ ~ InHistory(host, ClearHistory)
    /\ history' = Append(ClearHistory, [host |-> host, time |-> now])
    /\ lastConnection' = now
    /\ accepted' = [accepted EXCEPT ![host] = now]
    /\ UNCHANGED now

\* The attempt is refused, which prolongs nothing.
Refuses(host) ==
    /\ InHistory(host, ClearHistory)
    /\ history' = ClearHistory
    /\ UNCHANGED <<now, lastConnection, accepted>>

Tick ==
    /\ now < MaxTime
    /\ now' = now + 1
    /\ UNCHANGED <<lastConnection, history, accepted>>

LimiterNext == Tick \/ \E h \in Host : Accepts(h) \/ Refuses(h)

LimiterSpec == LimiterInit /\ [][LimiterNext]_limiterVars

-----------------------------------------------------------------------------
\* The limit is exact at every moment, whatever other hosts did and however the
\* history was cut before: an attempt would be refused if and only if the last
\* accepted connection of its host is younger than Limit (limiter.go,
\* clearHistory and isInHistory).
ExactLimit ==
    \A h \in Host : InHistory(h, ClearHistory) <=> now - accepted[h] < Limit

\* The inductive invariant behind ExactLimit: the history is in order of time,
\* its entries are accepted attempts, and it still has the last attempt of
\* every host that is in range.
HistoryExact ==
    /\ now \in Nat
    /\ lastConnection \in Int
    /\ lastConnection <= now
    /\ history \in Seq([host : Host, time : Int])
    /\ accepted \in [Host -> Int]
    /\ \A i, j \in DOMAIN history : i <= j => history[i].time <= history[j].time
    /\ \A i \in DOMAIN history :
        history[i].time <= now /\ history[i].time <= accepted[history[i].host]
    /\ \A h \in Host :
        /\ accepted[h] <= lastConnection
        /\ accepted[h] > now - Limit =>
            \E i \in DOMAIN history :
                history[i].host = h /\ history[i].time = accepted[h]

=============================================================================
