------------------------------ MODULE RunEvents ------------------------------
(***************************************************************************)
(* The live output of one run: a worker appends numbered events to a       *)
(* bounded Redis stream, and followers read it page by page over HTTP or   *)
(* over a websocket that replays and then polls.                           *)
(*                                                                         *)
(* emit takes its number in one command and appends in a later             *)
(* transaction, so two threads of a worker can append out of order once    *)
(* the rate key of the first has expired; and the number starts again when *)
(* the keys outlive their TTL.                                             *)
(***************************************************************************)
EXTENDS Naturals, Sequences, FiniteSets, SequencesExt

CONSTANTS
    Publishers,   \* threads of the worker that emit
    Followers,    \* clients that follow the run
    Retained,     \* max_events: the stream is trimmed to this length
    MaxEmits,     \* bound on emits
    MaxMishaps    \* bound on transport errors, disconnects and expiries

ASSUME RunEventsAssumption ==
    /\ Retained \in Nat \ {0}
    /\ MaxEmits \in Nat
    /\ MaxMishaps \in Nat

VARIABLES
    stream,    \* the stream: the numbers of the retained events
    sequence,  \* the value of the sequence key; 0 when there is none
    rate,      \* the rate key exists
    taken,     \* per publisher: the number it took and has not appended, or 0
    follower,  \* per follower: where it reads on, what is being sent to it
    got,       \* per follower: the numbers it received, in order
    emits, mishaps,
    overlapped, expired  \* history: two emits were under way; the keys expired

eventVars == <<stream, sequence, rate, taken, follower, got, emits, mishaps, overlapped, expired>>

\* A websocket's loop holds last_sequence and the page it is sending.
Away == [at |-> "away"]

EventsInit ==
    /\ stream = << >>
    /\ sequence = 0
    /\ rate = FALSE
    /\ taken = [p \in Publishers |-> 0]
    /\ follower = [f \in Followers |-> Away]
    /\ got = [f \in Followers |-> << >>]
    /\ emits = 0 /\ mishaps = 0
    /\ overlapped = FALSE /\ expired = FALSE

-----------------------------------------------------------------------------
(* The worker *)

Mishap == mishaps < MaxMishaps /\ mishaps' = mishaps + 1

\* emit up to INCR: an emit within the interval of an accepted one is refused
\* and takes no number.
Number(p) ==
    /\ taken[p] = 0
    /\ emits < MaxEmits
    /\ emits' = emits + 1
    /\ ~ rate
    /\ rate' = TRUE
    /\ sequence' = sequence + 1
    /\ taken' = [taken EXCEPT ![p] = sequence + 1]
    /\ overlapped' = (overlapped \/ \E q \in Publishers \ {p} : taken[q] # 0)
    /\ UNCHANGED <<stream, follower, got, mishaps, expired>>

\* XADD trims to max_events; both keys get a new TTL in the transaction.
Appended(n) ==
    LET longer == Append(stream, n)
    IN  IF Len(longer) > Retained THEN Tail(longer) ELSE longer

Publish(p) ==
    /\ taken[p] # 0
    /\ stream' = Appended(taken[p])
    /\ taken' = [taken EXCEPT ![p] = 0]
    /\ UNCHANGED <<sequence, rate, follower, got, emits, mishaps, overlapped, expired>>

\* RunEventTransportError, which try_emit swallows: the number is lost.
PublishFails(p) ==
    /\ taken[p] # 0
    /\ Mishap
    /\ taken' = [taken EXCEPT ![p] = 0]
    /\ UNCHANGED <<stream, sequence, rate, follower, got, emits, overlapped, expired>>

\* min_interval_ms passes.
RateExpires ==
    /\ rate
    /\ rate' = FALSE
    /\ UNCHANGED <<stream, sequence, taken, follower, got, emits, mishaps, overlapped, expired>>

\* ttl_seconds pass without an emit.
KeysExpire ==
    /\ stream # << >>
    /\ Mishap
    /\ stream' = << >>
    /\ sequence' = 0
    /\ expired' = TRUE
    /\ UNCHANGED <<rate, taken, follower, got, emits, overlapped>>

-----------------------------------------------------------------------------
(* Followers *)

Received(f) == IF got[f] = << >> THEN 0 ELSE Last(got[f])

\* The events are sorted by number and repeats are passed over.
Ascending(S) ==
    CHOOSE s \in [1..Cardinality(S) -> S] : \A i, j \in DOMAIN s : i < j => s[i] < s[j]

\* The retained events after a number.
After(n) == Ascending({m \in ToSet(stream) : m > n})

\* Mutant: the newest events of a page are kept instead of the oldest.
PageNewest(n, limit) ==
    LET all == After(n)
    IN  IF Len(all) <= limit THEN all ELSE SubSeq(all, Len(all) - limit + 1, Len(all))

\* read_run_event_entries
Page(n, limit) ==
    LET all == After(n) IN IF Len(all) <= limit THEN all ELSE SubSeq(all, 1, limit)

\* GET /runs/{run_id}/events, asked again from next_sequence.
List(f) ==
    \E limit \in 1..Retained :
        /\ follower[f] = Away
        /\ Page(Received(f), limit) # << >>
        /\ got' = [got EXCEPT ![f] = @ \o Page(Received(f), limit)]
        /\ UNCHANGED <<stream, sequence, rate, taken, follower, emits, mishaps, overlapped, expired>>

\* /ws/runs/{run_id}/events opens after the last number its client has.
Follow(f) ==
    /\ follower[f] = Away
    /\ follower' = [follower EXCEPT ![f] =
                       [at |-> "open", last |-> Received(f), page |-> << >>]]
    /\ UNCHANGED <<stream, sequence, rate, taken, got, emits, mishaps, overlapped, expired>>

ReadPage(f) ==
    /\ follower[f].at = "open"
    /\ follower[f].page = << >>
    /\ Page(follower[f].last, Retained) # << >>
    /\ follower' = [follower EXCEPT ![f].page = Page(follower[f].last, Retained)]
    /\ UNCHANGED <<stream, sequence, rate, taken, got, emits, mishaps, overlapped, expired>>

Send(f) ==
    /\ follower[f].at = "open"
    /\ follower[f].page # << >>
    /\ LET n == Head(follower[f].page)
       IN  /\ got' = [got EXCEPT ![f] = Append(@, n)]
           /\ follower' = [follower EXCEPT ![f].last = n, ![f].page = Tail(@)]
    /\ UNCHANGED <<stream, sequence, rate, taken, emits, mishaps, overlapped, expired>>

\* The client goes, or the transport fails and the API closes with 1011; what
\* was read and not sent is dropped.
Disconnect(f) ==
    /\ follower[f].at = "open"
    /\ Mishap
    /\ follower' = [follower EXCEPT ![f] = Away]
    /\ UNCHANGED <<stream, sequence, rate, taken, got, emits, overlapped, expired>>

EventsNext ==
    \/ \E p \in Publishers : Number(p) \/ Publish(p) \/ PublishFails(p)
    \/ RateExpires
    \/ KeysExpire
    \/ \E f \in Followers : List(f) \/ Follow(f) \/ ReadPage(f) \/ Send(f) \/ Disconnect(f)

EventsSpec == EventsInit /\ [][EventsNext]_eventVars

-----------------------------------------------------------------------------
(* Properties *)

\* A follower receives numbers in ascending order, and unless two threads of
\* the worker emitted at once or the keys expired, no event that the stream
\* still retains was passed over, through trims, failed emits, reconnects and
\* any mixture of listing and streaming.
FollowersMissNothing ==
    \A f \in Followers :
        /\ \A i, j \in DOMAIN got[f] : i < j => got[f][i] < got[f][j]
        /\ (~ overlapped /\ ~ expired) =>
               \A n \in ToSet(stream) : n <= Received(f) => n \in ToSet(got[f])

=============================================================================
