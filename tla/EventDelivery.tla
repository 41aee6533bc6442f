--------------------------- MODULE EventDelivery ---------------------------
(***************************************************************************)
(* The event log and its ordered Redis Stream rail: EventBus.emit,         *)
(* SQLiteStore.persist_event and OrderedEventStreamDelivery.               *)
(*                                                                         *)
(* An emit is three steps of one publisher (an API, scheduler or CLI       *)
(* process): the event is persisted in one SQLite write transaction that   *)
(* draws its sequence number; a second write transaction appends to the    *)
(* stream every retained event from the durable cursor through the new     *)
(* one; the envelope is published.  The XADDs of the second transaction    *)
(* are not undone when it rolls back, so a Redis error, a failed commit or *)
(* a crash leaves the stream ahead of the cursor.  Stream ids are a fixed  *)
(* offset plus the sequence number; Redis refuses an id that is not above  *)
(* its newest one, and the append then looks the entry up.                 *)
(*                                                                         *)
(* An event is its sequence number; its other fields play no part.  A      *)
(* write transaction excludes every other writer of the database (BEGIN    *)
(* IMMEDIATE), so "deliver" is the state of the one publisher inside the   *)
(* delivery transaction.                                                   *)
(***************************************************************************)
EXTENDS Integers, Sequences, FiniteSetsExt

CONSTANTS
    Publishers,     \* processes that emit events
    Targets,        \* redis_url + stream digests under which they know the stream
    TargetOf,       \* [Publishers -> Targets]
    Maxlen,         \* event_stream_maxlen: entries a trim must keep
    LegacyEvents,   \* events persisted before sequences existed
    LegacyStamp,    \* milliseconds of the auto ids the old rail gave them
    MaxEvents,      \* bound: sequence numbers drawn
    MaxClock,       \* bound: wall clock readings are 0 .. MaxClock
    MaxCleanups,    \* bound: event cleanups
    MaxFaults,      \* bound: Redis errors, failed commits, crashes
    MaxLosses       \* bound: times Redis comes back with less of the stream

ASSUME DeliveryConstants ==
    /\ TargetOf \in [Publishers -> Targets]
    /\ Maxlen \in Nat \ {0}
    /\ LegacyEvents \in Nat
    /\ LegacyStamp \in Nat
    /\ MaxEvents \in Nat
    /\ MaxClock \in Nat
    /\ MaxCleanups \in Nat
    /\ MaxFaults \in Nat
    /\ MaxLosses \in Nat

VARIABLES
    counter,    \* causal_sequences row of scope "events"
    events,     \* sequence numbers of the retained rows of the events table
    created,    \* created_at by sequence number
    row,        \* event_stream_deliveries row by target
    stream,     \* the Redis Stream, oldest entry first
    pc,         \* where each publisher is in emit
    goal,       \* sequence number of the event it is emitting
    tx,         \* cursor and offset inside its delivery transaction
    appended,   \* history: events some XADD has put into the stream
    cleanups,   \* cleanups done
    faults,     \* faults done
    losses      \* stream losses done

vars == <<counter, events, created, row, stream, pc, goal, tx, appended, cleanups, faults, losses>>

\* stream_id_offset of a row no delivery has committed yet (None).
NoOffset == -1

Row == [cursor : Nat, offset : Nat \cup {NoOffset}]

\* A stream entry; the payloads of the old rail carry no sequence.
Entry == [id : Nat, seq : Nat, legacy : BOOLEAN]

-----------------------------------------------------------------------------
(* The stream                                                              *)

\* The id a new entry must exceed.
TopId(s) == IF s = <<>> THEN 0 ELSE s[Len(s)].id

\* XADD MAXLEN ~ may drop any number of the oldest entries that leaves Maxlen.
Trims(s) == {SubSeq(s, n + 1, Len(s)) : n \in {m \in 0 .. Len(s) : m = 0 \/ Len(s) - m >= Maxlen}}

\* Mutant: Redis is left to choose the id.
AutoId(r, e) == TopId(stream) + 1

StreamId(r, e) == r.offset + e

\* The entry of event e under r's numbering.
EntryFor(r, e) == [id |-> StreamId(r, e), seq |-> e, legacy |-> FALSE]

\* Mutant: a refused append is always an error.
NeverInStream(r, e) == FALSE

\* XRANGE id id returns an entry with exactly this payload.
InStream(r, e) == \E i \in 1 .. Len(stream) : stream[i] = EntryFor(r, e)

\* XADD takes the id.
Fresh(r, e) == StreamId(r, e) > TopId(stream)

-----------------------------------------------------------------------------
(* Emitting an event                                                       *)

Larger(a, b) == IF a > b THEN a ELSE b

\* Mutant: a repeated timestamp is kept.
NotBefore(previous, candidate) == IF candidate >= previous THEN candidate ELSE previous

\* causally_after(previous, candidate=...): strictly after the predecessor.
CausallyAfter(previous, candidate) ==
    IF candidate > previous THEN candidate ELSE previous + 1

\* created_at of an event persisted when the wall clock shows c.
CreatedAt(c) == IF events = {} THEN c ELSE CausallyAfter(created[Max(events)], c)

\* No delivery transaction is open.
WriteLockFree == \A p \in Publishers : pc[p] # "deliver"

\* persist_event: one write transaction.
Persist(p, c) ==
    /\ pc[p] = "idle"
    /\ WriteLockFree
    /\ counter < MaxEvents
    /\ counter' = counter + 1
    /\ events' = events \cup {counter + 1}
    /\ created' = [e \in 1 .. counter + 1 |-> IF e = counter + 1 THEN CreatedAt(c) ELSE created[e]]
    /\ goal' = [goal EXCEPT ![p] = counter + 1]
    /\ pc' = [pc EXCEPT ![p] = "append"]
    /\ UNCHANGED <<row, stream, tx, appended, cleanups, faults, losses>>

\* The event the newest entry carries: its sequence, or for an entry of the
\* old rail the sequence of the row with its id, or 0 if that row is gone.
SequenceOf(entry) == IF entry.legacy /\ entry.seq \notin events THEN 0 ELSE entry.seq

\* Mutant: ids start from 0 whatever the stream holds.
BootstrapAtZero(r) == [cursor |-> r.cursor, offset |-> 0]

\* _bootstrap: cursor and offset of a target that has none, from the stream.
Bootstrap(r) ==
    IF stream = <<>>
    THEN [cursor |-> IF events = {} THEN r.cursor ELSE Larger(r.cursor, Min(events) - 1),
          offset |-> 0]
    ELSE LET last == stream[Len(stream)]
             s == SequenceOf(last)
         IN  IF s < 1
             THEN [cursor |-> r.cursor, offset |-> last.id]
             ELSE [cursor |-> Larger(r.cursor, s), offset |-> Larger(0, last.id - s)]

\* deliver_through opens its transaction and reads, or bootstraps, the cursor.
Begin(p) ==
    /\ pc[p] = "append"
    /\ WriteLockFree
    /\ LET r == row[TargetOf[p]]
       IN  tx' = [tx EXCEPT ![p] = IF r.offset = NoOffset THEN Bootstrap(r) ELSE r]
    /\ pc' = [pc EXCEPT ![p] = "deliver"]
    /\ UNCHANGED <<counter, events, created, row, stream, goal, appended, cleanups, faults, losses>>

\* Mutant: the rows end before the goal.
PendingBelowGoal(p) == {e \in events : tx[p].cursor < e /\ e < goal[p]}

\* Mutant: an emit appends its own event only.
PendingOwn(p) == {e \in events : tx[p].cursor < e /\ e = goal[p]}

\* Rows the delivery of p still has to append.
Pending(p) == {e \in events : tx[p].cursor < e /\ e <= goal[p]}

\* The transaction is rolled back and _append_stream swallows the error.
Rollback(p) == pc' = [pc EXCEPT ![p] = "publish"]

\* _append of the next row and the cursor saved behind it.  A refused id is
\* fine if the entry is already there; otherwise the error is raised again.
AppendNext(p) ==
    /\ pc[p] = "deliver"
    /\ \E e \in Pending(p) :
        /\ \A d \in Pending(p) : e <= d
        /\ \/ /\ Fresh(tx[p], e)
              /\ stream' \in Trims(Append(stream, EntryFor(tx[p], e)))
              /\ appended' = appended \cup {e}
              /\ tx' = [tx EXCEPT ![p].cursor = e]
              /\ UNCHANGED pc
           \/ /\ ~Fresh(tx[p], e)
              /\ InStream(tx[p], e)
              /\ tx' = [tx EXCEPT ![p].cursor = e]
              /\ UNCHANGED <<stream, appended, pc>>
           \/ /\ ~Fresh(tx[p], e)
              /\ ~InStream(tx[p], e)
              /\ Rollback(p)
              /\ UNCHANGED <<stream, appended, tx>>
    /\ UNCHANGED <<counter, events, created, row, goal, cleanups, faults, losses>>

\* The connection drops after Redis applied the XADD: its reply is lost.
AppendAmbiguous(p) ==
    /\ pc[p] = "deliver"
    /\ faults < MaxFaults
    /\ \E e \in Pending(p) :
        /\ \A d \in Pending(p) : e <= d
        /\ Fresh(tx[p], e)
        /\ stream' \in Trims(Append(stream, EntryFor(tx[p], e)))
        /\ appended' = appended \cup {e}
    /\ Rollback(p)
    /\ faults' = faults + 1
    /\ UNCHANGED <<counter, events, created, row, goal, tx, cleanups, losses>>

\* Nothing is left to append: the cursor moves to the goal and is committed.
Commit(p) ==
    /\ pc[p] = "deliver"
    /\ Pending(p) = {}
    /\ row' = [row EXCEPT ![TargetOf[p]] =
                  [cursor |-> Larger(tx[p].cursor, goal[p]), offset |-> tx[p].offset]]
    /\ pc' = [pc EXCEPT ![p] = "publish"]
    /\ UNCHANGED <<counter, events, created, stream, goal, tx, appended, cleanups, faults, losses>>

\* Redis or SQLite raises before anything is applied, or the commit fails.
DeliveryFails(p) ==
    /\ pc[p] \in {"append", "deliver"}
    /\ faults < MaxFaults
    /\ Rollback(p)
    /\ faults' = faults + 1
    /\ UNCHANGED <<counter, events, created, row, stream, goal, tx, appended, cleanups, losses>>

\* _publish: best effort, nothing of it is kept.
Publish(p) ==
    /\ pc[p] = "publish"
    /\ pc' = [pc EXCEPT ![p] = "idle"]
    /\ UNCHANGED <<counter, events, created, row, stream, goal, tx, appended, cleanups, faults, losses>>

-----------------------------------------------------------------------------
(* Failures and cleanup                                                    *)

\* The process dies and is restarted; SQLite rolls its transaction back.
Crash(p) ==
    /\ pc[p] # "idle"
    /\ faults < MaxFaults
    /\ pc' = [pc EXCEPT ![p] = "idle"]
    /\ faults' = faults + 1
    /\ UNCHANGED <<counter, events, created, row, stream, goal, tx, appended, cleanups, losses>>

\* Redis comes back with an older snapshot of the stream, or none.
RedisLoses ==
    /\ losses < MaxLosses
    /\ \E n \in 0 .. Len(stream) - 1 : stream' = SubSeq(stream, 1, n)
    /\ losses' = losses + 1
    /\ UNCHANGED <<counter, events, created, row, pc, goal, tx, appended, cleanups, faults>>

\* cleanup_runtime_rows deletes the events of a project, or all it has read.
Cleanup ==
    /\ WriteLockFree
    /\ cleanups < MaxCleanups
    /\ \E gone \in SUBSET events \ {{}} : events' = events \ gone
    /\ cleanups' = cleanups + 1
    /\ UNCHANGED <<counter, created, row, stream, pc, goal, tx, appended, faults, losses>>

-----------------------------------------------------------------------------
(* Specification                                                           *)

\* A fresh deployment, or one whose old rail had streamed the first k of its
\* events under auto ids; _migrate numbered them in insertion order.
Init ==
    /\ counter = LegacyEvents
    /\ events = 1 .. LegacyEvents
    /\ created = [e \in 1 .. LegacyEvents |-> 0]
    /\ row = [t \in Targets |-> [cursor |-> 0, offset |-> NoOffset]]
    /\ \E k \in 0 .. LegacyEvents :
        /\ stream = [i \in 1 .. k |-> [id |-> LegacyStamp + i, seq |-> i, legacy |-> TRUE]]
        /\ appended = 1 .. k
    /\ pc = [p \in Publishers |-> "idle"]
    /\ goal = [p \in Publishers |-> 0]
    /\ tx = [p \in Publishers |-> [cursor |-> 0, offset |-> NoOffset]]
    /\ cleanups = 0
    /\ faults = 0
    /\ losses = 0

\* The steps an emit takes once its event is durable.
Emit(p) == Begin(p) \/ AppendNext(p) \/ Commit(p) \/ Publish(p)

Next ==
    \/ \E p \in Publishers :
        \/ \E c \in 0 .. MaxClock : Persist(p, c)
        \/ Emit(p)
        \/ AppendAmbiguous(p)
        \/ DeliveryFails(p)
        \/ Crash(p)
    \/ RedisLoses
    \/ Cleanup

Spec == Init /\ [][Next]_vars

\* A live process keeps executing; it need not emit.
FairSpec == Spec /\ \A p \in Publishers : WF_vars(Emit(p))

-----------------------------------------------------------------------------
(* Properties                                                              *)

\* The tables, the stream and the delivery transactions are well typed, and
\* at most one delivery transaction is open (BEGIN IMMEDIATE).
TypeOK ==
    /\ counter \in Nat
    /\ events \in SUBSET (1 .. counter)
    /\ created \in [1 .. counter -> Nat]
    /\ row \in [Targets -> Row]
    /\ stream \in Seq(Entry)
    /\ pc \in [Publishers -> {"idle", "append", "deliver", "publish"}]
    /\ goal \in [Publishers -> 0 .. counter]
    /\ tx \in [Publishers -> Row]
    /\ appended \in SUBSET (1 .. counter)
    /\ cleanups \in Nat
    /\ faults \in Nat
    /\ losses \in Nat
    /\ \A p, q \in Publishers : pc[p] = "deliver" /\ pc[q] = "deliver" => p = q

\* The cursor of the open delivery transaction, and every committed one.
OpenCursors == {tx[p] : p \in {q \in Publishers : pc[q] = "deliver"}}
CommittedCursors == {row[t] : t \in Targets}

\* Every retained event up to r's cursor has been in the stream.
Covers(r) == \A e \in events : e <= r.cursor => e \in appended

\* No cursor, committed or of the open transaction, passes an event that was
\* never delivered: whatever fails, deliver_through skips only rows that
\* cleanup removed.
CursorCovers ==
    /\ \A t \in Targets : Covers(row[t])
    /\ \A p \in Publishers : pc[p] = "deliver" => Covers(tx[p])

\* The stream is strictly ordered by sequence: no event twice, none behind a
\* later one, whichever publishers appended them, replays included.
StreamOrdered ==
    \A i, j \in 1 .. Len(stream) : i < j => stream[i].seq < stream[j].seq

\* "replays predecessors before later events": an event first reaches the
\* stream only when every retained earlier event has reached it.
AppendsInOrder ==
    [][\A e \in appended' \ appended : \A d \in events : d < e => d \in appended]_vars

\* persist_event clamps created_at: among the retained events written since
\* sequences exist, timestamps follow the sequence whatever the clock did.
CausalTime ==
    \A a, b \in events : LegacyEvents < a /\ a < b => created[a] < created[b]

\* Delivery can always resume: where the open transaction, or the next one to
\* open, stands, the next retained event has either an id the stream still
\* takes or exactly its entry in the stream.
Resumable ==
    \A r \in IF WriteLockFree THEN CommittedCursors ELSE OpenCursors : \A e \in events :
        /\ r.offset # NoOffset
        /\ r.cursor < e
        /\ \A d \in events : r.cursor < d => e <= d
        => Fresh(r, e) \/ InStream(r, e)

\* Once faults have ended, an emit that reaches _append_stream puts its event
\* into the stream, unless cleanup takes the row first.
EmitDelivers ==
    \A p \in Publishers : \A e \in 1 .. MaxEvents :
        (faults = MaxFaults /\ pc[p] = "append" /\ goal[p] = e) ~> (e \in appended \/ e \notin events)

=============================================================================
