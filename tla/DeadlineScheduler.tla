-------------------------- MODULE DeadlineScheduler --------------------------
(***************************************************************************)
(* DeadlineScheduler (crates/scheduler): the bounded send queue.  Items     *)
(* are a set, since identifiers are distinct and the order of the vector    *)
(* only breaks ties between equal identifiers.                              *)
(***************************************************************************)
EXTENDS Integers, FiniteSets, FiniteSetsExt

CONSTANTS MaxItems, MaxBytes, Ranks, Sizes, LastId, LastTime

VARIABLES items, queuedBytes, now,
  issued,   \* identifiers used so far
  last      \* the last call and its item: [call, item]

vars == <<items, queuedBytes, now, issued, last>>

Items == [id : 1 .. LastId, rank : Ranks, deadline : 0 .. LastTime + 1, bytes : Sizes]
NoItem == [id |-> 0]

Init == /\ items = {} /\ queuedBytes = 0 /\ now = 0 /\ issued = 0
        /\ last = [call |-> "none", item |-> NoItem]

Bytes(s) == MapThenSumSet(LAMBDA x : x.bytes, s)

\* drop_expired
Dropped(s) == {x \in s : x.deadline > now}

\* Faulty: within a class the oldest item comes first, whatever the deadlines.
BeforeByAge(x, y) ==
  \/ x.rank < y.rank
  \/ x.rank = y.rank /\ x.id < y.id

\* The order of pop_next: class, then deadline, then identifier.
Before(x, y) ==
  \/ x.rank < y.rank
  \/ x.rank = y.rank /\ x.deadline < y.deadline
  \/ x.rank = y.rank /\ x.deadline = y.deadline /\ x.id < y.id

\* Faulty: equal classes are evicted too.
EvictableEqual(s, item) == {x \in s : x.rank >= item.rank}

Evictable(s, item) == {x \in s : x.rank > item.rank}

\* The k items push evicts first: the last ones of the order.
Victims(s, item, k) ==
  {x \in Evictable(s, item) : Cardinality({y \in Evictable(s, item) : Before(x, y)}) < k}

Fits(s, item) == Cardinality(s) < MaxItems /\ Bytes(s) + item.bytes <= MaxBytes

\* The eviction loop: as many victims as it takes, or all of them when even
\* that does not make room.
Evicted(s, item) ==
  LET n == Cardinality(Evictable(s, item))
      enough == {k \in 0 .. n : Fits(s \ Victims(s, item, k), item)}
  IN  Victims(s, item, IF enough = {} THEN n ELSE Min(enough))

\* The vector is edited and queued_bytes adjusted along with it.
Settle(s) == items' = s /\ queuedBytes' = queuedBytes + Bytes(s) - Bytes(items)

Push(item) ==
  LET live == Dropped(items)
      kept == live \ Evicted(live, item)
      in   == item.bytes <= MaxBytes /\ Fits(kept, item)
  IN  /\ Settle(IF item.bytes > MaxBytes THEN items ELSE IF in THEN kept \cup {item} ELSE kept)
      /\ last' = [call |-> "push", item |-> item]

\* A producer enqueues a new item.
Produce(rank, deadline, bytes) ==
  /\ issued < LastId
  /\ issued' = issued + 1
  /\ Push([id |-> issued + 1, rank |-> rank, deadline |-> deadline, bytes |-> bytes])
  /\ UNCHANGED now

\* peek, and what pop_next selects
Best(s) == CHOOSE x \in s : \A y \in s \ {x} : Before(x, y)

PopNext ==
  LET live == Dropped(items)
      next == IF live = {} THEN NoItem ELSE Best(live)
  IN  /\ Settle(live \ {next})
      /\ last' = [call |-> "pop", item |-> next]
      /\ UNCHANGED <<now, issued>>

Tick == now < LastTime /\ now' = now + 1 /\ UNCHANGED <<items, queuedBytes, issued, last>>

Next ==
  \/ \E rank \in Ranks, deadline \in 0 .. LastTime + 1, bytes \in Sizes : Produce(rank, deadline, bytes)
  \/ PopNext
  \/ Tick

Spec == Init /\ [][Next]_vars

-----------------------------------------------------------------------------
SchedulerTypeOK ==
  /\ items \subseteq Items /\ queuedBytes \in Nat /\ now \in 0 .. LastTime /\ issued \in 0 .. LastId
  /\ last.item \in Items \cup {NoItem}

\* The caps hold and queued_bytes is exact after any mix of expiry, eviction
\* and refusal: the subtraction in swap_remove loops never underflows.
WithinCaps ==
  /\ Cardinality(items) <= MaxItems
  /\ queuedBytes = Bytes(items) /\ queuedBytes <= MaxBytes

\* What a step takes out of the queue is late, or was popped, or is less urgent
\* than the item pushed and comes after all that stays (push, pop_next).
Justified(x) ==
  \/ x.deadline <= now
  \/ last'.call = "pop" /\ last'.item = x
  \/ last'.call = "push" /\ x.rank > last'.item.rank /\ \A y \in items' \cap items : ~Before(x, y)

LossesJustified == \A x \in items \ items' : Justified(x)

\* pop_next returns work in time; nothing it leaves is more urgent, nor as urgent
\* with an earlier deadline, nor equal in both and older; it comes back empty only
\* when nothing was in time.
PopFirst ==
  LET x == last'.item IN
  last'.call = "pop" /\ now' = now =>
    IF x = NoItem THEN items' = {} /\ \A y \in items : y.deadline <= now
    ELSE /\ x.deadline > now
         /\ \A y \in items' :
              /\ y.rank >= x.rank
              /\ y.rank = x.rank => y.deadline >= x.deadline
              /\ y.rank = x.rank /\ y.deadline = x.deadline => y.id > x.id

\* push refuses an item only when it exceeds the byte cap by itself, or when
\* what is queued in time and at least as urgent leaves no room for it.
RefusalForced ==
  LET x == last'.item IN
  issued' # issued /\ x \notin items' => x.bytes > MaxBytes \/
    (~Fits(items', x) /\ \A y \in items' : y.rank <= x.rank /\ y.deadline > now) 
=============================================================================
