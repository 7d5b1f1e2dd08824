----------------------------- MODULE ReorderBuffer -----------------------------
(***************************************************************************)
(* The reorder buffer a replica keeps for one stream (RedisEventTransport).*)
(*                                                                         *)
(* A frame is an event with the sequence number Redis gave it.  The buffer *)
(* holds the next sequence it expects, the frames that came too early, the *)
(* attachment fence (deferred) and whether its flush timer is armed.  Each *)
(* operation is a pair: the buffer it leaves, the events it delivers.      *)
(***************************************************************************)
EXTENDS Integers, FiniteSets, SequencesExt

CONSTANT MaxBuffer    \* MAX_BUFFER_SIZE

\* An absent replay frontier.
NoFrontier == -1

NewBuffer(deferred) == [next |-> 0, pending |-> {}, deferred |-> deferred, timer |-> FALSE]

Seqs(frames) == {f.seq : f \in frames}

\* The events of a set of frames, in the order of their sequence numbers.
InSequence(frames) ==
  [i \in 1 .. Cardinality(frames) |->
     (CHOOSE f \in frames : Cardinality({g \in frames : g.seq < f.seq}) = i - 1).event]

\* The elements of a sequence that are not in S, in their order.
Without(seq, S) ==
  InSequence({[seq |-> i, event |-> seq[i]] : i \in {j \in DOMAIN seq : seq[j] \notin S}})

\* The least and the greatest of a set of numbers.
Least(S) == CHOOSE n \in S : \A k \in S : n <= k
Greatest(S) == CHOOSE n \in S : \A k \in S : k <= n
Larger(a, b) == IF a < b THEN b ELSE a
Smaller(a, b) == IF a < b THEN a ELSE b

\* flushPendingMessages: what continues the sequence without a hole.
FlushPending(b) ==
  LET run == {f \in b.pending : b.next .. f.seq \subseteq Seqs(b.pending)}
      rest == b.pending \ run
  IN  [buffer |-> [b EXCEPT !.next = @ + Cardinality(run), !.pending = rest,
                            !.timer = @ /\ rest # {}],
       out |-> InSequence(run)]

\* forceFlushBuffer: give up on what is missing.
ForceFlush(b) ==
  IF b.pending = {}
    THEN [buffer |-> [b EXCEPT !.timer = FALSE], out |-> <<>>]
    ELSE [buffer |-> [b EXCEPT !.next = Greatest(Seqs(b.pending)) + 1, !.pending = {}, !.timer = FALSE],
          out |-> InSequence(b.pending)]

Held(b, f) == [b EXCEPT !.pending = {g \in @ : g.seq # f.seq} \cup {f}]

\* handleOrderedChunk and handleTerminalEvent; only a chunk can overflow.
Receive(b, f, terminal) ==
  CASE b.deferred -> [buffer |-> Held(b, f), out |-> <<>>]
    [] ~b.deferred /\ f.seq < b.next -> [buffer |-> b, out |-> <<>>]
    [] ~b.deferred /\ f.seq = b.next -> FlushPending(Held(b, f))
    [] OTHER -> IF ~terminal /\ Cardinality(Held(b, f).pending) >= MaxBuffer
                  THEN ForceFlush(Held(b, f))
                  ELSE [buffer |-> [Held(b, f) EXCEPT !.timer = TRUE], out |-> <<>>]

\* What the replay has already shown is not shown again.
Pruned(b, frontier) == [b EXCEPT !.pending = {f \in @ : f.seq >= frontier}]

\* The fence opens: whatever continues the sequence goes out, a gap is timed.
Opened(b) ==
  LET flushed == FlushPending([b EXCEPT !.deferred = FALSE])
  IN  [flushed EXCEPT !.buffer.timer = @ \/ flushed.buffer.pending # {}]

\* Seeded bugs: a gap that remains is not timed; the counter is the frontier;
\* an absent frontier is taken for a number.
Synced_NoTimer(b, frontier, counter) ==
  LET c == [Pruned(b, frontier) EXCEPT !.timer = FALSE, !.deferred = FALSE]
      ceiling == IF frontier # NoFrontier THEN frontier ELSE counter
  IN  FlushPending([c EXCEPT !.next = Larger(@, IF c.pending = {} THEN ceiling
                                              ELSE Smaller(ceiling, Least(Seqs(c.pending))))])

Synced_TrustsCounter(b, frontier, counter) ==
  LET c == [Pruned(b, frontier) EXCEPT !.timer = FALSE]
  IN  Opened([c EXCEPT !.next = Larger(@, counter)])

Synced_Regresses(b, frontier, counter) ==
  Opened([Pruned(b, frontier) EXCEPT !.timer = FALSE, !.next = frontier])

\* syncReorderBuffer, the counter read: move to the replay frontier, or to the
\* counter when nothing was replayed, never past a frame that is waiting.
Synced(b, frontier, counter) ==
  LET c == [Pruned(b, frontier) EXCEPT !.timer = FALSE]
      ceiling == IF frontier # NoFrontier THEN frontier ELSE counter
      reached == IF c.pending = {} THEN ceiling ELSE Smaller(ceiling, Least(Seqs(c.pending)))
  IN  Opened([c EXCEPT !.next = Larger(@, reached)])

\* Seeded bug: the fence of a failed read stays closed.
SyncFailed_StaysDeferred(b, frontier) ==
  [buffer |-> [Pruned(b, frontier) EXCEPT !.next = Larger(@, frontier)], out |-> <<>>]

\* syncReorderBuffer, the read failed: the replay frontier still counts.
SyncFailed(b, frontier) ==
  IF b.deferred
    THEN Opened([Pruned(b, frontier) EXCEPT !.next = Larger(@, frontier)])
    ELSE [buffer |-> b, out |-> <<>>]
=============================================================================
