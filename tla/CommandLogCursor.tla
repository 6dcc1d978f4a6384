-------------------------- MODULE CommandLogCursor --------------------------
(***************************************************************************)
(* Positions in the event stream of a command, where a replay starts       *)
(* (ReplayFrom), and the bookkeeping of one subscription                   *)
(* (CommandLogCursor of command_log_stream.rs).                            *)
(*                                                                         *)
(* An event is [at |-> <<attempt, sequence>>, kind]. A cursor is a record  *)
(*   only     the attempt a StartOfAttempt replay is confined to, or 0     *)
(*   last     the last event delivered, or where the client resumes        *)
(*   attempt, next   the attempt it follows, and the sequence it expects   *)
(*   done     the attempt's Done, held back, or Nowhere                    *)
(*   status   the attempt's final status has passed                        *)
(*   skips    sequence numbers of other steps, for a client of one step    *)
(***************************************************************************)
EXTENDS Naturals, FiniteSets

Nowhere == <<0, 0>>    \* before every event: attempts are counted from 1

Before(p, q) == p[1] < q[1] \/ (p[1] = q[1] /\ p[2] < q[2])

Latest(S) == CHOOSE p \in S : \A q \in S : ~Before(p, q)

InOrder(events) ==
  [i \in 1..Cardinality(events) |->
     CHOOSE e \in events : Cardinality({f \in events : Before(f.at, e.at)}) = i - 1]

\* The attempt of the cursor a client brings is kept: replay what is after it.
Kept(events, current, requested) ==
  \/ requested = Nowhere
  \/ requested[1] <= current /\ \E e \in events : e.at[1] = requested[1]

\* The cursor of a new subscription; one of an unknown attempt starts over.
Opened(events, current, requested, skips) ==
  LET kept == Kept(events, current, requested)
  IN  [only |-> IF kept THEN 0 ELSE current,
       last |-> IF kept THEN requested ELSE Nowhere,
       attempt |-> current, next |-> 0, done |-> Nowhere, status |-> FALSE, skips |-> skips]

UpdateAttempt(c, attempt) ==
  IF attempt > c.attempt
  THEN [c EXCEPT !.attempt = attempt, !.next = 0, !.done = Nowhere, !.status = FALSE,
                 !.only = IF @ = 0 THEN 0 ELSE attempt]
  ELSE c

\* Done is never forwarded when it is met, and what was delivered is not sent again.
Forwarded(c, events) ==
  {e \in events : /\ e.kind # "done" /\ Before(c.last, e.at)
                  /\ c.only = 0 \/ e.at[1] = c.only}

MatchesStep(c, e) == e.kind = "status" \/ e.at[2] \notin c.skips

\* What goes to the client, in order. Events of other steps count as delivered.
Sent(c, events) == InOrder({e \in Forwarded(c, events) : MatchesStep(c, e)})

\* The cursor after forwarding these events, of the log or one from the bus
Advanced(c, events) ==
  LET own == {e \in events : e.at[1] = c.attempt}
      dones == {e.at : e \in {f \in own : f.kind = "done"}}
      ends == {e.at[2] + 1 : e \in own} \cup {c.next}
  IN  [c EXCEPT
         !.last = Latest({@} \cup {e.at : e \in Forwarded(c, events)}),
         !.next = CHOOSE n \in ends : \A m \in ends : m <= n,
         !.done = IF dones = {} THEN @ ELSE Latest(dones),
         !.status = @ \/ \E e \in own : e.kind = "status"]

\* As MissingBefore, of the same attempt only
MissingSameAttempt(c, e) == e.at[1] = c.last[1] /\ e.at[2] > c.last[2] + 1

MissingBefore(c, e) ==
  \/ e.at[1] = c.last[1] /\ e.at[2] > c.last[2] + 1
  \/ e.at[1] > c.last[1] /\ e.at[2] > 0
=============================================================================
