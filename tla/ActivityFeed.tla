----------------------------- MODULE ActivityFeed -----------------------------
(***************************************************************************)
(* GET /api/activity (lib/web4Graph.ts): the newest events of the log,     *)
(* repeated alerts collapsed, in pages that a cursor leads through.        *)
(***************************************************************************)
EXTENDS Integers, Sequences, SequencesExt, FiniteSets

CONSTANTS
  MaxEvents,  \* bound: rows of activity_events
  Window,     \* PUBLIC_FETCH_LIMIT: the rows one answer looks at
  PageSize    \* limit

ASSUME FeedAssumption == {MaxEvents, Window, PageSize} \subseteq Nat \ {0}

Upto(n) == 1..n

\* An event: its time, of which the code keeps the millisecond; its id, where
\* it stands among the ids in the order of localeCompare; and whether it is
\* one of the alerts about the signer's balance, which repeat.
Event == [ms: Upto(MaxEvents), id: Upto(MaxEvents), noise: BOOLEAN]

\* What ORDER BY timestamp DESC LIMIT gives of the first n rows.  A read that
\* fails has no data, and `data ?? []` makes of it what none of the rows give:
\* it is Fetched with n = 0.
Fetched(log, n) ==
  Reverse(SubSeq(log, IF n > Window THEN n - Window + 1 ELSE 1, n))

\* Array.filter: the elements of s at the places in I, in their order.
Kept(s, I) ==
  LET first[k \in 0..Len(s)] ==
        IF k = 0 THEN << >>
        ELSE IF k \in I THEN Append(first[k - 1], s[k]) ELSE first[k - 1]
  IN first[Len(s)]

\* collapseNoisyActivity: only the newest of the repeated alerts stays.
Collapsed(rows) ==
  Kept(rows, {i \in DOMAIN rows :
                rows[i].noise => \A j \in 1..i - 1 : ~rows[j].noise})

\* buildGraphActivityEvents: its sort by the millisecond is stable, and so
\* leaves the order the rows came in.
Listing(log, n) == Collapsed(Fetched(log, n))

-----------------------------------------------------------------------------
(* Pages.                                                                   *)

NoCursor == [ms |-> 0, id |-> 0]

\* Mutant: the event at the cursor is on both pages.
BeforeCursorOr(e, c) ==
  c = NoCursor \/ e.ms < c.ms \/ (e.ms = c.ms /\ e.id <= c.id)

\* compareEventCursor: by the millisecond, then by the id.
BeforeCursor(e, c) ==
  c = NoCursor \/ e.ms < c.ms \/ (e.ms = c.ms /\ e.id < c.id)

\* paginateGraphActivityEvents, whose cursor is the last event of the page.
Page(listing, c) ==
  LET older == Kept(listing, {i \in DOMAIN listing : BeforeCursor(listing[i], c)}) IN
  [items |-> SubSeq(older, 1, IF Len(older) > PageSize THEN PageSize ELSE Len(older)),
   next  |-> IF Len(older) > PageSize
             THEN [ms |-> older[PageSize].ms, id |-> older[PageSize].id]
             ELSE NoCursor]

\* The entity and event filters, for the events that match are those with an
\* id in wanted.
Matching(listing, wanted) ==
  Kept(listing, {i \in DOMAIN listing : listing[i].id \in wanted})

\* What the route makes pages of when the log has n rows, or cannot be read.
FeedOf(log, n, lost, wanted) == Matching(Listing(log, IF lost THEN 0 ELSE n), wanted)

\* What a client has seen that follows the cursor from page to page: as the
\* i-th page is read the log has at[i] rows, and its read fails if i is in
\* lost; wanted[i] are the events that match, which may change, because the
\* entity of an event is looked for among the tasks and agents of that
\* moment.  ends are the cursors.
Reading(log, at, lost, wanted) ==
  LET r[i \in 0..Len(at)] ==
        IF i = 0 THEN [seen |-> << >>, ends |-> {}, next |-> NoCursor, done |-> FALSE]
        ELSE LET sofar == r[i - 1]
                 p == Page(FeedOf(log, at[i], i \in lost, wanted[i]), sofar.next)
             IN IF sofar.done THEN sofar
                ELSE [seen |-> sofar.seen \o p.items,
                      ends |-> sofar.ends \cup {sofar.next},
                      next |-> p.next,
                      done |-> p.next = NoCursor]
  IN r[Len(at)]

-----------------------------------------------------------------------------
(* Properties.                                                              *)

\* Logs in the order of their times, and the moments at which pages are read.
Logs ==
  LET ids   == {f \in [Upto(MaxEvents) -> Upto(MaxEvents)] : IsInjective(f)}
      times == {f \in [Upto(MaxEvents) -> Upto(MaxEvents)] :
                  f[1] = 1 /\ \A i \in 2..MaxEvents : f[i] - f[i - 1] \in {0, 1}}
      noise == {s \in SUBSET Upto(MaxEvents) : Cardinality(s) \in {0, 2}}
  IN {[i \in Upto(MaxEvents) |-> [ms |-> t[i], id |-> f[i], noise |-> i \in s]] :
        t \in times, f \in ids, s \in noise}

Moments ==
  {at \in [Upto(MaxEvents) -> Upto(MaxEvents)] :
     \A i \in 2..MaxEvents : at[i - 1] <= at[i]}

\* At most one read fails; and every event is wanted, or from some page on the
\* ones with an id up to n.
Failures == {s \in SUBSET Upto(MaxEvents) : Cardinality(s) <= 1}

Filters ==
  {[i \in Upto(MaxEvents) |-> IF i < k THEN Upto(MaxEvents) ELSE Upto(n)] :
     k \in Upto(2), n \in {MaxEvents - 1, MaxEvents}}

TimesSeen(seen, e) == Cardinality({i \in DOMAIN seen : seen[i] = e})

\* A client that follows the cursors to the end, while events come in, sees no
\* event twice, whatever fails; and it sees each event that was listed when it
\* began, still is when it ends and matched all the while, provided no page
\* was made of a read that failed.  Only an event of the same millisecond as
\* the last one of a page may be missed or repeated.  (Rows that leave the
\* window of the newest are lost to the client.)
PagesAreComplete ==
  \A log \in Logs, at \in Moments, lost \in Failures, wanted \in Filters :
    LET r == Reading(log, at, lost, wanted)
        first == Listing(log, at[1])
        final == Listing(log, at[MaxEvents])
        tied(e) == \E c \in r.ends : c.ms = e.ms /\ c.id # e.id
    IN r.done =>
         /\ lost = {} =>
              \A e \in ToSet(first) \cap ToSet(final) :
                (\A i \in Upto(MaxEvents) : e.id \in wanted[i]) =>
                  TimesSeen(r.seen, e) = 1 \/ tied(e)
         /\ \A e \in ToSet(r.seen) : TimesSeen(r.seen, e) = 1 \/ tied(e)

=============================================================================
