------------------------------- MODULE LiveFeed -------------------------------
(***************************************************************************)
(* The homepage's activity strip, components/LiveFeed.tsx: it fetches      *)
(* /api/activity when it opens, on every insert it is told of, every 20 s  *)
(* and when its tab is shown again, through the copy the CDN keeps.        *)
(***************************************************************************)
EXTENDS ActivityFeed

CONSTANTS
  FeedSize,   \* the events the strip has room for
  MaxTrouble  \* bound: fetches and runs that fail or are slower than a poll

ASSUME LiveFeedAssumption == FeedSize \in Nat \ {0} /\ MaxTrouble \in Nat

VARIABLES
  log,      \* activity_events
  edge,     \* the CDN's copy; n: how many rows the log had for it
  origin,   \* the run of the route that renews the copy
  live,     \* the strip's one fetch; got: how many rows its answer knew of
  shown,    \* how many rows the log had for what the strip shows
  told,     \* an insert is on its way over the realtime channel
  channel,  \* whether the channel is up
  visible,  \* whether the tab is
  trouble   \* how much has failed

pvars == <<told, channel, visible>>
feedVars == <<log, edge, origin, live, shown, pvars, trouble>>

FeedInit ==
  /\ log = << >>
  /\ edge = [at |-> "none", n |-> 0]
  /\ origin = [at |-> "idle", n |-> 0]
  /\ live = [at |-> "asked", got |-> 0]
  /\ shown = 0
  /\ told = FALSE
  /\ channel = FALSE
  /\ visible = TRUE
  /\ trouble = 0

Fine == UNCHANGED trouble
Trouble == trouble < MaxTrouble /\ trouble' = trouble + 1

-----------------------------------------------------------------------------
(* The log, the CDN and the route.                                          *)

Insert(noise) ==
  /\ Len(log) < MaxEvents
  /\ log' = Append(log, [ms |-> Len(log) + 1, id |-> Len(log) + 1, noise |-> noise])
  /\ told' = (told \/ channel)
  /\ Fine /\ UNCHANGED <<edge, origin, live, shown, channel, visible>>

\* s-maxage has passed, or stale-while-revalidate.
EdgeAges ==
  /\ edge.at # "none"
  /\ edge' = IF edge.at = "fresh" THEN [edge EXCEPT !.at = "stale"]
             ELSE [at |-> "none", n |-> 0]
  /\ Fine /\ UNCHANGED <<log, origin, live, shown, pvars>>

\* A stale copy is answered with and renewed meanwhile.
EdgeServes ==
  /\ live.at = "asked"
  /\ edge.at # "none"
  /\ live' = [at |-> "answered", got |-> edge.n]
  /\ origin' = IF edge.at = "stale" /\ origin.at = "idle"
               THEN [at |-> "reading", n |-> 0] ELSE origin
  /\ Fine /\ UNCHANGED <<log, edge, shown, pvars>>

\* Without a copy the request is passed on, and answered from the new copy.
EdgeForwards ==
  /\ live.at = "asked"
  /\ edge.at = "none"
  /\ origin.at = "idle"
  /\ origin' = [at |-> "reading", n |-> 0]
  /\ Fine /\ UNCHANGED <<log, edge, live, shown, pvars>>

\* Mutant: the row being inserted is counted as well.
RouteReadsAhead ==
  /\ origin.at = "reading"
  /\ origin' = [at |-> "answering", n |-> Len(log) + 1]
  /\ Fine /\ UNCHANGED <<log, edge, live, shown, pvars>>

RouteReads ==
  /\ origin.at = "reading"
  /\ origin' = [at |-> "answering", n |-> Len(log)]
  /\ Fine /\ UNCHANGED <<log, edge, live, shown, pvars>>

\* The read of the log fails, and its run goes on with no rows (Fetched): the
\* CDN comes to have a fresh copy with nothing in it.
RouteReadsNothing ==
  /\ origin.at = "reading"
  /\ origin' = [at |-> "answering", n |-> 0]
  /\ Trouble /\ UNCHANGED <<log, edge, live, shown, pvars>>

RouteAnswers ==
  /\ origin.at = "answering"
  /\ edge' = [at |-> "fresh", n |-> origin.n]
  /\ origin' = [at |-> "idle", n |-> 0]
  /\ Fine /\ UNCHANGED <<log, live, shown, pvars>>

\* The run throws, or its time is up: the copy stays as it is.
RouteFails ==
  /\ origin.at # "idle"
  /\ origin' = [at |-> "idle", n |-> 0]
  /\ Trouble /\ UNCHANGED <<log, edge, live, shown, pvars>>

-----------------------------------------------------------------------------
(* The strip.                                                               *)

\* refresh: an earlier fetch that has not been answered is aborted.
Refresh == live' = [at |-> "asked", got |-> 0]

\* Mutant: there is no need to poll while the realtime channel is up.
PollUnconnected ==
  /\ visible /\ ~channel
  /\ Refresh
  /\ IF live.at = "idle" THEN Fine ELSE Trouble
  /\ UNCHANGED <<log, edge, origin, shown, pvars>>

\* The interval of 20 s.  A fetch that takes longer is aborted by it.
Poll ==
  /\ visible
  /\ Refresh
  /\ IF live.at = "idle" THEN Fine ELSE Trouble
  /\ UNCHANGED <<log, edge, origin, shown, pvars>>

\* The channel tells of an insert, or loses the message.
Told ==
  /\ told
  /\ told' = FALSE
  /\ Refresh \/ UNCHANGED live
  /\ Fine /\ UNCHANGED <<log, edge, origin, shown, channel, visible>>

Switch ==
  /\ visible' = ~visible
  /\ IF visible THEN UNCHANGED live ELSE Refresh
  /\ Fine /\ UNCHANGED <<log, edge, origin, shown, told, channel>>

Connect ==
  /\ channel' = ~channel
  /\ Fine /\ UNCHANGED <<log, edge, origin, live, shown, told, visible>>

Apply ==
  /\ live.at = "answered"
  /\ shown' = live.got
  /\ live' = [at |-> "idle", got |-> 0]
  /\ Fine /\ UNCHANGED <<log, edge, origin, pvars>>

\* An error is swallowed: what is shown stays.
FetchFails ==
  /\ live.at # "idle"
  /\ live' = [at |-> "idle", got |-> 0]
  /\ Trouble /\ UNCHANGED <<log, edge, origin, shown, pvars>>

FeedNext ==
  \/ \E noise \in BOOLEAN : Insert(noise)
  \/ EdgeAges \/ EdgeServes \/ EdgeForwards
  \/ RouteReads \/ RouteReadsNothing \/ RouteAnswers \/ RouteFails
  \/ Poll \/ Told \/ Switch \/ Connect \/ Apply \/ FetchFails

FeedSpec == FeedInit /\ [][FeedNext]_feedVars

\* The interval goes on, the copy ages, requests and runs come to an end, and
\* an answer is not for ever slower than the copy is dropped.
FairFeedSpec ==
  /\ FeedSpec
  /\ WF_feedVars(Poll) /\ WF_feedVars(EdgeAges) /\ WF_feedVars(EdgeForwards)
  /\ WF_feedVars(RouteReads) /\ WF_feedVars(RouteAnswers) /\ WF_feedVars(Apply)
  /\ SF_feedVars(EdgeServes)

-----------------------------------------------------------------------------
(* Properties.                                                              *)

\* The log, the copy and the strip have the shape the code gives them, and
\* nothing knows of a row that is not there.
FeedTypeOK ==
  /\ log \in Seq(Event) /\ Len(log) <= MaxEvents
  /\ edge \in [at: {"none", "fresh", "stale"}, n: 0..Len(log)]
  /\ origin \in [at: {"idle", "reading", "answering"}, n: 0..Len(log)]
  /\ live \in [at: {"idle", "asked", "answered"}, got: 0..Len(log)]
  /\ shown \in 0..Len(log)
  /\ {told, channel, visible} \subseteq BOOLEAN
  /\ trouble \in 0..MaxTrouble

\* The first FeedSize events of the listing of n rows, by their place in the
\* log.
Feed(n) ==
  LET l == Listing(log, n) IN
  {l[i].ms : i \in {j \in DOMAIN l : j <= FeedSize}}

\* An event in the feed comes to be shown to whoever keeps looking, unless
\* newer ones have taken its place: the fetch that its insert causes may be
\* answered from a copy made before it, and nothing but the interval asks again.
EveryEventIsShown ==
  \A e \in Upto(MaxEvents) :
    (visible /\ e <= Len(log) /\ e \in Feed(Len(log)))
      ~> (~visible \/ e \in Feed(shown) \/ e \notin Feed(Len(log)))

\* What ActivityFeed states of the pages, for every bounded log: it is about
\* no variable, and the initial state is enough to look at.
PagesMissNothing == FeedInit => PagesAreComplete

=============================================================================
