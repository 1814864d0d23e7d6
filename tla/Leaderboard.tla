----------------------------- MODULE Leaderboard -----------------------------
(***************************************************************************)
(* GET /api/leaderboard: lib/leaderboard.ts behind the Redis copy of       *)
(* lib/cache.ts and the copy the CDN keeps as lib/httpCache.ts tells it    *)
(* to.  Of a ranking only who is listed is kept; time passes in units of   *)
(* half a minute.                                                          *)
(***************************************************************************)
EXTENDS Integers

CONSTANTS
  Agents,
  Runs,       \* runs of the handler that may overlap
  Ttl,        \* how long Redis keeps the ranking: 60 s
  FreshFor,   \* s-maxage: 30 s
  StaleFor,   \* stale-while-revalidate: 120 s
  MaxRun      \* bound: the time a run may take

ASSUME LeaderboardAssumption ==
  /\ {Ttl, FreshFor, StaleFor} \subseteq Nat
  /\ MaxRun \in Nat \ {0}

VARIABLES
  suspendedFor,  \* for how long each agent has been suspended
  redis, cdn,   \* the copies: who is listed, and for how long it is kept
  run            \* the runs in flight

vars == <<suspendedFor, redis, cdn, run>>

NotSuspended == -1

Servable == FreshFor + StaleFor

\* The oldest ranking an answer may hold.
Horizon == MaxRun + Ttl + MaxRun + Servable

\* An age beyond the last of the copy's life stands for no copy.
Copy(life) == [listed: SUBSET Agents, age: 0..life + 1]
NoCopy(life) == [listed |-> {}, age |-> life + 1]

Run == [at: {"idle", "lookup", "compute", "store", "answer"},
        listed: SUBSET Agents, age: 0..MaxRun]
NoRun == [at |-> "idle", listed |-> {}, age |-> 0]

Init ==
  /\ suspendedFor = [a \in Agents |-> NotSuspended]
  /\ redis = NoCopy(Ttl)
  /\ cdn = NoCopy(Servable)
  /\ run = [w \in Runs |-> NoRun]

-----------------------------------------------------------------------------
\* A visitor whose answer the CDN has no fresh copy of: while the copy is
\* servable it answers with that and has it renewed behind the visitor's back.
Visit(w) ==
  /\ run[w] = NoRun
  /\ cdn.age > FreshFor
  /\ run' = [run EXCEPT ![w].at = "lookup"]
  /\ UNCHANGED <<suspendedFor, redis, cdn>>

\* readJsonCache: any trouble with Redis counts as a miss.
Lookup(w) ==
  /\ run[w].at = "lookup"
  /\ \/ /\ redis.age <= Ttl
        /\ run' = [run EXCEPT ![w].at = "answer", ![w].listed = redis.listed]
     \/ run' = [run EXCEPT ![w].at = "compute"]
  /\ UNCHANGED <<suspendedFor, redis, cdn>>

\* computeLeaderboard lists the agents that are not suspended.
Compute(w) ==
  LET listed == {a \in Agents : suspendedFor[a] = NotSuspended} IN
  /\ run[w].at = "compute"
  /\ run' = [run EXCEPT ![w].at = "store", ![w].listed = listed]
  /\ UNCHANGED <<suspendedFor, redis, cdn>>

\* writeJsonCache: a failing write is swallowed.
Store(w) ==
  /\ run[w].at = "store"
  /\ redis' \in {[listed |-> run[w].listed, age |-> 0], redis}
  /\ run' = [run EXCEPT ![w].at = "answer"]
  /\ UNCHANGED <<suspendedFor, cdn>>

\* Mutant: a ranking that was found in Redis is stored there again.
AnswerRenewing(w) ==
  /\ run[w].at = "answer"
  /\ cdn' = [listed |-> run[w].listed, age |-> 0]
  /\ redis' = [listed |-> run[w].listed, age |-> 0]
  /\ run' = [run EXCEPT ![w] = NoRun]
  /\ UNCHANGED suspendedFor

\* The CDN keeps the answer, whichever of the runs it came from.
Answer(w) ==
  /\ run[w].at = "answer"
  /\ cdn' = [listed |-> run[w].listed, age |-> 0]
  /\ run' = [run EXCEPT ![w] = NoRun]
  /\ UNCHANGED <<suspendedFor, redis>>

\* An error, whose answer is not kept, or the end of the run's time.
Abort(w) ==
  /\ run[w] # NoRun
  /\ run' = [run EXCEPT ![w] = NoRun]
  /\ UNCHANGED <<suspendedFor, redis, cdn>>

Suspend(a) ==
  /\ suspendedFor[a] = NotSuspended
  /\ suspendedFor' = [suspendedFor EXCEPT ![a] = 0]
  /\ UNCHANGED <<redis, cdn, run>>

Unsuspend(a) ==
  /\ suspendedFor[a] # NotSuspended
  /\ suspendedFor' = [suspendedFor EXCEPT ![a] = NotSuspended]
  /\ UNCHANGED <<redis, cdn, run>>

\* Mutant: a copy grows older and is never removed.
OlderKept(copy, life) == [copy EXCEPT !.age = @ + 1]

Older(copy, life) ==
  IF copy.age >= life THEN NoCopy(life) ELSE [copy EXCEPT !.age = @ + 1]

\* No run is left that has used up its time; times beyond Horizon are alike.
Tick ==
  /\ \A w \in Runs : run[w].age < MaxRun
  /\ suspendedFor' = [a \in Agents |->
       IF suspendedFor[a] \in {NotSuspended, Horizon + 1} THEN suspendedFor[a]
       ELSE suspendedFor[a] + 1]
  /\ redis' = Older(redis, Ttl)
  /\ cdn' = Older(cdn, Servable)
  /\ run' = [w \in Runs |-> IF run[w] = NoRun THEN NoRun
                            ELSE [run[w] EXCEPT !.age = @ + 1]]

Next ==
  \/ \E w \in Runs : Visit(w) \/ Lookup(w) \/ Compute(w) \/ Store(w)
                     \/ Answer(w) \/ Abort(w)
  \/ \E a \in Agents : Suspend(a) \/ Unsuspend(a)
  \/ Tick

Spec == Init /\ [][Next]_vars

-----------------------------------------------------------------------------
\* The copies and the runs have the shape the code gives them.
TypeOK ==
  /\ suspendedFor \in [Agents -> NotSuspended..Horizon + 1]
  /\ redis \in Copy(Ttl)
  /\ cdn \in Copy(Servable)
  /\ run \in [Runs -> Run]

\* Whom a visitor may be shown now, by the CDN or by a run.
Shown ==
  (IF cdn.age <= Servable THEN cdn.listed ELSE {}) \cup
  UNION {run[w].listed : w \in {v \in Runs : run[v].at = "answer"}}

\* A suspended agent leaves the ranking for good: its name outlives the
\* suspension by the life of both copies and the runs that made them, and
\* no order of overlapping runs adds to that (leaderboard.ts says 90 s, which
\* leaves out the time the CDN may go on serving a stale copy).
SuspendedAgentsLeave ==
  \A a \in Shown : suspendedFor[a] <= Horizon

=============================================================================
