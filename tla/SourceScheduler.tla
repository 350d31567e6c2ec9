----------------------------- MODULE SourceScheduler ----------------------------
(***************************************************************************)
(* The scheduler and the producer it runs in its own process: which        *)
(* sources are due, and a run of a source from the row that is inserted    *)
(* before it starts to the row that is completed after its last event.     *)
(* The process may stop anywhere, and comes back with another              *)
(* configuration perhaps.                                                  *)
(***************************************************************************)
EXTENDS Integers, Sequences

CONSTANTS
    Sources,     \* names of job sources
    Interval,    \* Interval[s] in units of time, truncated: 0 for less than a second
    Listings,    \* numbers of jobs that a source may list
    Configs,     \* configurations, see Config
    Schedulers,  \* scheduler processes, continuous or with -run-once
    MaxTime,     \* bound: the clock
    MaxRuns      \* bound: rows of job_source_runs

\* The sources of the producer's configuration, and those that the scheduler's
\* configuration names with their "enabled".
Config == [known : SUBSET Sources, scheduled : UNION {[D -> BOOLEAN] : D \in SUBSET Sources}]

ASSUME SchedulerAssumption ==
    /\ Interval \in [Sources -> Nat]
    /\ Listings \subseteq Nat
    /\ Configs \subseteq Config
    /\ \A c \in Configs : DOMAIN c.scheduled \subseteq c.known
    /\ MaxTime \in Nat
    /\ MaxRuns \in Nat

VARIABLES
    clock,      \* wall clock
    sources,    \* job_sources, a row per name
    runs,       \* job_source_runs, indexed by the autoincrement id
    stored,     \* stored[r]: jobs.discovered events of run r that are in the stream
    inflight,   \* runs whose last publication got no answer: it may still be stored
    scheduler   \* what each process is doing

vars == <<clock, sources, runs, stored, inflight, scheduler>>

--------------------------------------------------------------------------------

Never == -1                         \* last_run_at or last_success_at IS NULL
Times == 0 .. MaxTime
Ends == {"succeeded", "failed"}

Source == [enabled : BOOLEAN, lastRun : Times \cup {Never}, lastSuccess : Times \cup {Never}]
Run == [source : Sources, status : {"running"} \cup Ends, started : Times,
        finished : Times \cup {Never}, seen : Nat, published : Nat]

\* "now" is the time of the tick, "due" the sources it has still to run.
Down == [step |-> "down"]
Process ==
    {Down} \cup [step : {"sync"}, config : Configs, todo : SUBSET Sources]
           \cup [step : {"wait"}, config : Configs]
           \cup [step : {"next"}, config : Configs, now : Times, due : SUBSET Sources]
           \cup [step : {"fetch"}, config : Configs, now : Times, due : SUBSET Sources,
                 run : 1 .. MaxRuns]
           \cup [step : {"publish"}, config : Configs, now : Times, due : SUBSET Sources,
                 run : 1 .. MaxRuns, published : Nat, listed : Nat]
           \cup [step : {"complete"}, config : Configs, now : Times, due : SUBSET Sources,
                 run : 1 .. MaxRuns, seen : Nat, published : Nat, end : Ends,
                 finished : Times]

\* The types of all variables.
TypeOK ==
    /\ clock \in Times
    /\ DOMAIN sources \subseteq Sources
    /\ \A s \in DOMAIN sources : sources[s] \in Source
    /\ runs \in Seq(Run)
    /\ Len(runs) <= MaxRuns
    /\ stored \in [DOMAIN runs -> Nat]
    /\ inflight \subseteq DOMAIN runs
    /\ scheduler \in [Schedulers -> Process]
    /\ \A c \in Schedulers :
          scheduler[c].step \in {"fetch", "publish", "complete"} =>
              scheduler[c].run \in DOMAIN runs

Init ==
    /\ clock = 0
    /\ sources = <<>>
    /\ runs = <<>>
    /\ stored = <<>>
    /\ inflight = {}
    /\ scheduler = [c \in Schedulers |-> Down]

Moves(c, to) == scheduler' = [scheduler EXCEPT ![c] = to]

Pass ==
    /\ clock < MaxTime
    /\ clock' = clock + 1
    /\ UNCHANGED <<sources, runs, stored, inflight, scheduler>>

\* The process stops or is told to stop.  A cancelled context makes every later
\* statement and publication fail, so nothing more is written; but a publication that
\* has been sent may still reach the stream.
Stop(c) ==
    LET p == scheduler[c] IN
    /\ p # Down
    /\ inflight' = IF p.step = "publish" /\ p.published < p.listed
                   THEN inflight \cup {p.run} ELSE inflight
    /\ Moves(c, Down)
    /\ UNCHANGED <<clock, sources, runs, stored>>

--------------------------------------------------------------------------------
(* NewService and RunOnce.                                                 *)

Start(c, config) ==
    /\ scheduler[c] = Down
    /\ Moves(c, [step |-> "sync", config |-> config, todo |-> DOMAIN config.scheduled])
    /\ UNCHANGED <<clock, sources, runs, stored, inflight>>

\* syncSources: one UpsertJobSource per scheduled source.  An error stops the start.
SyncSource(c, s) ==
    LET p == scheduler[c]
        row == [enabled |-> p.config.scheduled[s],
                lastRun |-> IF s \in DOMAIN sources THEN sources[s].lastRun ELSE Never,
                lastSuccess |-> IF s \in DOMAIN sources THEN sources[s].lastSuccess ELSE Never] IN
    /\ p.step = "sync"
    /\ s \in p.todo
    /\ sources' = [x \in DOMAIN sources \cup {s} |-> IF x = s THEN row ELSE sources[x]]
    /\ Moves(c, [p EXCEPT !.todo = @ \ {s}])
    /\ UNCHANGED <<clock, runs, stored, inflight>>

Synced(c) ==
    /\ scheduler[c].step = "sync"
    /\ scheduler[c].todo = {}
    /\ Moves(c, [step |-> "wait", config |-> scheduler[c].config])
    /\ UNCHANGED <<clock, sources, runs, stored, inflight>>

\* DueSources(ListEnabledJobSources, now).
DueSources(now) ==
    {s \in DOMAIN sources :
        /\ sources[s].enabled
        /\ \/ sources[s].lastRun = Never
           \/ Interval[s] > 0 /\ sources[s].lastRun + Interval[s] <= now}

TickFaulty(c) ==
    LET due == {s \in DueSources(clock) :
                   ~ \E r \in DOMAIN runs : runs[r].source = s /\ runs[r].status = "running"} IN
    /\ scheduler[c].step = "wait"
    /\ due # {}
    /\ Moves(c, [step |-> "next", config |-> scheduler[c].config, now |-> clock, due |-> due])
    /\ UNCHANGED <<clock, sources, runs, stored, inflight>>

\* RunLoop takes the time, RunOnce reads the table once for the whole tick.
Tick(c) ==
    /\ scheduler[c].step = "wait"
    /\ DueSources(clock) # {}
    /\ Moves(c, [step |-> "next", config |-> scheduler[c].config, now |-> clock,
                 due |-> DueSources(clock)])
    /\ UNCHANGED <<clock, sources, runs, stored, inflight>>

EndTick(c) ==
    /\ scheduler[c].step = "next"
    /\ scheduler[c].due = {}
    /\ Moves(c, [step |-> "wait", config |-> scheduler[c].config])
    /\ UNCHANGED <<clock, sources, runs, stored, inflight>>

--------------------------------------------------------------------------------
(* runSource.                                                              *)

BeginSourceRunFaulty(c, s) ==
    LET p == scheduler[c] IN
    /\ p.step = "next"
    /\ s \in p.due
    /\ Len(runs) < MaxRuns
    /\ runs' = Append(runs, [source |-> s, status |-> "running", started |-> p.now,
                             finished |-> Never, seen |-> 0, published |-> 0])
    /\ stored' = Append(stored, 0)
    /\ sources' = sources
    /\ Moves(c, [step |-> "fetch", config |-> p.config, now |-> p.now, due |-> p.due \ {s},
                 run |-> Len(runs) + 1])
    /\ UNCHANGED <<clock, inflight>>

BeginSourceRunOffByOne(c, s) ==
    LET p == scheduler[c] IN
    /\ p.step = "next"
    /\ s \in p.due
    /\ Len(runs) < MaxRuns
    /\ runs' = Append(runs, [source |-> s, status |-> "running", started |-> p.now,
                             finished |-> Never, seen |-> 0, published |-> 0])
    /\ stored' = Append(stored, 0)
    /\ sources' = [sources EXCEPT ![s].lastRun = p.now]
    /\ Moves(c, [step |-> "fetch", config |-> p.config, now |-> p.now, due |-> p.due \ {s},
                 run |-> Len(runs)])
    /\ UNCHANGED <<clock, inflight>>

BeginSourceRunLookedUp(c, s) ==
    LET p == scheduler[c] IN
    /\ p.step = "next"
    /\ s \in p.due
    /\ Len(runs) < MaxRuns
    /\ runs' = Append(runs, [source |-> s, status |-> "running", started |-> p.now,
                             finished |-> Never, seen |-> 0, published |-> 0])
    /\ stored' = Append(stored, 0)
    /\ sources' = [sources EXCEPT ![s].lastRun = p.now]
    /\ Moves(c, [step |-> "fetch", config |-> p.config, now |-> p.now, due |-> p.due \ {s},
                 run |-> CHOOSE r \in DOMAIN runs' : runs'[r].source = s])
    /\ UNCHANGED <<clock, inflight>>

\* BeginSourceRun, one transaction: the run starts at the time of the tick, and
\* nothing asks whether the source is still due.
BeginSourceRun(c, s) ==
    LET p == scheduler[c] IN
    /\ p.step = "next"
    /\ s \in p.due
    /\ Len(runs) < MaxRuns
    /\ runs' = Append(runs, [source |-> s, status |-> "running", started |-> p.now,
                             finished |-> Never, seen |-> 0, published |-> 0])
    /\ stored' = Append(stored, 0)
    /\ sources' = [sources EXCEPT ![s].lastRun = p.now]
    /\ Moves(c, [step |-> "fetch", config |-> p.config, now |-> p.now, due |-> p.due \ {s},
                 run |-> Len(runs) + 1])
    /\ UNCHANGED <<clock, inflight>>

\* The source is left for the next tick.
BeginFails(c, s) ==
    /\ scheduler[c].step = "next"
    /\ s \in scheduler[c].due
    /\ Moves(c, [scheduler[c] EXCEPT !.due = @ \ {s}])
    /\ UNCHANGED <<clock, sources, runs, stored, inflight>>

\* completeRun takes the time when it is called, before the transaction begins.
Completes(c, seen, published, end) ==
    LET p == scheduler[c] IN
    Moves(c, [step |-> "complete", config |-> p.config, now |-> p.now, due |-> p.due,
              run |-> p.run, seen |-> seen, published |-> published, end |-> end,
              finished |-> clock])

\* The source is not in the producer's configuration, which a source that is still
\* in the table may have left; or the producer cannot connect, the source cannot be
\* fetched, or the run's timeout ends.
RunFails(c) ==
    /\ scheduler[c].step = "fetch"
    /\ Completes(c, 0, 0, "failed")
    /\ UNCHANGED <<clock, sources, runs, stored, inflight>>

Fetch(c, n) ==
    LET p == scheduler[c] IN
    /\ p.step = "fetch"
    /\ runs[p.run].source \in p.config.known
    /\ Moves(c, [step |-> "publish", config |-> p.config, now |-> p.now, due |-> p.due,
                 run |-> p.run, published |-> 0, listed |-> n])
    /\ UNCHANGED <<clock, sources, runs, stored, inflight>>

\* An event whose id the stream has seen within its deduplication window is
\* acknowledged and counted like any other, and not stored.
PublishJob(c) ==
    LET p == scheduler[c] IN
    /\ p.step = "publish"
    /\ p.published < p.listed
    /\ stored' \in {stored, [stored EXCEPT ![p.run] = @ + 1]}
    /\ Moves(c, [p EXCEPT !.published = @ + 1])
    /\ UNCHANGED <<clock, sources, runs, inflight>>

PublishFailsFaulty(c) ==
    LET p == scheduler[c] IN
    /\ p.step = "publish"
    /\ p.published < p.listed
    /\ inflight' = inflight \cup {p.run}
    /\ Completes(c, 0, 0, "failed")
    /\ UNCHANGED <<clock, sources, runs, stored>>

\* An error or a timeout ends the run: the rest of the jobs waits for the next one.
\* What became of the event the process does not know.
PublishFails(c) ==
    LET p == scheduler[c] IN
    /\ p.step = "publish"
    /\ p.published < p.listed
    /\ inflight' = inflight \cup {p.run}
    /\ Completes(c, p.listed, p.published, "failed")
    /\ UNCHANGED <<clock, sources, runs, stored>>

\* A publication without answer is stored, perhaps after its run has ended and its
\* process has stopped.  One that was refused, lost or a duplicate never arrives.
EventArrives(r) ==
    /\ r \in inflight
    /\ inflight' = inflight \ {r}
    /\ stored' = [stored EXCEPT ![r] = @ + 1]
    /\ UNCHANGED <<clock, sources, runs, scheduler>>

AllPublished(c) ==
    /\ scheduler[c].step = "publish"
    /\ scheduler[c].published = scheduler[c].listed
    /\ Completes(c, scheduler[c].listed, scheduler[c].published, "succeeded")
    /\ UNCHANGED <<clock, sources, runs, stored, inflight>>

NextSource(c) ==
    LET p == scheduler[c] IN
    Moves(c, [step |-> "next", config |-> p.config, now |-> p.now, due |-> p.due])

CompleteSourceRunFaulty(c) ==
    LET p == scheduler[c] IN
    /\ p.step = "complete"
    /\ runs' = [runs EXCEPT ![p.run].status = p.end, ![p.run].finished = p.finished,
                            ![p.run].seen = p.seen, ![p.run].published = p.published]
    /\ sources' = [sources EXCEPT ![runs[p.run].source].lastSuccess = p.finished]
    /\ NextSource(c)
    /\ UNCHANGED <<clock, stored, inflight>>

\* CompleteSourceRun, one transaction.
CompleteSourceRun(c) ==
    LET p == scheduler[c] IN
    /\ p.step = "complete"
    /\ runs' = [runs EXCEPT ![p.run].status = p.end, ![p.run].finished = p.finished,
                            ![p.run].seen = p.seen, ![p.run].published = p.published]
    /\ sources' = IF p.end = "succeeded"
                  THEN [sources EXCEPT ![runs[p.run].source].lastSuccess = p.finished]
                  ELSE sources
    /\ NextSource(c)
    /\ UNCHANGED <<clock, stored, inflight>>

\* The error is logged at most, and the run stays "running".
CompleteFails(c) ==
    /\ scheduler[c].step = "complete"
    /\ NextSource(c)
    /\ UNCHANGED <<clock, sources, runs, stored, inflight>>

--------------------------------------------------------------------------------

\* What a process does on its own, but for failures.
Advance(c) ==
    \/ \E s \in Sources : SyncSource(c, s)
    \/ Synced(c)
    \/ Tick(c)
    \/ EndTick(c)
    \/ \E n \in Listings : Fetch(c, n)
    \/ PublishJob(c)
    \/ AllPublished(c)
    \/ CompleteSourceRun(c)

Fail(c) ==
    \/ \E s \in Sources : BeginFails(c, s)
    \/ RunFails(c)
    \/ PublishFails(c)
    \/ CompleteFails(c)

Next ==
    \/ Pass
    \/ \E r \in inflight : EventArrives(r)
    \/ \E c \in Schedulers :
          \/ \E config \in Configs : Start(c, config)
          \/ \E s \in Sources : BeginSourceRun(c, s)
          \/ Advance(c)
          \/ Fail(c)
          \/ Stop(c)

Spec == Init /\ [][Next]_vars

--------------------------------------------------------------------------------
(* Safety.                                                                 *)

\* As long as there is one scheduler, the runs of a source are an interval apart,
\* also when the process stops in the middle of a run and a new one finds the run
\* "running"; a source without interval is run once.
RunsKeepTheInterval ==
    \A i, j \in DOMAIN runs :
        i < j /\ runs[i].source = runs[j].source =>
            /\ Interval[runs[i].source] > 0
            /\ runs[j].started >= runs[i].started + Interval[runs[i].source]

\* The row of an ended run accounts for every event that the stream will ever have of
\* it: a success has published all it has seen, and a run that failed half-way has at
\* most one event more than it counts, the last one that nobody acknowledged, which may
\* arrive when the run has long ended.
RowsAccountForEvents ==
    \A r \in DOMAIN runs :
        /\ runs[r].status = "succeeded" =>
              stored[r] <= runs[r].published /\ runs[r].published = runs[r].seen
        /\ runs[r].status = "failed" =>
              stored[r] <= runs[r].published + 1 /\ stored[r] <= runs[r].seen

Succeeded(s) == {r \in DOMAIN runs : runs[r].source = s /\ runs[r].status = "succeeded"}

\* As long as there is one scheduler, last_success_at is when the last successful run of
\* the source ended, whatever runs failed or were abandoned.
LastSuccessIsTheLast ==
    \A s \in DOMAIN sources :
        \/ Succeeded(s) = {} /\ sources[s].lastSuccess = Never
        \/ /\ \E r \in Succeeded(s) : runs[r].finished = sources[s].lastSuccess
           /\ \A r \in Succeeded(s) : runs[r].finished <= sources[s].lastSuccess

\* The row of a run that has ended stays as it is: no process, restarted or beside
\* another, completes the run again.
EndedRunsAreFinal ==
    [][\A r \in DOMAIN runs : runs[r].status \in Ends => runs'[r] = runs[r]]_vars

--------------------------------------------------------------------------------
(* Liveness.  A process that runs goes on: every call returns, with an     *)
(* error at the latest when its timeout ends, and beginning a run does not *)
(* fail at every tick.                                                     *)

Running(c) == scheduler[c] # Down

Fairness ==
    \A c \in Schedulers :
        /\ WF_vars(Advance(c) \/ Fail(c))
        /\ \A s \in Sources : SF_vars(BeginSourceRun(c, s))

FairSpec == Spec /\ Fairness

\* A source that is due is run, however the runs of other sources and its own
\* earlier runs have ended, as long as the scheduler is not stopped.
DueSourcesAreRun ==
    \A s \in Sources :
        s \in DueSources(clock) ~>
            \/ s \notin DueSources(clock)
            \/ \A c \in Schedulers : ~ Running(c)

================================================================================
