-------------------------- MODULE SourceSchedulerProofs -------------------------
(***************************************************************************)
(* Proofs about SourceScheduler: what the rows of sources and runs say, for*)
(* any number of schedulers that stop and fail anywhere; and that one      *)
(* scheduler keeps the intervals.                                          *)
(***************************************************************************)
EXTENDS SourceScheduler, SequenceFacts, TLAPS

Holding == {"fetch", "publish", "complete"}
HoldsRun(c) == scheduler[c].step \in Holding

\* What a run with this end and these counts has, and will have, in the stream.
Accounted(r, end, seen, published) ==
    /\ end = "succeeded" =>
          r \notin inflight /\ stored[r] <= published /\ published = seen
    /\ end = "failed" =>
          /\ stored[r] <= published + 1 /\ stored[r] <= seen
          /\ r \in inflight => stored[r] <= published /\ stored[r] < seen

\* What a process in state p holds: rows that exist, and counts that the stream keeps
\* to.
StateOK(p) ==
    /\ p.step = "sync" => p.todo \subseteq DOMAIN p.config.scheduled
    /\ p.step \in {"next"} \cup Holding => p.due \subseteq DOMAIN sources
    /\ p.step \in Holding => p.run \in DOMAIN runs /\ runs[p.run].status = "running"
    /\ p.step = "fetch" => stored[p.run] = 0 /\ p.run \notin inflight
    /\ p.step = "publish" =>
          /\ stored[p.run] <= p.published /\ p.published <= p.listed
          /\ p.run \notin inflight
    /\ p.step = "complete" =>
          Accounted(p.run, p.end, p.seen, p.published) /\ p.finished <= clock

\* No two processes hold one run.
RunsAreHeldOnce ==
    \A c, d \in Schedulers :
        HoldsRun(c) /\ HoldsRun(d) /\ scheduler[c].run = scheduler[d].run => c = d

\* A run has a source in the table, an ended one accounts for its events, and what has
\* succeeded is not in the future.
RowsAreTrue ==
    \A r \in DOMAIN runs :
        /\ runs[r].source \in DOMAIN sources
        /\ runs[r].status \in Ends =>
              Accounted(r, runs[r].status, runs[r].seen, runs[r].published)
        /\ runs[r].status = "succeeded" => runs[r].finished <= clock

\* last_success_at is the end of a successful run.
LastSuccessIsASuccess ==
    \A s \in DOMAIN sources :
        IF Succeeded(s) = {} THEN sources[s].lastSuccess = Never
        ELSE \E r \in Succeeded(s) : runs[r].finished = sources[s].lastSuccess

Tables ==
    /\ clock \in Times
    /\ DOMAIN sources \subseteq Sources
    /\ \A s \in DOMAIN sources : sources[s] \in Source
    /\ runs \in Seq(Run)
    /\ Len(runs) <= MaxRuns
    /\ stored \in Seq(Nat)
    /\ Len(stored) = Len(runs)
    /\ inflight \subseteq DOMAIN runs

\* The inductive invariant for any number of schedulers.
Inv ==
    /\ Tables
    /\ scheduler \in [Schedulers -> Process]
    /\ RowsAreTrue
    /\ \A c \in Schedulers : StateOK(scheduler[c])
    /\ RunsAreHeldOnce
    /\ LastSuccessIsASuccess

--------------------------------------------------------------------------------
(* Steps that write no row.                                                *)

\* The rows have equal numbers.
LEMMA TableFacts ==
    ASSUME Tables
    PROVE  /\ Len(runs) \in Nat
           /\ DOMAIN runs = 1 .. Len(runs) /\ DOMAIN stored = DOMAIN runs
           /\ \A r \in DOMAIN runs : runs[r] \in Run /\ stored[r] \in Nat
BY LenProperties, ElementOfSeq DEF Tables

\* The state of a process by its step.
LEMMA ProcessTypes ==
    ASSUME Inv, NEW c \in Schedulers
    PROVE  LET p == scheduler[c] IN
           /\ p.step = "sync" =>
                  p \in [step : {"sync"}, config : Configs, todo : SUBSET Sources]
           /\ p.step # "down" => p.config \in Configs
           /\ p.step \in {"next"} \cup Holding => p.now \in Times /\ p.due \in SUBSET Sources
           /\ p.step \in Holding => p.run \in 1 .. MaxRuns
           /\ p.step \in {"publish", "complete"} => p.published \in Nat
           /\ p.step = "publish" => p.listed \in Nat
           /\ p.step = "complete" => p.end \in Ends /\ p.seen \in Nat /\ p.finished \in Times
<1>1. scheduler[c] \in Process
  BY DEF Inv
<1> QED
  BY <1>1 DEF Process, Down, Holding

\* A process that does not move keeps what it holds while rows are added, and written
\* by others.
LEMMA StateStays ==
    ASSUME NEW p, StateOK(p), DOMAIN sources \subseteq DOMAIN sources', clock' = clock,
           p.step \in Holding => /\ p.run \in DOMAIN runs'
                                 /\ runs'[p.run].status = runs[p.run].status
                                 /\ stored'[p.run] = stored[p.run]
                                 /\ p.run \in inflight' <=> p.run \in inflight
    PROVE  StateOK(p)'
BY DEF StateOK, Accounted, Holding

\* Time passes.
LEMMA PassKeeps == Inv /\ Pass => Inv'
<1> SUFFICES ASSUME Inv, Pass PROVE Inv'
  OBVIOUS
<1>1. /\ clock' \in Times /\ clock' = clock + 1
      /\ UNCHANGED <<sources, runs, stored, inflight, scheduler>>
  BY SchedulerAssumption DEF Pass, Inv, Tables, Times
<1>2. \A r \in DOMAIN runs : runs[r].finished \in Int
  BY TableFacts DEF Inv, Run, Times, Never
<1>3. clock \in Int /\ RowsAreTrue
  BY DEF Inv, Tables, Times
<1>4. RowsAreTrue'
  BY <1>1, <1>2, <1>3 DEF RowsAreTrue, Accounted
<1>5. ASSUME NEW c \in Schedulers PROVE StateOK(scheduler[c])'
  <2>1. scheduler[c].step = "complete" => scheduler[c].finished \in Int
    BY ProcessTypes DEF Times
  <2> QED
    BY <1>1, <1>3, <2>1 DEF Inv, StateOK, Accounted
<1> QED
  BY <1>1, <1>4, <1>5 DEF Inv, Tables, HoldsRun, RunsAreHeldOnce,
     LastSuccessIsASuccess, Succeeded

\* A process moves and writes nothing.  A run it holds afterwards it held before.
LEMMA MoveKeeps ==
    ASSUME Inv, NEW c \in Schedulers, NEW to \in Process, Moves(c, to),
           UNCHANGED <<clock, sources, runs, stored, inflight>>,
           to.step \in Holding => HoldsRun(c) /\ to.run = scheduler[c].run,
           StateOK(to)
    PROVE  Inv'
<1>1. /\ scheduler' \in [Schedulers -> Process] /\ scheduler'[c] = to
      /\ \A d \in Schedulers : d # c => scheduler'[d] = scheduler[d]
  BY DEF Inv, Moves
<1>2. \A d \in Schedulers : StateOK(scheduler[d])'
  BY <1>1 DEF Inv, StateOK, Accounted
<1>3. RunsAreHeldOnce'
  BY <1>1 DEF Inv, RunsAreHeldOnce, HoldsRun
<1> QED
  BY <1>1, <1>2, <1>3 DEF Inv, Tables, RowsAreTrue, Accounted,
     LastSuccessIsASuccess, Succeeded

\* A process stops with nothing on its way, starts, has synchronised, begins or ends a
\* tick, or leaves a source or a run.
LEMMA RestKeeps ==
    ASSUME Inv, NEW c \in Schedulers,
           \/ Stop(c) /\ UNCHANGED inflight
           \/ Synced(c) \/ Tick(c) \/ EndTick(c) \/ CompleteFails(c)
           \/ \E config \in Configs : Start(c, config)
           \/ \E s \in Sources : BeginFails(c, s)
    PROVE  Inv'
<1>1. UNCHANGED <<clock, sources, runs, stored, inflight>>
  BY DEF Stop, Synced, Tick, EndTick, CompleteFails, Start, BeginFails
<1>2. ASSUME NEW to \in Process, Moves(c, to), to.step \notin Holding, StateOK(to)
      PROVE  Inv'
  BY <1>1, <1>2, MoveKeeps
<1>3. CASE Stop(c) /\ UNCHANGED inflight
  BY <1>2, <1>3 DEF Stop, Process, Down, StateOK, Holding
<1>4. ASSUME NEW config \in Configs, Start(c, config) PROVE Inv'
  <2> DEFINE to == [step |-> "sync", config |-> config, todo |-> DOMAIN config.scheduled]
  <2>1. to \in Process
    BY SchedulerAssumption DEF Process, Config
  <2>2. StateOK(to)
    BY DEF StateOK, Holding
  <2> QED
    BY <1>2, <1>4, <2>1, <2>2 DEF Start, Holding
<1>5. ASSUME NEW config \in Configs, Moves(c, [step |-> "wait", config |-> config])
      PROVE  Inv'
  <2> DEFINE to == [step |-> "wait", config |-> config]
  <2>1. to \in Process /\ StateOK(to)
    BY DEF Process, StateOK, Holding
  <2> QED
    BY <1>2, <1>5, <2>1 DEF Holding
<1>6. CASE Synced(c) \/ EndTick(c)
  BY <1>5, <1>6, ProcessTypes DEF Synced, EndTick
<1>7. ASSUME NEW config \in Configs, NEW now \in Times, NEW due \in SUBSET Sources,
             due \subseteq DOMAIN sources,
             Moves(c, [step |-> "next", config |-> config, now |-> now, due |-> due])
      PROVE  Inv'
  <2> DEFINE to == [step |-> "next", config |-> config, now |-> now, due |-> due]
  <2>1. to \in Process
    BY DEF Process
  <2>2. StateOK(to)
    BY <1>7 DEF StateOK, Holding
  <2> QED
    BY <1>2, <1>7, <2>1, <2>2 DEF Holding
<1>8. CASE Tick(c)
  <2>1. /\ DueSources(clock) \subseteq DOMAIN sources /\ DOMAIN sources \subseteq Sources
        /\ clock \in Times
    BY DEF DueSources, Inv, Tables
  <2>2. scheduler[c].config \in Configs
    BY <1>8, ProcessTypes DEF Tick
  <2> QED
    BY <1>7, <1>8, <2>1, <2>2 DEF Tick
<1>9. CASE CompleteFails(c)
  <2>1. /\ scheduler[c].config \in Configs /\ scheduler[c].now \in Times
        /\ scheduler[c].due \in SUBSET Sources /\ scheduler[c].due \subseteq DOMAIN sources
    BY <1>9, ProcessTypes DEF CompleteFails, Inv, StateOK, Holding
  <2> QED
    BY <1>7, <1>9, <2>1 DEF CompleteFails, NextSource
<1>10. ASSUME NEW s \in Sources, BeginFails(c, s) PROVE Inv'
  <2> DEFINE p == scheduler[c]
             to == [p EXCEPT !.due = @ \ {s}]
  <2>1. p.step = "next" /\ Moves(c, to)
    BY <1>10 DEF BeginFails
  <2>2. p \in Process /\ StateOK(p)
    BY DEF Inv
  <2>3. p \in [step : {"next"}, config : Configs, now : Times, due : SUBSET Sources]
    <3> HIDE DEF p
    <3> QED
      BY <2>1, <2>2 DEF Process, Down
  <2>4. /\ to \in [step : {"next"}, config : Configs, now : Times, due : SUBSET Sources]
        /\ to.due \subseteq p.due
    BY <2>3
  <2>5. to \in Process /\ StateOK(to)
    BY <2>1, <2>2, <2>4 DEF Process, StateOK, Holding
  <2> HIDE DEF to
  <2> QED
    BY <1>2, <2>1, <2>4, <2>5 DEF Holding
<1> QED
  BY <1>3, <1>4, <1>6, <1>8, <1>9, <1>10

\* A process completes its run with counts that account for what it has published.
LEMMA CompletesKeeps ==
    ASSUME Inv, NEW c \in Schedulers, HoldsRun(c), NEW seen \in Nat, NEW n \in Nat,
           NEW end \in Ends, Completes(c, seen, n, end),
           UNCHANGED <<clock, sources, runs, stored, inflight>>,
           Accounted(scheduler[c].run, end, seen, n)
    PROVE  Inv'
<1>1. PICK p : p = scheduler[c]
  OBVIOUS
<1> DEFINE to == [step |-> "complete", config |-> p.config, now |-> p.now, due |-> p.due,
                  run |-> p.run, seen |-> seen, published |-> n, end |-> end,
                  finished |-> clock]
<1>2. Moves(c, to)
  BY <1>1 DEF Completes
<1>0. clock \in Times /\ clock <= clock
  BY DEF Inv, Tables, Times
<1>3. /\ p.config \in Configs /\ p.now \in Times /\ p.due \in SUBSET Sources
      /\ p.run \in 1 .. MaxRuns /\ p.due \subseteq DOMAIN sources
      /\ p.run \in DOMAIN runs /\ runs[p.run].status = "running"
  BY <1>1, ProcessTypes DEF HoldsRun, Inv, StateOK, Holding
<1>4. to \in Process
  BY <1>0, <1>3 DEF Process
<1>5. StateOK(to)
  BY <1>0, <1>1, <1>3 DEF StateOK, Holding
<1>6. to.step \in Holding => HoldsRun(c) /\ to.run = scheduler[c].run
  BY <1>1
<1> HIDE DEF to
<1> QED
  BY <1>2, <1>4, <1>5, <1>6, MoveKeeps

\* A run fails before it publishes, fetches its jobs, or has published them.
LEMMA RunKeeps ==
    ASSUME Inv, NEW c \in Schedulers,
           RunFails(c) \/ AllPublished(c) \/ \E n \in Listings : Fetch(c, n)
    PROVE  Inv'
<1>1. StateOK(scheduler[c])
  BY DEF Inv
<1>2. CASE RunFails(c)
  <2>1. HoldsRun(c) /\ Completes(c, 0, 0, "failed")
    BY <1>2 DEF RunFails, HoldsRun, Holding
  <2>2. Accounted(scheduler[c].run, "failed", 0, 0)
    BY <1>1, <1>2 DEF RunFails, StateOK, Accounted
  <2> QED
    BY <1>2, <2>1, <2>2, CompletesKeeps DEF RunFails, Ends
<1>3. CASE AllPublished(c)
  <2>1. PICK p : p = scheduler[c]
    OBVIOUS
  <2>2. /\ HoldsRun(c) /\ Completes(c, p.listed, p.published, "succeeded")
        /\ p.published = p.listed /\ p.step = "publish"
    BY <1>3, <2>1 DEF AllPublished, HoldsRun, Holding
  <2>3. p.published \in Nat /\ p.listed \in Nat
    BY <2>1, <2>2, ProcessTypes
  <2>4. Accounted(p.run, "succeeded", p.listed, p.published)
    BY <1>1, <2>1, <2>2 DEF StateOK, Accounted
  <2> QED
    BY <1>3, <2>1, <2>2, <2>3, <2>4, CompletesKeeps DEF AllPublished, Ends
<1>4. ASSUME NEW n \in Listings, Fetch(c, n) PROVE Inv'
  <2>1. PICK p : p = scheduler[c]
    OBVIOUS
  <2> DEFINE to == [step |-> "publish", config |-> p.config, now |-> p.now, due |-> p.due,
                    run |-> p.run, published |-> 0, listed |-> n]
  <2>2. p.step = "fetch" /\ Moves(c, to) /\ UNCHANGED <<clock, sources, runs, stored, inflight>>
    BY <1>4, <2>1 DEF Fetch
  <2>3. /\ p.config \in Configs /\ p.now \in Times /\ p.due \in SUBSET Sources
        /\ p.run \in 1 .. MaxRuns
    BY <2>1, <2>2, ProcessTypes DEF Holding
  <2>4. to \in Process
    BY <2>3, SchedulerAssumption DEF Process
  <2>5. StateOK(to)
    BY <1>1, <2>1, <2>2, SchedulerAssumption DEF StateOK, Holding
  <2>6. to.step \in Holding => HoldsRun(c) /\ to.run = scheduler[c].run
    BY <2>1, <2>2 DEF HoldsRun, Holding
  <2> HIDE DEF to
  <2> QED
    BY <2>2, <2>4, <2>5, <2>6, MoveKeeps
<1> QED
  BY <1>2, <1>3, <1>4

--------------------------------------------------------------------------------
(* Steps that write.                                                       *)

\* A source is written by a starting process, which leaves its times alone.
LEMMA SyncKeeps ==
    ASSUME Inv, NEW c \in Schedulers, NEW s \in Sources, SyncSource(c, s)
    PROVE  Inv'
<1>1. PICK p : p = scheduler[c]
  OBVIOUS
<1> DEFINE row == [enabled |-> p.config.scheduled[s],
                   lastRun |-> IF s \in DOMAIN sources THEN sources[s].lastRun ELSE Never,
                   lastSuccess |-> IF s \in DOMAIN sources THEN sources[s].lastSuccess ELSE Never]
           to == [p EXCEPT !.todo = @ \ {s}]
<1>2. /\ p.step = "sync" /\ s \in p.todo /\ Moves(c, to)
      /\ sources' = [x \in DOMAIN sources \cup {s} |-> IF x = s THEN row ELSE sources[x]]
      /\ UNCHANGED <<clock, runs, stored, inflight>>
  BY <1>1 DEF SyncSource
<1>3. /\ p \in [step : {"sync"}, config : Configs, todo : SUBSET Sources]
      /\ p.todo \subseteq DOMAIN p.config.scheduled
  BY <1>1, <1>2, ProcessTypes DEF Inv, StateOK
<1>4. /\ to \in Process /\ to.step = "sync" /\ to.config = p.config
      /\ to.todo \subseteq p.todo
  BY <1>3 DEF Process
<1>5. p.config.scheduled[s] \in BOOLEAN
  <2>1. p.config.scheduled \in UNION {[D -> BOOLEAN] : D \in SUBSET Sources}
    BY <1>3, SchedulerAssumption DEF Config
  <2>2. PICK D \in SUBSET Sources : p.config.scheduled \in [D -> BOOLEAN]
    BY <2>1
  <2> QED
    BY <1>2, <1>3, <2>2
<1>6. row \in Source
  BY <1>5 DEF Source, Inv, Tables
<1>7. /\ DOMAIN sources' = DOMAIN sources \cup {s}
      /\ sources'[s] = row
      /\ \A x \in DOMAIN sources : /\ sources'[x] \in Source
                                   /\ sources'[x].lastSuccess = sources[x].lastSuccess
  BY <1>2, <1>6 DEF Inv, Tables
<1>8. /\ scheduler' \in [Schedulers -> Process] /\ scheduler'[c] = to
      /\ \A d \in Schedulers : d # c => scheduler'[d] = scheduler[d]
  BY <1>2, <1>4 DEF Inv, Moves
<1>9. Tables'
  BY <1>2, <1>6, <1>7 DEF Inv, Tables
<1>10. \A d \in Schedulers : StateOK(scheduler[d])'
  <2>1. StateOK(to)'
    BY <1>3, <1>4 DEF StateOK, Holding
  <2> HIDE DEF to
  <2>2. \A d \in Schedulers \ {c} : StateOK(scheduler[d])'
    BY <1>2, <1>7, <1>8 DEF Inv, StateOK, Accounted
  <2> QED
    BY <1>8, <2>1, <2>2 DEF StateOK, Accounted
<1>11. RunsAreHeldOnce'
  <2> HIDE DEF to
  <2>1. \A d \in Schedulers : HoldsRun(d)' => HoldsRun(d) /\ scheduler'[d] = scheduler[d]
    BY <1>4, <1>8 DEF HoldsRun, Holding
  <2> QED
    BY <2>1 DEF Inv, RunsAreHeldOnce
<1>12. RowsAreTrue'
  BY <1>2, <1>7 DEF Inv, RowsAreTrue, Accounted
<1>13. LastSuccessIsASuccess'
  <2> HIDE DEF row, to
  <2>1. \A x \in DOMAIN sources' : Succeeded(x)' = Succeeded(x)
    BY <1>2 DEF Succeeded
  <2>2. \A x \in DOMAIN sources' : x \notin DOMAIN sources =>
            Succeeded(x) = {} /\ sources'[x].lastSuccess = Never
    <3>1. s \notin DOMAIN sources => Succeeded(s) = {}
      BY DEF Inv, RowsAreTrue, Succeeded
    <3>2. s \notin DOMAIN sources => sources'[s].lastSuccess = Never
      BY <1>7 DEF row
    <3> QED
      BY <1>7, <3>1, <3>2
  <2> SUFFICES ASSUME NEW x \in DOMAIN sources'
               PROVE  IF Succeeded(x) = {} THEN sources'[x].lastSuccess = Never
                      ELSE \E r \in Succeeded(x) : runs[r].finished = sources'[x].lastSuccess
    BY <1>2, <2>1 DEF LastSuccessIsASuccess
  <2>3. CASE x \in DOMAIN sources
    BY <1>7, <2>3 DEF Inv, LastSuccessIsASuccess
  <2> QED
    BY <2>2, <2>3
<1> QED
  BY <1>8, <1>9, <1>10, <1>11, <1>12, <1>13 DEF Inv

\* A run begins: a new row, which no other process holds.
LEMMA BeginKeeps ==
    ASSUME Inv, NEW c \in Schedulers, NEW s \in Sources, BeginSourceRun(c, s)
    PROVE  Inv'
<1>1. PICK p : p = scheduler[c]
  OBVIOUS
<1> DEFINE n == Len(runs) + 1
           row == [source |-> s, status |-> "running", started |-> p.now,
                   finished |-> Never, seen |-> 0, published |-> 0]
           to == [step |-> "fetch", config |-> p.config, now |-> p.now, due |-> p.due \ {s},
                  run |-> n]
<1>2. /\ p.step = "next" /\ s \in p.due /\ Len(runs) < MaxRuns
      /\ runs' = Append(runs, row) /\ stored' = Append(stored, 0)
      /\ sources' = [sources EXCEPT ![s].lastRun = p.now]
      /\ Moves(c, to) /\ UNCHANGED <<clock, inflight>>
  BY <1>1 DEF BeginSourceRun
<1>3. /\ p.config \in Configs /\ p.now \in Times /\ p.due \in SUBSET Sources
      /\ p.due \subseteq DOMAIN sources
  BY <1>1, <1>2, ProcessTypes DEF Inv, StateOK, Holding
<1>4. /\ Len(runs) \in Nat /\ MaxRuns \in Nat /\ inflight \subseteq DOMAIN runs
      /\ DOMAIN runs = 1 .. Len(runs) /\ DOMAIN stored = DOMAIN runs
  BY TableFacts, SchedulerAssumption DEF Inv, Tables
<1>5. row \in Run
  BY <1>3 DEF Run
<1>6. /\ runs' \in Seq(Run) /\ Len(runs') = n /\ DOMAIN runs' = DOMAIN runs \cup {n}
      /\ n \notin DOMAIN runs /\ runs'[n] = row
      /\ \A r \in DOMAIN runs : runs'[r] = runs[r]
  BY <1>2, <1>5, ExtendSeq DEF Inv, Tables
<1>7. /\ stored' \in Seq(Nat) /\ Len(stored') = n /\ stored'[n] = 0
      /\ \A r \in DOMAIN runs : stored'[r] = stored[r]
  BY <1>2, <1>4, ExtendSeq DEF Inv, Tables
<1>8. /\ DOMAIN sources' = DOMAIN sources
      /\ \A x \in DOMAIN sources : /\ sources'[x] \in Source
                                   /\ sources'[x].lastSuccess = sources[x].lastSuccess
  <2>1. /\ \A x \in DOMAIN sources : x # s => sources'[x] = sources[x]
        /\ sources'[s] = [sources[s] EXCEPT !.lastRun = p.now]
        /\ sources[s] \in Source /\ s \in DOMAIN sources
    BY <1>2, <1>3 DEF Inv, Tables
  <2>2. sources'[s] \in Source /\ sources'[s].lastSuccess = sources[s].lastSuccess
    BY <1>3, <2>1 DEF Source
  <2> QED
    BY <1>2, <2>1, <2>2 DEF Inv, Tables
<1>9. Tables'
  <2>1. n <= MaxRuns
    BY <1>2, <1>4
  <2> HIDE DEF n, row, to
  <2> QED
    BY <1>2, <1>6, <1>7, <1>8, <2>1 DEF Inv, Tables
<1>10. to \in Process
  <2>1. n \in 1 .. MaxRuns
    BY <1>2, <1>4
  <2> QED
    BY <1>3, <2>1 DEF Process
<1>11. /\ scheduler' \in [Schedulers -> Process] /\ scheduler'[c] = to
       /\ \A d \in Schedulers : d # c => scheduler'[d] = scheduler[d]
  BY <1>2, <1>10 DEF Inv, Moves
<1>12. \A d \in Schedulers : StateOK(scheduler[d])'
  <2>1. StateOK(scheduler[c])'
    BY <1>2, <1>3, <1>4, <1>6, <1>7, <1>8, <1>11 DEF StateOK, Holding
  <2> HIDE DEF to, n, row
  <2>2. ASSUME NEW d \in Schedulers, d # c PROVE StateOK(scheduler[d])'
    <3>1. PICK q : q = scheduler[d]
      OBVIOUS
    <3>2. StateOK(q) /\ scheduler'[d] = q
      BY <1>11, <2>2, <3>1 DEF Inv
    <3>3. q.step \in Holding => q.run \in DOMAIN runs
      BY <3>2 DEF StateOK
    <3>4. StateOK(q)'
      BY <1>2, <1>6, <1>7, <1>8, <3>2, <3>3, StateStays
    <3> QED
      BY <3>2, <3>4 DEF StateOK, Accounted
  <2> QED
    BY <2>1, <2>2
<1>13. RunsAreHeldOnce'
  <2>1. scheduler'[c].run = n
    BY <1>11
  <2> HIDE DEF to, n, row
  <2>2. \A d \in Schedulers : d # c /\ HoldsRun(d)' => HoldsRun(d) /\ scheduler'[d].run # n
    BY <1>6, <1>11 DEF Inv, StateOK, HoldsRun
  <2> QED
    BY <1>11, <2>1, <2>2 DEF Inv, RunsAreHeldOnce, HoldsRun
<1>14. RowsAreTrue'
  <2>1. runs'[n].status = "running" /\ runs'[n].source \in DOMAIN sources
    BY <1>2, <1>3, <1>6
  <2> HIDE DEF to, n, row
  <2> QED
    BY <1>2, <1>6, <1>7, <1>8, <2>1 DEF Inv, RowsAreTrue, Accounted, Ends
<1>15. LastSuccessIsASuccess'
  <2>1. runs'[n].status # "succeeded"
    BY <1>6
  <2> HIDE DEF to, n, row
  <2>2. ASSUME NEW x \in DOMAIN sources
        PROVE  /\ Succeeded(x)' = Succeeded(x)
               /\ \A r \in Succeeded(x) : runs'[r].finished = runs[r].finished
    BY <1>6, <2>1 DEF Succeeded
  <2> QED
    BY <1>8, <2>2 DEF Inv, LastSuccessIsASuccess
<1> QED
  BY <1>9, <1>11, <1>12, <1>13, <1>14, <1>15 DEF Inv

\* Rows of runs that have ended still account for their events when only the events
\* of runs that have not are written.
LEMMA RowsStay ==
    ASSUME Inv, NEW q \in DOMAIN runs, runs[q].status = "running",
           UNCHANGED <<clock, sources, runs>>,
           \A r \in DOMAIN runs \ {q} :
               stored'[r] = stored[r] /\ (r \in inflight' <=> r \in inflight)
    PROVE  RowsAreTrue' /\ LastSuccessIsASuccess'
<1>1. \A r \in DOMAIN runs : runs[r].status \in Ends =>
          stored'[r] = stored[r] /\ (r \in inflight' <=> r \in inflight)
  BY DEF Ends
<1>2. RowsAreTrue'
  BY <1>1 DEF Inv, RowsAreTrue, Accounted
<1>3. LastSuccessIsASuccess'
  BY DEF Inv, LastSuccessIsASuccess, Succeeded
<1> QED
  BY <1>2, <1>3

\* A process writes events of the run that it holds, and moves.
LEMMA StoreKeeps ==
    ASSUME Inv, NEW c \in Schedulers, HoldsRun(c),
           stored' \in Seq(Nat), Len(stored') = Len(stored), inflight' \subseteq DOMAIN runs,
           \A r \in DOMAIN runs \ {scheduler[c].run} :
               stored'[r] = stored[r] /\ (r \in inflight' <=> r \in inflight),
           UNCHANGED <<clock, sources, runs>>,
           NEW to \in Process, Moves(c, to),
           to.step \in Holding => to.run = scheduler[c].run, StateOK(to)'
    PROVE  Inv'
<1>1. PICK q : q = scheduler[c].run
  OBVIOUS
<1>2. q \in DOMAIN runs /\ runs[q].status = "running"
  BY <1>1 DEF Inv, StateOK, HoldsRun
<1>3. \A r \in DOMAIN runs : r # q =>
          stored'[r] = stored[r] /\ (r \in inflight' <=> r \in inflight)
  BY <1>1
<1>4. Tables'
  BY DEF Inv, Tables
<1>5. /\ scheduler' \in [Schedulers -> Process] /\ scheduler'[c] = to
      /\ \A d \in Schedulers : d # c => scheduler'[d] = scheduler[d]
  BY DEF Inv, Moves
<1>6. ASSUME NEW d \in Schedulers, d # c PROVE StateOK(scheduler[d])'
  <2>1. PICK o : o = scheduler[d]
    OBVIOUS
  <2>2. StateOK(o) /\ scheduler'[d] = o
    BY <1>5, <1>6, <2>1 DEF Inv
  <2>3. o.step \in Holding => o.run # q /\ o.run \in DOMAIN runs
    BY <1>1, <1>6, <2>1, <2>2 DEF Inv, StateOK, RunsAreHeldOnce, HoldsRun
  <2>4. StateOK(o)'
    BY <1>3, <2>2, <2>3, StateStays
  <2> QED
    BY <2>2, <2>4 DEF StateOK, Accounted
<1>7. \A d \in Schedulers : StateOK(scheduler[d])'
  BY <1>5, <1>6 DEF StateOK, Accounted
<1>8. RunsAreHeldOnce'
  BY <1>5 DEF Inv, RunsAreHeldOnce, HoldsRun
<1>9. RowsAreTrue' /\ LastSuccessIsASuccess'
  BY <1>2, <1>3, RowsStay
<1> QED
  BY <1>4, <1>5, <1>7, <1>8, <1>9 DEF Inv

\* A job is published, stored or dropped as a duplicate.
LEMMA PublishKeeps ==
    ASSUME Inv, NEW c \in Schedulers, PublishJob(c)
    PROVE  Inv'
<1>1. PICK p : p = scheduler[c]
  OBVIOUS
<1> DEFINE to == [p EXCEPT !.published = @ + 1]
<1>2. /\ p.step = "publish" /\ p.published < p.listed /\ HoldsRun(c) /\ Moves(c, to)
      /\ stored' \in {stored, [stored EXCEPT ![p.run] = stored[p.run] + 1]}
      /\ UNCHANGED <<clock, sources, runs, inflight>>
  BY <1>1 DEF PublishJob, HoldsRun, Holding
<1>3. /\ stored[p.run] <= p.published /\ p.run \in DOMAIN runs /\ p.run \notin inflight
      /\ runs[p.run].status = "running" /\ p.due \subseteq DOMAIN sources
  BY <1>1, <1>2 DEF Inv, StateOK, Holding
<1>4. p.run \in DOMAIN stored /\ DOMAIN stored = DOMAIN runs /\ stored[p.run] \in Nat
  BY <1>3, TableFacts DEF Inv
<1>5. /\ p \in [step : {"publish"}, config : Configs, now : Times, due : SUBSET Sources,
                run : 1 .. MaxRuns, published : Nat, listed : Nat]
  <2>1. p \in Process
    BY <1>1 DEF Inv
  <2> QED
    BY <1>2, <2>1 DEF Process, Down
<1>6. /\ to \in Process /\ to.step = "publish" /\ to.run = p.run /\ to.due = p.due
      /\ to.published = p.published + 1 /\ to.listed = p.listed
  BY <1>5 DEF Process
<1>7. /\ stored' \in Seq(Nat) /\ Len(stored') = Len(stored)
      /\ stored'[p.run] \in {stored[p.run], stored[p.run] + 1}
      /\ \A r \in DOMAIN runs \ {p.run} : stored'[r] = stored[r]
  <2>1. stored[p.run] + 1 \in Nat /\ stored \in Seq(Nat)
    BY <1>4 DEF Inv, Tables
  <2> HIDE DEF to
  <2>2. CASE stored' = stored
    BY <2>1, <2>2
  <2>3. CASE stored' = [stored EXCEPT ![p.run] = stored[p.run] + 1]
    BY <1>4, <2>1, <2>3, UpdateSeq
  <2> QED
    BY <1>2, <2>2, <2>3
<1>8. to.published <= to.listed /\ stored'[p.run] <= to.published
  <2>1. p.published \in Nat /\ p.listed \in Nat
    BY <1>5
  <2> HIDE DEF to
  <2> QED
    BY <1>2, <1>3, <1>4, <1>6, <1>7, <2>1
<1> HIDE DEF to
<1>9. StateOK(to)'
  BY <1>2, <1>3, <1>6, <1>8 DEF StateOK, Holding
<1>10. inflight' \subseteq DOMAIN runs
  BY <1>2 DEF Inv, Tables
<1> QED
  BY <1>1, <1>2, <1>6, <1>7, <1>9, <1>10, StoreKeeps

\* A publication gets no answer, and the run fails or the process stops.
LEMMA NoAnswerKeeps ==
    ASSUME Inv, NEW c \in Schedulers, PublishFails(c) \/ Stop(c)
    PROVE  Inv'
<1>1. PICK p : p = scheduler[c]
  OBVIOUS
<1>2. CASE Stop(c) /\ UNCHANGED inflight
  BY <1>2, RestKeeps
<1>3. CASE PublishFails(c) \/ ~ UNCHANGED inflight
  <2>1. /\ p.step = "publish" /\ p.published < p.listed /\ HoldsRun(c)
        /\ inflight' = inflight \cup {p.run} /\ UNCHANGED <<clock, sources, runs, stored>>
    BY <1>1, <1>3 DEF PublishFails, Stop, HoldsRun, Holding
  <2>2. /\ p.config \in Configs /\ p.now \in Times /\ p.due \in SUBSET Sources
        /\ p.run \in 1 .. MaxRuns /\ p.published \in Nat /\ p.listed \in Nat
    BY <1>1, <2>1, ProcessTypes DEF Holding
  <2>3. /\ stored[p.run] <= p.published /\ p.run \in DOMAIN runs
        /\ runs[p.run].status = "running" /\ p.due \subseteq DOMAIN sources
    BY <1>1, <2>1 DEF Inv, StateOK, Holding
  <2>4. stored[p.run] \in Nat /\ clock \in Times /\ clock <= clock
    BY <2>3, TableFacts DEF Inv, Tables, Times
  <2>5. /\ stored' \in Seq(Nat) /\ Len(stored') = Len(stored) /\ inflight' \subseteq DOMAIN runs
        /\ \A r \in DOMAIN runs \ {p.run} :
              stored'[r] = stored[r] /\ (r \in inflight' <=> r \in inflight)
    BY <2>1, <2>3 DEF Inv, Tables
  <2>6. CASE Stop(c)
    <3>1. Moves(c, Down) /\ Down \in Process /\ StateOK(Down)' /\ Down.step \notin Holding
      BY <2>6 DEF Stop, Process, Down, StateOK, Holding
    <3> QED
      BY <1>1, <2>1, <2>5, <3>1, StoreKeeps
  <2>7. CASE PublishFails(c)
    <3>0. PICK now : now = clock
      OBVIOUS
    <3> DEFINE to == [step |-> "complete", config |-> p.config, now |-> p.now,
                      due |-> p.due, run |-> p.run, seen |-> p.listed,
                      published |-> p.published, end |-> "failed", finished |-> now]
    <3>1. Moves(c, to)
      BY <1>1, <2>7, <3>0 DEF PublishFails, Completes
    <3>2. to \in Process
      BY <2>2, <2>4, <3>0 DEF Process, Ends
    <3>3. Accounted(p.run, "failed", p.listed, p.published)'
      BY <2>1, <2>2, <2>3, <2>4 DEF Accounted
    <3>4. StateOK(to)'
      BY <2>1, <2>3, <2>4, <3>0, <3>3 DEF StateOK, Holding
    <3>5. to.run = p.run
      OBVIOUS
    <3> HIDE DEF to
    <3> QED
      BY <1>1, <2>1, <2>5, <3>1, <3>2, <3>4, <3>5, StoreKeeps
  <2> QED
    BY <2>6, <2>7
<1> QED
  BY <1>2, <1>3

\* A publication without answer is stored, wherever its run has got to.
LEMMA ArriveKeeps ==
    ASSUME Inv, NEW r \in inflight, EventArrives(r)
    PROVE  Inv'
<1>1. /\ inflight' = inflight \ {r} /\ UNCHANGED <<clock, sources, runs, scheduler>>
      /\ stored' = [stored EXCEPT ![r] = stored[r] + 1]
  BY DEF EventArrives
<1>2. r \in DOMAIN runs /\ DOMAIN stored = DOMAIN runs /\ stored[r] \in Nat
  BY TableFacts DEF Inv, Tables
<1>3. /\ stored' \in Seq(Nat) /\ Len(stored') = Len(stored) /\ stored'[r] = stored[r] + 1
      /\ \A x \in DOMAIN runs : x # r => stored'[x] = stored[x]
  <2>1. stored[r] + 1 \in Nat
    BY <1>2
  <2> QED
    BY <1>1, <1>2, <2>1, UpdateSeq DEF Inv, Tables
<1>4. Tables'
  BY <1>1, <1>3 DEF Inv, Tables
<1>5. ASSUME NEW x \in DOMAIN runs, NEW end, NEW seen \in Nat, NEW n \in Nat,
             Accounted(x, end, seen, n)
      PROVE  Accounted(x, end, seen, n)'
  <2>1. CASE x = r
    BY <1>1, <1>2, <1>3, <1>5, <2>1 DEF Accounted
  <2>2. CASE x # r
    BY <1>1, <1>3, <1>5, <2>2 DEF Accounted
  <2> QED
    BY <2>1, <2>2
<1>6. RowsAreTrue'
  <2>1. \A x \in DOMAIN runs : runs[x].seen \in Nat /\ runs[x].published \in Nat
    BY TableFacts DEF Inv, Run
  <2> QED
    BY <1>1, <1>5, <2>1 DEF Inv, RowsAreTrue
<1>7. ASSUME NEW c \in Schedulers PROVE StateOK(scheduler[c])'
  <2>1. PICK p : p = scheduler[c]
    OBVIOUS
  <2>2. StateOK(p) /\ scheduler'[c] = p
    BY <1>1, <2>1 DEF Inv
  <2>3. CASE p.step = "complete"
    <3>1. /\ p.seen \in Nat /\ p.published \in Nat /\ p.run \in DOMAIN runs
          /\ Accounted(p.run, p.end, p.seen, p.published)
      BY <2>1, <2>2, <2>3, ProcessTypes DEF StateOK, Holding
    <3>2. Accounted(p.run, p.end, p.seen, p.published)'
      BY <1>5, <3>1
    <3> QED
      BY <1>1, <2>2, <2>3, <3>2 DEF StateOK
  <2>4. CASE p.step # "complete"
    <3>1. p.step \in {"fetch", "publish"} => p.run \in DOMAIN runs /\ p.run # r
      BY <2>2 DEF StateOK, Holding
    <3> QED
      BY <1>1, <1>3, <2>2, <2>4, <3>1 DEF StateOK, Holding
  <2> QED
    BY <2>3, <2>4
<1> QED
  BY <1>1, <1>4, <1>6, <1>7 DEF Inv, RunsAreHeldOnce, HoldsRun, LastSuccessIsASuccess, Succeeded

\* A run ends: its row accounts for its events.
LEMMA CompleteKeeps ==
    ASSUME Inv, NEW c \in Schedulers, CompleteSourceRun(c)
    PROVE  Inv'
<1>1. PICK p : p = scheduler[c]
  OBVIOUS
<1>2. PICK q : q = p.run
  OBVIOUS
<1>3. PICK s : s = runs[q].source
  OBVIOUS
<1> DEFINE row == [runs[q] EXCEPT !.status = p.end, !.finished = p.finished,
                                  !.seen = p.seen, !.published = p.published]
           to == [step |-> "next", config |-> p.config, now |-> p.now, due |-> p.due]
<1>4. /\ p.step = "complete" /\ HoldsRun(c)
      /\ runs' = [runs EXCEPT ![q] = row]
      /\ sources' = IF p.end = "succeeded" THEN [sources EXCEPT ![s].lastSuccess = p.finished]
                    ELSE sources
      /\ Moves(c, to) /\ UNCHANGED <<clock, stored, inflight>>
  BY <1>1, <1>2, <1>3 DEF CompleteSourceRun, NextSource, HoldsRun, Holding
<1>5. /\ p.config \in Configs /\ p.now \in Times /\ p.due \in SUBSET Sources
      /\ p.seen \in Nat /\ p.published \in Nat /\ p.end \in Ends /\ p.finished \in Times
  BY <1>1, <1>4, ProcessTypes DEF Holding
<1>6. /\ q \in DOMAIN runs /\ runs[q].status = "running" /\ p.due \subseteq DOMAIN sources
      /\ Accounted(q, p.end, p.seen, p.published) /\ p.finished <= clock
  BY <1>1, <1>2, <1>4 DEF Inv, StateOK, Holding
<1>7. clock \in Times /\ runs[q] \in Run /\ s \in DOMAIN sources
  BY <1>3, <1>6, TableFacts DEF Inv, Tables, RowsAreTrue
<1>8. /\ row \in Run /\ row.source = s /\ row.status = p.end /\ row.finished = p.finished
      /\ row.seen = p.seen /\ row.published = p.published
  BY <1>3, <1>5, <1>7 DEF Run
<1>9. /\ runs' \in Seq(Run) /\ Len(runs') = Len(runs) /\ DOMAIN runs' = DOMAIN runs
      /\ runs'[q] = row
      /\ \A r \in DOMAIN runs : r # q => runs'[r] = runs[r]
  BY <1>4, <1>6, <1>8, UpdateSeq DEF Inv, Tables
<1> HIDE DEF row
<1>10. /\ DOMAIN sources' = DOMAIN sources
       /\ \A x \in DOMAIN sources :
             /\ sources'[x] \in Source
             /\ sources'[x].lastSuccess = IF p.end = "succeeded" /\ x = s THEN p.finished
                                          ELSE sources[x].lastSuccess
  BY <1>4, <1>5, <1>7 DEF Inv, Tables, Source
<1>11. Tables'
  BY <1>4, <1>9, <1>10 DEF Inv, Tables
<1>12. to \in Process
  BY <1>5 DEF Process
<1>13. /\ scheduler' \in [Schedulers -> Process] /\ scheduler'[c] = to
       /\ \A d \in Schedulers : d # c => scheduler'[d] = scheduler[d]
  BY <1>4, <1>12 DEF Inv, Moves
<1>14. \A d \in Schedulers : StateOK(scheduler[d])'
  <2>1. StateOK(scheduler[c])'
    BY <1>6, <1>10, <1>13 DEF StateOK, Holding
  <2>2. ASSUME NEW d \in Schedulers, d # c PROVE StateOK(scheduler[d])'
    <3>1. PICK o : o = scheduler[d]
      OBVIOUS
    <3>2. StateOK(o) /\ scheduler'[d] = o
      BY <1>13, <2>2, <3>1 DEF Inv
    <3>3. o.step \in Holding => o.run \in DOMAIN runs /\ o.run # q
      BY <1>1, <1>2, <1>4, <2>2, <3>1, <3>2 DEF StateOK, Inv, RunsAreHeldOnce, HoldsRun
    <3>4. StateOK(o)'
      BY <1>4, <1>9, <1>10, <3>2, <3>3, StateStays
    <3> QED
      BY <3>2, <3>4 DEF StateOK, Accounted
  <2> QED
    BY <2>1, <2>2
<1>15. RunsAreHeldOnce'
  <2>1. ~ HoldsRun(c)'
    BY <1>13 DEF HoldsRun, Holding
  <2>2. \A d \in Schedulers : d # c => scheduler'[d] = scheduler[d]
    BY <1>13
  <2> QED
    BY <2>1, <2>2 DEF Inv, RunsAreHeldOnce, HoldsRun
<1>16. RowsAreTrue'
  <2> SUFFICES ASSUME NEW r \in DOMAIN runs
               PROVE  /\ runs'[r].source \in DOMAIN sources
                      /\ runs'[r].status \in Ends =>
                            Accounted(r, runs'[r].status, runs'[r].seen, runs'[r].published)
                      /\ runs'[r].status = "succeeded" => runs'[r].finished <= clock
    BY <1>4, <1>9, <1>10 DEF RowsAreTrue, Accounted
  <2>1. CASE r = q
    BY <1>6, <1>7, <1>8, <1>9, <2>1
  <2>2. CASE r # q
    BY <1>9, <2>2 DEF Inv, RowsAreTrue
  <2> QED
    BY <2>1, <2>2
<1>17. LastSuccessIsASuccess'
  <2> SUFFICES ASSUME NEW x \in DOMAIN sources
               PROVE  IF Succeeded(x)' = {} THEN sources'[x].lastSuccess = Never
                      ELSE \E r \in Succeeded(x)' : runs'[r].finished = sources'[x].lastSuccess
    BY <1>10 DEF LastSuccessIsASuccess
  <2>1. CASE p.end = "succeeded" /\ x = s
    <3>1. q \in Succeeded(x)' /\ runs'[q].finished = p.finished
      BY <1>6, <1>8, <1>9, <2>1 DEF Succeeded
    <3> QED
      BY <1>10, <2>1, <3>1
  <2>2. CASE ~ (p.end = "succeeded" /\ x = s)
    <3>1. Succeeded(x)' = Succeeded(x)
      BY <1>6, <1>8, <1>9, <2>2 DEF Succeeded
    <3>2. \A r \in Succeeded(x) : runs'[r].finished = runs[r].finished
      BY <1>6, <1>9 DEF Succeeded
    <3> QED
      BY <1>10, <2>2, <3>1, <3>2 DEF Inv, LastSuccessIsASuccess
  <2> QED
    BY <2>1, <2>2
<1> QED
  BY <1>11, <1>13, <1>14, <1>15, <1>16, <1>17 DEF Inv

--------------------------------------------------------------------------------
(* The invariant, and what it is for.                                      *)

\* At first the tables are empty and every process is down.
LEMMA InitInv == Init => Inv
<1> SUFFICES ASSUME Init PROVE Inv
  OBVIOUS
<1>1. /\ clock = 0 /\ sources = <<>> /\ runs = <<>> /\ stored = <<>> /\ inflight = {}
      /\ scheduler = [c \in Schedulers |-> Down]
  BY DEF Init
<1>2. DOMAIN sources = {} /\ DOMAIN runs = {} /\ Len(runs) = 0 /\ Len(stored) = 0
  BY <1>1
<1>3. runs \in Seq(Run) /\ stored \in Seq(Nat)
  BY <1>1
<1>4. clock \in Times /\ MaxRuns \in Nat
  BY <1>1, SchedulerAssumption DEF Times
<1>5. Tables
  BY <1>1, <1>2, <1>3, <1>4 DEF Tables
<1>6. /\ scheduler \in [Schedulers -> Process]
      /\ \A c \in Schedulers : scheduler[c].step = "down"
  BY <1>1 DEF Process, Down
<1>7. RowsAreTrue /\ LastSuccessIsASuccess
  BY <1>2 DEF RowsAreTrue, LastSuccessIsASuccess
<1> QED
  BY <1>5, <1>6, <1>7 DEF Inv, StateOK, RunsAreHeldOnce, HoldsRun, Holding

\* Every step keeps the invariant.
LEMMA NextInv == Inv /\ [Next]_vars => Inv'
<1> SUFFICES ASSUME Inv, [Next]_vars PROVE Inv'
  OBVIOUS
<1>1. CASE Pass
  BY <1>1, PassKeeps
<1>2. ASSUME NEW c \in Schedulers, NEW config \in Configs, Start(c, config) PROVE Inv'
  BY <1>2, RestKeeps
<1>3. ASSUME NEW c \in Schedulers, NEW s \in Sources, BeginSourceRun(c, s) PROVE Inv'
  BY <1>3, BeginKeeps
<1>4. ASSUME NEW c \in Schedulers, Advance(c) PROVE Inv'
  BY <1>4, SyncKeeps, RestKeeps, RunKeeps, PublishKeeps, CompleteKeeps DEF Advance
<1>5. ASSUME NEW c \in Schedulers, Fail(c) PROVE Inv'
  BY <1>5, RestKeeps, RunKeeps, NoAnswerKeeps DEF Fail
<1>6. ASSUME NEW c \in Schedulers, Stop(c) PROVE Inv'
  BY <1>6, NoAnswerKeeps
<1>7. ASSUME NEW r \in inflight, EventArrives(r) PROVE Inv'
  BY <1>7, ArriveKeeps
<1>8. CASE UNCHANGED vars
  <2>1. UNCHANGED <<clock, sources, runs, stored, inflight, scheduler>>
    BY <1>8 DEF vars
  <2> QED
    BY <2>1 DEF Inv, Tables, RowsAreTrue, StateOK, Accounted, RunsAreHeldOnce, HoldsRun,
       LastSuccessIsASuccess, Succeeded
<1> QED
  BY <1>1, <1>2, <1>3, <1>4, <1>5, <1>6, <1>7, <1>8 DEF Next

\* The invariant holds always.
LEMMA Invariant == Spec => []Inv
BY InitInv, NextInv, PTL DEF Spec

\* The types of all variables, and the runs that processes hold exist.
THEOREM TypeCorrect == Spec => []TypeOK
<1>1. Inv => TypeOK
  <2> SUFFICES ASSUME Inv PROVE TypeOK
    OBVIOUS
  <2>1. stored \in [DOMAIN runs -> Nat]
    BY LenProperties DEF Inv, Tables
  <2>2. \A c \in Schedulers : scheduler[c].step \in Holding => scheduler[c].run \in DOMAIN runs
    BY DEF Inv, StateOK
  <2> QED
    BY <2>1, <2>2 DEF Inv, Tables, TypeOK, Holding
<1> QED
  BY <1>1, Invariant, PTL

\* The row of an ended run accounts for all that the stream has and will have of it,
\* however many schedulers run, stop and fail, and whenever a publication without answer
\* arrives (publish, CompleteSourceRun).
THEOREM EventsAccounted == Spec => []RowsAccountForEvents
<1>1. Inv => RowsAccountForEvents
  BY DEF Inv, RowsAreTrue, Accounted, RowsAccountForEvents, Ends
<1> QED
  BY <1>1, Invariant, PTL

\* last_success_at is the end of a run of the source that succeeded, and NULL only if
\* none has, for any number of schedulers (not of the latest run that did: two schedulers
\* take their times before their transactions, and may commit in the other order).
THEOREM LastSuccess == Spec => []LastSuccessIsASuccess
<1>1. Inv => LastSuccessIsASuccess
  BY DEF Inv
<1> QED
  BY <1>1, Invariant, PTL

\* A process writes only the run it holds, and that is still "running".
LEMMA EndedRunStays ==
    ASSUME Inv, [Next]_vars, NEW r \in DOMAIN runs, runs[r].status \in Ends
    PROVE  runs'[r] = runs[r]
<1>1. r \in 1 .. Len(runs) /\ runs \in Seq(Run)
  BY TableFacts DEF Inv, Tables
<1>2. ASSUME NEW c \in Schedulers, HoldsRun(c)
      PROVE  scheduler[c].run # r
  BY <1>2 DEF Inv, StateOK, HoldsRun, Ends
<1>3. ASSUME NEW c \in Schedulers, NEW s \in Sources, BeginSourceRun(c, s)
      PROVE  runs'[r] = runs[r]
  BY <1>1, <1>3, AppendProperties DEF BeginSourceRun
<1>4. ASSUME NEW c \in Schedulers, CompleteSourceRun(c)
      PROVE  runs'[r] = runs[r]
  BY <1>1, <1>2, <1>4 DEF CompleteSourceRun, HoldsRun, Holding
<1> QED
  BY <1>3, <1>4
     DEF Next, vars, Pass, EventArrives, Stop, Start, Advance, Fail, SyncSource, Synced, Tick,
         EndTick, Fetch, PublishJob, AllPublished, BeginFails, RunFails, PublishFails, CompleteFails

\* The row of a run that has ended never changes, for any number of schedulers that stop,
\* restart and overlap (runSource passes the id of the run that it has begun).
THEOREM EndedRunsFinal == Spec => EndedRunsAreFinal
<1>1. Inv /\ [Next]_vars =>
        [\A r \in DOMAIN runs : runs[r].status \in Ends => runs'[r] = runs[r]]_vars
  BY EndedRunStays
<1> QED
  BY <1>1, Invariant, PTL DEF Spec, EndedRunsAreFinal

--------------------------------------------------------------------------------
(* One scheduler.                                                          *)

\* Sources that a process has still to run are due at the time of its tick: nobody
\* else has run them since it read the table.
DueIsDue ==
    \A c \in Schedulers : scheduler[c].step \in {"next"} \cup Holding =>
        \A s \in scheduler[c].due :
            \/ sources[s].lastRun = Never
            \/ Interval[s] > 0 /\ sources[s].lastRun + Interval[s] <= scheduler[c].now

\* last_run_at is not before a run of the source.
RunsAreRecorded ==
    \A r \in DOMAIN runs :
        /\ sources[runs[r].source].lastRun # Never
        /\ runs[r].started <= sources[runs[r].source].lastRun

OneInv == Inv /\ DueIsDue /\ RunsAreRecorded /\ RunsKeepTheInterval

\* A run of the only scheduler begins an interval after the earlier ones.
LEMMA BeginKeepsIntervals ==
    ASSUME OneInv, Inv', NEW c \in Schedulers, \A d \in Schedulers : d = c,
           NEW s \in Sources, BeginSourceRun(c, s)
    PROVE  OneInv'
<1>1. PICK p : p = scheduler[c]
  OBVIOUS
<1> DEFINE n == Len(runs) + 1
           row == [source |-> s, status |-> "running", started |-> p.now,
                   finished |-> Never, seen |-> 0, published |-> 0]
<1>2. /\ p.step = "next" /\ s \in p.due
      /\ runs' = Append(runs, row)
      /\ sources' = [sources EXCEPT ![s].lastRun = p.now]
      /\ scheduler' = [scheduler EXCEPT ![c] =
            [step |-> "fetch", config |-> p.config, now |-> p.now, due |-> p.due \ {s},
             run |-> n]]
  BY <1>1 DEF BeginSourceRun, Moves
<1>3. p.now \in Times /\ p.due \in SUBSET Sources /\ p.due \subseteq DOMAIN sources
  BY <1>1, <1>2, ProcessTypes DEF OneInv, Inv, StateOK, Holding
<1>4. row \in Run
  BY <1>3 DEF Run
<1>5. /\ DOMAIN runs = 1 .. Len(runs) /\ Len(runs) \in Nat /\ DOMAIN runs' = DOMAIN runs \cup {n}
      /\ n \notin DOMAIN runs /\ runs'[n] = row
      /\ \A r \in DOMAIN runs : runs'[r] = runs[r]
  BY <1>2, <1>4, ExtendSeq, TableFacts DEF OneInv, Inv, Tables
<1>6. \A r \in DOMAIN runs : /\ runs[r].started \in Int /\ runs[r].source \in DOMAIN sources
                             /\ runs[r].source \in Sources
  BY TableFacts DEF OneInv, Inv, RowsAreTrue, Run, Times
<1>7. \A x \in DOMAIN sources : sources[x].lastRun \in Int
  BY DEF OneInv, Inv, Tables, Source, Times, Never
<1>8. /\ \A x \in DOMAIN sources : x # s => sources'[x] = sources[x]
      /\ sources'[s].lastRun = p.now /\ DOMAIN sources' = DOMAIN sources
  <2>1. sources[s] \in Source
    BY <1>2, <1>3 DEF OneInv, Inv, Tables
  <2> QED
    BY <1>2, <1>3, <2>1 DEF Source
<1>9. Interval[s] \in Nat /\ p.now \in Int /\ p.now # Never
  BY <1>3, SchedulerAssumption DEF Times, Never
<1>10. \/ sources[s].lastRun = Never
       \/ Interval[s] > 0 /\ sources[s].lastRun + Interval[s] <= p.now
  BY <1>1, <1>2 DEF OneInv, DueIsDue
<1>11. \A r \in DOMAIN runs : runs[r].source = s =>
           Interval[s] > 0 /\ runs[r].started + Interval[s] <= p.now
  <2> SUFFICES ASSUME NEW r \in DOMAIN runs, runs[r].source = s
               PROVE  Interval[s] > 0 /\ runs[r].started + Interval[s] <= p.now
    OBVIOUS
  <2>1. sources[s].lastRun # Never /\ runs[r].started <= sources[s].lastRun
    BY DEF OneInv, RunsAreRecorded
  <2>2. sources[s].lastRun \in Int /\ runs[r].started \in Int
    BY <1>2, <1>3, <1>6, <1>7
  <2> HIDE DEF n, row
  <2> QED
    BY <1>9, <1>10, <2>1, <2>2
<1>12. row.source = s /\ row.started = p.now
  OBVIOUS
<1> HIDE DEF row
<1>13. RunsKeepTheInterval'
  <2> SUFFICES ASSUME NEW i \in DOMAIN runs', NEW j \in DOMAIN runs',
                      i < j, runs'[i].source = runs'[j].source
               PROVE  /\ Interval[runs'[i].source] > 0
                      /\ runs'[j].started >= runs'[i].started + Interval[runs'[i].source]
    BY DEF RunsKeepTheInterval
  <2>1. i \in DOMAIN runs
    BY <1>5
  <2>2. CASE j \in DOMAIN runs
    BY <1>5, <2>1, <2>2 DEF OneInv, RunsKeepTheInterval
  <2>3. CASE j = n
    <3>1. runs[i].source = s /\ runs'[j].started = p.now /\ runs'[i] = runs[i]
      BY <1>5, <1>12, <2>1, <2>3
    <3>2. Interval[s] > 0 /\ runs[i].started + Interval[s] <= p.now
      BY <1>11, <2>1, <3>1
    <3>3. runs[i].started \in Int
      BY <1>6, <2>1
    <3> QED
      BY <1>9, <3>1, <3>2, <3>3
  <2> QED
    BY <1>5, <2>2, <2>3
<1>14. RunsAreRecorded'
  <2> SUFFICES ASSUME NEW r \in DOMAIN runs'
               PROVE  /\ sources'[runs'[r].source].lastRun # Never
                      /\ runs'[r].started <= sources'[runs'[r].source].lastRun
    BY DEF RunsAreRecorded
  <2>1. CASE r = n
    BY <1>5, <1>8, <1>9, <1>12, <2>1
  <2>2. CASE r \in DOMAIN runs /\ runs[r].source = s
    <3>1. runs[r].started + Interval[s] <= p.now /\ runs[r].started \in Int
      BY <1>6, <1>11, <2>2
    <3>2. runs[r].started <= p.now
      BY <1>9, <3>1
    <3> QED
      BY <1>5, <1>8, <1>9, <2>2, <3>2
  <2>3. CASE r \in DOMAIN runs /\ runs[r].source # s
    BY <1>5, <1>6, <1>8, <2>3 DEF OneInv, RunsAreRecorded
  <2> QED
    BY <1>5, <2>1, <2>2, <2>3
<1>15. DueIsDue'
  <2>1. scheduler'[c].due = p.due \ {s} /\ scheduler'[c].now = p.now
    BY <1>2 DEF OneInv, Inv
  <2>2. \A x \in p.due \ {s} : \/ sources'[x].lastRun = Never
                               \/ Interval[x] > 0 /\ sources'[x].lastRun + Interval[x] <= p.now
    BY <1>1, <1>2, <1>3, <1>8 DEF OneInv, DueIsDue
  <2> QED
    BY <2>1, <2>2 DEF DueIsDue
<1> QED
  BY <1>13, <1>14, <1>15 DEF OneInv

\* Sources, runs and the ticks of the only scheduler are otherwise left alone: rows are
\* completed, sources added and switched, and a tick takes what is due at its time.
LEMMA OthersKeepIntervals ==
    ASSUME OneInv, Inv',
           DOMAIN runs' = DOMAIN runs,
           \A r \in DOMAIN runs : /\ runs'[r].source = runs[r].source
                                  /\ runs'[r].started = runs[r].started,
           \A x \in DOMAIN sources : sources'[x].lastRun = sources[x].lastRun,
           DueIsDue'
    PROVE  OneInv'
<1>1. \A r \in DOMAIN runs : runs[r].source \in DOMAIN sources
  BY DEF OneInv, Inv, RowsAreTrue
<1>2. RunsAreRecorded'
  BY <1>1 DEF OneInv, RunsAreRecorded
<1>3. RunsKeepTheInterval'
  BY DEF OneInv, RunsKeepTheInterval
<1> QED
  BY <1>2, <1>3 DEF OneInv

\* A process that keeps its tick or drops sources from it.
LEMMA DueStays ==
    ASSUME OneInv, NEW c \in Schedulers, \A d \in Schedulers : d = c,
           NEW p, p = scheduler[c], NEW to, scheduler'[c] = to,
           \A x \in DOMAIN sources : sources'[x].lastRun = sources[x].lastRun,
           to.step \in {"next"} \cup Holding =>
               /\ p.step \in {"next"} \cup Holding
               /\ to.due \subseteq p.due /\ to.now = p.now
    PROVE  DueIsDue'
<1>1. p.step \in {"next"} \cup Holding =>
          /\ p.due \subseteq DOMAIN sources
          /\ \A s \in p.due : \/ sources[s].lastRun = Never
                              \/ Interval[s] > 0 /\ sources[s].lastRun + Interval[s] <= p.now
  BY DEF OneInv, Inv, StateOK, DueIsDue
<1>2. to.step \in {"next"} \cup Holding =>
          \A s \in to.due : \/ sources'[s].lastRun = Never
                            \/ Interval[s] > 0 /\ sources'[s].lastRun + Interval[s] <= to.now
  BY <1>1
<1> QED
  BY <1>2 DEF DueIsDue

\* What the only scheduler does in a tick, but for beginning a run.
LEMMA TickKeepsIntervals ==
    ASSUME OneInv, Inv', NEW c \in Schedulers, \A d \in Schedulers : d = c,
           \/ EndTick(c) \/ Synced(c) \/ Stop(c) \/ RunFails(c) \/ PublishJob(c)
           \/ PublishFails(c) \/ AllPublished(c) \/ CompleteFails(c)
           \/ \E config \in Configs : Start(c, config)
           \/ \E s \in Sources : BeginFails(c, s)
           \/ \E n \in Listings : Fetch(c, n)
    PROVE  OneInv'
<1>1. UNCHANGED <<sources, runs>>
  BY DEF EndTick, Synced, Stop, RunFails, PublishJob, PublishFails, AllPublished,
     CompleteFails, Start, BeginFails, Fetch
<1> SUFFICES DueIsDue'
  BY <1>1, OthersKeepIntervals
<1>2. PICK p : p = scheduler[c]
  OBVIOUS
<1>3. p \in Process /\ DOMAIN scheduler = Schedulers
  BY <1>2 DEF OneInv, Inv
<1>4. ASSUME NEW to, Moves(c, to),
             to.step \in {"next"} \cup Holding =>
                 /\ p.step \in {"next"} \cup Holding
                 /\ to.due \subseteq p.due /\ to.now = p.now
      PROVE  DueIsDue'
  <2>1. scheduler'[c] = to
    BY <1>3, <1>4 DEF Moves
  <2> QED
    BY <1>1, <1>2, <1>4, <2>1, DueStays
<1>5. CASE EndTick(c) \/ Synced(c)
  BY <1>4, <1>5 DEF EndTick, Synced, Holding
<1>6. CASE Stop(c)
  BY <1>4, <1>6 DEF Stop, Down, Holding
<1>7. ASSUME NEW config \in Configs, Start(c, config) PROVE DueIsDue'
  BY <1>4, <1>7 DEF Start, Holding
<1>8. CASE RunFails(c) \/ PublishFails(c) \/ AllPublished(c)
  <2>1. /\ p.step \in Holding
        /\ \E seen, n, end :
              Moves(c, [step |-> "complete", config |-> p.config, now |-> p.now,
                        due |-> p.due, run |-> p.run, seen |-> seen, published |-> n,
                        end |-> end, finished |-> clock])
    BY <1>2, <1>8 DEF RunFails, PublishFails, AllPublished, Completes, Holding
  <2> QED
    BY <1>4, <2>1
<1>9. CASE CompleteFails(c)
  BY <1>2, <1>4, <1>9 DEF CompleteFails, NextSource, Holding
<1>10. ASSUME NEW n \in Listings, Fetch(c, n) PROVE DueIsDue'
  BY <1>2, <1>4, <1>10 DEF Fetch, Holding
<1>11. CASE PublishJob(c)
  <2> DEFINE to == [p EXCEPT !.published = @ + 1]
  <2>1. p.step = "publish" /\ Moves(c, to)
    BY <1>2, <1>11 DEF PublishJob
  <2>2. p \in [step : {"publish"}, config : Configs, now : Times, due : SUBSET Sources,
               run : 1 .. MaxRuns, published : Nat, listed : Nat]
    BY <1>3, <2>1 DEF Process, Down
  <2>3. to.due = p.due /\ to.now = p.now
    BY <2>2
  <2> HIDE DEF to
  <2> QED
    BY <1>4, <2>1, <2>3 DEF Holding
<1>12. ASSUME NEW s \in Sources, BeginFails(c, s) PROVE DueIsDue'
  <2> DEFINE to == [p EXCEPT !.due = @ \ {s}]
  <2>1. p.step = "next" /\ Moves(c, to)
    BY <1>2, <1>12 DEF BeginFails
  <2>2. p \in [step : {"next"}, config : Configs, now : Times, due : SUBSET Sources]
    BY <1>3, <2>1 DEF Process, Down
  <2>3. to.due \subseteq p.due /\ to.now = p.now
    BY <2>2
  <2> HIDE DEF to
  <2> QED
    BY <1>4, <2>1, <2>3 DEF Holding
<1> QED
  BY <1>5, <1>6, <1>7, <1>8, <1>9, <1>10, <1>11, <1>12

\* Every step keeps the intervals when there is one scheduler.
LEMMA OneNext ==
    ASSUME \A c, d \in Schedulers : c = d, OneInv, Inv', [Next]_vars
    PROVE  OneInv'
<1>1. CASE Pass
  BY <1>1, OthersKeepIntervals DEF Pass, OneInv, DueIsDue
<1>7. ASSUME NEW r \in inflight, EventArrives(r) PROVE OneInv'
  BY <1>7, OthersKeepIntervals DEF EventArrives, OneInv, DueIsDue
<1>2. ASSUME NEW c \in Schedulers, NEW s \in Sources, BeginSourceRun(c, s) PROVE OneInv'
  BY <1>2, BeginKeepsIntervals
<1>3. ASSUME NEW c \in Schedulers, NEW s \in Sources, SyncSource(c, s) PROVE OneInv'
  <2> DEFINE to == [scheduler[c] EXCEPT !.todo = @ \ {s}]
  <2>1. /\ scheduler[c].step = "sync" /\ Moves(c, to) /\ UNCHANGED runs
        /\ \A x \in DOMAIN sources : sources'[x].lastRun = sources[x].lastRun
    BY <1>3 DEF SyncSource
  <2>2. scheduler[c] \in [step : {"sync"}, config : Configs, todo : SUBSET Sources]
    BY <2>1, ProcessTypes DEF OneInv
  <2>3. to.step = "sync"
    BY <2>2
  <2> HIDE DEF to
  <2>4. scheduler'[c].step = "sync"
    BY <2>1, <2>3 DEF Moves, OneInv, Inv
  <2>5. DueIsDue'
    BY <2>4 DEF DueIsDue, Holding
  <2> QED
    BY <2>1, <2>5, OthersKeepIntervals
<1>4. ASSUME NEW c \in Schedulers, Tick(c) PROVE OneInv'
  <2>1. /\ UNCHANGED <<sources, runs>>
        /\ scheduler'[c].now = clock /\ scheduler'[c].due = DueSources(clock)
    BY <1>4 DEF Tick, Moves, OneInv, Inv
  <2>2. DueIsDue'
    BY <2>1 DEF DueIsDue, DueSources
  <2> QED
    BY <2>1, <2>2, OthersKeepIntervals
<1>5. ASSUME NEW c \in Schedulers, CompleteSourceRun(c) PROVE OneInv'
  <2>1. PICK p : p = scheduler[c]
    OBVIOUS
  <2>2. p.step = "complete" /\ p.run \in DOMAIN runs /\ runs[p.run] \in Run
    BY <1>5, <2>1, TableFacts DEF CompleteSourceRun, OneInv, Inv, StateOK, Holding
  <2>3. /\ DOMAIN runs' = DOMAIN runs
        /\ \A r \in DOMAIN runs : /\ runs'[r].source = runs[r].source
                                  /\ runs'[r].started = runs[r].started
    BY <1>5, <2>1, <2>2 DEF CompleteSourceRun, Run
  <2>4. \A x \in DOMAIN sources : sources'[x].lastRun = sources[x].lastRun
    <3>1. \A x \in DOMAIN sources : sources[x] \in Source
      BY DEF OneInv, Inv, Tables
    <3> QED
      BY <1>5, <3>1 DEF CompleteSourceRun, Source
  <2>5. scheduler'[c] = [step |-> "next", config |-> p.config, now |-> p.now, due |-> p.due]
    BY <1>5, <2>1 DEF CompleteSourceRun, NextSource, Moves, OneInv, Inv
  <2>6. DueIsDue'
    BY <2>1, <2>2, <2>4, <2>5, DueStays DEF Holding
  <2> QED
    BY <2>3, <2>4, <2>6, OthersKeepIntervals
<1>6. CASE UNCHANGED vars
  <2>1. UNCHANGED <<sources, runs, scheduler>>
    BY <1>6 DEF vars
  <2> QED
    BY <2>1, OthersKeepIntervals DEF OneInv, DueIsDue
<1> QED
  BY <1>1, <1>2, <1>3, <1>4, <1>5, <1>6, <1>7, TickKeepsIntervals DEF Next, Advance, Fail

\* With at most one scheduler, the runs of a source are an interval apart, and a source
\* without interval is run once: also when the process stops in the middle of a run, and
\* the next one finds the run "running" (DueSources looks at last_run_at only, which
\* BeginSourceRun has written).  The interval of a source is fixed.
THEOREM OneSchedulerKeepsIntervals ==
    ASSUME \A c, d \in Schedulers : c = d
    PROVE  Spec => []RunsKeepTheInterval
<1>1. Init => OneInv
  <2> SUFFICES ASSUME Init PROVE OneInv
    OBVIOUS
  <2>1. DOMAIN runs = {} /\ \A c \in Schedulers : scheduler[c].step = "down"
    BY DEF Init, Down
  <2> QED
    BY <2>1, InitInv DEF OneInv, DueIsDue, RunsAreRecorded, RunsKeepTheInterval, Holding
<1>2. OneInv /\ Inv' /\ [Next]_vars => OneInv'
  BY OneNext
<1>3. OneInv => RunsKeepTheInterval
  BY DEF OneInv
<1> QED
  BY <1>1, <1>2, <1>3, Invariant, PTL DEF Spec

\* A run that is being completed ends after the runs that have succeeded.
EndsInOrder ==
    \A c \in Schedulers : scheduler[c].step = "complete" =>
        \A r \in DOMAIN runs :
            runs[r].status = "succeeded" => runs[r].finished <= scheduler[c].finished

SuccessInv == Inv /\ EndsInOrder /\ LastSuccessIsTheLast

\* Steps that complete no run: no run succeeds, last_success_at is left alone, and whoever
\* gets to the completion of its run takes the time of the clock.
LEMMA OthersKeepSuccess ==
    ASSUME SuccessInv, Inv',
           \A s : Succeeded(s)' = Succeeded(s),
           \A r \in DOMAIN runs' : runs'[r].status = "succeeded" =>
               r \in DOMAIN runs /\ runs'[r] = runs[r],
           \A s \in DOMAIN sources' :
               IF s \in DOMAIN sources THEN sources'[s].lastSuccess = sources[s].lastSuccess
               ELSE sources'[s].lastSuccess = Never,
           \A c \in Schedulers : scheduler'[c].step = "complete" =>
               \/ scheduler'[c].finished = clock
               \/ scheduler[c].step = "complete" /\ scheduler'[c].finished = scheduler[c].finished
    PROVE  SuccessInv'
<1>1. EndsInOrder'
  <2> SUFFICES ASSUME NEW c \in Schedulers, scheduler'[c].step = "complete",
                      NEW r \in DOMAIN runs', runs'[r].status = "succeeded"
               PROVE  runs'[r].finished <= scheduler'[c].finished
    BY DEF EndsInOrder
  <2>1. r \in DOMAIN runs /\ runs'[r] = runs[r] /\ runs[r].finished <= clock
    BY DEF SuccessInv, Inv, RowsAreTrue
  <2> QED
    BY <2>1 DEF SuccessInv, EndsInOrder
<1>2. LastSuccessIsTheLast'
  <2> SUFFICES ASSUME NEW s \in DOMAIN sources'
               PROVE  \/ Succeeded(s)' = {} /\ sources'[s].lastSuccess = Never
                      \/ /\ \E r \in Succeeded(s)' : runs'[r].finished = sources'[s].lastSuccess
                         /\ \A r \in Succeeded(s)' : runs'[r].finished <= sources'[s].lastSuccess
    BY DEF LastSuccessIsTheLast
  <2>1. \A r \in Succeeded(s) : runs'[r] = runs[r]
    BY DEF Succeeded
  <2>2. CASE s \in DOMAIN sources
    BY <2>1, <2>2 DEF SuccessInv, LastSuccessIsTheLast
  <2>3. CASE s \notin DOMAIN sources
    <3>1. Succeeded(s) = {}
      BY <2>3 DEF SuccessInv, Inv, RowsAreTrue, Succeeded
    <3> QED
      BY <2>3, <3>1
  <2> QED
    BY <2>2, <2>3
<1> QED
  BY <1>1, <1>2 DEF SuccessInv

\* A process that writes no row of a source or a run.
LEMMA MovesKeepSuccess ==
    ASSUME SuccessInv, Inv', UNCHANGED <<sources, runs>>, NEW c \in Schedulers, NEW to,
           Moves(c, to), to.step = "complete" => to.finished = clock
    PROVE  SuccessInv'
<1>1. /\ scheduler'[c] = to
      /\ \A d \in Schedulers : d # c => scheduler'[d] = scheduler[d]
  BY DEF SuccessInv, Inv, Moves
<1>2. \A s : Succeeded(s)' = Succeeded(s)
  BY DEF Succeeded
<1> QED
  BY <1>1, <1>2, OthersKeepSuccess

\* A completed run of the only scheduler is the latest.
LEMMA CompleteKeepsSuccess ==
    ASSUME SuccessInv, Inv', NEW c \in Schedulers, \A d \in Schedulers : d = c,
           CompleteSourceRun(c)
    PROVE  SuccessInv'
<1>1. PICK p : p = scheduler[c]
  OBVIOUS
<1>2. PICK q : q = p.run
  OBVIOUS
<1>3. PICK s : s = runs[q].source
  OBVIOUS
<1>4. /\ p.step = "complete" /\ q \in DOMAIN runs /\ runs[q] \in Run /\ s \in DOMAIN sources
      /\ runs[q].status = "running"
  BY <1>1, <1>2, <1>3, TableFacts
     DEF CompleteSourceRun, SuccessInv, Inv, StateOK, RowsAreTrue, Holding
<1>5. p.finished \in Int /\ p.finished <= p.finished
  BY <1>1, <1>4, ProcessTypes DEF SuccessInv, Times
<1>6. /\ DOMAIN runs' = DOMAIN runs
      /\ \A r \in DOMAIN runs : r # q => runs'[r] = runs[r]
      /\ runs'[q].source = s /\ runs'[q].status = p.end /\ runs'[q].finished = p.finished
  BY <1>1, <1>2, <1>3, <1>4 DEF CompleteSourceRun, Run
<1>7. /\ DOMAIN sources' = DOMAIN sources
      /\ \A x \in DOMAIN sources :
            sources'[x].lastSuccess = IF p.end = "succeeded" /\ x = s THEN p.finished
                                      ELSE sources[x].lastSuccess
  <2>1. \A x \in DOMAIN sources : sources[x] \in Source
    BY DEF SuccessInv, Inv, Tables
  <2> QED
    BY <1>1, <1>2, <1>3, <1>4, <2>1 DEF CompleteSourceRun, Source
<1>8. EndsInOrder'
  <2>1. scheduler'[c].step = "next"
    BY DEF CompleteSourceRun, NextSource, Moves, SuccessInv, Inv
  <2> QED
    BY <2>1 DEF EndsInOrder
<1>9. LastSuccessIsTheLast'
  <2> SUFFICES ASSUME NEW x \in DOMAIN sources
               PROVE  \/ Succeeded(x)' = {} /\ sources'[x].lastSuccess = Never
                      \/ /\ \E r \in Succeeded(x)' : runs'[r].finished = sources'[x].lastSuccess
                         /\ \A r \in Succeeded(x)' : runs'[r].finished <= sources'[x].lastSuccess
    BY <1>7 DEF LastSuccessIsTheLast
  <2>1. CASE p.end = "succeeded" /\ x = s
    <3>1. q \in Succeeded(x)' /\ runs'[q].finished = p.finished
      BY <1>4, <1>6, <2>1 DEF Succeeded
    <3>2. \A r \in Succeeded(x)' : runs'[r].finished <= p.finished
      BY <1>1, <1>4, <1>5, <1>6 DEF SuccessInv, EndsInOrder, Succeeded
    <3> QED
      BY <1>7, <2>1, <3>1, <3>2
  <2>2. CASE ~ (p.end = "succeeded" /\ x = s)
    <3>1. Succeeded(x)' = Succeeded(x)
      BY <1>4, <1>6, <2>2 DEF Succeeded
    <3>2. \A r \in Succeeded(x) : runs'[r].finished = runs[r].finished
      BY <1>4, <1>6 DEF Succeeded
    <3> QED
      BY <1>7, <2>2, <3>1, <3>2 DEF SuccessInv, LastSuccessIsTheLast
  <2> QED
    BY <2>1, <2>2
<1> QED
  BY <1>8, <1>9 DEF SuccessInv

\* Every step keeps the last success when there is one scheduler.
LEMMA SuccessNext ==
    ASSUME \A c, d \in Schedulers : c = d, SuccessInv, Inv', [Next]_vars
    PROVE  SuccessInv'
<1>1. CASE UNCHANGED <<sources, runs, scheduler>>
  <2>1. \A s : Succeeded(s)' = Succeeded(s)
    BY <1>1 DEF Succeeded
  <2> QED
    BY <1>1, <2>1, OthersKeepSuccess
<1>2. ASSUME NEW c \in Schedulers, NEW s \in Sources, BeginSourceRun(c, s) PROVE SuccessInv'
  <2>1. /\ DOMAIN runs' = DOMAIN runs \cup {Len(runs) + 1}
        /\ runs'[Len(runs) + 1].status = "running"
        /\ \A r \in DOMAIN runs : runs'[r] = runs[r]
    <3> DEFINE row == [source |-> s, status |-> "running", started |-> scheduler[c].now,
                       finished |-> Never, seen |-> 0, published |-> 0]
    <3>1. scheduler[c].now \in Times /\ runs' = Append(runs, row)
      BY <1>2, ProcessTypes DEF BeginSourceRun, SuccessInv
    <3>2. row \in Run
      BY <3>1 DEF Run
    <3> QED
      BY <3>1, <3>2, ExtendSeq DEF SuccessInv, Inv, Tables
  <2>2. /\ DOMAIN sources' = DOMAIN sources
        /\ \A x \in DOMAIN sources : sources'[x].lastSuccess = sources[x].lastSuccess
    <3>1. \A x \in DOMAIN sources : sources[x] \in Source
      BY DEF SuccessInv, Inv, Tables
    <3> QED
      BY <1>2, <3>1 DEF BeginSourceRun, Source
  <2>3. \A x : Succeeded(x)' = Succeeded(x)
    BY <2>1 DEF Succeeded
  <2>4. /\ scheduler'[c].step = "fetch"
        /\ \A d \in Schedulers : d # c => scheduler'[d] = scheduler[d]
    BY <1>2 DEF BeginSourceRun, Moves, SuccessInv, Inv
  <2> QED
    BY <2>1, <2>2, <2>3, <2>4, OthersKeepSuccess
<1>3. ASSUME NEW c \in Schedulers, NEW s \in Sources, SyncSource(c, s) PROVE SuccessInv'
  <2>1. \A x : Succeeded(x)' = Succeeded(x)
    BY <1>3 DEF SyncSource, Succeeded
  <2>2. \A x \in DOMAIN sources' :
            IF x \in DOMAIN sources THEN sources'[x].lastSuccess = sources[x].lastSuccess
            ELSE sources'[x].lastSuccess = Never
    BY <1>3 DEF SyncSource
  <2>3. scheduler[c] \in [step : {"sync"}, config : Configs, todo : SUBSET Sources]
    BY <1>3, ProcessTypes DEF SyncSource, SuccessInv
  <2>4. /\ scheduler'[c].step = "sync"
        /\ \A d \in Schedulers : d # c => scheduler'[d] = scheduler[d]
    BY <1>3, <2>3 DEF SyncSource, Moves, SuccessInv, Inv
  <2> QED
    BY <1>3, <2>1, <2>2, <2>4, OthersKeepSuccess DEF SyncSource
<1>4. ASSUME NEW c \in Schedulers, PublishJob(c) PROVE SuccessInv'
  <2>1. scheduler[c] \in [step : {"publish"}, config : Configs, now : Times,
                          due : SUBSET Sources, run : 1 .. MaxRuns, published : Nat,
                          listed : Nat]
    BY <1>4 DEF PublishJob, SuccessInv, Inv, Process, Down
  <2> DEFINE to == [scheduler[c] EXCEPT !.published = @ + 1]
  <2>2. to.step = "publish" /\ Moves(c, to) /\ UNCHANGED <<sources, runs>>
    BY <1>4, <2>1 DEF PublishJob
  <2> HIDE DEF to
  <2> QED
    BY <2>2, MovesKeepSuccess
<1>5. ASSUME NEW c \in Schedulers, NEW s \in Sources, BeginFails(c, s) PROVE SuccessInv'
  <2>1. scheduler[c] \in [step : {"next"}, config : Configs, now : Times, due : SUBSET Sources]
    BY <1>5 DEF BeginFails, SuccessInv, Inv, Process, Down
  <2> DEFINE to == [scheduler[c] EXCEPT !.due = @ \ {s}]
  <2>2. to.step = "next" /\ Moves(c, to) /\ UNCHANGED <<sources, runs>>
    BY <1>5, <2>1 DEF BeginFails
  <2> HIDE DEF to
  <2> QED
    BY <2>2, MovesKeepSuccess
<1>6. ASSUME NEW c \in Schedulers, RunFails(c) \/ PublishFails(c) \/ AllPublished(c)
      PROVE  SuccessInv'
  <2>1. /\ UNCHANGED <<sources, runs>>
        /\ \E seen, n, end : Completes(c, seen, n, end)
    BY <1>6 DEF RunFails, PublishFails, AllPublished
  <2> QED
    BY <2>1, MovesKeepSuccess DEF Completes
<1>7. ASSUME NEW c \in Schedulers,
             \/ Stop(c) \/ Synced(c) \/ Tick(c) \/ EndTick(c) \/ CompleteFails(c)
             \/ \E config \in Configs : Start(c, config)
             \/ \E n \in Listings : Fetch(c, n)
      PROVE  SuccessInv'
  <2>1. UNCHANGED <<sources, runs>>
    BY <1>7 DEF Stop, Synced, Tick, EndTick, CompleteFails, Start, Fetch
  <2>2. ASSUME NEW to, Moves(c, to), to.step # "complete" PROVE SuccessInv'
    BY <2>1, <2>2, MovesKeepSuccess
  <2>3. CASE Stop(c)
    BY <2>2, <2>3 DEF Stop, Down
  <2>4. CASE Synced(c) \/ Tick(c) \/ EndTick(c) \/ CompleteFails(c)
    BY <2>2, <2>4 DEF Synced, Tick, EndTick, CompleteFails, NextSource
  <2>5. ASSUME NEW config \in Configs, Start(c, config) PROVE SuccessInv'
    BY <2>2, <2>5 DEF Start
  <2>6. ASSUME NEW n \in Listings, Fetch(c, n) PROVE SuccessInv'
    BY <2>2, <2>6 DEF Fetch
  <2> QED
    BY <1>7, <2>3, <2>4, <2>5, <2>6
<1>8. ASSUME NEW c \in Schedulers, CompleteSourceRun(c) PROVE SuccessInv'
  BY <1>8, CompleteKeepsSuccess
<1> QED
  BY <1>1, <1>2, <1>3, <1>4, <1>5, <1>6, <1>7, <1>8
     DEF Next, vars, Pass, EventArrives, Advance, Fail

\* With at most one scheduler, last_success_at is the end of the last successful run,
\* although completeRun takes the time before the transaction of CompleteSourceRun begins.
THEOREM OneSchedulerLastSuccess ==
    ASSUME \A c, d \in Schedulers : c = d
    PROVE  Spec => []LastSuccessIsTheLast
<1>1. Init => SuccessInv
  <2> SUFFICES ASSUME Init PROVE SuccessInv
    OBVIOUS
  <2>1. DOMAIN sources = {} /\ \A c \in Schedulers : scheduler[c].step = "down"
    BY DEF Init, Down
  <2> QED
    BY <2>1, InitInv DEF SuccessInv, EndsInOrder, LastSuccessIsTheLast
<1>2. SuccessInv /\ Inv' /\ [Next]_vars => SuccessInv'
  BY SuccessNext
<1>3. SuccessInv => LastSuccessIsTheLast
  BY DEF SuccessInv
<1> QED
  BY <1>1, <1>2, <1>3, Invariant, PTL DEF Spec

================================================================================
