------------------------------- MODULE JobPipeline ------------------------------
(***************************************************************************)
(* From a discovered job to an application: the description fetcher, the   *)
(* parser worker and the matching worker, each a durable consumer of what  *)
(* the one before publishes.  They share the rows of a job with each other *)
(* and with the dispatcher, which may save the job again at any moment,    *)
(* within the promise of SavedJobs.                                        *)
(* A message whose idempotency key the stream has seen within its          *)
(* deduplication window is dropped.                                        *)
(***************************************************************************)
EXTENDS JobMatching, SavedJobs

CONSTANTS
    Title, Location, \* Title[j], Location[j]: the words of the job's columns
    Texts,           \* descriptions that postings and pages may show
    Blank,           \* no description
    Profile,         \* the candidate's profile
    ReadyThreshold,  \* configured score of a job worth applying to
    Fetchers, Parsers, Matchers,    \* processes sharing the durable consumers
    Unparsed,        \* no row in job_requirements
    MaxDisturbances  \* bound: rediscoveries of a job and windows that run out

Pages == Texts \cup {Blank}
ParsedJobs == {Parse(Title[j], text) : j \in Jobs, text \in Pages}

NoScore == -1                   \* no row in job_matches or applications
Scores == 0 .. 100

ASSUME PipelineAssumption ==
    /\ Blank \notin Texts
    /\ Unparsed \notin ParsedJobs
    /\ ReadyThreshold \in Scores
    /\ MaxDisturbances \in Nat

VARIABLES
    text,        \* job_descriptions.raw_text
    status,      \* jobs.status
    parsed,      \* job_requirements
    match,       \* job_matches.score
    ready,       \* applications.match_score of a ready_to_apply application
    announced,   \* jobs whose applications.ready is in the stream
    copies,      \* copies[key]: messages with this key ever stored in the stream
    unacked,     \* messages not acknowledged
    window,      \* keys the stream has seen within the deduplication window
    muted,       \* history: keys whose last publication was dropped
    posted,      \* history: jobs whose text is that of a posting
    fetcher, parser, matcher,   \* what each process is doing
    disturbances \* counter of the bound

rows == <<text, status, parsed, match, ready>>
stream == <<copies, unacked, window, muted>>
vars == <<rows, announced, stream, posted, needy, owed, fetcher, parser, matcher, disturbances>>

--------------------------------------------------------------------------------
(* The stream.                                                             *)

Kinds == {"fetch", "fetched", "parsed"}
Keys == Kinds \X Jobs

\* "text" is the payload of a fetched description; the parsed job in the payload of
\* jobs.parsed is read by nobody.
Message == [kind : Kinds, job : Jobs, text : Pages, copy : Nat]

KeyOfFaulty(kind, j) == <<"fetch", j>>
\* The idempotency key: what happened, the source and the job, but not the content.
\* (The key of a fetched description has the URL, too: when a posting changes it,
\* the effect is that of a window that has run out.)
KeyOf(kind, j) == <<kind, j>>

\* js.Publish with the idempotency key as message id.
Publish(kind, j, t) ==
    LET key == KeyOf(kind, j) IN
    \/ /\ key \in window
       /\ muted' = muted \cup {<<kind, j>>}
       /\ UNCHANGED <<copies, unacked, window>>
    \/ /\ key \notin window
       /\ copies' = [copies EXCEPT ![key] = @ + 1]
       /\ unacked' = unacked \cup
                         {[kind |-> kind, job |-> j, text |-> t, copy |-> copies[key] + 1]}
       /\ window' = window \cup {key}
       /\ muted' = muted \ {<<kind, j>>}

Waiting(kind) == {msg \in unacked : msg.kind = kind}
Pending(kind, j) == \E msg \in Waiting(kind) : msg.job = j

--------------------------------------------------------------------------------
(* What a process holds of the message it works on: a fetcher the text of  *)
(* the page, a parser the parsed job, a matcher the score.                 *)

Idle == [step |-> "idle"]
FetcherStates ==
    {Idle} \cup [step : {"publish", "ack"}, msg : Message, page : Pages]
ParserStates ==
    {Idle} \cup [step : {"save", "publish", "ack"}, msg : Message, found : ParsedJobs]
MatcherStates ==
    {Idle} \cup [step : {"save", "application", "job", "ready", "ack"},
                 msg : Message, score : Scores]

Holds(process, step, j) == process.step = step /\ process.msg.job = j

\* The types of all variables.
TypeOK ==
    /\ text \in [Jobs -> Pages]
    /\ status \in [Jobs -> {"discovered", "description_fetched", "parsed", "ready_to_apply"}]
    /\ parsed \in [Jobs -> ParsedJobs \cup {Unparsed}]
    /\ match \in [Jobs -> Scores \cup {NoScore}]
    /\ ready \in [Jobs -> (ReadyThreshold .. 100) \cup {NoScore}]
    /\ announced \subseteq Jobs
    /\ copies \in [Keys -> 0 .. MaxDisturbances + 1]
    /\ unacked \subseteq Message
    /\ window \subseteq Keys
    /\ muted \subseteq Keys
    /\ posted \subseteq Jobs
    /\ needy \subseteq owed /\ owed \subseteq Jobs
    /\ fetcher \in [Fetchers -> FetcherStates]
    /\ parser \in [Parsers -> ParserStates]
    /\ matcher \in [Matchers -> MatcherStates]
    /\ disturbances \in 0 .. MaxDisturbances

\* The jobs have been saved, and nothing is published yet.
Init ==
    /\ text \in [Jobs -> Pages]
    /\ status = [j \in Jobs |-> "discovered"]
    /\ parsed = [j \in Jobs |-> Unparsed]
    /\ match = [j \in Jobs |-> NoScore]
    /\ ready = [j \in Jobs |-> NoScore]
    /\ announced = {}
    /\ copies = [key \in Keys |-> 0]
    /\ unacked = {}
    /\ window = {}
    /\ muted = {}
    /\ posted = Jobs
    /\ needy = {j \in Jobs : text[j] = Blank} /\ SavedInit
    /\ fetcher = [f \in Fetchers |-> Idle]
    /\ parser = [p \in Parsers |-> Idle]
    /\ matcher = [m \in Matchers |-> Idle]
    /\ disturbances = 0

--------------------------------------------------------------------------------
(* The dispatcher and time.                                                *)

SaveDiscoveredFaulty(j, t) ==
    /\ disturbances < MaxDisturbances
    /\ text' = [text EXCEPT ![j] = t]
    /\ posted' = posted \cup {j}
    /\ SaveText(j)
    /\ disturbances' = disturbances + 1
    /\ UNCHANGED <<status, parsed, match, ready, announced, stream, fetcher,
                   parser, matcher>>

\* SaveDiscoveredJob for a job that is known: the posting's text, often none at
\* all, replaces what a fetcher has stored; the status stays.
SaveDiscovered(j, t) ==
    /\ disturbances < MaxDisturbances
    /\ text' = [text EXCEPT ![j] = t]
    /\ posted' = posted \cup {j}
    /\ IF t = Blank THEN SaveBlank(j) ELSE SaveText(j)
    /\ disturbances' = disturbances + 1
    /\ UNCHANGED <<status, parsed, match, ready, announced, stream, fetcher,
                   parser, matcher>>

\* The dispatcher asks for the description of a job that came without one.  It may
\* stop before the acknowledgement and ask again.
RequestDescription(j) ==
    /\ Ask(j)
    /\ Publish("fetch", j, Blank)
    /\ UNCHANGED <<rows, announced, posted, fetcher, parser, matcher, disturbances>>

\* Messages about the job come back to the dispatchers and go.
DispatcherTurns(j) ==
    /\ Turn(j)
    /\ UNCHANGED <<rows, announced, stream, posted, fetcher, parser, matcher,
                   disturbances>>

\* The window of a key runs out.
Expire(key) ==
    /\ key \in window
    /\ disturbances < MaxDisturbances
    /\ window' = window \ {key}
    /\ disturbances' = disturbances + 1
    /\ UNCHANGED <<rows, announced, copies, unacked, muted, posted, needy, owed,
                   fetcher, parser, matcher>>

--------------------------------------------------------------------------------
(* The description fetcher: processMessage.  Every process takes any       *)
(* message of its subject that is not acknowledged: a new one, or one that *)
(* is delivered again after a Nak, a crash or an ack wait that ran out.    *)

FetcherMoves(f, to) == fetcher' = [fetcher EXCEPT ![f] = to]

\* The page shows some text or none, and UpdateFetchedDescription stores it with
\* the status in one transaction.  A page that cannot be had is nak'ed: nothing.
FetchDescription(f, msg, page) ==
    /\ fetcher[f] = Idle
    /\ msg \in Waiting("fetch")
    /\ text' = [text EXCEPT ![msg.job] = page]
    /\ status' = [status EXCEPT ![msg.job] = "description_fetched"]
    /\ posted' = posted \ {msg.job}
    /\ Fetched(msg.job)
    /\ FetcherMoves(f, [step |-> "publish", msg |-> msg, page |-> page])
    /\ UNCHANGED <<parsed, match, ready, announced, stream, parser, matcher,
                   disturbances>>

PublishFetched(f) ==
    /\ fetcher[f].step = "publish"
    /\ Publish("fetched", fetcher[f].msg.job, fetcher[f].page)
    /\ FetcherMoves(f, [fetcher[f] EXCEPT !.step = "ack"])
    /\ UNCHANGED <<rows, announced, posted, needy, owed, parser, matcher,
                   disturbances>>

AckFetch(f) ==
    /\ fetcher[f].step = "ack"
    /\ unacked' = unacked \ {fetcher[f].msg}
    /\ FetcherMoves(f, Idle)
    /\ UNCHANGED <<rows, announced, copies, window, muted, posted, needy, owed,
                   parser, matcher, disturbances>>

\* An error, after which the message is nak'ed, or a crash.
FetcherGivesUp(f) ==
    /\ fetcher[f] # Idle
    /\ FetcherMoves(f, Idle)
    /\ UNCHANGED <<rows, announced, stream, posted, needy, owed, parser, matcher,
                   disturbances>>

--------------------------------------------------------------------------------
(* The parser worker.                                                      *)

ParserMoves(p, to) == parser' = [parser EXCEPT ![p] = to]

\* GetJobForParsing and Parse: the text of the event or, if it has none, the text
\* that is stored now.
ParseText(p, msg) ==
    LET description == IF msg.text = Blank THEN text[msg.job] ELSE msg.text IN
    /\ parser[p] = Idle
    /\ msg \in Waiting("fetched")
    /\ ParserMoves(p, [step |-> "save", msg |-> msg,
                       found |-> Parse(Title[msg.job], description)])
    /\ UNCHANGED <<rows, announced, stream, posted, needy, owed, fetcher, matcher,
                   disturbances>>

SaveParsedJobFaulty(p) ==
    LET j == parser[p].msg.job IN
    /\ parser[p].step = "save"
    /\ parsed' = [parsed EXCEPT ![j] = parser[p].found]
    /\ status' = [status EXCEPT ![j] = "parsed"]
    /\ ParserMoves(p, [parser[p] EXCEPT !.step =
                           IF parsed[j] = Unparsed THEN "publish" ELSE "ack"])
    /\ UNCHANGED <<text, match, ready, announced, stream, posted, needy, owed,
                   fetcher, matcher, disturbances>>

\* SaveParsedJob, one transaction.
SaveParsedJob(p) ==
    LET j == parser[p].msg.job IN
    /\ parser[p].step = "save"
    /\ parsed' = [parsed EXCEPT ![j] = parser[p].found]
    /\ status' = [status EXCEPT ![j] = "parsed"]
    /\ ParserMoves(p, [parser[p] EXCEPT !.step = "publish"])
    /\ UNCHANGED <<text, match, ready, announced, stream, posted, needy, owed,
                   fetcher, matcher, disturbances>>

PublishParsed(p) ==
    /\ parser[p].step = "publish"
    /\ Publish("parsed", parser[p].msg.job, Blank)
    /\ ParserMoves(p, [parser[p] EXCEPT !.step = "ack"])
    /\ UNCHANGED <<rows, announced, posted, needy, owed, fetcher, matcher,
                   disturbances>>

AckFetched(p) ==
    /\ parser[p].step = "ack"
    /\ unacked' = unacked \ {parser[p].msg}
    /\ ParserMoves(p, Idle)
    /\ UNCHANGED <<rows, announced, copies, window, muted, posted, needy, owed,
                   fetcher, matcher, disturbances>>

ParserGivesUp(p) ==
    /\ parser[p] # Idle
    /\ ParserMoves(p, Idle)
    /\ UNCHANGED <<rows, announced, stream, posted, needy, owed, fetcher, matcher,
                   disturbances>>

--------------------------------------------------------------------------------
(* The matching worker.                                                    *)

MatcherMoves(m, to) == matcher' = [matcher EXCEPT ![m] = to]

\* GetCandidateProfile, GetJobForMatching and Score, on the rows as they are now.
ScoreJob(m, msg) ==
    LET j == msg.job IN
    /\ matcher[m] = Idle
    /\ msg \in Waiting("parsed")
    /\ parsed[j] # Unparsed
    /\ MatcherMoves(m, [step |-> "save", msg |-> msg,
                        score |-> Score(Profile, Title[j], Location[j], parsed[j])])
    /\ UNCHANGED <<rows, announced, stream, posted, needy, owed, fetcher, parser,
                   disturbances>>

SaveJobMatchFaulty(m) ==
    LET fits == matcher[m].score >= ReadyThreshold
        j == matcher[m].msg.job IN
    /\ matcher[m].step = "save"
    /\ match' = [match EXCEPT ![j] = matcher[m].score]
    /\ status' = [status EXCEPT ![j] = IF fits THEN "ready_to_apply" ELSE @]
    /\ MatcherMoves(m, [matcher[m] EXCEPT !.step = IF fits THEN "application" ELSE "ack"])
    /\ UNCHANGED <<text, parsed, ready, announced, stream, posted, needy, owed,
                   fetcher, parser, disturbances>>

\* SaveJobMatch, an upsert; jobs.matched, for the notification worker; and the
\* threshold.
SaveJobMatch(m) ==
    LET score == matcher[m].score IN
    /\ matcher[m].step = "save"
    /\ match' = [match EXCEPT ![matcher[m].msg.job] = score]
    /\ MatcherMoves(m, [matcher[m] EXCEPT !.step =
                            IF score >= ReadyThreshold THEN "application" ELSE "ack"])
    /\ UNCHANGED <<text, status, parsed, ready, announced, stream, posted, needy,
                   owed, fetcher, parser, disturbances>>

MarkApplicationFaulty(m) ==
    LET j == matcher[m].msg.job IN
    /\ matcher[m].step = "application"
    /\ ready' = [ready EXCEPT ![j] = matcher[m].score]
    /\ MatcherMoves(m, [matcher[m] EXCEPT !.step =
                            IF ready[j] = NoScore THEN "job" ELSE "ack"])
    /\ UNCHANGED <<text, status, parsed, match, announced, stream, posted, needy,
                   owed, fetcher, parser, disturbances>>

\* The first statement of MarkApplicationReady ...
MarkApplication(m) ==
    /\ matcher[m].step = "application"
    /\ ready' = [ready EXCEPT ![matcher[m].msg.job] = matcher[m].score]
    /\ MatcherMoves(m, [matcher[m] EXCEPT !.step = "job"])
    /\ UNCHANGED <<text, status, parsed, match, announced, stream, posted, needy,
                   owed, fetcher, parser, disturbances>>

\* ... and the second, outside any transaction.
MarkJob(m) ==
    /\ matcher[m].step = "job"
    /\ status' = [status EXCEPT ![matcher[m].msg.job] = "ready_to_apply"]
    /\ MatcherMoves(m, [matcher[m] EXCEPT !.step = "ready"])
    /\ UNCHANGED <<text, parsed, match, ready, announced, stream, posted, needy, owed,
                   fetcher, parser, disturbances>>

\* applications.ready, stored or dropped because it is stored already.
PublishReady(m) ==
    /\ matcher[m].step = "ready"
    /\ announced' = announced \cup {matcher[m].msg.job}
    /\ MatcherMoves(m, [matcher[m] EXCEPT !.step = "ack"])
    /\ UNCHANGED <<rows, stream, posted, needy, owed, fetcher, parser, disturbances>>

AckParsed(m) ==
    /\ matcher[m].step = "ack"
    /\ unacked' = unacked \ {matcher[m].msg}
    /\ MatcherMoves(m, Idle)
    /\ UNCHANGED <<rows, announced, copies, window, muted, posted, needy, owed,
                   fetcher, parser, disturbances>>

MatcherGivesUp(m) ==
    /\ matcher[m] # Idle
    /\ MatcherMoves(m, Idle)
    /\ UNCHANGED <<rows, announced, stream, posted, needy, owed, fetcher, parser,
                   disturbances>>

--------------------------------------------------------------------------------

Next ==
    \/ \E j \in Jobs, t \in Pages : SaveDiscovered(j, t)
    \/ \E j \in Jobs : RequestDescription(j) \/ DispatcherTurns(j)
    \/ \E key \in window : Expire(key)
    \/ \E f \in Fetchers :
          \/ \E msg \in unacked, page \in Pages : FetchDescription(f, msg, page)
          \/ PublishFetched(f)
          \/ AckFetch(f)
          \/ FetcherGivesUp(f)
    \/ \E p \in Parsers :
          \/ \E msg \in unacked : ParseText(p, msg)
          \/ SaveParsedJob(p)
          \/ PublishParsed(p)
          \/ AckFetched(p)
          \/ ParserGivesUp(p)
    \/ \E m \in Matchers :
          \/ \E msg \in unacked : ScoreJob(m, msg)
          \/ SaveJobMatch(m)
          \/ MarkApplication(m)
          \/ MarkJob(m)
          \/ PublishReady(m)
          \/ AckParsed(m)
          \/ MatcherGivesUp(m)

Spec == Init /\ [][Next]_vars

--------------------------------------------------------------------------------
(* Safety.                                                                 *)

\* A saved job is not lost on its way: until it has a match, some message about it
\* is still to be processed, whatever crashes, redeliveries and dropped duplicates
\* there were.  Only a job that has a description of a posting, and that nobody has
\* ever asked for, never starts on it.
NoJobIsLost ==
    \A j \in Jobs :
        \/ match[j] # NoScore
        \/ j \in owed
        \/ \E kind \in Kinds : Pending(kind, j)
        \/ copies[<<"fetch", j>>] = 0 /\ text[j] # Blank

\* A posting leaves a job blank for good, after its text had been fetched perhaps,
\* only when the deduplication window has dropped the request for it.
BlankTextsAreRequested ==
    \A j \in posted :
        \/ text[j] # Blank
        \/ j \in needy /\ j \in owed
        \/ Pending("fetch", j)
        \/ <<"fetch", j>> \in muted

ScoreNow(j) == Score(Profile, Title[j], Location[j], parsed[j])

\* The match of a job is the score of its requirements, or a message will make it so,
\* or the event that would have was dropped within the deduplication window: one
\* matcher does not overwrite a newer match by the score of requirements it read
\* before they changed.
MatchesFollowRequirements ==
    \A j \in Jobs :
        \/ parsed[j] = Unparsed
        \/ match[j] = ScoreNow(j)
        \/ Pending("fetched", j) \/ Pending("parsed", j)
        \/ \E p \in Parsers : Holds(parser[p], "publish", j)
        \/ <<"parsed", j>> \in muted

\* An application that became ready is announced, so that its materials get
\* drafted, or the message that made it ready is processed again; except when the
\* job scores below the threshold by then.
ReadyIsAnnounced ==
    \A j \in Jobs :
        ready[j] # NoScore =>
            \/ j \in announced
            \/ Pending("parsed", j)
            \/ match[j] < ReadyThreshold

\* The status of a job, which three processes overwrite without conditions, never
\* claims a row that is not there.
StatusHasItsRow ==
    \A j \in Jobs :
        /\ status[j] = "parsed" => parsed[j] # Unparsed
        /\ status[j] = "ready_to_apply" => ready[j] # NoScore

================================================================================
