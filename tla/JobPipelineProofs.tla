---------------------------- MODULE JobPipelineProofs ----------------------------
(***************************************************************************)
(* Proofs about JobPipeline: no job is lost and no status claims a row     *)
(* that is not there, for any number of jobs, texts and processes; what    *)
(* holds of matches and announcements with one matcher; and the bounds of  *)
(* the score.                                                              *)
(***************************************************************************)
EXTENDS JobPipeline, FiniteSetTheorems, TLAPS

--------------------------------------------------------------------------------
(* The score.                                                              *)

\* The parser finds finitely many skills.
LEMMA SkillsAreFinite == ASSUME NEW words PROVE IsFiniteSet(ExtractSkills(words))
<1> DEFINE S == words \cap Vocabulary
           T == ExtractSkills(words)
           f == [s \in S |-> CanonicalSkill[s]]
<1>1. IsFiniteSet(S)
  <2>1. S \in SUBSET Vocabulary
    OBVIOUS
  <2> QED
    BY <2>1, MatchingAssumption, FS_Subset
<1>2. f \in Surjection(S, T)
  BY DEF Surjection, ExtractSkills
<1> HIDE DEF S, T, f
<1>3. IsFiniteSet(T)
  BY <1>1, <1>2, FS_Surjection
<1> QED
  BY <1>3 DEF T

\* Known skills earn 55 points at most.
LEMMA SkillPointsBounds ==
    ASSUME NEW m \in Nat, NEW n \in Nat, n > 0, m <= n
    PROVE  SkillPoints(m, n) \in 0 .. 55
<1>1. (55 * m) \div n \in Nat
  OBVIOUS
<1>2. (55 * m) \div n <= 55
  OBVIOUS
<1>3. 11 * m = 3 * n => (55 * m) \div n = 15
  OBVIOUS
<1>4. 11 * m = 6 * n => (55 * m) \div n = 30
  OBVIOUS
<1> QED
  BY <1>1, <1>2, <1>3, <1>4 DEF SkillPoints

\* So does what the parser has found in a job.
LEMMA ParsedSkillsAreFinite ==
    ASSUME NEW job \in ParsedJobs
    PROVE  IsFiniteSet(job.skills)
<1>1. PICK j \in Jobs, page \in Pages : job = Parse(Title[j], page)
  BY DEF ParsedJobs
<1>2. job.skills = ExtractSkills(page.words)
  BY <1>1 DEF Parse
<1> QED
  BY <1>2, SkillsAreFinite

LEMMA SkillScoreBounds ==
    ASSUME NEW known, NEW required, IsFiniteSet(required)
    PROVE  SkillScore(known, required) \in 0 .. 55
<1>1. CASE required = {}
  BY <1>1 DEF SkillScore
<1>2. CASE required # {}
  <2>1. known \cap required \in SUBSET required
    OBVIOUS
  <2>2. /\ Cardinality(required) \in Nat
        /\ Cardinality(known \cap required) \in Nat
        /\ Cardinality(known \cap required) <= Cardinality(required)
    BY <2>1, FS_Subset, FS_CardinalityType
  <2>3. Cardinality(required) > 0
    BY <1>2, <2>2, FS_EmptySet
  <2> QED
    BY <1>2, <2>2, <2>3, SkillPointsBounds DEF SkillScore
<1> QED
  BY <1>1, <1>2

\* The score of a job that the parser has parsed is between 0 and 100, whatever the
\* profile says: the matcher's cap is never needed.
THEOREM ScoreBounds ==
    ASSUME NEW profile, NEW title, NEW location, NEW job \in ParsedJobs
    PROVE  Score(profile, title, location, job) \in 0 .. 100
<1>1. SkillScore(profile.skills, job.skills) \in 0 .. 55
  BY ParsedSkillsAreFinite, SkillScoreBounds
<1>2. \A fits : Bonus(fits, 15) \in {0, 15} /\ Bonus(fits, 10) \in {0, 10}
  BY DEF Bonus
<1> QED
  BY <1>1, <1>2 DEF Score

\* Knowing more of the skills never earns less, although 3/11 and 6/11 of them earn
\* a point less than their share: fewer earn at most that.
LEMMA SkillPointsGrow ==
    ASSUME NEW m \in Nat, NEW k \in Nat, NEW n \in Nat, n > 0, m <= k, k <= n
    PROVE  SkillPoints(m, n) <= SkillPoints(k, n)
<1> DEFINE Q(i) == (55 * i) \div n
<1>1. Q(m) \in Nat /\ Q(k) \in Nat
  OBVIOUS
<1>2. Q(m) <= Q(k)
  OBVIOUS
<1>3. SkillPoints(m, n) \in Int /\ SkillPoints(m, n) <= Q(m)
  BY <1>1 DEF SkillPoints
<1>4. ASSUME m < k, NEW p \in {15, 30}, 55 * k = p * n
      PROVE  Q(k) = p /\ Q(m) <= p - 1
  <2>1. CASE p = 15
    BY <1>4, <2>1
  <2>2. CASE p = 30
    BY <1>4, <2>2
  <2> QED
    BY <2>1, <2>2
<1>5. CASE m < k /\ 11 * k = 3 * n
  <2>1. 55 * k = 15 * n
    BY <1>5
  <2> QED
    BY <1>1, <1>3, <1>4, <1>5, <2>1 DEF SkillPoints
<1>6. CASE m < k /\ 11 * k = 6 * n
  <2>1. 55 * k = 30 * n
    BY <1>6
  <2> QED
    BY <1>1, <1>3, <1>4, <1>6, <2>1 DEF SkillPoints
<1>7. CASE m < k /\ 11 * k \notin {3 * n, 6 * n}
  <2>1. SkillPoints(k, n) = Q(k)
    BY <1>7 DEF SkillPoints
  <2> HIDE DEF Q
  <2> QED
    BY <1>1, <1>2, <1>3, <2>1
<1>8. CASE m = k
  BY <1>1, <1>8 DEF SkillPoints
<1> QED
  BY <1>5, <1>6, <1>7, <1>8

\* A profile that is given more skills, titles or locations never scores a job lower
\* than before: an edit that only adds to it cannot take a job off the ready list.
THEOREM ScoreIsMonotone ==
    ASSUME NEW before, NEW after, NEW title, NEW location, NEW job \in ParsedJobs,
           before.skills \subseteq after.skills,
           before.titles \subseteq after.titles,
           before.locations \subseteq after.locations,
           before.remote = after.remote,
           before.minSalary = after.minSalary
    PROVE  Score(before, title, location, job) <= Score(after, title, location, job)
<1> DEFINE required == job.skills
           m == Cardinality(before.skills \cap required)
           k == Cardinality(after.skills \cap required)
           n == Cardinality(required)
<1>1. IsFiniteSet(required)
  BY ParsedSkillsAreFinite
<1>2. SkillScore(before.skills, required) <= SkillScore(after.skills, required)
  <2>1. CASE required = {}
    BY <2>1 DEF SkillScore
  <2>2. CASE required # {}
    <3>1. IsFiniteSet(after.skills \cap required)
      <4>1. after.skills \cap required \in SUBSET required
        OBVIOUS
      <4> QED
        BY <1>1, <4>1, FS_Subset
    <3>2. n \in Nat /\ k \in Nat /\ k <= n
      <4>1. after.skills \cap required \in SUBSET required
        OBVIOUS
      <4> QED
        BY <1>1, <3>1, <4>1, FS_Subset, FS_CardinalityType
    <3>3. m \in Nat /\ m <= k
      <4>1. before.skills \cap required \in SUBSET (after.skills \cap required)
        OBVIOUS
      <4> QED
        BY <3>1, <4>1, FS_Subset, FS_CardinalityType
    <3>4. n > 0
      BY <1>1, <2>2, <3>2, FS_EmptySet
    <3>5. SkillPoints(m, n) <= SkillPoints(k, n)
      <4> HIDE DEF m, k, n
      <4> QED
        BY <3>2, <3>3, <3>4, SkillPointsGrow
    <3> QED
      BY <2>2, <3>5 DEF SkillScore
  <2> QED
    BY <2>1, <2>2
<1>3. /\ SkillScore(before.skills, required) \in Int
      /\ SkillScore(after.skills, required) \in Int
  BY <1>1, SkillScoreBounds
<1>4. /\ TitleMatches(before.titles, title) => TitleMatches(after.titles, title)
      /\ LocationMatches(before.locations, location)
            => LocationMatches(after.locations, location)
  BY DEF TitleMatches, LocationMatches
<1>5. ASSUME NEW fits, NEW points \in Nat, NEW fit, fits => fit
      PROVE  /\ Bonus(fits, points) \in Int /\ Bonus(fit, points) \in Int
             /\ Bonus(fits, points) <= Bonus(fit, points)
  BY <1>5 DEF Bonus
<1>6. /\ Bonus(TitleMatches(before.titles, title), 15)
            <= Bonus(TitleMatches(after.titles, title), 15)
      /\ Bonus(LocationMatches(before.locations, location), 10)
            <= Bonus(LocationMatches(after.locations, location), 10)
  BY <1>4, <1>5
<1>7. \A fits : Bonus(fits, 15) \in Int /\ Bonus(fits, 10) \in Int
  BY DEF Bonus
<1> QED
  BY <1>2, <1>3, <1>6, <1>7 DEF Score

--------------------------------------------------------------------------------
(* The invariant for any number of processes.                              *)

Statuses == {"discovered", "description_fetched", "parsed", "ready_to_apply"}

TableTypes ==
    /\ text \in [Jobs -> Pages]
    /\ status \in [Jobs -> Statuses]
    /\ parsed \in [Jobs -> ParsedJobs \cup {Unparsed}]
    /\ match \in [Jobs -> Scores \cup {NoScore}]
    /\ ready \in [Jobs -> (ReadyThreshold .. 100) \cup {NoScore}]
    /\ announced \subseteq Jobs
    /\ posted \subseteq Jobs
    /\ needy \subseteq owed /\ owed \subseteq Jobs
    /\ disturbances \in 0 .. MaxDisturbances

StreamTypes ==
    /\ copies \in [Keys -> Nat]
    /\ unacked \subseteq Message
    /\ window \subseteq Keys
    /\ muted \subseteq Keys

ProcessTypes ==
    /\ fetcher \in [Fetchers -> FetcherStates]
    /\ parser \in [Parsers -> ParserStates]
    /\ matcher \in [Matchers -> MatcherStates]

Types == TableTypes /\ StreamTypes /\ ProcessTypes

Stored(kind, j) == copies[<<kind, j>>] > 0

\* A message has a copy number that has been given out.
Numbered(msg) == 0 < msg.copy /\ msg.copy <= copies[<<msg.kind, msg.job>>]

\* A key is stored again only after its window, and a window is one of the disturbances.
CopiesAreCounted ==
    /\ \A key \in Keys : copies[key] <= disturbances + IF key \in window THEN 1 ELSE 0
    /\ \A key \in window : copies[key] > 0
    /\ \A msg \in unacked : Numbered(msg)

\* What a process does when it has a message: at its acknowledgement, the next message
\* about the job has been stored, or the match has been.
FetcherOK(p) ==
    p.step # "idle" =>
        /\ p.msg.kind = "fetch" /\ Numbered(p.msg)
        /\ p.step = "ack" => Stored("fetched", p.msg.job)

ParserOK(p) ==
    p.step # "idle" =>
        /\ p.msg.kind = "fetched" /\ Numbered(p.msg)
        /\ p.step = "ack" => Stored("parsed", p.msg.job)

MatcherOK(p) ==
    p.step # "idle" =>
        /\ p.msg.kind = "parsed" /\ Numbered(p.msg)
        /\ p.step # "save" => match[p.msg.job] # NoScore
        /\ p.step = "application" => p.score >= ReadyThreshold
        /\ p.step = "job" => ready[p.msg.job] # NoScore

ProcessesOK ==
    /\ \A f \in Fetchers : FetcherOK(fetcher[f])
    /\ \A p \in Parsers : ParserOK(parser[p])
    /\ \A m \in Matchers : MatcherOK(matcher[m])

\* A job without description is handed on from message to message, until it has a
\* match.
HandedOn(j) ==
    /\ j \in needy \/ text[j] # Blank \/ Stored("fetch", j)
    /\ Stored("fetch", j) => Pending("fetch", j) \/ Stored("fetched", j)
    /\ Stored("fetched", j) => Pending("fetched", j) \/ Stored("parsed", j)
    /\ Stored("parsed", j) => Pending("parsed", j) \/ match[j] # NoScore

JobsAreHandedOn == \A j \in Jobs : HandedOn(j)

\* A request that no fetcher has taken.
Untaken(j) ==
    \E msg \in Waiting("fetch") :
        /\ msg.job = j
        /\ \A f \in Fetchers : fetcher[f].step # "idle" => fetcher[f].msg # msg

BlankIsRequested(j) ==
    \/ text[j] # Blank
    \/ j \in needy
    \/ Untaken(j)
    \/ <<"fetch", j>> \in muted

BlanksAreRequested == \A j \in posted : BlankIsRequested(j)

Inv ==
    /\ Types
    /\ CopiesAreCounted
    /\ ProcessesOK
    /\ JobsAreHandedOn
    /\ BlanksAreRequested
    /\ StatusHasItsRow

--------------------------------------------------------------------------------
(* Types and messages.                                                     *)

\* A message has a key, and the parts of a process that has one are known.
LEMMA StateTypes ==
    ASSUME Types
    PROVE  /\ \A kind \in Kinds, j \in Jobs : <<kind, j>> \in Keys /\ KeyOf(kind, j) = <<kind, j>>
           /\ {"fetch", "fetched", "parsed"} = Kinds
           /\ \A f \in Fetchers : LET p == fetcher[f] IN
                 /\ p.step = "idle" <=> p = Idle
                 /\ p.step # "idle" =>
                       p \in [step : {"publish", "ack"}, msg : Message, page : Pages]
           /\ \A q \in Parsers : LET p == parser[q] IN
                 /\ p.step = "idle" <=> p = Idle
                 /\ p.step # "idle" =>
                       p \in [step : {"save", "publish", "ack"}, msg : Message, found : ParsedJobs]
           /\ \A m \in Matchers : LET p == matcher[m] IN
                 /\ p.step = "idle" <=> p = Idle
                 /\ p.step # "idle" =>
                       p \in [step : {"save", "application", "job", "ready", "ack"},
                              msg : Message, score : Scores]
<1>1. /\ \A kind \in Kinds, j \in Jobs : <<kind, j>> \in Keys /\ KeyOf(kind, j) = <<kind, j>>
      /\ {"fetch", "fetched", "parsed"} = Kinds
  BY DEF Keys, KeyOf, Kinds
<1>2. ASSUME NEW f \in Fetchers
      PROVE  LET p == fetcher[f] IN
             /\ p.step = "idle" <=> p = Idle
             /\ p.step # "idle" =>
                   p \in [step : {"publish", "ack"}, msg : Message, page : Pages]
  BY DEF Types, ProcessTypes, FetcherStates, Idle
<1>3. ASSUME NEW q \in Parsers
      PROVE  LET p == parser[q] IN
             /\ p.step = "idle" <=> p = Idle
             /\ p.step # "idle" =>
                   p \in [step : {"save", "publish", "ack"}, msg : Message, found : ParsedJobs]
  BY DEF Types, ProcessTypes, ParserStates, Idle
<1>4. ASSUME NEW m \in Matchers
      PROVE  LET p == matcher[m] IN
             /\ p.step = "idle" <=> p = Idle
             /\ p.step # "idle" =>
                   p \in [step : {"save", "application", "job", "ready", "ack"},
                          msg : Message, score : Scores]
  BY DEF Types, ProcessTypes, MatcherStates, Idle
<1> QED
  BY <1>1, <1>2, <1>3, <1>4

\* Numbers go up, and neither a match nor a ready application goes away: what a process
\* has done stays done.
Onward ==
    /\ \A key \in Keys : copies'[key] >= copies[key]
    /\ \A j \in Jobs : match[j] # NoScore => match'[j] # NoScore
    /\ \A j \in Jobs : ready[j] # NoScore => ready'[j] # NoScore

LEMMA MessagesStay ==
    ASSUME Types, Types', Onward, NEW msg \in Message
    PROVE  /\ Numbered(msg) => Numbered(msg)'
           /\ \A kind \in Kinds : Stored(kind, msg.job) => Stored(kind, msg.job)'
<1>1. msg.kind \in Kinds /\ msg.job \in Jobs /\ msg.copy \in Nat
  BY DEF Message
<1>2. \A kind \in Kinds : /\ copies[<<kind, msg.job>>] \in Nat /\ copies'[<<kind, msg.job>>] \in Nat
                          /\ copies'[<<kind, msg.job>>] >= copies[<<kind, msg.job>>]
  BY <1>1 DEF Types, StreamTypes, Keys, Onward
<1> QED
  BY <1>1, <1>2 DEF Numbered, Stored

LEMMA ProcessStays ==
    ASSUME Types, Types', Onward
    PROVE  /\ \A p \in FetcherStates : FetcherOK(p) => FetcherOK(p)'
           /\ \A p \in ParserStates : ParserOK(p) => ParserOK(p)'
           /\ \A p \in MatcherStates : MatcherOK(p) => MatcherOK(p)'
<1>1. {"fetched", "parsed"} \subseteq Kinds
  BY DEF Kinds
<1>2. ASSUME NEW p \in FetcherStates, FetcherOK(p) PROVE FetcherOK(p)'
  <2>1. p.step # "idle" => p.msg \in Message
    BY DEF FetcherStates, Idle
  <2> QED
    BY <1>1, <1>2, <2>1, MessagesStay DEF FetcherOK
<1>3. ASSUME NEW p \in ParserStates, ParserOK(p) PROVE ParserOK(p)'
  <2>1. p.step # "idle" => p.msg \in Message
    BY DEF ParserStates, Idle
  <2> QED
    BY <1>1, <1>3, <2>1, MessagesStay DEF ParserOK
<1>4. ASSUME NEW p \in MatcherStates, MatcherOK(p) PROVE MatcherOK(p)'
  <2>1. p.step # "idle" => p.msg \in Message /\ p.msg.job \in Jobs
    BY DEF MatcherStates, Idle, Message
  <2> QED
    BY <1>4, <2>1, MessagesStay DEF MatcherOK, Onward
<1> QED
  BY <1>2, <1>3, <1>4

\* A process moves, the others stay.
LEMMA FetcherMove ==
    ASSUME Inv, Types', Onward, NEW f \in Fetchers, NEW to, FetcherMoves(f, to),
           FetcherOK(to)', UNCHANGED <<parser, matcher>>
    PROVE  ProcessesOK'
<1>1. /\ \A g \in Fetchers : fetcher'[g] = (IF g = f THEN to ELSE fetcher[g])
      /\ \A g \in Fetchers : fetcher[g] \in FetcherStates
      /\ \A g \in Parsers : parser[g] \in ParserStates
      /\ \A g \in Matchers : matcher[g] \in MatcherStates
  BY DEF FetcherMoves, Inv, Types, ProcessTypes
<1>2. ASSUME NEW g \in Fetchers PROVE FetcherOK(fetcher[g])'
  <2>1. PICK p : p = fetcher[g]
    OBVIOUS
  <2>2. CASE g = f
    BY <1>1, <2>2 DEF FetcherOK
  <2>3. CASE g # f
    <3>1. p \in FetcherStates /\ FetcherOK(p) /\ fetcher'[g] = p
      BY <1>1, <2>1, <2>3 DEF Inv, ProcessesOK
    <3>2. FetcherOK(p)'
      BY <3>1, ProcessStays DEF Inv
    <3> QED
      BY <3>1, <3>2 DEF FetcherOK
  <2> QED
    BY <2>2, <2>3
<1>3. ASSUME NEW g \in Parsers PROVE ParserOK(parser[g])'
  <2>1. PICK p : p = parser[g]
    OBVIOUS
  <2>2. ParserOK(p)'
    BY <1>1, <2>1, ProcessStays DEF Inv, ProcessesOK
  <2> QED
    BY <2>1, <2>2 DEF ParserOK
<1>4. ASSUME NEW g \in Matchers PROVE MatcherOK(matcher[g])'
  <2>1. PICK p : p = matcher[g]
    OBVIOUS
  <2>2. MatcherOK(p)'
    BY <1>1, <2>1, ProcessStays DEF Inv, ProcessesOK
  <2> QED
    BY <2>1, <2>2 DEF MatcherOK
<1> QED
  BY <1>2, <1>3, <1>4 DEF ProcessesOK

LEMMA ParserMove ==
    ASSUME Inv, Types', Onward, NEW f \in Parsers, NEW to, ParserMoves(f, to),
           ParserOK(to)', UNCHANGED <<fetcher, matcher>>
    PROVE  ProcessesOK'
<1>1. /\ \A g \in Parsers : parser'[g] = (IF g = f THEN to ELSE parser[g])
      /\ \A g \in Fetchers : fetcher[g] \in FetcherStates
      /\ \A g \in Parsers : parser[g] \in ParserStates
      /\ \A g \in Matchers : matcher[g] \in MatcherStates
  BY DEF ParserMoves, Inv, Types, ProcessTypes
<1>2. ASSUME NEW g \in Parsers PROVE ParserOK(parser[g])'
  <2>1. PICK p : p = parser[g]
    OBVIOUS
  <2>2. CASE g = f
    BY <1>1, <2>2 DEF ParserOK
  <2>3. CASE g # f
    <3>1. p \in ParserStates /\ ParserOK(p) /\ parser'[g] = p
      BY <1>1, <2>1, <2>3 DEF Inv, ProcessesOK
    <3>2. ParserOK(p)'
      BY <3>1, ProcessStays DEF Inv
    <3> QED
      BY <3>1, <3>2 DEF ParserOK
  <2> QED
    BY <2>2, <2>3
<1>3. ASSUME NEW g \in Fetchers PROVE FetcherOK(fetcher[g])'
  <2>1. PICK p : p = fetcher[g]
    OBVIOUS
  <2>2. FetcherOK(p)'
    BY <1>1, <2>1, ProcessStays DEF Inv, ProcessesOK
  <2> QED
    BY <2>1, <2>2 DEF FetcherOK
<1>4. ASSUME NEW g \in Matchers PROVE MatcherOK(matcher[g])'
  <2>1. PICK p : p = matcher[g]
    OBVIOUS
  <2>2. MatcherOK(p)'
    BY <1>1, <2>1, ProcessStays DEF Inv, ProcessesOK
  <2> QED
    BY <2>1, <2>2 DEF MatcherOK
<1> QED
  BY <1>2, <1>3, <1>4 DEF ProcessesOK

LEMMA MatcherMove ==
    ASSUME Inv, Types', Onward, NEW f \in Matchers, NEW to, MatcherMoves(f, to),
           MatcherOK(to)', UNCHANGED <<fetcher, parser>>
    PROVE  ProcessesOK'
<1>1. /\ \A g \in Matchers : matcher'[g] = (IF g = f THEN to ELSE matcher[g])
      /\ \A g \in Fetchers : fetcher[g] \in FetcherStates
      /\ \A g \in Parsers : parser[g] \in ParserStates
      /\ \A g \in Matchers : matcher[g] \in MatcherStates
  BY DEF MatcherMoves, Inv, Types, ProcessTypes
<1>2. ASSUME NEW g \in Matchers PROVE MatcherOK(matcher[g])'
  <2>1. PICK p : p = matcher[g]
    OBVIOUS
  <2>2. CASE g = f
    BY <1>1, <2>2 DEF MatcherOK
  <2>3. CASE g # f
    <3>1. p \in MatcherStates /\ MatcherOK(p) /\ matcher'[g] = p
      BY <1>1, <2>1, <2>3 DEF Inv, ProcessesOK
    <3>2. MatcherOK(p)'
      BY <3>1, ProcessStays DEF Inv
    <3> QED
      BY <3>1, <3>2 DEF MatcherOK
  <2> QED
    BY <2>2, <2>3
<1>3. ASSUME NEW g \in Fetchers PROVE FetcherOK(fetcher[g])'
  <2>1. PICK p : p = fetcher[g]
    OBVIOUS
  <2>2. FetcherOK(p)'
    BY <1>1, <2>1, ProcessStays DEF Inv, ProcessesOK
  <2> QED
    BY <2>1, <2>2 DEF FetcherOK
<1>4. ASSUME NEW g \in Parsers PROVE ParserOK(parser[g])'
  <2>1. PICK p : p = parser[g]
    OBVIOUS
  <2>2. ParserOK(p)'
    BY <1>1, <2>1, ProcessStays DEF Inv, ProcessesOK
  <2> QED
    BY <2>1, <2>2 DEF ParserOK
<1> QED
  BY <1>2, <1>3, <1>4 DEF ProcessesOK

--------------------------------------------------------------------------------
(* The stream.                                                             *)

\* A publication is dropped, and the key is muted; or it stores a message that no
\* process has.
LEMMA Publication ==
    ASSUME Types, CopiesAreCounted, NEW kind \in Kinds, NEW j \in Jobs, NEW page \in Pages,
           Publish(kind, j, page), UNCHANGED disturbances
    PROVE  /\ StreamTypes' /\ CopiesAreCounted' /\ Stored(kind, j)'
           /\ unacked \subseteq unacked'
           /\ \A key \in Keys : /\ copies'[key] >= copies[key]
                                /\ key # <<kind, j>> => copies'[key] = copies[key]
                                /\ key # <<kind, j>> => (key \in muted' <=> key \in muted)
           /\ \/ copies' = copies /\ unacked' = unacked /\ <<kind, j>> \in muted'
              \/ \E new \in Message : /\ new.kind = kind /\ new.job = j /\ ~ Numbered(new)
                                      /\ unacked' = unacked \cup {new}
<1>0. PICK n : n = copies[<<kind, j>>] + 1
  OBVIOUS
<1> DEFINE key == <<kind, j>>
           new == [kind |-> kind, job |-> j, text |-> page, copy |-> n]
<1>1. key \in Keys /\ KeyOf(kind, j) = key
  BY StateTypes
<1>2. copies[key] \in Nat /\ disturbances \in Nat
  BY <1>1 DEF Types, StreamTypes, TableTypes
<1>3. new \in Message
  BY <1>0, <1>2 DEF Message
<1>4. CASE key \in window /\ muted' = muted \cup {key} /\ UNCHANGED <<copies, unacked, window>>
  <2>1. StreamTypes'
    BY <1>1, <1>4 DEF Types, StreamTypes
  <2>2. CopiesAreCounted' /\ Stored(kind, j)'
    BY <1>4 DEF CopiesAreCounted, Stored, Numbered
  <2>3. \A k \in Keys : copies[k] >= copies[k]
    BY DEF Types, StreamTypes
  <2> QED
    BY <1>4, <2>1, <2>2, <2>3
<1>5. CASE /\ key \notin window /\ copies' = [copies EXCEPT ![key] = n]
           /\ unacked' = unacked \cup {new} /\ window' = window \cup {key}
           /\ muted' = muted \ {key}
  <2>1. /\ copies' \in [Keys -> Nat] /\ copies'[key] = n
        /\ \A k \in Keys : k # key => copies'[k] = copies[k]
        /\ \A k \in Keys : copies[k] \in Nat
    BY <1>0, <1>1, <1>2, <1>5 DEF Types, StreamTypes
  <2>2. StreamTypes'
    BY <1>1, <1>3, <1>5, <2>1 DEF Types, StreamTypes
  <2>3. copies[key] <= disturbances
    BY <1>1, <1>2, <1>5 DEF CopiesAreCounted
  <2>4. \A k \in Keys : copies'[k] >= copies[k]
    BY <1>0, <1>2, <2>1
  <2>5. ASSUME NEW msg \in unacked PROVE Numbered(msg)'
    <3>1. msg.kind \in Kinds /\ msg.job \in Jobs /\ msg.copy \in Nat /\ Numbered(msg)
      BY DEF Types, StreamTypes, Message, CopiesAreCounted
    <3>2. <<msg.kind, msg.job>> \in Keys
      BY <3>1 DEF Keys
    <3>3. PICK k \in Keys : k = <<msg.kind, msg.job>>
      BY <3>2
    <3>4. copies'[k] \in Nat /\ copies[k] \in Nat /\ copies'[k] >= copies[k]
      BY <2>1, <2>4
    <3> QED
      BY <3>1, <3>3, <3>4 DEF Numbered
  <2>6. Numbered(new)' /\ ~ Numbered(new)
    BY <1>0, <1>2, <2>1 DEF Numbered
  <2> HIDE DEF new
  <2>7. CopiesAreCounted'
    <3>1. \A k \in Keys : copies'[k] <= disturbances' + IF k \in window' THEN 1 ELSE 0
      BY <1>0, <1>2, <1>5, <2>1, <2>3 DEF CopiesAreCounted
    <3>2. \A k \in window' : copies'[k] > 0
      BY <1>0, <1>2, <1>5, <2>1 DEF CopiesAreCounted, Types, StreamTypes
    <3>3. \A msg \in unacked' : Numbered(msg)'
      BY <1>5, <2>5, <2>6
    <3> QED
      BY <3>1, <3>2, <3>3 DEF CopiesAreCounted, Numbered
  <2>8. Stored(kind, j)'
    BY <1>0, <1>2, <2>1 DEF Stored
  <2>9. new.kind = kind /\ new.job = j
    BY DEF new
  <2> QED
    BY <1>1, <1>3, <1>5, <2>1, <2>2, <2>4, <2>6, <2>7, <2>8, <2>9
<1> HIDE DEF key, new
<1> QED
  BY <1>0, <1>1, <1>4, <1>5 DEF Publish, key, new

\* A publication hands its job on.
LEMMA PublicationHandsOn ==
    ASSUME Inv, NEW kind \in Kinds, NEW j \in Jobs, NEW page \in Pages,
           Publish(kind, j, page), UNCHANGED <<disturbances, match, text>>,
           needy' = needy \/ (kind = "fetch" /\ needy' = needy \ {j})
    PROVE  JobsAreHandedOn'
<1> SUFFICES ASSUME NEW i \in Jobs PROVE HandedOn(i)'
  BY DEF JobsAreHandedOn
<1>1. /\ unacked \subseteq unacked' /\ Stored(kind, j)'
      /\ \A key \in Keys : key # <<kind, j>> => copies'[key] = copies[key]
      /\ \/ copies' = copies
         \/ \E new \in Message : new.kind = kind /\ new.job = j /\ new \in unacked'
  <2>1. /\ unacked \subseteq unacked' /\ Stored(kind, j)'
        /\ \A key \in Keys : key # <<kind, j>> => copies'[key] = copies[key]
    BY Publication DEF Inv, Stored
  <2>2. \/ copies' = copies /\ unacked' = unacked /\ <<kind, j>> \in muted'
        \/ \E new \in Message : /\ new.kind = kind /\ new.job = j /\ ~ Numbered(new)
                                /\ unacked' = unacked \cup {new}
    BY Publication DEF Inv
  <2>3. CASE \E new \in Message : /\ new.kind = kind /\ new.job = j /\ ~ Numbered(new)
                                   /\ unacked' = unacked \cup {new}
    <3>1. PICK new \in Message : /\ new.kind = kind /\ new.job = j
                                 /\ unacked' = unacked \cup {new}
      BY <2>3
    <3>2. new \in unacked'
      BY <3>1
    <3> QED
      BY <2>1, <3>1, <3>2
  <2> QED
    BY <2>1, <2>2, <2>3
<1>2. ASSUME NEW k \in Kinds, k # kind \/ i # j
      PROVE  Stored(k, i)' <=> Stored(k, i)
  <2>1. <<k, i>> \in Keys /\ <<k, i>> # <<kind, j>>
    BY <1>2 DEF Keys
  <2>2. copies'[<<k, i>>] = copies[<<k, i>>]
    BY <1>1, <2>1
  <2> QED
    BY <2>2 DEF Stored
<1>3. \A k \in Kinds : Pending(k, i) => Pending(k, i)'
  BY <1>1 DEF Pending, Waiting
<1>4. Pending(kind, j)' \/ (Stored(kind, j)' <=> Stored(kind, j))
  BY <1>1 DEF Pending, Waiting, Stored
<1>5. HandedOn(i) /\ {"fetch", "fetched", "parsed"} = Kinds
  BY StateTypes DEF Inv, JobsAreHandedOn
<1>6. i \in needy' \/ text'[i] # Blank \/ Stored("fetch", i)'
  <2>1. CASE i = j /\ kind = "fetch"
    BY <1>1, <2>1
  <2>2. CASE ~ (i = j /\ kind = "fetch")
    BY <1>2, <1>5, <2>2 DEF HandedOn
  <2> QED
    BY <2>1, <2>2
<1>7. Stored("fetch", i)' => Pending("fetch", i)' \/ Stored("fetched", i)'
  <2>1. CASE i = j
    BY <1>1, <1>2, <1>3, <1>4, <1>5, <2>1 DEF HandedOn
  <2>2. CASE i # j
    BY <1>2, <1>3, <1>5, <2>2 DEF HandedOn
  <2> QED
    BY <2>1, <2>2
<1>8. Stored("fetched", i)' => Pending("fetched", i)' \/ Stored("parsed", i)'
  <2>1. CASE i = j
    BY <1>1, <1>2, <1>3, <1>4, <1>5, <2>1 DEF HandedOn
  <2>2. CASE i # j
    BY <1>2, <1>3, <1>5, <2>2 DEF HandedOn
  <2> QED
    BY <2>1, <2>2
<1>9. Stored("parsed", i)' => Pending("parsed", i)' \/ match'[i] # NoScore
  <2>1. CASE i = j
    BY <1>1, <1>2, <1>3, <1>4, <1>5, <2>1 DEF HandedOn
  <2>2. CASE i # j
    BY <1>2, <1>3, <1>5, <2>2 DEF HandedOn
  <2> QED
    BY <2>1, <2>2
<1> QED
  BY <1>6, <1>7, <1>8, <1>9 DEF HandedOn

\* No fetcher takes a message.
FetchersTakeNothing ==
    \A f \in Fetchers : fetcher'[f].step # "idle" =>
        fetcher[f].step # "idle" /\ fetcher'[f].msg = fetcher[f].msg

\* A publication keeps requests, and one for a description is a request.
LEMMA PublicationRequests ==
    ASSUME Inv, NEW kind \in Kinds, NEW j \in Jobs, NEW page \in Pages,
           Publish(kind, j, page), UNCHANGED <<disturbances, text, posted>>,
           FetchersTakeNothing,
           needy' = needy \/ (kind = "fetch" /\ needy' = needy \ {j})
    PROVE  BlanksAreRequested'
<1> SUFFICES ASSUME NEW i \in posted PROVE BlankIsRequested(i)'
  BY DEF BlanksAreRequested
<1>1. /\ unacked \subseteq unacked'
      /\ \A key \in Keys : key # <<kind, j>> => (key \in muted' <=> key \in muted)
      /\ \/ <<kind, j>> \in muted'
         \/ \E new \in Message : /\ new.kind = kind /\ new.job = j /\ ~ Numbered(new)
                                 /\ unacked' = unacked \cup {new}
  BY Publication DEF Inv
<1>2. Untaken(i) => Untaken(i)'
  BY <1>1 DEF Untaken, Waiting, FetchersTakeNothing
<1>3. BlankIsRequested(i) /\ i \in Jobs /\ <<"fetch", i>> \in Keys
  BY StateTypes DEF Inv, BlanksAreRequested, Types, TableTypes, Keys, Kinds
<1>4. CASE i = j /\ kind = "fetch"
  <2>1. CASE <<kind, j>> \in muted'
    BY <1>4, <2>1 DEF BlankIsRequested
  <2>2. CASE \E new \in Message : /\ new.kind = kind /\ new.job = j /\ ~ Numbered(new)
                                  /\ unacked' = unacked \cup {new}
    <3>1. PICK new \in Message : /\ new.kind = kind /\ new.job = j /\ ~ Numbered(new)
                                 /\ unacked' = unacked \cup {new}
      BY <2>2
    <3>2. \A f \in Fetchers : fetcher[f].step # "idle" => Numbered(fetcher[f].msg)
      BY DEF Inv, ProcessesOK, FetcherOK
    <3>3. \A f \in Fetchers : fetcher'[f].step # "idle" => fetcher'[f].msg # new
      BY <3>1, <3>2 DEF FetchersTakeNothing
    <3>4. Untaken(i)'
      BY <1>4, <3>1, <3>3 DEF Untaken, Waiting
    <3> QED
      BY <3>4 DEF BlankIsRequested
  <2> QED
    BY <1>1, <2>1, <2>2
<1>5. CASE ~ (i = j /\ kind = "fetch")
  BY <1>1, <1>2, <1>3, <1>5 DEF BlankIsRequested
<1> QED
  BY <1>4, <1>5

\* An acknowledgement: the message was taken, and its job has been handed on.
LEMMA Acknowledgement ==
    ASSUME Inv, NEW msg \in Message, unacked' = unacked \ {msg},
           UNCHANGED <<text, match, posted, needy, owed, copies, window, muted,
                       disturbances>>,
           msg.kind = "fetch" => Stored("fetched", msg.job),
           msg.kind = "fetched" => Stored("parsed", msg.job),
           msg.kind = "parsed" => match[msg.job] # NoScore,
           FetchersTakeNothing,
           msg.kind = "fetch" => \E f \in Fetchers : /\ fetcher[f].step # "idle"
                                                    /\ fetcher[f].msg = msg
    PROVE  StreamTypes' /\ CopiesAreCounted' /\ JobsAreHandedOn' /\ BlanksAreRequested'
<1>1. StreamTypes' /\ CopiesAreCounted'
  BY DEF Inv, Types, StreamTypes, CopiesAreCounted, Numbered
<1>2. ASSUME NEW i \in Jobs PROVE HandedOn(i)'
  <2>1. HandedOn(i)
    BY DEF Inv, JobsAreHandedOn
  <2>2. \A k \in Kinds : Pending(k, i) => Pending(k, i)' \/ (msg.kind = k /\ msg.job = i)
    BY DEF Pending, Waiting
  <2>3. "fetch" \in Kinds /\ "fetched" \in Kinds /\ "parsed" \in Kinds
    BY DEF Kinds
  <2> QED
    BY <2>1, <2>2, <2>3 DEF HandedOn, Stored
<1>3. ASSUME NEW i \in posted PROVE BlankIsRequested(i)'
  <2>1. Untaken(i) => Untaken(i)'
    BY DEF Untaken, Waiting, FetchersTakeNothing
  <2> QED
    BY <2>1 DEF Inv, BlanksAreRequested, BlankIsRequested
<1> QED
  BY <1>1, <1>2, <1>3 DEF JobsAreHandedOn, BlanksAreRequested

--------------------------------------------------------------------------------
(* Steps that leave the stream, or the requests, alone.                    *)

\* Nothing is published and nothing acknowledged.
LEMMA QuietStream ==
    ASSUME Inv, Onward, TableTypes', UNCHANGED <<copies, unacked, window, muted>>,
           \A i \in Jobs : i \in needy \/ text[i] # Blank =>
                               i \in needy' \/ text'[i] # Blank \/ Stored("fetch", i),
           disturbances <= disturbances'
    PROVE  StreamTypes' /\ CopiesAreCounted' /\ JobsAreHandedOn'
<1>1. StreamTypes'
  BY DEF Inv, Types, StreamTypes
<1>2. CopiesAreCounted'
  <2>1. ASSUME NEW key \in Keys
        PROVE  copies'[key] <= disturbances' + IF key \in window' THEN 1 ELSE 0
    <3>1. /\ copies[key] \in Nat /\ disturbances \in Nat /\ disturbances' \in Nat
          /\ copies[key] <= disturbances + IF key \in window THEN 1 ELSE 0
      BY DEF Inv, Types, StreamTypes, TableTypes, CopiesAreCounted
    <3> QED
      BY <3>1
  <2> QED
    BY <2>1 DEF Inv, CopiesAreCounted, Numbered
<1>3. ASSUME NEW i \in Jobs PROVE HandedOn(i)'
  <2>1. HandedOn(i)
    BY DEF Inv, JobsAreHandedOn
  <2> QED
    BY <2>1 DEF HandedOn, Stored, Pending, Waiting, Onward
<1> QED
  BY <1>1, <1>2, <1>3 DEF JobsAreHandedOn

\* No text changes and no fetcher takes a message.
LEMMA QuietRequests ==
    ASSUME Inv, UNCHANGED <<text, posted, unacked, muted>>, needy \subseteq needy',
           FetchersTakeNothing
    PROVE  BlanksAreRequested'
<1> SUFFICES ASSUME NEW i \in posted PROVE BlankIsRequested(i)'
  BY DEF BlanksAreRequested
<1>1. Untaken(i) => Untaken(i)'
  BY DEF Untaken, Waiting, FetchersTakeNothing
<1> QED
  BY <1>1 DEF Inv, BlanksAreRequested, BlankIsRequested

\* A fetcher that goes on with its message, or lets it go, takes none.
LEMMA TakesNothing ==
    ASSUME Types, NEW f \in Fetchers, NEW to, FetcherMoves(f, to),
           \/ to.step = "idle"
           \/ fetcher[f].step # "idle" /\ to.msg = fetcher[f].msg
    PROVE  FetchersTakeNothing
BY DEF Types, ProcessTypes, FetcherMoves, FetchersTakeNothing

\* The rows of a job and the numbers of the messages stay.
LEMMA NothingUndone ==
    ASSUME Types, UNCHANGED <<match, ready>>,
           \A key \in Keys : copies'[key] >= copies[key]
    PROVE  Onward
BY DEF Onward

LEMMA RowsKept ==
    ASSUME StatusHasItsRow, UNCHANGED <<status, parsed, ready>>
    PROVE  StatusHasItsRow'
BY DEF StatusHasItsRow

\* A step of no process, with the stream going on.
LEMMA ProcessesKept ==
    ASSUME Inv, Types', Onward, UNCHANGED <<fetcher, parser, matcher>>
    PROVE  ProcessesOK'
<1>1. ASSUME NEW g \in Fetchers PROVE FetcherOK(fetcher[g])'
  <2>1. PICK p : p = fetcher[g]
    OBVIOUS
  <2>2. FetcherOK(p)'
    BY <2>1, ProcessStays DEF Inv, ProcessesOK, Types, ProcessTypes
  <2> QED
    BY <2>1, <2>2 DEF FetcherOK
<1>2. ASSUME NEW g \in Parsers PROVE ParserOK(parser[g])'
  <2>1. PICK p : p = parser[g]
    OBVIOUS
  <2>2. ParserOK(p)'
    BY <2>1, ProcessStays DEF Inv, ProcessesOK, Types, ProcessTypes
  <2> QED
    BY <2>1, <2>2 DEF ParserOK
<1>3. ASSUME NEW g \in Matchers PROVE MatcherOK(matcher[g])'
  <2>1. PICK p : p = matcher[g]
    OBVIOUS
  <2>2. MatcherOK(p)'
    BY <2>1, ProcessStays DEF Inv, ProcessesOK, Types, ProcessTypes
  <2> QED
    BY <2>1, <2>2 DEF MatcherOK
<1> QED
  BY <1>1, <1>2, <1>3 DEF ProcessesOK

\* A step that leaves texts, messages and who waits for a request alone.
LEMMA QuietStep ==
    ASSUME Inv, TableTypes', ProcessTypes', Onward,
           UNCHANGED <<text, copies, unacked, window, muted, posted, needy, fetcher,
                       disturbances>>
    PROVE  /\ Types' /\ CopiesAreCounted' /\ JobsAreHandedOn' /\ BlanksAreRequested'
<1>1. StreamTypes' /\ CopiesAreCounted' /\ JobsAreHandedOn'
  <2>1. disturbances <= disturbances'
    BY DEF Inv, Types, TableTypes
  <2> QED
    BY <2>1, QuietStream
<1>2. BlanksAreRequested'
  <2>1. FetchersTakeNothing
    BY DEF FetchersTakeNothing
  <2> QED
    BY <2>1, QuietRequests
<1> QED
  BY <1>1, <1>2 DEF Types

--------------------------------------------------------------------------------
(* The dispatcher and time.                                                *)

\* What a save does to the jobs that wait for a request.
LEMMA SavedRow ==
    ASSUME Inv, NEW j \in Jobs, NEW t \in Pages, SaveDiscovered(j, t)
    PROVE  /\ t = Blank => needy' = needy \cup {j}
           /\ t # Blank => needy' = needy \ {j}
           /\ needy' \subseteq owed' /\ owed' \subseteq Jobs
           /\ text' = [text EXCEPT ![j] = t] /\ text'[j] = t
           /\ \A i \in Jobs \ {j} : text'[i] = text[i] /\ (i \in needy' <=> i \in needy)
<1>1. needy \subseteq owed /\ owed \subseteq Jobs /\ text \in [Jobs -> Pages]
  BY DEF Inv, Types, TableTypes
<1>2. CASE t = Blank
  BY <1>1, <1>2 DEF SaveDiscovered, SaveBlank
<1>3. CASE t # Blank
  BY <1>1, <1>3 DEF SaveDiscovered, SaveText
<1> QED
  BY <1>2, <1>3

LEMMA SaveDiscoveredInv ==
    ASSUME Inv, NEW j \in Jobs, NEW t \in Pages, SaveDiscovered(j, t)
    PROVE  Inv'
<1>1. TableTypes'
  <2>1. needy' \subseteq owed' /\ owed' \subseteq Jobs
    BY SavedRow
  <2> QED
    BY <2>1, PipelineAssumption DEF Inv, Types, TableTypes, SaveDiscovered
<1>2. Onward
  BY NothingUndone DEF SaveDiscovered, stream, Inv, Types, StreamTypes
<1>3. StreamTypes' /\ CopiesAreCounted' /\ JobsAreHandedOn'
  <2>1. disturbances <= disturbances'
    BY DEF SaveDiscovered, Inv, Types, TableTypes
  <2>2. \A i \in Jobs : i \in needy \/ text[i] # Blank => i \in needy' \/ text'[i] # Blank
    BY SavedRow
  <2>3. UNCHANGED <<copies, unacked, window, muted>>
    BY DEF SaveDiscovered, stream
  <2> QED
    BY <1>1, <1>2, <2>1, <2>2, <2>3, QuietStream
<1>4. Types'
  BY <1>1, <1>3 DEF Inv, Types, ProcessTypes, SaveDiscovered
<1>5. ProcessesOK'
  BY <1>2, <1>4, ProcessesKept DEF SaveDiscovered
<1>6. BlanksAreRequested'
  <2> SUFFICES ASSUME NEW i \in posted' PROVE BlankIsRequested(i)'
    BY DEF BlanksAreRequested
  <2>1. Untaken(i) => Untaken(i)'
    BY DEF Untaken, Waiting, SaveDiscovered, stream
  <2>2. CASE i = j
    BY <2>2, SavedRow DEF BlankIsRequested
  <2>3. CASE i # j
    <3>1. i \in posted /\ i \in Jobs /\ muted' = muted
      BY <2>3 DEF SaveDiscovered, stream, Inv, Types, TableTypes
    <3>2. text'[i] = text[i] /\ (i \in needy' <=> i \in needy)
      BY <2>3, <3>1, SavedRow
    <3> QED
      BY <2>1, <3>1, <3>2 DEF BlankIsRequested, Inv, BlanksAreRequested
  <2> QED
    BY <2>2, <2>3
<1>7. StatusHasItsRow'
  BY RowsKept DEF SaveDiscovered, Inv
<1> QED
  BY <1>3, <1>4, <1>5, <1>6, <1>7 DEF Inv

LEMMA RequestDescriptionInv ==
    ASSUME Inv, NEW j \in Jobs, RequestDescription(j)
    PROVE  Inv'
<1>1. "fetch" \in Kinds /\ Blank \in Pages
  BY DEF Kinds, Pages
<1>2. /\ StreamTypes' /\ CopiesAreCounted'
      /\ \A key \in Keys : copies'[key] >= copies[key]
  BY <1>1, Publication DEF RequestDescription, Inv
<1>3. needy' = needy \ {j} /\ needy' \subseteq owed' /\ owed' \subseteq Jobs
  BY DEF RequestDescription, Ask, Inv, Types, TableTypes
<1>4. Types'
  BY <1>2, <1>3 DEF RequestDescription, rows, Inv, Types, TableTypes, ProcessTypes
<1>5. Onward
  BY <1>2, NothingUndone DEF RequestDescription, rows, Inv
<1>6. ProcessesOK'
  BY <1>4, <1>5, ProcessesKept DEF RequestDescription
<1>7. JobsAreHandedOn'
  BY <1>1, <1>3, PublicationHandsOn DEF RequestDescription, rows
<1>8. BlanksAreRequested'
  <2>1. FetchersTakeNothing
    BY DEF FetchersTakeNothing, RequestDescription
  <2> QED
    BY <1>1, <1>3, <2>1, PublicationRequests DEF RequestDescription, rows
<1>9. StatusHasItsRow'
  BY RowsKept DEF RequestDescription, rows, Inv
<1> QED
  BY <1>2, <1>4, <1>6, <1>7, <1>8, <1>9 DEF Inv

\* The last message that may ask for a job goes only if nobody needs it.
LEMMA DispatcherTurnsInv ==
    ASSUME Inv, NEW j \in Jobs, DispatcherTurns(j)
    PROVE  Inv'
<1>1. needy' = needy /\ needy' \subseteq owed' /\ owed' \subseteq Jobs
  BY DEF DispatcherTurns, Turn, Inv, Types, TableTypes
<1>2. UNCHANGED <<text, status, parsed, match, ready, announced, copies, unacked, window,
                  muted, posted, fetcher, parser, matcher, disturbances>>
  BY DEF DispatcherTurns, rows, stream
<1>3. Onward
  BY <1>2, NothingUndone DEF Inv, Types, StreamTypes
<1>4. TableTypes' /\ ProcessTypes'
  BY <1>1, <1>2 DEF Inv, Types, TableTypes, ProcessTypes
<1>5. Types' /\ CopiesAreCounted' /\ JobsAreHandedOn' /\ BlanksAreRequested'
  BY <1>1, <1>2, <1>3, <1>4, QuietStep
<1>6. ProcessesOK'
  BY <1>2, <1>3, <1>5, ProcessesKept
<1> QED
  BY <1>2, <1>5, <1>6, RowsKept DEF Inv

LEMMA ExpireInv ==
    ASSUME Inv, NEW key \in window, Expire(key)
    PROVE  Inv'
<1>1. TableTypes' /\ StreamTypes'
  BY PipelineAssumption DEF Inv, Types, TableTypes, StreamTypes, Expire, rows
<1>2. Types'
  BY <1>1 DEF Inv, Types, ProcessTypes, Expire
<1>3. Onward
  BY NothingUndone DEF Expire, rows, Inv, Types, StreamTypes
<1>4. ProcessesOK'
  BY <1>2, <1>3, ProcessesKept DEF Expire
<1>5. CopiesAreCounted'
  <2>1. ASSUME NEW k \in Keys
        PROVE  copies'[k] <= disturbances' + IF k \in window' THEN 1 ELSE 0
    <3>1. /\ copies[k] \in Nat /\ disturbances \in Nat
          /\ copies[k] <= disturbances + IF k \in window THEN 1 ELSE 0
      BY DEF Inv, Types, StreamTypes, TableTypes, CopiesAreCounted
    <3> QED
      BY <3>1 DEF Expire
  <2> QED
    BY <2>1 DEF Inv, CopiesAreCounted, Numbered, Expire
<1>6. JobsAreHandedOn'
  BY DEF Inv, JobsAreHandedOn, HandedOn, Stored, Pending, Waiting, Expire, rows
<1>7. BlanksAreRequested'
  <2>1. FetchersTakeNothing
    BY DEF FetchersTakeNothing, Expire
  <2> QED
    BY <2>1, QuietRequests DEF Expire, rows
<1>8. StatusHasItsRow'
  BY RowsKept DEF Expire, rows, Inv
<1> QED
  BY <1>2, <1>4, <1>5, <1>6, <1>7, <1>8 DEF Inv

--------------------------------------------------------------------------------
(* The fetchers.                                                           *)

\* A message that has not been acknowledged.
LEMMA UnackedMessage ==
    ASSUME Inv, NEW msg \in unacked
    PROVE  /\ msg \in Message /\ msg.job \in Jobs /\ msg.kind \in Kinds /\ msg.text \in Pages
           /\ Numbered(msg)
<1>1. msg \in Message /\ Numbered(msg)
  BY DEF Inv, Types, StreamTypes, CopiesAreCounted
<1> QED
  BY <1>1 DEF Message

LEMMA FetchDescriptionInv ==
    ASSUME Inv, NEW f \in Fetchers, NEW msg \in unacked, NEW page \in Pages,
           FetchDescription(f, msg, page)
    PROVE  Inv'
<1> DEFINE to == [step |-> "publish", msg |-> msg, page |-> page]
<1>1. msg \in Message /\ msg.job \in Jobs /\ msg.kind = "fetch" /\ Numbered(msg)
  BY UnackedMessage DEF FetchDescription, Waiting
<1>2. to \in FetcherStates /\ to.step = "publish" /\ to.msg = msg
  BY <1>1 DEF FetcherStates
<1>3. FetcherMoves(f, to)
  BY DEF FetchDescription
<1> HIDE DEF to
<1>4. TableTypes'
  BY <1>1 DEF FetchDescription, Fetched, Inv, Types, TableTypes, Statuses
<1>5. Onward
  BY NothingUndone DEF FetchDescription, stream, Inv, Types, StreamTypes
<1>6. StreamTypes' /\ CopiesAreCounted' /\ JobsAreHandedOn'
  <2>1. disturbances <= disturbances'
    BY DEF FetchDescription, Inv, Types, TableTypes
  <2>2. Stored("fetch", msg.job)
    <3>1. msg.copy \in Nat /\ copies[<<"fetch", msg.job>>] \in Nat
      BY <1>1 DEF Message, Keys, Kinds, Inv, Types, StreamTypes
    <3> QED
      BY <1>1, <3>1 DEF Numbered, Stored
  <2>3. \A i \in Jobs \ {msg.job} : text'[i] = text[i] /\ (i \in needy => i \in needy')
    BY DEF FetchDescription, Fetched, Inv, Types, TableTypes
  <2>4. UNCHANGED <<copies, unacked, window, muted>>
    BY DEF FetchDescription, stream
  <2> QED
    BY <1>4, <1>5, <2>1, <2>2, <2>3, <2>4, QuietStream
<1>7. Types'
  BY <1>2, <1>3, <1>4, <1>6
     DEF FetchDescription, FetcherMoves, Inv, Types, ProcessTypes
<1>8. ProcessesOK'
  <2>1. FetcherOK(to)'
    BY <1>1, <1>2 DEF FetcherOK, Numbered, FetchDescription, stream
  <2> QED
    BY <1>3, <1>5, <1>7, <2>1, FetcherMove DEF FetchDescription
<1>9. BlanksAreRequested'
  <2> SUFFICES ASSUME NEW i \in posted' PROVE BlankIsRequested(i)'
    BY DEF BlanksAreRequested
  <2>1. /\ i \in posted /\ i # msg.job /\ text'[i] = text[i]
        /\ (i \in needy => i \in needy') /\ muted' = muted /\ unacked' = unacked
    BY DEF FetchDescription, Fetched, stream, Inv, Types, TableTypes
  <2>2. /\ fetcher'[f] = to
        /\ \A g \in Fetchers : g # f => fetcher'[g] = fetcher[g]
    BY <1>3 DEF FetcherMoves, Inv, Types, ProcessTypes
  <2>3. Untaken(i) => Untaken(i)'
    BY <1>2, <2>1, <2>2 DEF Untaken, Waiting
  <2> QED
    BY <2>1, <2>3 DEF BlankIsRequested, Inv, BlanksAreRequested
<1>10. StatusHasItsRow'
  BY DEF FetchDescription, StatusHasItsRow, Inv, Types, TableTypes
<1> QED
  BY <1>6, <1>7, <1>8, <1>9, <1>10 DEF Inv

\* What a fetcher that has a message holds.
LEMMA BusyFetcher ==
    ASSUME Inv, NEW f \in Fetchers, fetcher[f].step # "idle"
    PROVE  /\ fetcher[f] \in [step : {"publish", "ack"}, msg : Message, page : Pages]
           /\ fetcher[f].msg \in Message /\ fetcher[f].msg.job \in Jobs
           /\ fetcher[f].msg.kind = "fetch" /\ Numbered(fetcher[f].msg)
           /\ fetcher[f].step = "ack" => Stored("fetched", fetcher[f].msg.job)
           /\ fetcher[f].page \in Pages
<1>1. /\ fetcher[f] \in [step : {"publish", "ack"}, msg : Message, page : Pages]
      /\ fetcher[f].msg \in Message /\ fetcher[f].page \in Pages
  BY StateTypes DEF Inv
<1>2. fetcher[f].msg.job \in Jobs
  BY <1>1 DEF Message
<1> QED
  BY <1>1, <1>2 DEF Inv, ProcessesOK, FetcherOK

LEMMA PublishFetchedInv ==
    ASSUME Inv, NEW f \in Fetchers, PublishFetched(f)
    PROVE  Inv'
<1>1. PICK p : p = fetcher[f]
  OBVIOUS
<1>2. PICK to : to = [p EXCEPT !.step = "ack"]
  OBVIOUS
<1>3. /\ p \in [step : {"publish", "ack"}, msg : Message, page : Pages]
      /\ p.msg \in Message /\ p.msg.job \in Jobs /\ p.msg.kind = "fetch" /\ Numbered(p.msg)
      /\ p.page \in Pages /\ p.step # "idle"
  BY <1>1, BusyFetcher DEF PublishFetched
<1>4. to \in FetcherStates /\ to.step = "ack" /\ to.msg = p.msg
  BY <1>2, <1>3 DEF FetcherStates
<1>5. /\ Publish("fetched", p.msg.job, p.page) /\ FetcherMoves(f, to)
      /\ UNCHANGED <<rows, announced, posted, needy, owed, parser, matcher, disturbances>>
  BY <1>1, <1>2 DEF PublishFetched
<1>6. "fetched" \in Kinds
  BY DEF Kinds
<1>7. /\ StreamTypes' /\ CopiesAreCounted' /\ Stored("fetched", p.msg.job)'
      /\ \A key \in Keys : copies'[key] >= copies[key]
  BY <1>3, <1>5, <1>6, Publication DEF Inv, Stored
<1>8. Types'
  BY <1>4, <1>5, <1>7 DEF FetcherMoves, rows, Inv, Types, TableTypes, ProcessTypes
<1>9. Onward
  BY <1>5, <1>7, NothingUndone DEF rows, Inv
<1>10. ProcessesOK'
  <2>1. Numbered(p.msg)'
    BY <1>3, <1>8, <1>9, MessagesStay DEF Inv
  <2>2. FetcherOK(to)'
    BY <1>3, <1>4, <1>7, <2>1 DEF FetcherOK, Numbered, Stored
  <2> QED
    BY <1>5, <1>8, <1>9, <2>2, FetcherMove
<1>11. JobsAreHandedOn'
  BY <1>3, <1>5, <1>6, PublicationHandsOn DEF rows
<1>12. BlanksAreRequested'
  <2>1. FetchersTakeNothing
    BY <1>1, <1>3, <1>4, <1>5, TakesNothing DEF Inv
  <2> QED
    BY <1>3, <1>5, <1>6, <2>1, PublicationRequests DEF rows
<1>13. StatusHasItsRow'
  BY <1>5, RowsKept DEF rows, Inv
<1> QED
  BY <1>7, <1>8, <1>10, <1>11, <1>12, <1>13 DEF Inv

LEMMA AckFetchInv ==
    ASSUME Inv, NEW f \in Fetchers, AckFetch(f)
    PROVE  Inv'
<1>1. PICK p : p = fetcher[f]
  OBVIOUS
<1>2. /\ p.msg \in Message /\ p.msg.job \in Jobs /\ p.msg.kind = "fetch"
      /\ p.step = "ack" /\ Stored("fetched", p.msg.job)
  BY <1>1, BusyFetcher DEF AckFetch
<1>3. Idle \in FetcherStates /\ Idle.step = "idle"
  BY DEF FetcherStates, Idle
<1>4. FetchersTakeNothing
  BY <1>3, TakesNothing DEF AckFetch, Inv
<1>5. StreamTypes' /\ CopiesAreCounted' /\ JobsAreHandedOn' /\ BlanksAreRequested'
  BY <1>1, <1>2, <1>4, Acknowledgement DEF AckFetch, rows
<1>6. Types'
  BY <1>3, <1>5 DEF AckFetch, FetcherMoves, rows, Inv, Types, TableTypes, ProcessTypes
<1>7. Onward
  BY NothingUndone DEF AckFetch, rows, Inv, Types, StreamTypes
<1>8. ProcessesOK'
  <2>1. FetcherOK(Idle)'
    BY <1>3 DEF FetcherOK
  <2> QED
    BY <1>6, <1>7, <2>1, FetcherMove DEF AckFetch
<1>9. StatusHasItsRow'
  BY RowsKept DEF AckFetch, rows, Inv
<1> QED
  BY <1>5, <1>6, <1>8, <1>9 DEF Inv

LEMMA FetcherGivesUpInv ==
    ASSUME Inv, NEW f \in Fetchers, FetcherGivesUp(f)
    PROVE  Inv'
<1>1. Idle \in FetcherStates /\ Idle.step = "idle"
  BY DEF FetcherStates, Idle
<1>2. TableTypes'
  BY DEF FetcherGivesUp, rows, Inv, Types, TableTypes
<1>3. Onward
  BY NothingUndone DEF FetcherGivesUp, rows, stream, Inv, Types, StreamTypes
<1>4. StreamTypes' /\ CopiesAreCounted' /\ JobsAreHandedOn'
  <2>1. disturbances <= disturbances'
    BY DEF FetcherGivesUp, Inv, Types, TableTypes
  <2>2. UNCHANGED <<text, needy, copies, unacked, window, muted>>
    BY DEF FetcherGivesUp, rows, stream
  <2> QED
    BY <1>2, <1>3, <2>1, <2>2, QuietStream
<1>5. Types'
  BY <1>1, <1>2, <1>4 DEF FetcherGivesUp, FetcherMoves, Inv, Types, ProcessTypes
<1>6. ProcessesOK'
  <2>1. FetcherOK(Idle)'
    BY <1>1 DEF FetcherOK
  <2> QED
    BY <1>3, <1>5, <2>1, FetcherMove DEF FetcherGivesUp
<1>7. BlanksAreRequested'
  <2>1. FetchersTakeNothing
    BY <1>1, TakesNothing DEF FetcherGivesUp, Inv
  <2> QED
    BY <2>1, QuietRequests DEF FetcherGivesUp, rows, stream
<1>8. StatusHasItsRow'
  BY RowsKept DEF FetcherGivesUp, rows, Inv
<1> QED
  BY <1>4, <1>5, <1>6, <1>7, <1>8 DEF Inv

--------------------------------------------------------------------------------
(* The parsers.                                                            *)

LEMMA IdleProcess ==
    /\ Idle \in FetcherStates /\ Idle \in ParserStates /\ Idle \in MatcherStates
    /\ Idle.step = "idle"
BY DEF FetcherStates, ParserStates, MatcherStates, Idle

LEMMA ParseTextInv ==
    ASSUME Inv, NEW q \in Parsers, NEW msg \in unacked, ParseText(q, msg)
    PROVE  Inv'
<1>1. /\ msg \in Message /\ msg.job \in Jobs /\ msg.kind = "fetched" /\ msg.text \in Pages
      /\ Numbered(msg)
  BY UnackedMessage DEF ParseText, Waiting
<1>2. PICK page \in Pages : page = IF msg.text = Blank THEN text[msg.job] ELSE msg.text
  BY <1>1 DEF Inv, Types, TableTypes
<1>3. PICK found \in ParsedJobs : found = Parse(Title[msg.job], page)
  BY <1>1 DEF ParsedJobs
<1>4. PICK to : to = [step |-> "save", msg |-> msg, found |-> found]
  OBVIOUS
<1>5. to \in ParserStates /\ to.step = "save" /\ to.msg = msg
  BY <1>1, <1>4 DEF ParserStates
<1>6. /\ ParserMoves(q, to)
      /\ UNCHANGED <<rows, announced, stream, posted, needy, owed, fetcher, matcher, disturbances>>
  BY <1>2, <1>3, <1>4 DEF ParseText
<1>7. Onward
  BY <1>6, NothingUndone DEF rows, stream, Inv, Types, StreamTypes
<1>8. TableTypes' /\ ProcessTypes'
  BY <1>5, <1>6 DEF ParserMoves, rows, Inv, Types, TableTypes, ProcessTypes
<1>9. Types' /\ CopiesAreCounted' /\ JobsAreHandedOn' /\ BlanksAreRequested'
  BY <1>6, <1>7, <1>8, QuietStep DEF rows, stream
<1>10. ProcessesOK'
  <2>1. ParserOK(to)'
    BY <1>1, <1>5, <1>6 DEF ParserOK, Numbered, stream
  <2> QED
    BY <1>6, <1>7, <1>9, <2>1, ParserMove
<1>11. StatusHasItsRow'
  BY <1>6, RowsKept DEF rows, Inv
<1> QED
  BY <1>9, <1>10, <1>11 DEF Inv

\* What a parser that has a message holds.
LEMMA BusyParser ==
    ASSUME Inv, NEW q \in Parsers, parser[q].step # "idle"
    PROVE  /\ parser[q] \in [step : {"save", "publish", "ack"}, msg : Message, found : ParsedJobs]
           /\ parser[q].msg \in Message /\ parser[q].msg.job \in Jobs
           /\ parser[q].msg.kind = "fetched" /\ Numbered(parser[q].msg)
           /\ parser[q].step = "ack" => Stored("parsed", parser[q].msg.job)
           /\ parser[q].found \in ParsedJobs
<1>1. /\ parser[q] \in [step : {"save", "publish", "ack"}, msg : Message, found : ParsedJobs]
      /\ parser[q].msg \in Message /\ parser[q].found \in ParsedJobs
  BY StateTypes DEF Inv
<1>2. parser[q].msg.job \in Jobs
  BY <1>1 DEF Message
<1> QED
  BY <1>1, <1>2 DEF Inv, ProcessesOK, ParserOK

LEMMA SaveParsedJobInv ==
    ASSUME Inv, NEW q \in Parsers, SaveParsedJob(q)
    PROVE  Inv'
<1>1. PICK p : p = parser[q]
  OBVIOUS
<1>2. PICK to : to = [p EXCEPT !.step = "publish"]
  OBVIOUS
<1>3. /\ p \in [step : {"save", "publish", "ack"}, msg : Message, found : ParsedJobs]
      /\ p.msg \in Message /\ p.msg.job \in Jobs /\ p.msg.kind = "fetched" /\ Numbered(p.msg)
      /\ p.found \in ParsedJobs /\ p.step # "idle"
  BY <1>1, BusyParser DEF SaveParsedJob
<1>4. to \in ParserStates /\ to.step = "publish" /\ to.msg = p.msg
  BY <1>2, <1>3 DEF ParserStates
<1>5. /\ parsed' = [parsed EXCEPT ![p.msg.job] = p.found]
      /\ status' = [status EXCEPT ![p.msg.job] = "parsed"]
      /\ ParserMoves(q, to)
      /\ UNCHANGED <<text, match, ready, announced, stream, posted, needy, owed, fetcher, matcher,
                     disturbances>>
  BY <1>1, <1>2 DEF SaveParsedJob
<1>6. Onward
  BY <1>5, NothingUndone DEF stream, Inv, Types, StreamTypes
<1>7. TableTypes' /\ ProcessTypes'
  <2>1. TableTypes'
    BY <1>3, <1>5 DEF Inv, Types, TableTypes, Statuses
  <2>2. ProcessTypes'
    BY <1>4, <1>5 DEF ParserMoves, Inv, Types, ProcessTypes
  <2> QED
    BY <2>1, <2>2
<1>8. Types' /\ CopiesAreCounted' /\ JobsAreHandedOn' /\ BlanksAreRequested'
  BY <1>5, <1>6, <1>7, QuietStep DEF stream
<1>9. ProcessesOK'
  <2>1. ParserOK(to)'
    BY <1>3, <1>4, <1>5 DEF ParserOK, Numbered, stream
  <2> QED
    BY <1>5, <1>6, <1>8, <2>1, ParserMove
<1>10. StatusHasItsRow'
  BY <1>3, <1>5, PipelineAssumption DEF StatusHasItsRow, Inv, Types, TableTypes
<1> QED
  BY <1>8, <1>9, <1>10 DEF Inv

LEMMA PublishParsedInv ==
    ASSUME Inv, NEW q \in Parsers, PublishParsed(q)
    PROVE  Inv'
<1>1. PICK p : p = parser[q]
  OBVIOUS
<1>2. PICK to : to = [p EXCEPT !.step = "ack"]
  OBVIOUS
<1>3. /\ p \in [step : {"save", "publish", "ack"}, msg : Message, found : ParsedJobs]
      /\ p.msg \in Message /\ p.msg.job \in Jobs /\ p.msg.kind = "fetched" /\ Numbered(p.msg)
      /\ p.found \in ParsedJobs /\ p.step # "idle"
  BY <1>1, BusyParser DEF PublishParsed
<1>4. to \in ParserStates /\ to.step = "ack" /\ to.msg = p.msg
  BY <1>2, <1>3 DEF ParserStates
<1>5. /\ Publish("parsed", p.msg.job, Blank) /\ ParserMoves(q, to)
      /\ UNCHANGED <<rows, announced, posted, needy, owed, fetcher, matcher, disturbances>>
  BY <1>1, <1>2 DEF PublishParsed
<1>6. "parsed" \in Kinds /\ Blank \in Pages
  BY DEF Kinds, Pages
<1>7. /\ StreamTypes' /\ CopiesAreCounted' /\ Stored("parsed", p.msg.job)'
      /\ \A key \in Keys : copies'[key] >= copies[key]
  BY <1>3, <1>5, <1>6, Publication DEF Inv, Stored
<1>8. Types'
  BY <1>4, <1>5, <1>7 DEF ParserMoves, rows, Inv, Types, TableTypes, ProcessTypes
<1>9. Onward
  BY <1>5, <1>7, NothingUndone DEF rows, Inv
<1>10. ProcessesOK'
  <2>1. Numbered(p.msg)'
    BY <1>3, <1>8, <1>9, MessagesStay DEF Inv
  <2>2. ParserOK(to)'
    BY <1>3, <1>4, <1>7, <2>1 DEF ParserOK, Numbered, Stored
  <2> QED
    BY <1>5, <1>8, <1>9, <2>2, ParserMove
<1>11. JobsAreHandedOn'
  BY <1>3, <1>5, <1>6, PublicationHandsOn DEF rows
<1>12. BlanksAreRequested'
  <2>1. FetchersTakeNothing
    BY <1>5 DEF FetchersTakeNothing
  <2> QED
    BY <1>3, <1>5, <1>6, <2>1, PublicationRequests DEF rows
<1>13. StatusHasItsRow'
  BY <1>5, RowsKept DEF rows, Inv
<1> QED
  BY <1>7, <1>8, <1>10, <1>11, <1>12, <1>13 DEF Inv

LEMMA AckFetchedInv ==
    ASSUME Inv, NEW q \in Parsers, AckFetched(q)
    PROVE  Inv'
<1>1. PICK p : p = parser[q]
  OBVIOUS
<1>2. /\ p.msg \in Message /\ p.msg.job \in Jobs /\ p.msg.kind = "fetched"
      /\ p.step = "ack" /\ Stored("parsed", p.msg.job)
  BY <1>1, BusyParser DEF AckFetched
<1>3. FetchersTakeNothing
  BY DEF AckFetched, FetchersTakeNothing
<1>4. StreamTypes' /\ CopiesAreCounted' /\ JobsAreHandedOn' /\ BlanksAreRequested'
  BY <1>1, <1>2, <1>3, Acknowledgement DEF AckFetched, rows
<1>5. Types'
  BY <1>4, IdleProcess DEF AckFetched, ParserMoves, rows, Inv, Types, TableTypes, ProcessTypes
<1>6. Onward
  BY NothingUndone DEF AckFetched, rows, Inv, Types, StreamTypes
<1>7. ProcessesOK'
  <2>1. ParserOK(Idle)'
    BY IdleProcess DEF ParserOK
  <2> QED
    BY <1>5, <1>6, <2>1, ParserMove DEF AckFetched
<1>8. StatusHasItsRow'
  BY RowsKept DEF AckFetched, rows, Inv
<1> QED
  BY <1>4, <1>5, <1>7, <1>8 DEF Inv

LEMMA ParserGivesUpInv ==
    ASSUME Inv, NEW q \in Parsers, ParserGivesUp(q)
    PROVE  Inv'
<1>1. Onward
  BY NothingUndone DEF ParserGivesUp, rows, stream, Inv, Types, StreamTypes
<1>2. TableTypes' /\ ProcessTypes'
  BY IdleProcess
     DEF ParserGivesUp, ParserMoves, rows, Inv, Types, TableTypes, ProcessTypes
<1>3. Types' /\ CopiesAreCounted' /\ JobsAreHandedOn' /\ BlanksAreRequested'
  BY <1>1, <1>2, QuietStep DEF ParserGivesUp, rows, stream
<1>4. ProcessesOK'
  <2>1. ParserOK(Idle)'
    BY IdleProcess DEF ParserOK
  <2> QED
    BY <1>1, <1>3, <2>1, ParserMove DEF ParserGivesUp
<1>5. StatusHasItsRow'
  BY RowsKept DEF ParserGivesUp, rows, Inv
<1> QED
  BY <1>3, <1>4, <1>5 DEF Inv

--------------------------------------------------------------------------------
(* The matchers.                                                           *)

BusyMatcherStates ==
    [step : {"save", "application", "job", "ready", "ack"}, msg : Message, score : Scores]

LEMMA ScoreJobInv ==
    ASSUME Inv, NEW m \in Matchers, NEW msg \in unacked, ScoreJob(m, msg)
    PROVE  Inv'
<1>1. /\ msg \in Message /\ msg.job \in Jobs /\ msg.kind = "parsed" /\ Numbered(msg)
  BY UnackedMessage DEF ScoreJob, Waiting
<1>2. PICK score : score = Score(Profile, Title[msg.job], Location[msg.job], parsed[msg.job])
  OBVIOUS
<1>3. score \in Scores
  <2>1. parsed[msg.job] \in ParsedJobs
    BY <1>1 DEF ScoreJob, Inv, Types, TableTypes
  <2> QED
    BY <1>2, <2>1, ScoreBounds DEF Scores
<1>4. PICK to : to = [step |-> "save", msg |-> msg, score |-> score]
  OBVIOUS
<1>5. to \in MatcherStates /\ to.step = "save" /\ to.msg = msg
  BY <1>1, <1>3, <1>4 DEF MatcherStates
<1>6. /\ MatcherMoves(m, to)
      /\ UNCHANGED <<rows, announced, stream, posted, needy, owed, fetcher, parser, disturbances>>
  BY <1>2, <1>4 DEF ScoreJob
<1>7. Onward
  BY <1>6, NothingUndone DEF rows, stream, Inv, Types, StreamTypes
<1>8. TableTypes' /\ ProcessTypes'
  BY <1>5, <1>6 DEF MatcherMoves, rows, Inv, Types, TableTypes, ProcessTypes
<1>9. Types' /\ CopiesAreCounted' /\ JobsAreHandedOn' /\ BlanksAreRequested'
  BY <1>6, <1>7, <1>8, QuietStep DEF rows, stream
<1>10. ProcessesOK'
  <2>1. MatcherOK(to)'
    BY <1>1, <1>5, <1>6 DEF MatcherOK, Numbered, stream
  <2> QED
    BY <1>6, <1>7, <1>9, <2>1, MatcherMove
<1>11. StatusHasItsRow'
  BY <1>6, RowsKept DEF rows, Inv
<1> QED
  BY <1>9, <1>10, <1>11 DEF Inv

\* What a matcher that has a message holds.
LEMMA BusyMatcher ==
    ASSUME Inv, NEW m \in Matchers, matcher[m].step # "idle"
    PROVE  /\ matcher[m] \in BusyMatcherStates
           /\ matcher[m].msg \in Message /\ matcher[m].msg.job \in Jobs
           /\ matcher[m].score \in Scores
           /\ MatcherOK(matcher[m])
<1>1. /\ matcher[m] \in BusyMatcherStates
      /\ matcher[m].msg \in Message /\ matcher[m].score \in Scores
  BY StateTypes DEF Inv, BusyMatcherStates
<1>2. matcher[m].msg.job \in Jobs
  BY <1>1 DEF Message
<1> QED
  BY <1>1, <1>2 DEF Inv, ProcessesOK

\* The next state of a matcher.
LEMMA MatcherStep ==
    ASSUME NEW p \in BusyMatcherStates,
           NEW step \in {"save", "application", "job", "ready", "ack"}
    PROVE  LET to == [p EXCEPT !.step = step] IN
           /\ to \in MatcherStates /\ to.step = step
           /\ to.msg = p.msg /\ to.score = p.score
BY DEF BusyMatcherStates, MatcherStates

LEMMA SaveJobMatchInv ==
    ASSUME Inv, NEW m \in Matchers, SaveJobMatch(m)
    PROVE  Inv'
<1>1. PICK p : p = matcher[m]
  OBVIOUS
<1>2. PICK step \in {"application", "ack"} :
          step = IF p.score >= ReadyThreshold THEN "application" ELSE "ack"
  OBVIOUS
<1>3. PICK to : to = [p EXCEPT !.step = step]
  OBVIOUS
<1>4. /\ p \in BusyMatcherStates /\ p.msg \in Message /\ p.msg.job \in Jobs
      /\ p.score \in Scores /\ MatcherOK(p) /\ p.step = "save"
  BY <1>1, BusyMatcher DEF SaveJobMatch
<1>5. /\ to \in MatcherStates /\ to.step = step /\ to.msg = p.msg /\ to.score = p.score
  <2>1. step \in {"save", "application", "job", "ready", "ack"}
    OBVIOUS
  <2> QED
    BY <1>3, <1>4, <2>1, MatcherStep
<1>6. /\ match' = [match EXCEPT ![p.msg.job] = p.score] /\ MatcherMoves(m, to)
      /\ UNCHANGED <<text, status, parsed, ready, announced, stream, posted, needy, owed, fetcher,
                     parser, disturbances>>
  BY <1>1, <1>2, <1>3 DEF SaveJobMatch
<1>7. match'[p.msg.job] # NoScore
  BY <1>4, <1>6 DEF Inv, Types, TableTypes, Scores, NoScore
<1>8. Onward
  <2>1. \A j \in Jobs : match[j] # NoScore => match'[j] # NoScore
    BY <1>6, <1>7 DEF Inv, Types, TableTypes
  <2> QED
    BY <1>6, <2>1 DEF Onward, stream, Inv, Types, StreamTypes
<1>9. TableTypes' /\ ProcessTypes'
  <2>1. TableTypes'
    BY <1>4, <1>6 DEF Inv, Types, TableTypes
  <2>2. ProcessTypes'
    BY <1>5, <1>6 DEF MatcherMoves, Inv, Types, ProcessTypes
  <2> QED
    BY <2>1, <2>2
<1>10. Types' /\ CopiesAreCounted' /\ JobsAreHandedOn' /\ BlanksAreRequested'
  BY <1>6, <1>8, <1>9, QuietStep DEF stream
<1>11. ProcessesOK'
  <2>1. MatcherOK(to)'
    BY <1>2, <1>4, <1>5, <1>6, <1>7 DEF MatcherOK, Numbered, stream
  <2> QED
    BY <1>6, <1>8, <1>10, <2>1, MatcherMove
<1>12. StatusHasItsRow'
  BY <1>6, RowsKept DEF Inv
<1> QED
  BY <1>10, <1>11, <1>12 DEF Inv

LEMMA MarkApplicationInv ==
    ASSUME Inv, NEW m \in Matchers, MarkApplication(m)
    PROVE  Inv'
<1>1. PICK p : p = matcher[m]
  OBVIOUS
<1>2. PICK to : to = [p EXCEPT !.step = "job"]
  OBVIOUS
<1>3. /\ p \in BusyMatcherStates /\ p.msg \in Message /\ p.msg.job \in Jobs
      /\ p.score \in Scores /\ MatcherOK(p) /\ p.step = "application"
  BY <1>1, BusyMatcher DEF MarkApplication
<1>4. /\ to \in MatcherStates /\ to.step = "job" /\ to.msg = p.msg /\ to.score = p.score
  BY <1>2, <1>3, MatcherStep
<1>5. /\ ready' = [ready EXCEPT ![p.msg.job] = p.score] /\ MatcherMoves(m, to)
      /\ UNCHANGED <<text, status, parsed, match, announced, stream, posted, needy, owed, fetcher,
                     parser, disturbances>>
  BY <1>1, <1>2 DEF MarkApplication
<1>6. p.score \in ReadyThreshold .. 100
  BY <1>3, PipelineAssumption DEF MatcherOK, Scores
<1>7. ready'[p.msg.job] # NoScore
  BY <1>3, <1>5 DEF Inv, Types, TableTypes, Scores, NoScore
<1>8. Onward
  <2>1. \A j \in Jobs : ready[j] # NoScore => ready'[j] # NoScore
    BY <1>5, <1>7 DEF Inv, Types, TableTypes
  <2> QED
    BY <1>5, <2>1 DEF Onward, stream, Inv, Types, StreamTypes
<1>9. TableTypes' /\ ProcessTypes'
  <2>1. TableTypes'
    BY <1>3, <1>5, <1>6 DEF Inv, Types, TableTypes
  <2>2. ProcessTypes'
    BY <1>4, <1>5 DEF MatcherMoves, Inv, Types, ProcessTypes
  <2> QED
    BY <2>1, <2>2
<1>10. Types' /\ CopiesAreCounted' /\ JobsAreHandedOn' /\ BlanksAreRequested'
  BY <1>5, <1>8, <1>9, QuietStep DEF stream
<1>11. ProcessesOK'
  <2>1. MatcherOK(to)'
    BY <1>3, <1>4, <1>5, <1>7 DEF MatcherOK, Numbered, stream
  <2> QED
    BY <1>5, <1>8, <1>10, <2>1, MatcherMove
<1>12. StatusHasItsRow'
  BY <1>5, <1>7, <1>8 DEF Onward, StatusHasItsRow, Inv
<1> QED
  BY <1>10, <1>11, <1>12 DEF Inv

LEMMA MarkJobInv ==
    ASSUME Inv, NEW m \in Matchers, MarkJob(m)
    PROVE  Inv'
<1>1. PICK p : p = matcher[m]
  OBVIOUS
<1>2. PICK to : to = [p EXCEPT !.step = "ready"]
  OBVIOUS
<1>3. /\ p \in BusyMatcherStates /\ p.msg \in Message /\ p.msg.job \in Jobs
      /\ MatcherOK(p) /\ p.step = "job"
  BY <1>1, BusyMatcher DEF MarkJob
<1>4. /\ to \in MatcherStates /\ to.step = "ready" /\ to.msg = p.msg
  BY <1>2, <1>3, MatcherStep
<1>5. /\ status' = [status EXCEPT ![p.msg.job] = "ready_to_apply"] /\ MatcherMoves(m, to)
      /\ UNCHANGED <<text, parsed, match, ready, announced, stream, posted, needy, owed, fetcher,
                     parser, disturbances>>
  BY <1>1, <1>2 DEF MarkJob
<1>6. Onward
  BY <1>5, NothingUndone DEF stream, Inv, Types, StreamTypes
<1>7. TableTypes' /\ ProcessTypes'
  BY <1>3, <1>4, <1>5
     DEF MatcherMoves, Inv, Types, TableTypes, ProcessTypes, Statuses
<1>8. Types' /\ CopiesAreCounted' /\ JobsAreHandedOn' /\ BlanksAreRequested'
  BY <1>5, <1>6, <1>7, QuietStep DEF stream
<1>9. ProcessesOK'
  <2>1. MatcherOK(to)'
    BY <1>3, <1>4, <1>5 DEF MatcherOK, Numbered, stream
  <2> QED
    BY <1>5, <1>6, <1>8, <2>1, MatcherMove
<1>10. StatusHasItsRow'
  BY <1>3, <1>5 DEF MatcherOK, StatusHasItsRow, Inv, Types, TableTypes
<1> QED
  BY <1>8, <1>9, <1>10 DEF Inv

LEMMA PublishReadyInv ==
    ASSUME Inv, NEW m \in Matchers, PublishReady(m)
    PROVE  Inv'
<1>1. PICK p : p = matcher[m]
  OBVIOUS
<1>2. PICK to : to = [p EXCEPT !.step = "ack"]
  OBVIOUS
<1>3. /\ p \in BusyMatcherStates /\ p.msg \in Message /\ p.msg.job \in Jobs
      /\ MatcherOK(p) /\ p.step = "ready"
  BY <1>1, BusyMatcher DEF PublishReady
<1>4. /\ to \in MatcherStates /\ to.step = "ack" /\ to.msg = p.msg
  BY <1>2, <1>3, MatcherStep
<1>5. /\ announced' = announced \cup {p.msg.job} /\ MatcherMoves(m, to)
      /\ UNCHANGED <<rows, stream, posted, needy, owed, fetcher, parser, disturbances>>
  BY <1>1, <1>2 DEF PublishReady
<1>6. Onward
  BY <1>5, NothingUndone DEF rows, stream, Inv, Types, StreamTypes
<1>7. TableTypes' /\ ProcessTypes'
  BY <1>3, <1>4, <1>5 DEF MatcherMoves, rows, Inv, Types, TableTypes, ProcessTypes
<1>8. Types' /\ CopiesAreCounted' /\ JobsAreHandedOn' /\ BlanksAreRequested'
  BY <1>5, <1>6, <1>7, QuietStep DEF rows, stream
<1>9. ProcessesOK'
  <2>1. MatcherOK(to)'
    BY <1>3, <1>4, <1>5 DEF MatcherOK, Numbered, rows, stream
  <2> QED
    BY <1>5, <1>6, <1>8, <2>1, MatcherMove
<1>10. StatusHasItsRow'
  BY <1>5, RowsKept DEF rows, Inv
<1> QED
  BY <1>8, <1>9, <1>10 DEF Inv

LEMMA AckParsedInv ==
    ASSUME Inv, NEW m \in Matchers, AckParsed(m)
    PROVE  Inv'
<1>1. PICK p : p = matcher[m]
  OBVIOUS
<1>2. /\ p.msg \in Message /\ p.msg.job \in Jobs /\ p.msg.kind = "parsed"
      /\ match[p.msg.job] # NoScore
  BY <1>1, BusyMatcher DEF AckParsed, MatcherOK
<1>3. FetchersTakeNothing
  BY DEF AckParsed, FetchersTakeNothing
<1>4. StreamTypes' /\ CopiesAreCounted' /\ JobsAreHandedOn' /\ BlanksAreRequested'
  BY <1>1, <1>2, <1>3, Acknowledgement DEF AckParsed, rows
<1>5. Types'
  BY <1>4, IdleProcess DEF AckParsed, MatcherMoves, rows, Inv, Types, TableTypes, ProcessTypes
<1>6. Onward
  BY NothingUndone DEF AckParsed, rows, Inv, Types, StreamTypes
<1>7. ProcessesOK'
  <2>1. MatcherOK(Idle)'
    BY IdleProcess DEF MatcherOK
  <2> QED
    BY <1>5, <1>6, <2>1, MatcherMove DEF AckParsed
<1>8. StatusHasItsRow'
  BY RowsKept DEF AckParsed, rows, Inv
<1> QED
  BY <1>4, <1>5, <1>7, <1>8 DEF Inv

LEMMA MatcherGivesUpInv ==
    ASSUME Inv, NEW m \in Matchers, MatcherGivesUp(m)
    PROVE  Inv'
<1>1. Onward
  BY NothingUndone DEF MatcherGivesUp, rows, stream, Inv, Types, StreamTypes
<1>2. TableTypes' /\ ProcessTypes'
  BY IdleProcess
     DEF MatcherGivesUp, MatcherMoves, rows, Inv, Types, TableTypes, ProcessTypes
<1>3. Types' /\ CopiesAreCounted' /\ JobsAreHandedOn' /\ BlanksAreRequested'
  BY <1>1, <1>2, QuietStep DEF MatcherGivesUp, rows, stream
<1>4. ProcessesOK'
  <2>1. MatcherOK(Idle)'
    BY IdleProcess DEF MatcherOK
  <2> QED
    BY <1>1, <1>3, <2>1, MatcherMove DEF MatcherGivesUp
<1>5. StatusHasItsRow'
  BY RowsKept DEF MatcherGivesUp, rows, Inv
<1> QED
  BY <1>3, <1>4, <1>5 DEF Inv

--------------------------------------------------------------------------------
(* The theorems for any number of processes.                               *)

LEMMA InitInv == Init => Inv
<1> SUFFICES ASSUME Init PROVE Inv
  OBVIOUS
<1>1. Types
  BY IdleProcess, PipelineAssumption
     DEF Init, SavedInit, Types, TableTypes, StreamTypes, ProcessTypes, Statuses, Pages
<1>2. CopiesAreCounted
  BY DEF Init, CopiesAreCounted
<1>3. ProcessesOK
  BY IdleProcess DEF Init, ProcessesOK, FetcherOK, ParserOK, MatcherOK
<1>4. JobsAreHandedOn
  <2>1. ASSUME NEW j \in Jobs PROVE HandedOn(j)
    <3>1. <<"fetch", j>> \in Keys /\ <<"fetched", j>> \in Keys /\ <<"parsed", j>> \in Keys
      BY DEF Keys, Kinds
    <3> QED
      BY <3>1 DEF Init, HandedOn, Stored
  <2> QED
    BY <2>1 DEF JobsAreHandedOn
<1>5. BlanksAreRequested
  BY DEF Init, BlanksAreRequested, BlankIsRequested
<1>6. StatusHasItsRow
  BY DEF Init, StatusHasItsRow
<1> QED
  BY <1>1, <1>2, <1>3, <1>4, <1>5, <1>6 DEF Inv

LEMMA StutterInv == Inv /\ UNCHANGED vars => Inv'
<1> SUFFICES ASSUME Inv, UNCHANGED vars PROVE Inv'
  OBVIOUS
<1>0. UNCHANGED <<text, status, parsed, match, ready, announced, copies, unacked, window,
                  muted, posted, needy, owed, fetcher, parser, matcher, disturbances>>
  BY DEF vars, rows, stream
<1>1. Onward
  BY <1>0, NothingUndone DEF Inv, Types, StreamTypes
<1>2. TableTypes' /\ ProcessTypes'
  BY <1>0 DEF Inv, Types, TableTypes, ProcessTypes
<1>3. Types' /\ CopiesAreCounted' /\ JobsAreHandedOn' /\ BlanksAreRequested'
  BY <1>0, <1>1, <1>2, QuietStep
<1>4. ProcessesOK'
  BY <1>0, <1>1, <1>3, ProcessesKept
<1> QED
  BY <1>0, <1>3, <1>4, RowsKept DEF Inv

LEMMA NextInv == Inv /\ [Next]_vars => Inv'
<1> SUFFICES ASSUME Inv, Next PROVE Inv'
  BY StutterInv
<1>1. CASE \E j \in Jobs, t \in Pages : SaveDiscovered(j, t)
  BY <1>1, SaveDiscoveredInv
<1>2. CASE \E j \in Jobs : RequestDescription(j) \/ DispatcherTurns(j)
  BY <1>2, RequestDescriptionInv, DispatcherTurnsInv
<1>3. CASE \E key \in window : Expire(key)
  BY <1>3, ExpireInv
<1>4. CASE \E f \in Fetchers :
              \/ \E msg \in unacked, page \in Pages : FetchDescription(f, msg, page)
              \/ PublishFetched(f)
              \/ AckFetch(f)
              \/ FetcherGivesUp(f)
  BY <1>4, FetchDescriptionInv, PublishFetchedInv, AckFetchInv, FetcherGivesUpInv
<1>5. CASE \E p \in Parsers :
              \/ \E msg \in unacked : ParseText(p, msg)
              \/ SaveParsedJob(p)
              \/ PublishParsed(p)
              \/ AckFetched(p)
              \/ ParserGivesUp(p)
  BY <1>5, ParseTextInv, SaveParsedJobInv, PublishParsedInv, AckFetchedInv, ParserGivesUpInv
<1>6. CASE \E m \in Matchers :
              \/ \E msg \in unacked : ScoreJob(m, msg)
              \/ SaveJobMatch(m)
              \/ MarkApplication(m)
              \/ MarkJob(m)
              \/ PublishReady(m)
              \/ AckParsed(m)
              \/ MatcherGivesUp(m)
  BY <1>6, ScoreJobInv, SaveJobMatchInv, MarkApplicationInv, MarkJobInv, PublishReadyInv,
     AckParsedInv, MatcherGivesUpInv
<1> QED
  BY <1>1, <1>2, <1>3, <1>4, <1>5, <1>6 DEF Next

LEMMA AlwaysInv == Spec => []Inv
<1>1. Init => Inv
  BY InitInv
<1>2. Inv /\ [Next]_vars => Inv'
  BY NextInv
<1> QED
  BY <1>1, <1>2, PTL DEF Spec

\* Every variable keeps its type, and the stream numbers no more copies of a message
\* than windows have run out, and one.
THEOREM TypeCorrect == Spec => []TypeOK
<1>1. Inv => TypeOK
  <2> SUFFICES ASSUME Inv PROVE TypeOK
    OBVIOUS
  <2>1. ASSUME NEW key \in Keys PROVE copies[key] \in 0 .. MaxDisturbances + 1
    <3>1. /\ copies[key] \in Nat /\ disturbances \in 0 .. MaxDisturbances
          /\ copies[key] <= disturbances + IF key \in window THEN 1 ELSE 0
      BY DEF Inv, Types, StreamTypes, TableTypes, CopiesAreCounted
    <3> QED
      BY <3>1, PipelineAssumption
  <2>2. copies \in [Keys -> 0 .. MaxDisturbances + 1]
    BY <2>1 DEF Inv, Types, StreamTypes
  <2> QED
    BY <2>2 DEF Inv, Types, StreamTypes, TableTypes, ProcessTypes, TypeOK, Statuses
<1> QED
  BY <1>1, AlwaysInv, PTL

\* No job is lost between two workers, whatever crashes, redeliveries and dropped
\* duplicates there are and however many processes share a consumer.
THEOREM JobsAreNotLost == Spec => []NoJobIsLost
<1>1. Inv => NoJobIsLost
  <2> SUFFICES ASSUME Inv, NEW j \in Jobs, match[j] = NoScore
               PROVE  \/ j \in owed
                      \/ \E kind \in Kinds : Pending(kind, j)
                      \/ copies[<<"fetch", j>>] = 0 /\ text[j] # Blank
    BY DEF NoJobIsLost
  <2>1. HandedOn(j)
    BY DEF Inv, JobsAreHandedOn
  <2>2. "fetch" \in Kinds /\ "fetched" \in Kinds /\ "parsed" \in Kinds
    BY DEF Kinds
  <2>3. copies[<<"fetch", j>>] \in Nat /\ needy \subseteq owed
    BY <2>2 DEF Inv, Types, StreamTypes, TableTypes, Keys
  <2> QED
    BY <2>1, <2>2, <2>3 DEF HandedOn, Stored
<1> QED
  BY <1>1, AlwaysInv, PTL

\* A job that a posting has left blank is asked for again, or its request was dropped.
THEOREM BlanksRequested == Spec => []BlankTextsAreRequested
<1>1. Inv => BlankTextsAreRequested
  BY DEF Inv, Types, TableTypes, BlanksAreRequested, BlankIsRequested, Untaken, Pending,
         BlankTextsAreRequested
<1> QED
  BY <1>1, AlwaysInv, PTL

\* The status of a job is never ahead of its rows.
THEOREM StatusRows == Spec => []StatusHasItsRow
<1>1. Inv => StatusHasItsRow
  BY DEF Inv
<1> QED
  BY <1>1, AlwaysInv, PTL

\* What the pipeline assumes of discovery is the promise that discovery keeps: the
\* jobs that are owed a request change by the steps of SavedJobs and no others.
THEOREM PipelineKeepsSavedJobs == Spec => SavedSpec
<1>1. Init => SavedInit
  BY DEF Init
<1>2. Inv /\ [Next]_vars => [SavedNext]_savedVars
  <2> SUFFICES ASSUME Inv, [Next]_vars PROVE [SavedNext]_savedVars
    OBVIOUS
  <2>1. CASE \E j \in Jobs, t \in Pages : SaveDiscovered(j, t)
    BY <2>1 DEF SaveDiscovered, SavedNext
  <2>2. CASE \E j \in Jobs : RequestDescription(j) \/ DispatcherTurns(j)
    BY <2>2 DEF RequestDescription, DispatcherTurns, SavedNext
  <2>3. ASSUME NEW f \in Fetchers, NEW msg \in unacked, NEW page \in Pages,
               FetchDescription(f, msg, page)
        PROVE  SavedNext
    <3>1. msg.job \in Jobs
      BY DEF Inv, Types, StreamTypes, Message
    <3> QED
      BY <2>3, <3>1 DEF FetchDescription, SavedNext
  <2>4. CASE UNCHANGED savedVars
    BY <2>4
  <2> QED
    BY <2>1, <2>2, <2>3, <2>4
       DEF Next, vars, savedVars, Expire, PublishFetched, AckFetch, FetcherGivesUp,
           ParseText, SaveParsedJob, PublishParsed, AckFetched, ParserGivesUp, ScoreJob,
           SaveJobMatch, MarkApplication, MarkJob, PublishReady, AckParsed, MatcherGivesUp
<1> QED
  BY <1>1, <1>2, AlwaysInv, PTL DEF Spec, SavedSpec

--------------------------------------------------------------------------------
(* One matcher: what it works on stays unacknowledged, so that whatever it *)
(* leaves undone is done again.                                            *)

OneMatcher == \A c, d \in Matchers : c = d

Settled(j) == j \in announced \/ match[j] < ReadyThreshold

MatcherKeeps(p) ==
    p.step # "idle" =>
        /\ p.msg \in unacked
        /\ p.step = "ack" => Settled(p.msg.job)

ReadyInv == (\A m \in Matchers : MatcherKeeps(matcher[m])) /\ ReadyIsAnnounced

\* The steps of the other processes.
OtherSteps ==
    \/ \E j \in Jobs, t \in Pages : SaveDiscovered(j, t)
    \/ \E j \in Jobs : RequestDescription(j) \/ DispatcherTurns(j)
    \/ \E key \in window : Expire(key)
    \/ \E f \in Fetchers :
          \/ \E msg \in unacked, page \in Pages : FetchDescription(f, msg, page)
          \/ PublishFetched(f)
          \/ AckFetch(f)
          \/ FetcherGivesUp(f)
    \/ \E p \in Parsers :
          \/ \E msg \in unacked : ParseText(p, msg)
          \/ SaveParsedJob(p)
          \/ PublishParsed(p)
          \/ AckFetched(p)
          \/ ParserGivesUp(p)

\* They acknowledge no parsed job and leave matches and applications alone.
LEMMA OthersLeaveMatches ==
    ASSUME Inv, OtherSteps \/ UNCHANGED vars
    PROVE  /\ UNCHANGED <<match, ready, announced, matcher>>
           /\ \A msg \in unacked : msg.kind = "parsed" => msg \in unacked'
<1>1. \A kind, j, t : Publish(kind, j, t) => unacked \subseteq unacked'
  BY DEF Publish
<1>2. CASE UNCHANGED vars
  BY <1>2 DEF vars, rows, stream
<1>3. CASE \E j \in Jobs, t \in Pages : SaveDiscovered(j, t)
  BY <1>3 DEF SaveDiscovered, stream
<1>4. CASE \E j \in Jobs : RequestDescription(j) \/ DispatcherTurns(j)
  BY <1>1, <1>4 DEF RequestDescription, DispatcherTurns, rows, stream
<1>5. CASE \E key \in window : Expire(key)
  BY <1>5 DEF Expire, rows
<1>6. ASSUME NEW f \in Fetchers, NEW msg \in unacked, NEW page \in Pages,
             FetchDescription(f, msg, page)
      PROVE  UNCHANGED <<match, ready, announced, matcher, unacked>>
  BY <1>6 DEF FetchDescription, stream
<1>7. ASSUME NEW f \in Fetchers, PublishFetched(f)
      PROVE  UNCHANGED <<match, ready, announced, matcher>> /\ unacked \subseteq unacked'
  BY <1>1, <1>7 DEF PublishFetched, rows
<1>8. ASSUME NEW f \in Fetchers, AckFetch(f)
      PROVE  /\ UNCHANGED <<match, ready, announced, matcher>>
             /\ \A msg \in unacked : msg.kind = "parsed" => msg \in unacked'
  <2>1. fetcher[f].msg.kind = "fetch"
    BY <1>8, BusyFetcher DEF AckFetch
  <2> QED
    BY <1>8, <2>1 DEF AckFetch, rows
<1>9. ASSUME NEW f \in Fetchers, FetcherGivesUp(f)
      PROVE  UNCHANGED <<match, ready, announced, matcher, unacked>>
  BY <1>9 DEF FetcherGivesUp, rows, stream
<1>10. ASSUME NEW p \in Parsers, NEW msg \in unacked, ParseText(p, msg)
       PROVE  UNCHANGED <<match, ready, announced, matcher, unacked>>
  BY <1>10 DEF ParseText, rows, stream
<1>11. ASSUME NEW p \in Parsers, SaveParsedJob(p)
       PROVE  UNCHANGED <<match, ready, announced, matcher, unacked>>
  BY <1>11 DEF SaveParsedJob, stream
<1>12. ASSUME NEW p \in Parsers, PublishParsed(p)
       PROVE  UNCHANGED <<match, ready, announced, matcher>> /\ unacked \subseteq unacked'
  BY <1>1, <1>12 DEF PublishParsed, rows
<1>13. ASSUME NEW p \in Parsers, AckFetched(p)
       PROVE  /\ UNCHANGED <<match, ready, announced, matcher>>
              /\ \A msg \in unacked : msg.kind = "parsed" => msg \in unacked'
  <2>1. parser[p].msg.kind = "fetched"
    BY <1>13, BusyParser DEF AckFetched
  <2> QED
    BY <1>13, <2>1 DEF AckFetched, rows
<1>14. ASSUME NEW p \in Parsers, ParserGivesUp(p)
       PROVE  UNCHANGED <<match, ready, announced, matcher, unacked>>
  BY <1>14 DEF ParserGivesUp, rows, stream
<1> QED
  BY <1>2, <1>3, <1>4, <1>5, <1>6, <1>7, <1>8, <1>9, <1>10, <1>11, <1>12, <1>13, <1>14
     DEF OtherSteps

LEMMA ReadyInvOthers ==
    ASSUME Inv, ReadyInv, OtherSteps \/ UNCHANGED vars
    PROVE  ReadyInv'
<1>1. /\ UNCHANGED <<match, ready, announced, matcher>>
      /\ \A msg \in unacked : msg.kind = "parsed" => msg \in unacked'
  BY OthersLeaveMatches
<1>2. ASSUME NEW m \in Matchers PROVE MatcherKeeps(matcher[m])'
  <2>1. matcher[m].step # "idle" => matcher[m].msg.kind = "parsed"
    BY BusyMatcher DEF MatcherOK
  <2>2. MatcherKeeps(matcher[m])
    BY DEF ReadyInv
  <2> QED
    BY <1>1, <2>1, <2>2 DEF MatcherKeeps, Settled
<1>3. \A j \in Jobs : Pending("parsed", j) => Pending("parsed", j)'
  BY <1>1 DEF Pending, Waiting
<1> QED
  BY <1>1, <1>2, <1>3 DEF ReadyInv, ReadyIsAnnounced

\* The matcher moves, and there is no other.
LEMMA OnlyMatcher ==
    ASSUME Inv, OneMatcher, NEW m \in Matchers, NEW to, MatcherMoves(m, to)
    PROVE  \A d \in Matchers : d = m /\ matcher'[d] = to
<1>1. matcher'[m] = to
  BY DEF MatcherMoves, Inv, Types, ProcessTypes
<1> QED
  BY <1>1 DEF OneMatcher

LEMMA ReadyInvMatcher ==
    ASSUME Inv, ReadyInv, OneMatcher, NEW m \in Matchers,
           \/ \E msg \in unacked : ScoreJob(m, msg)
           \/ SaveJobMatch(m)
           \/ MarkApplication(m)
           \/ MarkJob(m)
           \/ PublishReady(m)
           \/ AckParsed(m)
           \/ MatcherGivesUp(m)
    PROVE  ReadyInv'
<1>1. PICK p : p = matcher[m]
  OBVIOUS
<1>2. MatcherKeeps(p)
  BY <1>1 DEF ReadyInv
<1>3. p.step # "idle" => p \in BusyMatcherStates /\ p.msg \in unacked /\ p.msg.job \in Jobs
                         /\ p.msg.kind = "parsed" /\ p.score \in Scores
  BY <1>1, <1>2, BusyMatcher DEF MatcherKeeps, MatcherOK
<1>4. p.step # "idle" => Pending("parsed", p.msg.job)
  BY <1>3 DEF Pending, Waiting
<1>5. ASSUME NEW to, MatcherMoves(m, to), MatcherKeeps(to)', ReadyIsAnnounced'
      PROVE  ReadyInv'
  <2>1. \A d \in Matchers : matcher'[d] = to
    BY <1>5, OnlyMatcher
  <2>2. \A d \in Matchers : MatcherKeeps(matcher[d])'
    BY <1>5, <2>1 DEF MatcherKeeps
  <2> QED
    BY <1>5, <2>2 DEF ReadyInv
<1>6. ASSUME UNCHANGED <<match, ready, unacked>>, announced \subseteq announced'
      PROVE  ReadyIsAnnounced'
  BY <1>6 DEF ReadyInv, ReadyIsAnnounced, Pending, Waiting
<1>7. ASSUME NEW msg \in unacked, ScoreJob(m, msg) PROVE ReadyInv'
  <2>1. PICK to : to = [step |-> "save", msg |-> msg,
                        score |-> Score(Profile, Title[msg.job], Location[msg.job],
                                        parsed[msg.job])]
    OBVIOUS
  <2>2. to.step = "save" /\ to.msg = msg
    BY <2>1
  <2>3. /\ MatcherMoves(m, to)
        /\ UNCHANGED <<rows, announced, stream>>
    BY <1>7, <2>1 DEF ScoreJob
  <2>4. MatcherKeeps(to)'
    BY <2>2, <2>3 DEF MatcherKeeps, stream
  <2> QED
    BY <1>5, <1>6, <2>3, <2>4 DEF rows, stream
<1>8. CASE SaveJobMatch(m)
  <2>1. PICK step \in {"application", "ack"} :
            step = IF p.score >= ReadyThreshold THEN "application" ELSE "ack"
    OBVIOUS
  <2>2. PICK to : to = [p EXCEPT !.step = step]
    OBVIOUS
  <2>3. /\ p.step = "save" /\ match' = [match EXCEPT ![p.msg.job] = p.score]
        /\ MatcherMoves(m, to) /\ UNCHANGED <<ready, announced, stream>>
    BY <1>1, <1>8, <2>1, <2>2 DEF SaveJobMatch
  <2>4. to.step = step /\ to.msg = p.msg
    <3>1. step \in {"save", "application", "job", "ready", "ack"}
      OBVIOUS
    <3>2. p \in BusyMatcherStates
      BY <1>3, <2>3
    <3> QED
      BY <2>2, <3>1, <3>2, MatcherStep
  <2>5. match'[p.msg.job] = p.score /\ \A j \in Jobs : j # p.msg.job => match'[j] = match[j]
    BY <1>3, <2>3 DEF Inv, Types, TableTypes
  <2>6. MatcherKeeps(to)'
    <3>1. p.msg \in unacked'
      BY <1>3, <2>3 DEF stream
    <3>2. step = "ack" => match'[p.msg.job] < ReadyThreshold
      BY <1>3, <2>1, <2>3, <2>5, PipelineAssumption DEF Scores
    <3> QED
      BY <2>4, <3>1, <3>2 DEF MatcherKeeps, Settled
  <2>7. ReadyIsAnnounced'
    <3>1. \A j \in Jobs : Pending("parsed", j) => Pending("parsed", j)'
      BY <2>3 DEF Pending, Waiting, stream
    <3> QED
      BY <1>3, <1>4, <2>3, <2>5, <3>1 DEF ReadyInv, ReadyIsAnnounced
  <2> QED
    BY <1>5, <2>3, <2>6, <2>7
<1>9. CASE MarkApplication(m)
  <2>1. PICK to : to = [p EXCEPT !.step = "job"]
    OBVIOUS
  <2>2. /\ p.step = "application" /\ ready' = [ready EXCEPT ![p.msg.job] = p.score]
        /\ MatcherMoves(m, to) /\ UNCHANGED <<match, announced, stream>>
    BY <1>1, <1>9, <2>1 DEF MarkApplication
  <2>3. to.step = "job" /\ to.msg = p.msg
    BY <1>3, <2>1, <2>2, MatcherStep
  <2>4. MatcherKeeps(to)'
    BY <1>3, <2>2, <2>3 DEF MatcherKeeps, stream
  <2>5. ReadyIsAnnounced'
    <3>1. \A j \in Jobs : Pending("parsed", j) => Pending("parsed", j)'
      BY <2>2 DEF Pending, Waiting, stream
    <3>2. \A j \in Jobs : j # p.msg.job => ready'[j] = ready[j]
      BY <2>2 DEF Inv, Types, TableTypes
    <3> QED
      BY <1>4, <2>2, <3>1, <3>2 DEF ReadyInv, ReadyIsAnnounced
  <2> QED
    BY <1>5, <2>2, <2>4, <2>5
<1>10. CASE MarkJob(m)
  <2>1. PICK to : to = [p EXCEPT !.step = "ready"]
    OBVIOUS
  <2>2. /\ p.step = "job" /\ MatcherMoves(m, to)
        /\ UNCHANGED <<match, ready, announced, stream>>
    BY <1>1, <1>10, <2>1 DEF MarkJob
  <2>3. to.step = "ready" /\ to.msg = p.msg
    BY <1>3, <2>1, <2>2, MatcherStep
  <2>4. MatcherKeeps(to)'
    BY <1>3, <2>2, <2>3 DEF MatcherKeeps, stream
  <2> QED
    BY <1>5, <1>6, <2>2, <2>4 DEF stream
<1>11. CASE PublishReady(m)
  <2>1. PICK to : to = [p EXCEPT !.step = "ack"]
    OBVIOUS
  <2>2. /\ p.step = "ready" /\ announced' = announced \cup {p.msg.job} /\ MatcherMoves(m, to)
        /\ UNCHANGED <<rows, stream>>
    BY <1>1, <1>11, <2>1 DEF PublishReady
  <2>3. to.step = "ack" /\ to.msg = p.msg
    BY <1>3, <2>1, <2>2, MatcherStep
  <2>4. MatcherKeeps(to)'
    BY <1>3, <2>2, <2>3 DEF MatcherKeeps, Settled, stream
  <2> QED
    BY <1>5, <1>6, <2>2, <2>4 DEF rows, stream
<1>12. CASE AckParsed(m)
  <2>1. /\ p.step = "ack" /\ unacked' = unacked \ {p.msg} /\ MatcherMoves(m, Idle)
        /\ UNCHANGED <<rows, announced>>
    BY <1>1, <1>12 DEF AckParsed
  <2>2. MatcherKeeps(Idle)'
    BY IdleProcess DEF MatcherKeeps
  <2>3. \A j \in Jobs : j # p.msg.job /\ Pending("parsed", j) => Pending("parsed", j)'
    BY <2>1 DEF Pending, Waiting
  <2>4. Settled(p.msg.job)
    BY <1>2, <2>1 DEF MatcherKeeps
  <2>5. ReadyIsAnnounced'
    BY <2>1, <2>3, <2>4 DEF rows, ReadyInv, ReadyIsAnnounced, Settled
  <2> QED
    BY <1>5, <2>1, <2>2, <2>5
<1>13. CASE MatcherGivesUp(m)
  <2>1. MatcherMoves(m, Idle) /\ UNCHANGED <<rows, announced, stream>>
    BY <1>13 DEF MatcherGivesUp
  <2>2. MatcherKeeps(Idle)'
    BY IdleProcess DEF MatcherKeeps
  <2> QED
    BY <1>5, <1>6, <2>1, <2>2 DEF rows, stream
<1> QED
  BY <1>7, <1>8, <1>9, <1>10, <1>11, <1>12, <1>13

\* With one matcher, an application that became ready is announced, or processed
\* again, or no longer scores above the threshold.
THEOREM ReadyAnnounced == ASSUME OneMatcher PROVE Spec => []ReadyIsAnnounced
<1>1. Init => ReadyInv
  BY IdleProcess DEF Init, ReadyInv, MatcherKeeps, ReadyIsAnnounced
<1>2. Inv /\ ReadyInv /\ [Next]_vars => ReadyInv'
  <2> SUFFICES ASSUME Inv, ReadyInv, [Next]_vars PROVE ReadyInv'
    OBVIOUS
  <2>1. \/ OtherSteps \/ UNCHANGED vars
        \/ \E m \in Matchers :
              \/ \E msg \in unacked : ScoreJob(m, msg)
              \/ SaveJobMatch(m)
              \/ MarkApplication(m)
              \/ MarkJob(m)
              \/ PublishReady(m)
              \/ AckParsed(m)
              \/ MatcherGivesUp(m)
    BY DEF Next, OtherSteps
  <2> QED
    BY <2>1, ReadyInvOthers, ReadyInvMatcher
<1>3. ReadyInv => ReadyIsAnnounced
  BY DEF ReadyInv
<1> QED
  BY <1>1, <1>2, <1>3, AlwaysInv, PTL DEF Spec

--------------------------------------------------------------------------------
(* One parser and one matcher: requirements that the match does not follow *)
(* are still on their way to the matcher.                                  *)

OneParser == \A c, d \in Parsers : c = d

\* A message that no process acknowledges next, or scores already.
FetchedLeft(j) ==
    \E msg \in Waiting("fetched") :
        /\ msg.job = j
        /\ \A p \in Parsers : parser[p].step = "ack" => parser[p].msg # msg

ParsedLeft(j) ==
    \E msg \in Waiting("parsed") :
        /\ msg.job = j
        /\ \A m \in Matchers : matcher[m].step # "idle" => matcher[m].msg # msg

\* The matcher will read the requirements, or its event was dropped.
Fresh(j) ==
    \/ FetchedLeft(j)
    \/ \E p \in Parsers : Holds(parser[p], "publish", j)
    \/ <<"parsed", j>> \in muted
    \/ ParsedLeft(j)

Followed(j) ==
    \/ parsed[j] = Unparsed
    \/ match[j] = ScoreNow(j)
    \/ Fresh(j)
    \/ Pending("parsed", j)

\* What the matcher saves, or has saved, is the score, unless it will read again.
MatcherFollows(p) ==
    p.step # "idle" =>
        \/ Fresh(p.msg.job)
        \/ p.step = "save" /\ p.score = ScoreNow(p.msg.job)
        \/ p.step # "save" /\ match[p.msg.job] = ScoreNow(p.msg.job)

ParsersKeep == \A p \in Parsers : parser[p].step # "idle" => parser[p].msg \in unacked

FollowInv ==
    /\ ParsersKeep
    /\ \A j \in Jobs : Followed(j)
    /\ \A m \in Matchers : MatcherFollows(matcher[m])

\* A step that leaves matches and requirements alone.
LEMMA FollowKept ==
    ASSUME Inv, FollowInv, UNCHANGED <<parsed, match, matcher>>,
           \A msg \in unacked : msg.kind = "parsed" => msg \in unacked',
           \A i \in Jobs : Fresh(i) => Fresh(i)'
    PROVE  /\ \A j \in Jobs : Followed(j)'
           /\ \A m \in Matchers : MatcherFollows(matcher[m])'
<1>1. ASSUME NEW j \in Jobs PROVE Followed(j)'
  <2>1. Pending("parsed", j) => Pending("parsed", j)'
    BY DEF Pending, Waiting
  <2> QED
    BY <2>1 DEF FollowInv, Followed, ScoreNow
<1>2. ASSUME NEW m \in Matchers PROVE MatcherFollows(matcher[m])'
  <2>1. matcher[m].step # "idle" => matcher[m].msg.job \in Jobs
    BY BusyMatcher
  <2> QED
    BY <2>1 DEF FollowInv, MatcherFollows, ScoreNow
<1> QED
  BY <1>1, <1>2

\* The dispatcher, time and the fetchers do not touch what is fresh.
LEMMA FollowOthers ==
    ASSUME Inv, FollowInv, UNCHANGED <<parsed, match, parser, matcher>>,
           \A msg \in unacked : msg.kind # "fetch" => msg \in unacked',
           \A i \in Jobs : <<"parsed", i>> \in muted => <<"parsed", i>> \in muted'
    PROVE  FollowInv'
<1>1. \A i \in Jobs : Fresh(i) => Fresh(i)'
  BY DEF Fresh, FetchedLeft, ParsedLeft, Waiting
<1>2. /\ \A j \in Jobs : Followed(j)'
      /\ \A m \in Matchers : MatcherFollows(matcher[m])'
  BY <1>1, FollowKept
<1>3. ParsersKeep'
  <2> SUFFICES ASSUME NEW p \in Parsers, parser[p].step # "idle"
               PROVE  parser[p].msg \in unacked'
    BY DEF ParsersKeep
  <2>1. parser[p].msg \in unacked /\ parser[p].msg.kind = "fetched"
    BY BusyParser DEF FollowInv, ParsersKeep
  <2> QED
    BY <2>1
<1> QED
  BY <1>2, <1>3 DEF FollowInv

FetcherSteps ==
    \/ \E j \in Jobs, t \in Pages : SaveDiscovered(j, t)
    \/ \E j \in Jobs : RequestDescription(j) \/ DispatcherTurns(j)
    \/ \E key \in window : Expire(key)
    \/ \E f \in Fetchers :
          \/ \E msg \in unacked, page \in Pages : FetchDescription(f, msg, page)
          \/ PublishFetched(f)
          \/ AckFetch(f)
          \/ FetcherGivesUp(f)
    \/ UNCHANGED vars

LEMMA FetchersLeaveParsed ==
    ASSUME Inv, FetcherSteps
    PROVE  /\ UNCHANGED <<parsed, match, parser, matcher>>
           /\ \A msg \in unacked : msg.kind # "fetch" => msg \in unacked'
           /\ \A i \in Jobs : <<"parsed", i>> \in muted => <<"parsed", i>> \in muted'
<1>1. ASSUME NEW kind, NEW j, NEW t, kind # "parsed", Publish(kind, j, t)
      PROVE  /\ unacked \subseteq unacked'
             /\ \A i \in Jobs : <<"parsed", i>> \in muted => <<"parsed", i>> \in muted'
  BY <1>1 DEF Publish
<1>2. CASE UNCHANGED vars
  BY <1>2 DEF vars, rows, stream
<1>3. CASE \E j \in Jobs, t \in Pages : SaveDiscovered(j, t)
  BY <1>3 DEF SaveDiscovered, stream
<1>4. CASE \E j \in Jobs : RequestDescription(j) \/ DispatcherTurns(j)
  BY <1>1, <1>4 DEF RequestDescription, DispatcherTurns, rows, stream
<1>5. CASE \E key \in window : Expire(key)
  BY <1>5 DEF Expire, rows
<1>6. ASSUME NEW f \in Fetchers, NEW msg \in unacked, NEW page \in Pages,
             FetchDescription(f, msg, page)
      PROVE  UNCHANGED <<parsed, match, parser, matcher, unacked, muted>>
  BY <1>6 DEF FetchDescription, stream
<1>7. ASSUME NEW f \in Fetchers, PublishFetched(f)
      PROVE  /\ UNCHANGED <<parsed, match, parser, matcher>> /\ unacked \subseteq unacked'
             /\ \A i \in Jobs : <<"parsed", i>> \in muted => <<"parsed", i>> \in muted'
  BY <1>1, <1>7 DEF PublishFetched, rows
<1>8. ASSUME NEW f \in Fetchers, AckFetch(f)
      PROVE  /\ UNCHANGED <<parsed, match, parser, matcher, muted>>
             /\ \A msg \in unacked : msg.kind # "fetch" => msg \in unacked'
  <2>1. fetcher[f].msg.kind = "fetch"
    BY <1>8, BusyFetcher DEF AckFetch
  <2> QED
    BY <1>8, <2>1 DEF AckFetch, rows
<1>9. ASSUME NEW f \in Fetchers, FetcherGivesUp(f)
      PROVE  UNCHANGED <<parsed, match, parser, matcher, unacked, muted>>
  BY <1>9 DEF FetcherGivesUp, rows, stream
<1> QED
  BY <1>2, <1>3, <1>4, <1>5, <1>6, <1>7, <1>8, <1>9 DEF FetcherSteps

\* The parser moves, and there is no other.
LEMMA OnlyParser ==
    ASSUME Inv, OneParser, NEW q \in Parsers, NEW to, ParserMoves(q, to)
    PROVE  \A d \in Parsers : d = q /\ parser'[d] = to
<1>1. parser'[q] = to
  BY DEF ParserMoves, Inv, Types, ProcessTypes
<1> QED
  BY <1>1 DEF OneParser

LEMMA FollowParser ==
    ASSUME Inv, FollowInv, OneParser, NEW q \in Parsers,
           \/ \E msg \in unacked : ParseText(q, msg)
           \/ SaveParsedJob(q)
           \/ PublishParsed(q)
           \/ AckFetched(q)
           \/ ParserGivesUp(q)
    PROVE  FollowInv'
<1>1. PICK p : p = parser[q]
  OBVIOUS
<1>2. \A d \in Parsers : d = q /\ parser[d] = p
  BY <1>1 DEF OneParser
<1>3. p.step # "idle" =>
          /\ p \in [step : {"save", "publish", "ack"}, msg : Message, found : ParsedJobs]
          /\ p.msg \in unacked /\ p.msg.job \in Jobs /\ p.msg.kind = "fetched"
  BY <1>1, BusyParser DEF FollowInv, ParsersKeep
<1>4. ASSUME NEW msg \in unacked, ParseText(q, msg) PROVE FollowInv'
  <2>1. PICK to : to = parser'[q]
    OBVIOUS
  <2>2. /\ to.step = "save" /\ to.msg = msg /\ ParserMoves(q, to) /\ p = Idle
        /\ UNCHANGED <<rows, stream, matcher>>
    BY <1>1, <1>4, <2>1 DEF ParseText, ParserMoves, Inv, Types, ProcessTypes
  <2>3. \A d \in Parsers : parser'[d] = to
    BY <2>2, OnlyParser
  <2>4. ParsersKeep'
    BY <2>2, <2>3 DEF ParsersKeep, stream
  <2>5. \A i \in Jobs : Fresh(i) => Fresh(i)'
    BY <1>2, <2>2, <2>3, IdleProcess
       DEF Fresh, FetchedLeft, ParsedLeft, Waiting, Holds, stream
  <2> QED
    BY <2>2, <2>4, <2>5, FollowKept DEF rows, stream, FollowInv
<1>5. CASE SaveParsedJob(q)
  <2>1. PICK to : to = [p EXCEPT !.step = "publish"]
    OBVIOUS
  <2>2. /\ p.step = "save" /\ ParserMoves(q, to)
        /\ parsed' = [parsed EXCEPT ![p.msg.job] = p.found]
        /\ UNCHANGED <<match, stream, matcher>>
    BY <1>1, <1>5, <2>1 DEF SaveParsedJob
  <2>3. to.step = "publish" /\ to.msg = p.msg
    BY <1>3, <2>1, <2>2
  <2>4. \A d \in Parsers : parser'[d] = to
    BY <2>2, OnlyParser
  <2>5. ParsersKeep'
    BY <1>3, <2>2, <2>3, <2>4 DEF ParsersKeep, stream
  <2>6. \A i \in Jobs : Fresh(i) => Fresh(i)'
    BY <1>2, <2>2, <2>3, <2>4 DEF Fresh, FetchedLeft, ParsedLeft, Waiting, Holds, stream
  <2>7. Fresh(p.msg.job)'
    BY <1>2, <2>3, <2>4 DEF Fresh, Holds
  <2>8. \A i \in Jobs : i # p.msg.job => parsed'[i] = parsed[i]
    BY <2>2 DEF Inv, Types, TableTypes
  <2>9. ASSUME NEW j \in Jobs PROVE Followed(j)'
    <3>1. CASE j = p.msg.job
      BY <2>7, <3>1 DEF Followed
    <3>2. CASE j # p.msg.job
      BY <2>2, <2>6, <2>8, <3>2
         DEF FollowInv, Followed, ScoreNow, Pending, Waiting, stream
    <3> QED
      BY <3>1, <3>2
  <2>10. ASSUME NEW m \in Matchers PROVE MatcherFollows(matcher[m])'
    <3>1. matcher[m].step # "idle" => matcher[m].msg.job \in Jobs
      BY BusyMatcher
    <3>2. CASE matcher[m].step # "idle" /\ matcher[m].msg.job # p.msg.job
      BY <2>2, <2>6, <2>8, <3>1, <3>2 DEF FollowInv, MatcherFollows, ScoreNow
    <3>3. CASE matcher[m].step # "idle" /\ matcher[m].msg.job = p.msg.job
      BY <2>2, <2>7, <3>3 DEF MatcherFollows
    <3>4. CASE matcher[m].step = "idle"
      BY <2>2, <3>4 DEF MatcherFollows
    <3> QED
      BY <3>2, <3>3, <3>4
  <2> QED
    BY <2>5, <2>9, <2>10 DEF FollowInv
<1>6. CASE PublishParsed(q)
  <2>1. PICK to : to = [p EXCEPT !.step = "ack"]
    OBVIOUS
  <2>2. /\ p.step = "publish" /\ ParserMoves(q, to) /\ Publish("parsed", p.msg.job, Blank)
        /\ UNCHANGED <<rows, matcher, disturbances>>
    BY <1>1, <1>6, <2>1 DEF PublishParsed
  <2>3. to.step = "ack" /\ to.msg = p.msg
    BY <1>3, <2>1, <2>2
  <2>4. \A d \in Parsers : parser'[d] = to
    BY <2>2, OnlyParser
  <2>5. "parsed" \in Kinds /\ Blank \in Pages /\ p.msg.job \in Jobs
    BY <1>3, <2>2 DEF Kinds, Pages
  <2>6. /\ unacked \subseteq unacked'
        /\ \A key \in Keys : key # <<"parsed", p.msg.job>> => (key \in muted' <=> key \in muted)
    BY <2>2, <2>5, Publication DEF Inv
  <2>7. \/ <<"parsed", p.msg.job>> \in muted'
        \/ \E new \in Message : /\ new.kind = "parsed" /\ new.job = p.msg.job
                                /\ ~ Numbered(new) /\ unacked' = unacked \cup {new}
    BY <2>2, <2>5, Publication DEF Inv
  <2>8. ParsersKeep'
    BY <1>3, <2>2, <2>3, <2>4, <2>6 DEF ParsersKeep
  <2>9. Fresh(p.msg.job)'
    <3>1. CASE <<"parsed", p.msg.job>> \in muted'
      BY <3>1 DEF Fresh
    <3>2. ASSUME NEW new \in Message, new.kind = "parsed", new.job = p.msg.job,
                 ~ Numbered(new), unacked' = unacked \cup {new}
          PROVE  ParsedLeft(p.msg.job)'
      <4>1. \A m \in Matchers : matcher[m].step # "idle" => Numbered(matcher[m].msg)
        BY DEF Inv, ProcessesOK, MatcherOK
      <4>2. \A m \in Matchers : matcher[m].step # "idle" => matcher[m].msg # new
        BY <3>2, <4>1
      <4> QED
        BY <2>2, <3>2, <4>2 DEF ParsedLeft, Waiting
    <3> QED
      BY <2>7, <3>1, <3>2 DEF Fresh
  <2>10. ASSUME NEW i \in Jobs, Fresh(i) PROVE Fresh(i)'
    <3>1. CASE i = p.msg.job
      BY <2>9, <3>1
    <3>2. CASE i # p.msg.job
      <4>1. <<"parsed", i>> \in Keys /\ <<"parsed", i>> # <<"parsed", p.msg.job>>
        BY <3>2 DEF Keys, Kinds
      <4>2. FetchedLeft(i) => FetchedLeft(i)'
        BY <2>3, <2>4, <2>6, <3>2 DEF FetchedLeft, Waiting
      <4>3. ParsedLeft(i) => ParsedLeft(i)'
        BY <2>2, <2>6 DEF ParsedLeft, Waiting
      <4>4. ~ \E d \in Parsers : Holds(parser[d], "publish", i)
        BY <1>2, <3>2 DEF Holds
      <4> QED
        BY <1>2, <2>6, <2>10, <4>1, <4>2, <4>3, <4>4 DEF Fresh
    <3> QED
      BY <3>1, <3>2
  <2> QED
    BY <2>2, <2>6, <2>8, <2>10, FollowKept DEF rows, FollowInv
<1>7. CASE AckFetched(q)
  <2>1. /\ p.step = "ack" /\ ParserMoves(q, Idle) /\ unacked' = unacked \ {p.msg}
        /\ UNCHANGED <<rows, matcher, muted>>
    BY <1>1, <1>7 DEF AckFetched
  <2>2. \A d \in Parsers : parser'[d] = Idle
    BY <2>1, OnlyParser
  <2>3. ParsersKeep'
    BY <2>2, IdleProcess DEF ParsersKeep
  <2>4. p.msg.kind = "fetched"
    BY <1>3, <2>1
  <2>5. \A i \in Jobs : Fresh(i) => Fresh(i)'
    <3>1. \A i \in Jobs : FetchedLeft(i) => FetchedLeft(i)'
      BY <1>1, <2>1, <2>2, IdleProcess DEF FetchedLeft, Waiting
    <3>2. \A i \in Jobs : ParsedLeft(i) => ParsedLeft(i)'
      BY <2>1, <2>4 DEF ParsedLeft, Waiting
    <3>3. \A i \in Jobs, d \in Parsers : ~ Holds(parser[d], "publish", i)
      BY <1>2, <2>1 DEF Holds
    <3> QED
      BY <2>1, <3>1, <3>2, <3>3 DEF Fresh
  <2>6. \A msg \in unacked : msg.kind = "parsed" => msg \in unacked'
    BY <2>1, <2>4
  <2> QED
    BY <2>1, <2>3, <2>5, <2>6, FollowKept DEF rows, FollowInv
<1>8. CASE ParserGivesUp(q)
  <2>1. /\ p # Idle /\ ParserMoves(q, Idle) /\ UNCHANGED <<rows, stream, matcher>>
    BY <1>1, <1>8 DEF ParserGivesUp
  <2>2. \A d \in Parsers : parser'[d] = Idle
    BY <2>1, OnlyParser
  <2>3. ParsersKeep'
    BY <2>2, IdleProcess DEF ParsersKeep
  <2>4. p.step # "idle"
    BY <1>1, <2>1, StateTypes DEF Inv
  <2>5. FetchedLeft(p.msg.job)'
    BY <1>3, <2>1, <2>2, <2>4, IdleProcess DEF FetchedLeft, Waiting, stream
  <2>6. \A i \in Jobs : Fresh(i) => Fresh(i)'
    <3>1. \A i \in Jobs : FetchedLeft(i) => FetchedLeft(i)'
      BY <2>1, <2>2, IdleProcess DEF FetchedLeft, Waiting, stream
    <3>2. \A i \in Jobs : ParsedLeft(i) => ParsedLeft(i)'
      BY <2>1 DEF ParsedLeft, Waiting, stream
    <3>3. \A i \in Jobs, d \in Parsers : Holds(parser[d], "publish", i) => i = p.msg.job
      BY <1>2 DEF Holds
    <3> QED
      BY <2>1, <2>5, <3>1, <3>2, <3>3 DEF Fresh, stream
  <2> QED
    BY <2>1, <2>3, <2>6, FollowKept DEF rows, stream, FollowInv
<1> QED
  BY <1>4, <1>5, <1>6, <1>7, <1>8

\* A matcher that goes on with its message, or lets it go, keeps what is fresh.
LEMMA MatcherKeepsFresh ==
    ASSUME Inv, OneMatcher, NEW m \in Matchers, NEW to, MatcherMoves(m, to),
           UNCHANGED <<parser, muted>>,
           \A msg \in unacked : msg \in unacked'
               \/ (matcher[m].step = "ack" /\ msg = matcher[m].msg),
           \/ to.step = "idle"
           \/ matcher[m].step # "idle" /\ to.msg = matcher[m].msg
    PROVE  \A i \in Jobs : Fresh(i) => Fresh(i)'
<1>1. \A d \in Matchers : d = m /\ matcher'[d] = to
  BY OnlyMatcher
<1>2. \A i \in Jobs : ParsedLeft(i) => ParsedLeft(i)'
  BY <1>1 DEF ParsedLeft, Waiting
<1>3. \A i \in Jobs : FetchedLeft(i) => FetchedLeft(i)'
  <2>1. matcher[m].step = "ack" => matcher[m].msg.kind = "parsed"
    BY BusyMatcher DEF MatcherOK
  <2> QED
    BY <2>1 DEF FetchedLeft, Waiting
<1> QED
  BY <1>2, <1>3 DEF Fresh

LEMMA FollowMatcher ==
    ASSUME Inv, ReadyInv, FollowInv, OneMatcher, NEW m \in Matchers,
           \/ \E msg \in unacked : ScoreJob(m, msg)
           \/ SaveJobMatch(m)
           \/ MarkApplication(m)
           \/ MarkJob(m)
           \/ PublishReady(m)
           \/ AckParsed(m)
           \/ MatcherGivesUp(m)
    PROVE  FollowInv'
<1>1. PICK p : p = matcher[m]
  OBVIOUS
<1>2. p.step # "idle" =>
          /\ p \in BusyMatcherStates /\ p.msg \in unacked /\ p.msg.job \in Jobs
          /\ p.msg.kind = "parsed" /\ p.score \in Scores
          /\ Pending("parsed", p.msg.job)
  <2>1. p.step # "idle" => p.msg \in unacked /\ p.msg.kind = "parsed"
    BY <1>1, BusyMatcher DEF ReadyInv, MatcherKeeps, MatcherOK
  <2> QED
    BY <1>1, <2>1, BusyMatcher DEF Pending, Waiting
<1>3. MatcherFollows(p)
  BY <1>1 DEF FollowInv
<1>4. ASSUME NEW to, MatcherMoves(m, to), MatcherFollows(to)',
             \A j \in Jobs : Followed(j)', ParsersKeep'
      PROVE  FollowInv'
  <2>1. \A d \in Matchers : matcher'[d] = to
    BY <1>4, OnlyMatcher
  <2>2. \A d \in Matchers : MatcherFollows(matcher[d])'
    BY <1>4, <2>1 DEF MatcherFollows
  <2> QED
    BY <1>4, <2>2 DEF FollowInv
<1>5. ASSUME UNCHANGED <<parser, unacked>> PROVE ParsersKeep'
  BY <1>5 DEF FollowInv, ParsersKeep
<1>6. ASSUME NEW msg \in unacked, ScoreJob(m, msg) PROVE FollowInv'
  <2>1. PICK to : to = [step |-> "save", msg |-> msg,
                        score |-> Score(Profile, Title[msg.job], Location[msg.job],
                                        parsed[msg.job])]
    OBVIOUS
  <2>2. to.step = "save" /\ to.msg = msg /\ to.score = ScoreNow(msg.job)
    BY <2>1 DEF ScoreNow
  <2>3. /\ MatcherMoves(m, to)
        /\ UNCHANGED <<rows, stream, parser>>
    BY <1>6, <2>1 DEF ScoreJob
  <2>4. MatcherFollows(to)'
    BY <2>2, <2>3 DEF MatcherFollows, ScoreNow, rows
  <2>5. ASSUME NEW j \in Jobs PROVE Followed(j)'
    <3>1. Pending("parsed", j) => Pending("parsed", j)'
      BY <2>3 DEF Pending, Waiting, stream
    <3>2. Fresh(j) => Fresh(j)' \/ Pending("parsed", j)
      BY <2>3 DEF Fresh, FetchedLeft, ParsedLeft, Waiting, Pending, stream
    <3> QED
      BY <2>3, <3>1, <3>2 DEF FollowInv, Followed, ScoreNow, rows
  <2> QED
    BY <1>4, <1>5, <2>3, <2>4, <2>5 DEF stream
<1>7. CASE SaveJobMatch(m)
  <2>1. PICK step \in {"application", "ack"} :
            step = IF p.score >= ReadyThreshold THEN "application" ELSE "ack"
    OBVIOUS
  <2>2. PICK to : to = [p EXCEPT !.step = step]
    OBVIOUS
  <2>3. /\ p.step = "save" /\ match' = [match EXCEPT ![p.msg.job] = p.score]
        /\ MatcherMoves(m, to) /\ UNCHANGED <<parsed, stream, parser>>
    BY <1>1, <1>7, <2>1, <2>2 DEF SaveJobMatch
  <2>4. to.step = step /\ to.msg = p.msg
    <3>1. step \in {"save", "application", "job", "ready", "ack"}
      OBVIOUS
    <3>2. p \in BusyMatcherStates
      BY <1>2, <2>3
    <3> QED
      BY <2>2, <3>1, <3>2, MatcherStep
  <2>5. match'[p.msg.job] = p.score /\ \A j \in Jobs : j # p.msg.job => match'[j] = match[j]
    BY <1>2, <2>3 DEF Inv, Types, TableTypes
  <2>6. \A i \in Jobs : Fresh(i) => Fresh(i)'
    BY <1>1, <2>3, <2>4, MatcherKeepsFresh DEF stream
  <2>7. MatcherFollows(to)'
    BY <1>2, <1>3, <2>1, <2>3, <2>4, <2>5, <2>6 DEF MatcherFollows, ScoreNow
  <2>8. ASSUME NEW j \in Jobs PROVE Followed(j)'
    <3>1. Pending("parsed", j) => Pending("parsed", j)'
      BY <2>3 DEF Pending, Waiting, stream
    <3> QED
      BY <1>2, <2>3, <2>5, <2>6, <3>1 DEF FollowInv, Followed, ScoreNow
  <2> QED
    BY <1>4, <1>5, <2>3, <2>7, <2>8 DEF stream
<1>8. ASSUME NEW step \in {"job", "ready", "ack"}, NEW to, to = [p EXCEPT !.step = step],
             p.step \in {"application", "job", "ready"}, MatcherMoves(m, to),
             UNCHANGED <<parsed, match, stream, parser>>
      PROVE  FollowInv'
  <2>1. to.step = step /\ to.msg = p.msg /\ p.step # "idle" /\ p.step # "save"
    <3>1. step \in {"save", "application", "job", "ready", "ack"}
      OBVIOUS
    <3>2. p.step # "idle" /\ p.step # "save" /\ p \in BusyMatcherStates
      BY <1>2, <1>8
    <3> QED
      BY <1>8, <3>1, <3>2, MatcherStep
  <2>2. \A i \in Jobs : Fresh(i) => Fresh(i)'
    BY <1>1, <1>8, <2>1, MatcherKeepsFresh DEF stream
  <2>3. MatcherFollows(to)'
    BY <1>2, <1>3, <1>8, <2>1, <2>2 DEF MatcherFollows, ScoreNow
  <2>4. ASSUME NEW j \in Jobs PROVE Followed(j)'
    BY <1>8, <2>2 DEF FollowInv, Followed, ScoreNow, Pending, Waiting, stream
  <2> QED
    BY <1>4, <1>5, <1>8, <2>3, <2>4 DEF stream
<1>9. CASE MarkApplication(m)
  <2>1. PICK to : to = [p EXCEPT !.step = "job"]
    OBVIOUS
  <2> QED
    BY <1>1, <1>8, <1>9, <2>1 DEF MarkApplication
<1>10. CASE MarkJob(m)
  <2>1. PICK to : to = [p EXCEPT !.step = "ready"]
    OBVIOUS
  <2> QED
    BY <1>1, <1>8, <1>10, <2>1 DEF MarkJob
<1>11. CASE PublishReady(m)
  <2>1. PICK to : to = [p EXCEPT !.step = "ack"]
    OBVIOUS
  <2> QED
    BY <1>1, <1>8, <1>11, <2>1 DEF PublishReady, rows
<1>12. CASE AckParsed(m)
  <2>1. /\ p.step = "ack" /\ unacked' = unacked \ {p.msg} /\ MatcherMoves(m, Idle)
        /\ UNCHANGED <<rows, muted, parser>>
    BY <1>1, <1>12 DEF AckParsed
  <2>2. \A i \in Jobs : Fresh(i) => Fresh(i)'
    BY <1>1, <2>1, IdleProcess, MatcherKeepsFresh
  <2>3. MatcherFollows(Idle)'
    BY IdleProcess DEF MatcherFollows
  <2>4. ASSUME NEW j \in Jobs PROVE Followed(j)'
    <3>1. CASE j = p.msg.job
      BY <1>2, <1>3, <2>1, <2>2, <3>1 DEF MatcherFollows, Followed, ScoreNow, rows
    <3>2. CASE j # p.msg.job
      <4>1. Pending("parsed", j) => Pending("parsed", j)'
        BY <2>1, <3>2 DEF Pending, Waiting
      <4> QED
        BY <2>1, <2>2, <4>1 DEF FollowInv, Followed, ScoreNow, rows
    <3> QED
      BY <3>1, <3>2
  <2>5. ParsersKeep'
    <3>1. \A d \in Parsers : parser[d].step # "idle" => parser[d].msg.kind = "fetched"
      BY BusyParser
    <3> QED
      BY <1>2, <2>1, <3>1 DEF FollowInv, ParsersKeep
  <2> QED
    BY <1>4, <2>1, <2>3, <2>4, <2>5
<1>13. CASE MatcherGivesUp(m)
  <2>1. MatcherMoves(m, Idle) /\ UNCHANGED <<rows, stream, parser>>
    BY <1>13 DEF MatcherGivesUp
  <2>2. \A i \in Jobs : Fresh(i) => Fresh(i)'
    BY <2>1, IdleProcess, MatcherKeepsFresh DEF stream
  <2>3. MatcherFollows(Idle)'
    BY IdleProcess DEF MatcherFollows
  <2>4. ASSUME NEW j \in Jobs PROVE Followed(j)'
    BY <2>1, <2>2 DEF FollowInv, Followed, ScoreNow, Pending, Waiting, rows, stream
  <2> QED
    BY <1>4, <1>5, <2>1, <2>3, <2>4 DEF stream
<1> QED
  BY <1>6, <1>7, <1>9, <1>10, <1>11, <1>12, <1>13

\* With one parser and one matcher, the match of a job follows its requirements, as far
\* as the stream has not dropped the event.
THEOREM MatchesFollow ==
    ASSUME OneParser, OneMatcher PROVE Spec => []MatchesFollowRequirements
<1>1. Init => ReadyInv /\ FollowInv
  BY IdleProcess
     DEF Init, ReadyInv, MatcherKeeps, ReadyIsAnnounced, FollowInv, ParsersKeep, Followed,
         MatcherFollows
<1>2. Inv /\ ReadyInv /\ FollowInv /\ [Next]_vars => ReadyInv' /\ FollowInv'
  <2> SUFFICES ASSUME Inv, ReadyInv, FollowInv, [Next]_vars PROVE ReadyInv' /\ FollowInv'
    OBVIOUS
  <2>1. CASE FetcherSteps
    <3>1. OtherSteps \/ UNCHANGED vars
      BY <2>1 DEF FetcherSteps, OtherSteps
    <3> QED
      BY <2>1, <3>1, FetchersLeaveParsed, FollowOthers, ReadyInvOthers
  <2>2. ASSUME NEW q \in Parsers,
               \/ \E msg \in unacked : ParseText(q, msg)
               \/ SaveParsedJob(q)
               \/ PublishParsed(q)
               \/ AckFetched(q)
               \/ ParserGivesUp(q)
        PROVE  ReadyInv' /\ FollowInv'
    <3>1. OtherSteps
      BY <2>2 DEF OtherSteps
    <3> QED
      BY <2>2, <3>1, FollowParser, ReadyInvOthers
  <2>3. ASSUME NEW m \in Matchers,
               \/ \E msg \in unacked : ScoreJob(m, msg)
               \/ SaveJobMatch(m)
               \/ MarkApplication(m)
               \/ MarkJob(m)
               \/ PublishReady(m)
               \/ AckParsed(m)
               \/ MatcherGivesUp(m)
        PROVE  ReadyInv' /\ FollowInv'
    BY <2>3, FollowMatcher, ReadyInvMatcher
  <2> QED
    BY <2>1, <2>2, <2>3 DEF Next, FetcherSteps
<1>3. FollowInv => MatchesFollowRequirements
  BY DEF FollowInv, Followed, Fresh, FetchedLeft, ParsedLeft, Pending,
         MatchesFollowRequirements
<1> QED
  BY <1>1, <1>2, <1>3, AlwaysInv, PTL DEF Spec

================================================================================
