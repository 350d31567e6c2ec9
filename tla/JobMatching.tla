------------------------------- MODULE JobMatching ------------------------------
(***************************************************************************)
(* The parser and the matcher, which are functions: what the parser takes  *)
(* from the text of a job, and the score the matcher gives a parsed job    *)
(* for a candidate.  A text is the set of words and phrases it contains,   *)
(* in lower case, and the pair of numbers it offers as pay.                *)
(***************************************************************************)
EXTENDS Integers, FiniteSets

CONSTANTS
    Vocabulary,      \* the skills the parser looks for
    CanonicalSkill,  \* CanonicalSkill[s]: the skill that the spelling s stands for
    Unpaid           \* no pay in a text, no salary in a job, no floor in a profile

ASSUME MatchingAssumption ==
    /\ DOMAIN CanonicalSkill = Vocabulary
    /\ IsFiniteSet(Vocabulary)

--------------------------------------------------------------------------------
(* The parser: Parse.                                                      *)

ExtractSkills(words) == {CanonicalSkill[s] : s \in words \cap Vocabulary}

\* The first of the three policies in this order; "" is none.
ExtractRemotePolicy(words) ==
    CASE "hybrid" \in words -> "hybrid"
      [] "hybrid" \notin words /\ "remote" \in words -> "remote"
      [] words \cap {"hybrid", "remote"} = {} /\
         words \cap {"on-site", "onsite", "in office"} # {} -> "onsite"
      [] OTHER -> ""

\* A pair of numbers of two or three digits is read as thousands a year, also in a
\* text that pays by the hour: nothing reads the period.
ExtractSalary(pay) ==
    IF pay = Unpaid THEN Unpaid ELSE <<1000 * pay[1], 1000 * pay[2]>>

\* The policy is looked for in the title too.
Parse(title, text) ==
    [skills |-> ExtractSkills(text.words),
     remote |-> ExtractRemotePolicy(title \cup text.words),
     salary |-> ExtractSalary(text.pay)]

--------------------------------------------------------------------------------
(* The matcher: Score.                                                     *)

SkillPointsFaulty(m, n) == (100 * m) \div n
\* int(float64(m) / float64(n) * 55) for m of fewer than 55 skills: binary fractions
\* make 3/11 and 6/11 of the skills one point less than the exact quotient.
SkillPoints(m, n) ==
    IF 11 * m \in {3 * n, 6 * n} THEN (55 * m) \div n - 1 ELSE (55 * m) \div n

SkillScore(known, required) ==
    IF required = {} THEN 35
    ELSE SkillPoints(Cardinality(known \cap required), Cardinality(required))

\* A preferred value is contained in the job's title or location.
TitleMatches(preferred, title) == preferred \cap title # {}
LocationMatches(preferred, location) == preferred \cap location # {}

RemoteMatches(preference, policy) ==
    /\ preference # "" /\ policy # ""
    /\ preference = policy \/ (preference = "remote" /\ policy = "hybrid")

\* The parser sets both ends of a salary or none, and the upper end counts.
SalaryMatches(floor, salary) ==
    floor # Unpaid /\ salary # Unpaid /\ salary[2] >= floor

Bonus(fits, points) == IF fits THEN points ELSE 0

\* The code's cap of 100 is left out: 55 + 15 + 10 + 10 + 10 does not exceed it.
Score(profile, title, location, parsed) ==
    SkillScore(profile.skills, parsed.skills)
        + Bonus(TitleMatches(profile.titles, title), 15)
        + Bonus(LocationMatches(profile.locations, location), 10)
        + Bonus(RemoteMatches(profile.remote, parsed.remote), 10)
        + Bonus(SalaryMatches(profile.minSalary, parsed.salary), 10)

================================================================================
