------------------------------ MODULE MCJobPipeline -----------------------------
(***************************************************************************)
(* One job for TLC, with a text that the candidate fits or with none.      *)
(***************************************************************************)
EXTENDS JobPipeline

MCVocabulary == {"go", "golang", "kafka", "nats"}
MCCanonicalSkill == [s \in MCVocabulary |-> IF s = "golang" THEN "go" ELSE s]

Fitting == [words |-> {"golang", "nats", "remote"}, pay |-> <<120, 150>>]
MCBlank == [words |-> {}, pay |-> Unpaid]

MCTexts == {Fitting}

MCTitle == [j \in Jobs |-> {"engineer"}]
MCLocation == [j \in Jobs |-> {"berlin"}]
MCProfile == [skills |-> {"go", "nats"}, titles |-> {"engineer", "developer"},
              locations |-> {"remote"}, remote |-> "remote", minSalary |-> 100000]

================================================================================
