--------------------------- MODULE JobDiscoveryProofs ---------------------------
(***************************************************************************)
(* Proofs about JobDiscovery: types, the identities of jobs, and the       *)
(* requests for descriptions, for any sources, postings and dispatchers.   *)
(***************************************************************************)
EXTENDS JobDiscovery, SequenceFacts, FiniteSetTheorems, TLAPS

\* The unique index on idempotency_key.
UniqueKeys ==
    \A i, j \in DOMAIN jobs : jobs[i].key = jobs[j].key => i = j

\* The two identities that a posting with an external id gives a row are one and
\* the same, and every save writes both: no row mixes those of two postings.
KeysAgree ==
    \A j \in DOMAIN jobs : jobs[j].ext # NoKey => jobs[j].ext = jobs[j].key

\* What a dispatcher holds exists, past the save the event is in job_events, and it
\* asks for the descriptions of postings without one only.
HeldRowsExist ==
    \A d \in Dispatchers :
        /\ dispatcher[d].step # "idle" => dispatcher[d].event \in DOMAIN log
        /\ dispatcher[d].step \in SavedSteps => /\ dispatcher[d].event \in audited
                                                /\ dispatcher[d].job \in DOMAIN jobs
        /\ dispatcher[d].step = "request" => ~ log[dispatcher[d].event].text

\* Only a message whose event is in job_events is acknowledged.
AcknowledgedIsSaved == DOMAIN log \subseteq unacked \cup audited

\* Every row comes from an event of its own.
RowsAreFew == Len(jobs) <= Cardinality(audited)

\* Message e will lead to a request for job j: it came without a text, it has the
\* key of j, and no dispatcher past its save works for another job or is about
\* to acknowledge it.
WillRequest(e, j) ==
    /\ e \in unacked \cap audited
    /\ ~ log[e].text
    /\ KeyOf(log[e]) = jobs[j].key
    /\ \A d \in Dispatchers :
          dispatcher[d].step \in SavedSteps /\ dispatcher[d].event = e =>
              dispatcher[d].job = j /\ dispatcher[d].step # "ack"

Covered(j) ==
    IF j \in needy THEN \E e \in DOMAIN log : WillRequest(e, j)
    ELSE jobs[j].text \/ \E s \in Sources : <<s, j>> \in requested

BlankJobsAreCovered == \A j \in DOMAIN jobs : Covered(j)

\* The inductive invariant.
Inv ==
    /\ TypeOK
    /\ UniqueKeys
    /\ KeysAgree
    /\ HeldRowsExist
    /\ AcknowledgedIsSaved
    /\ RowsAreFew
    /\ BlankJobsAreCovered

--------------------------------------------------------------------------------
(* The identities.                                                         *)

\* A posting has proper identities.
LEMMA IdentitiesType ==
    ASSUME NEW p \in Postings
    PROVE  /\ p \in Posting
           /\ RowOf(p) \in Row
           /\ RowOf(p).key = KeyOf(p) /\ RowOf(p).ext = ExternalKey(p)
           /\ RowOf(p).url = Url(p) /\ RowOf(p).text = p.text
           /\ KeyOf(p) \in Keys
           /\ ExternalKey(p) # NoKey => ExternalKey(p) = KeyOf(p)
<1>1. p \in Posting
  BY DiscoveryAssumption
<1>2. /\ p.source \in Sources /\ p.ext \in ExternalIds \cup {NoId}
      /\ p.link \in Links /\ p.text \in BOOLEAN
  BY <1>1 DEF Posting
<1>3. (IF p.ext = NoId THEN Written[p.link] ELSE p.ext) \in Ids
  BY <1>2 DEF Ids
<1>4. KeyOf(p) \in Keys
  BY <1>2, <1>3 DEF KeyOf, Keys
<1>5. ExternalKey(p) \in ExternalKeys \cup {NoKey}
  BY <1>2 DEF ExternalKey, ExternalKeys
<1>6. ExternalKey(p) # NoKey => ExternalKey(p) = KeyOf(p)
  BY DEF ExternalKey, KeyOf
<1>7. Url(p) \in Urls
  BY <1>2 DEF Url, Urls
<1> QED
  BY <1>1, <1>2, <1>4, <1>5, <1>6, <1>7 DEF RowOf, Row

\* A row found by its external id has the posting's key as well.
LEMMA ExternalIdGivesKey ==
    ASSUME KeysAgree, NEW p \in Postings
    PROVE  ByExternalId(p) \subseteq ByKey(p)
BY IdentitiesType DEF KeysAgree, ByExternalId, ByKey

\* The row found by the three queries can take the identities of the posting.
LEMMA FoundRowFits ==
    ASSUME UniqueKeys, KeysAgree, NEW p \in Postings,
           NEW j \in DOMAIN jobs, Found(p, j)
    PROVE  Fits(p, j)
<1>1. \A i \in DOMAIN jobs \ {j} : i \notin ByKey(p)
  BY DEF UniqueKeys, Found, ByKey, ByExternalId, ByUrl
<1>2. \A i \in DOMAIN jobs \ {j} : i \notin ByExternalId(p)
  BY <1>1, ExternalIdGivesKey
<1> QED
  BY <1>1, <1>2 DEF Fits, ByKey, ByExternalId

--------------------------------------------------------------------------------
(* The number of rows.                                                     *)

\* A set of events is finite and no larger than the bound.
LEMMA EventsAreFew ==
    ASSUME NEW n \in Nat, n <= MaxEvents, NEW S \in SUBSET (1 .. n)
    PROVE  IsFiniteSet(S) /\ Cardinality(S) \in Nat /\ Cardinality(S) <= MaxEvents
<1>1. IsFiniteSet(1 .. n) /\ Cardinality(1 .. n) = n
  BY FS_Interval
<1>2. IsFiniteSet(S) /\ Cardinality(S) <= n
  BY <1>1, FS_Subset
<1>3. Cardinality(S) \in Nat
  BY <1>2, FS_CardinalityType
<1> QED
  BY <1>2, <1>3, DiscoveryAssumption

\* The same of the events that are saved.
LEMMA SavedEventsAreFew ==
    ASSUME log \in Seq(Postings), Len(log) <= MaxEvents, audited \subseteq DOMAIN log
    PROVE  /\ IsFiniteSet(audited)
           /\ Cardinality(audited) \in Nat
           /\ Cardinality(audited) <= MaxEvents
<1>1. DOMAIN log = 1 .. Len(log) /\ Len(log) \in Nat
  BY LenProperties
<1> QED
  BY <1>1, EventsAreFew

--------------------------------------------------------------------------------
(* Steps that leave the table of jobs alone.                               *)

\* A table that does not change keeps the identities of its rows apart.
LEMMA SameRows ==
    ASSUME UniqueKeys, KeysAgree, RowsAreFew, UNCHANGED <<jobs, audited>>
    PROVE  UniqueKeys' /\ KeysAgree' /\ RowsAreFew'
BY DEF UniqueKeys, KeysAgree, RowsAreFew

\* The invariant holds of the empty tables.
LEMMA InitInv == Init => Inv
<1> SUFFICES ASSUME Init PROVE Inv
  OBVIOUS
<1>1. DOMAIN log = {} /\ DOMAIN jobs = {} /\ Len(log) = 0
  BY DEF Init
<1>2. log \in Seq(Postings) /\ jobs \in Seq(Row)
  BY DEF Init
<1>3. Len(jobs) = 0 /\ TypeOK
  BY <1>1, <1>2, DiscoveryAssumption DEF Init, TypeOK, Dispatcher
<1>4. RowsAreFew
  BY <1>3, FS_EmptySet DEF Init, RowsAreFew
<1> QED
  BY <1>1, <1>3, <1>4 DEF Init, Inv, UniqueKeys, KeysAgree, HeldRowsExist,
                          AcknowledgedIsSaved, BlankJobsAreCovered, Idle, SavedSteps

\* Another event in the log: no row, no dispatcher and no message changes.
LEMMA DiscoverStep ==
    ASSUME Inv, NEW p \in Postings, Discover(p)
    PROVE  Inv'
<1>1. /\ log' = Append(log, p)
      /\ unacked' = unacked \cup {Len(log) + 1}
      /\ UNCHANGED <<audited, jobs, requested, needy, dispatcher>>
      /\ Len(log) < MaxEvents
  BY DEF Discover
<1>2. /\ log \in Seq(Postings) /\ Len(log) \in Nat /\ MaxEvents \in Nat
  BY DiscoveryAssumption DEF Inv, TypeOK
<1>3. /\ log' \in Seq(Postings)
      /\ Len(log') = Len(log) + 1
      /\ DOMAIN log' = DOMAIN log \cup {Len(log) + 1}
      /\ \A e \in DOMAIN log : log'[e] = log[e]
  BY <1>1, <1>2, ExtendSeq
<1>4. TypeOK'
  BY <1>1, <1>2, <1>3 DEF Inv, TypeOK
<1>5. UniqueKeys' /\ KeysAgree' /\ RowsAreFew'
  BY <1>1, SameRows DEF Inv
<1>6. HeldRowsExist' /\ AcknowledgedIsSaved'
  BY <1>1, <1>3 DEF Inv, HeldRowsExist, AcknowledgedIsSaved
<1>7. ASSUME NEW j \in DOMAIN jobs, NEW e \in DOMAIN log, WillRequest(e, j)
      PROVE  e \in DOMAIN log' /\ WillRequest(e, j)'
  BY <1>1, <1>3, <1>7 DEF WillRequest, KeyOf
<1>8. BlankJobsAreCovered'
  BY <1>1, <1>7 DEF Inv, BlankJobsAreCovered, Covered
<1> QED
  BY <1>4, <1>5, <1>6, <1>8 DEF Inv

\* The fetched text of a job: its key and the other rows stay.
LEMMA FetchStep ==
    ASSUME Inv, NEW r \in requested, NEW text \in BOOLEAN, FetchDescription(r, text)
    PROVE  Inv'
<1> DEFINE k == r[2]
           new == [jobs[k] EXCEPT !.text = text]
<1>1. /\ jobs' = [jobs EXCEPT ![k].text = text]
      /\ needy' = needy \ {k}
      /\ UNCHANGED <<log, unacked, audited, requested, dispatcher>>
  BY DEF FetchDescription
<1>2. k \in DOMAIN jobs /\ jobs \in Seq(Row)
  BY DEF Inv, TypeOK
<1>3. jobs[k] \in Row
  BY <1>2, ElementOfSeq, LenProperties
<1>4. new \in Row /\ new.key = jobs[k].key /\ new.ext = jobs[k].ext
  BY <1>3 DEF Row
<1>5. jobs' = [jobs EXCEPT ![k] = new]
  BY <1>1
<1>6. /\ jobs' \in Seq(Row) /\ DOMAIN jobs' = DOMAIN jobs /\ Len(jobs') = Len(jobs)
      /\ jobs'[k] = new /\ \A j \in DOMAIN jobs : j # k => jobs'[j] = jobs[j]
  BY <1>2, <1>4, <1>5, UpdateSeq
<1>7. \A j \in DOMAIN jobs : jobs'[j].key = jobs[j].key /\ jobs'[j].ext = jobs[j].ext
  BY <1>4, <1>6
<1>8. TypeOK'
  BY <1>1, <1>6 DEF Inv, TypeOK
<1>9. UniqueKeys' /\ KeysAgree' /\ HeldRowsExist' /\ AcknowledgedIsSaved' /\ RowsAreFew'
  BY <1>1, <1>6, <1>7 DEF Inv, UniqueKeys, KeysAgree, HeldRowsExist, AcknowledgedIsSaved,
                          RowsAreFew
<1>10. ASSUME NEW j \in DOMAIN jobs, NEW e \in DOMAIN log, WillRequest(e, j)
       PROVE  WillRequest(e, j)'
  BY <1>1, <1>7, <1>10 DEF WillRequest, KeyOf
<1>11. ASSUME NEW j \in DOMAIN jobs PROVE Covered(j)'
  <2>1. Covered(j)
    BY DEF Inv, BlankJobsAreCovered
  <2>2. CASE j = k
    <3>1. \E s \in Sources : <<s, k>> \in requested
      BY DEF Inv, TypeOK
    <3> QED
      BY <1>1, <2>2, <3>1 DEF Covered
  <2>3. CASE j # k
    BY <1>1, <1>6, <1>10, <2>1, <2>3 DEF Covered
  <2> QED
    BY <2>2, <2>3
<1> QED
  BY <1>6, <1>8, <1>9, <1>11 DEF Inv, BlankJobsAreCovered

--------------------------------------------------------------------------------
(* Steps of a dispatcher that only move it on.                             *)

\* Dispatcher d moves to new and the tables stay: it suffices that what it holds
\* exists and that it does not spoil a request that is still to be made.
LEMMA MoveStep ==
    ASSUME Inv, NEW d \in Dispatchers, NEW new \in Dispatcher,
           dispatcher' = [dispatcher EXCEPT ![d] = new],
           UNCHANGED <<log, unacked, audited, jobs, requested, needy>>,
           new.step # "idle" => new.event \in DOMAIN log,
           new.step \in SavedSteps => new.event \in audited /\ new.job \in DOMAIN jobs,
           new.step = "request" => ~ log[new.event].text,
           \A j \in DOMAIN jobs : \A e \in DOMAIN log :
               WillRequest(e, j) /\ new.step \in SavedSteps /\ new.event = e =>
                   new.job = j /\ new.step # "ack"
    PROVE  Inv'
<1>1. /\ dispatcher' \in [Dispatchers -> Dispatcher]
      /\ dispatcher'[d] = new
      /\ \A c \in Dispatchers : c # d => dispatcher'[c] = dispatcher[c]
  BY DEF Inv, TypeOK
<1>2. TypeOK'
  BY <1>1 DEF Inv, TypeOK
<1>3. UniqueKeys' /\ KeysAgree' /\ RowsAreFew'
  BY SameRows DEF Inv
<1>4. HeldRowsExist' /\ AcknowledgedIsSaved'
  BY <1>1 DEF Inv, HeldRowsExist, AcknowledgedIsSaved
<1>5. ASSUME NEW j \in DOMAIN jobs, NEW e \in DOMAIN log, WillRequest(e, j)
      PROVE  WillRequest(e, j)'
  BY <1>1, <1>5 DEF WillRequest, KeyOf
<1>6. BlankJobsAreCovered'
  BY <1>5 DEF Inv, BlankJobsAreCovered, Covered
<1> QED
  BY <1>2, <1>3, <1>4, <1>6 DEF Inv

\* A dispatcher that gets a message has saved nothing yet.
LEMMA DeliverStep ==
    ASSUME Inv, NEW d \in Dispatchers, NEW e \in unacked, Deliver(d, e)
    PROVE  Inv'
<1> DEFINE new == [step |-> "save", event |-> e, job |-> None]
<1>1. e \in DOMAIN log /\ e \in EventIds
  <2>1. log \in Seq(Postings) /\ Len(log) <= MaxEvents /\ e \in DOMAIN log
    BY DEF Inv, TypeOK
  <2>2. DOMAIN log = 1 .. Len(log) /\ Len(log) \in Nat
    BY <2>1, LenProperties
  <2> QED
    BY <2>1, <2>2, DiscoveryAssumption DEF EventIds
<1>2. new \in Dispatcher /\ new.step \notin SavedSteps /\ new.step # "request"
  BY <1>1 DEF Dispatcher, SavedSteps
<1>3. /\ dispatcher' = [dispatcher EXCEPT ![d] = new]
      /\ UNCHANGED <<log, unacked, audited, jobs, requested, needy>>
  BY DEF Deliver
<1> QED
  BY <1>1, <1>2, <1>3, MoveStep

\* A dispatcher that naks or stops holds nothing.
LEMMA GiveUpStep ==
    ASSUME Inv, NEW d \in Dispatchers, GiveUp(d)
    PROVE  Inv'
<1>1. /\ Idle \in Dispatcher /\ Idle.step = "idle"
      /\ Idle.step \notin SavedSteps /\ Idle.step # "request"
  BY DEF Dispatcher, Idle, SavedSteps
<1>2. /\ dispatcher' = [dispatcher EXCEPT ![d] = Idle]
      /\ UNCHANGED <<log, unacked, audited, jobs, requested, needy>>
  BY DEF GiveUp
<1> QED
  BY <1>1, <1>2, MoveStep

\* A dispatcher at work holds an event, and a row once the event is saved.
LEMMA BusyDispatcher ==
    ASSUME Inv, NEW d \in Dispatchers, dispatcher[d].step # "idle"
    PROVE  /\ dispatcher[d] \in [step : {"save"} \cup SavedSteps, event : EventIds, job : Nat]
           /\ dispatcher[d].event \in DOMAIN log
<1>1. dispatcher[d] \in Dispatcher
  BY DEF Inv, TypeOK
<1>2. dispatcher[d] \in [step : {"save"} \cup SavedSteps, event : EventIds, job : Nat]
  BY <1>1 DEF Dispatcher, Idle, SavedSteps, None
<1>3. dispatcher[d].event \in DOMAIN log
  BY DEF Inv, HeldRowsExist
<1> QED
  BY <1>2, <1>3

\* A saved event delivered again: the row with its key is the one, if any, for
\* which it is still to make a request.
LEMMA RedeliveredStep ==
    ASSUME Inv, NEW d \in Dispatchers, Redelivered(d)
    PROVE  Inv'
<1> DEFINE e == dispatcher[d].event
<1>1. PICK j \in ByKey(log[e]) : SavedAs(d, j)
  BY DEF Redelivered
<1>2. /\ dispatcher[d].step = "save" /\ e \in audited
      /\ UNCHANGED <<log, unacked, audited, jobs, requested, needy>>
  BY DEF Redelivered
<1> DEFINE new == [dispatcher[d] EXCEPT !.step = "announce", !.job = j]
<1>3. dispatcher[d] \in [step : {"save"} \cup SavedSteps, event : EventIds, job : Nat]
  BY <1>2, BusyDispatcher
<1>4. e \in DOMAIN log
  BY <1>2, BusyDispatcher
<1>5. j \in DOMAIN jobs /\ jobs[j].key = KeyOf(log[e])
  BY DEF ByKey
<1>6. j \in Nat
  BY <1>5, LenProperties DEF Inv, TypeOK
<1>7. /\ new \in [step : SavedSteps, event : EventIds, job : Nat]
      /\ new.step = "announce" /\ new.event = e /\ new.job = j
  BY <1>3, <1>6 DEF SavedSteps
<1>8. dispatcher' = [dispatcher EXCEPT ![d] = new]
  BY <1>1 DEF SavedAs
<1>9. ASSUME NEW i \in DOMAIN jobs, WillRequest(e, i)
      PROVE  j = i
  BY <1>5, <1>9 DEF WillRequest, Inv, UniqueKeys
<1>10. new \in Dispatcher
  BY <1>7 DEF Dispatcher
<1> HIDE DEF new
<1> QED
  BY <1>2, <1>4, <1>5, <1>7, <1>8, <1>9, <1>10, MoveStep

\* jobs.saved: only a posting with a text goes on to the acknowledgement.
LEMMA PublishSavedStep ==
    ASSUME Inv, NEW d \in Dispatchers, PublishSaved(d)
    PROVE  Inv'
<1> DEFINE e == dispatcher[d].event
           j == dispatcher[d].job
           next == IF log[e].text THEN "ack" ELSE "request"
           new == [dispatcher[d] EXCEPT !.step = next]
<1>1. /\ dispatcher[d].step = "announce"
      /\ UNCHANGED <<log, unacked, audited, jobs, requested, needy>>
  BY DEF PublishSaved
<1>2. dispatcher' = [dispatcher EXCEPT ![d] = new]
  BY DEF PublishSaved
<1>3. dispatcher[d].step # "idle" /\ dispatcher[d].step \in SavedSteps
  BY <1>1 DEF SavedSteps
<1>4. /\ dispatcher[d] \in [step : {"save"} \cup SavedSteps, event : EventIds, job : Nat]
      /\ e \in DOMAIN log
  BY <1>3, BusyDispatcher
<1>5. e \in audited /\ j \in DOMAIN jobs
  BY <1>3 DEF Inv, HeldRowsExist
<1>6. next \in SavedSteps
  BY DEF SavedSteps
<1>7. ASSUME NEW i \in DOMAIN jobs, WillRequest(e, i)
      PROVE  j = i /\ next # "ack"
  BY <1>3, <1>7 DEF WillRequest
<1>8. next = "request" => ~ log[e].text
  OBVIOUS
<1> HIDE DEF next
<1>9. /\ new \in [step : SavedSteps, event : EventIds, job : Nat]
      /\ new.step = next /\ new.event = e /\ new.job = j
  BY <1>4, <1>6
<1>10. new \in Dispatcher
  BY <1>9 DEF Dispatcher
<1>11. \A i \in DOMAIN jobs : \A f \in DOMAIN log :
           WillRequest(f, i) /\ new.step \in SavedSteps /\ new.event = f =>
               new.job = i /\ new.step # "ack"
  BY <1>7, <1>9
<1> HIDE DEF new
<1> QED
  BY <1>1, <1>2, <1>4, <1>5, <1>8, <1>9, <1>10, <1>11, MoveStep

\* The request is stored: the row the message was to make it for has it.
LEMMA RequestStep ==
    ASSUME Inv, NEW d \in Dispatchers, RequestDescription(d)
    PROVE  Inv'
<1> DEFINE e == dispatcher[d].event
           j == dispatcher[d].job
           new == [dispatcher[d] EXCEPT !.step = "ack"]
<1>1. /\ dispatcher[d].step = "request"
      /\ requested' = requested \cup {<<log[e].source, j>>}
      /\ needy' = needy \ {j}
      /\ UNCHANGED <<log, unacked, audited, jobs>>
  BY DEF RequestDescription
<1>2. dispatcher' = [dispatcher EXCEPT ![d] = new]
  BY DEF RequestDescription
<1>3. dispatcher[d].step # "idle" /\ dispatcher[d].step \in SavedSteps
  BY <1>1 DEF SavedSteps
<1>4. /\ dispatcher[d] \in [step : {"save"} \cup SavedSteps, event : EventIds, job : Nat]
      /\ e \in DOMAIN log
  BY <1>3, BusyDispatcher
<1>5. e \in audited /\ j \in DOMAIN jobs
  BY <1>3 DEF Inv, HeldRowsExist
<1>6. log[e].source \in Sources
  <2>1. log[e] \in Postings
    BY <1>4, ElementOfSeq, LenProperties DEF Inv, TypeOK
  <2> QED
    BY <2>1, IdentitiesType DEF Posting
<1>7. /\ new \in [step : SavedSteps, event : EventIds, job : Nat]
      /\ new.event = e /\ new.job = j /\ new.step = "ack"
  BY <1>4 DEF SavedSteps
<1>8. new \in Dispatcher
  BY <1>7 DEF Dispatcher
<1> HIDE DEF new
<1>9. /\ dispatcher' \in [Dispatchers -> Dispatcher]
      /\ dispatcher'[d] = new
      /\ \A c \in Dispatchers : c # d => dispatcher'[c] = dispatcher[c]
  BY <1>2, <1>8 DEF Inv, TypeOK
<1>10. TypeOK'
  BY <1>1, <1>5, <1>6, <1>9 DEF Inv, TypeOK
<1>11. UniqueKeys' /\ KeysAgree' /\ RowsAreFew'
  BY <1>1, SameRows DEF Inv
<1>12. HeldRowsExist' /\ AcknowledgedIsSaved'
  BY <1>1, <1>4, <1>5, <1>7, <1>9 DEF Inv, HeldRowsExist, AcknowledgedIsSaved
<1>13. ASSUME NEW i \in DOMAIN jobs, NEW f \in DOMAIN log, WillRequest(f, i), f # e
       PROVE  WillRequest(f, i)'
  BY <1>1, <1>7, <1>9, <1>13 DEF WillRequest, KeyOf
<1>14. ASSUME NEW i \in DOMAIN jobs, WillRequest(e, i)
       PROVE  i = j
  BY <1>3, <1>14 DEF WillRequest
<1>15. ASSUME NEW i \in DOMAIN jobs PROVE Covered(i)'
  <2>1. Covered(i)
    BY DEF Inv, BlankJobsAreCovered
  <2>2. CASE i = j
    BY <1>1, <1>6, <2>2 DEF Covered
  <2>3. CASE i # j
    BY <1>1, <1>13, <1>14, <2>1, <2>3 DEF Covered
  <2> QED
    BY <2>2, <2>3
<1> QED
  BY <1>1, <1>10, <1>11, <1>12, <1>15 DEF Inv, BlankJobsAreCovered

\* Only a message that has nothing left to request is acknowledged.
LEMMA AckStep ==
    ASSUME Inv, NEW d \in Dispatchers, Ack(d)
    PROVE  Inv'
<1> DEFINE e == dispatcher[d].event
<1>1. /\ dispatcher[d].step = "ack"
      /\ unacked' = unacked \ {e}
      /\ dispatcher' = [dispatcher EXCEPT ![d] = Idle]
      /\ UNCHANGED <<log, audited, jobs, requested, needy>>
  BY DEF Ack
<1>2. Idle \in Dispatcher /\ Idle.step = "idle" /\ Idle.step \notin SavedSteps
  BY DEF Dispatcher, Idle, SavedSteps
<1>3. /\ dispatcher' \in [Dispatchers -> Dispatcher]
      /\ dispatcher'[d] = Idle
      /\ \A c \in Dispatchers : c # d => dispatcher'[c] = dispatcher[c]
  BY <1>1, <1>2 DEF Inv, TypeOK
<1>4. TypeOK'
  BY <1>1, <1>3 DEF Inv, TypeOK
<1>5. UniqueKeys' /\ KeysAgree' /\ RowsAreFew'
  BY <1>1, SameRows DEF Inv
<1>6. HeldRowsExist' /\ AcknowledgedIsSaved'
  BY <1>1, <1>2, <1>3 DEF Inv, HeldRowsExist, AcknowledgedIsSaved, SavedSteps
<1>7. ASSUME NEW i \in DOMAIN jobs, NEW f \in DOMAIN log, WillRequest(f, i)
      PROVE  WillRequest(f, i)'
  <2>1. f # e
    BY <1>1, <1>7 DEF WillRequest, SavedSteps
  <2> QED
    BY <1>1, <1>2, <1>3, <1>7, <2>1 DEF WillRequest, KeyOf
<1>8. BlankJobsAreCovered'
  BY <1>1, <1>7 DEF Inv, BlankJobsAreCovered, Covered
<1> QED
  BY <1>4, <1>5, <1>6, <1>8 DEF Inv

--------------------------------------------------------------------------------
(* The save.                                                               *)

\* What SaveDiscoveredJob does to the table: row k is that of posting p, the
\* other rows stay, and no other row has the key of p.
RowSaved(p, k) ==
    /\ jobs' \in Seq(Row)
    /\ Len(jobs') <= Len(jobs) + 1
    /\ DOMAIN jobs' = DOMAIN jobs \cup {k}
    /\ jobs'[k] = RowOf(p)
    /\ \A i \in DOMAIN jobs \ {k} : /\ jobs'[i] = jobs[i]
                                     /\ jobs[i].key # KeyOf(p)

\* Inserted or updated, the saved row is the only one with the posting's key.
LEMMA SaveRow ==
    ASSUME Inv, NEW d \in Dispatchers, SaveDiscoveredJob(d), log[dispatcher[d].event] \in Postings
    PROVE  \E k \in Nat : /\ RowSaved(log[dispatcher[d].event], k) /\ SavedAs(d, k)
                         /\ Left(k, log[dispatcher[d].event])
<1> DEFINE p == log[dispatcher[d].event]
<1>1. RowOf(p) \in Row
  BY IdentitiesType
<1>2. jobs \in Seq(Row) /\ Len(jobs) \in Nat /\ DOMAIN jobs = 1 .. Len(jobs)
  BY LenProperties DEF Inv, TypeOK
<1> HIDE DEF p
<1>3. CASE /\ ~ Known(p) /\ jobs' = Append(jobs, RowOf(p))
           /\ SavedAs(d, Len(jobs) + 1) /\ Left(Len(jobs) + 1, p)
  <2>1. /\ jobs' \in Seq(Row)
        /\ Len(jobs') = Len(jobs) + 1
        /\ DOMAIN jobs' = DOMAIN jobs \cup {Len(jobs) + 1}
        /\ jobs'[Len(jobs) + 1] = RowOf(p)
        /\ \A i \in DOMAIN jobs : jobs'[i] = jobs[i]
    BY <1>1, <1>2, <1>3, ExtendSeq
  <2>2. \A i \in DOMAIN jobs : jobs[i].key # KeyOf(p)
    BY <1>3 DEF Known, Found, ByKey
  <2>3. RowSaved(p, Len(jobs) + 1) /\ Len(jobs) + 1 \in Nat
    BY <1>2, <2>1, <2>2 DEF RowSaved
  <2> QED
    BY <1>3, <2>3 DEF p
<1>4. ASSUME NEW j \in DOMAIN jobs, Found(p, j), Fits(p, j),
             jobs' = [jobs EXCEPT ![j] = RowOf(p)], SavedAs(d, j), Left(j, p)
      PROVE  \E k \in Nat : RowSaved(p, k) /\ SavedAs(d, k) /\ Left(k, p)
  <2>1. /\ jobs' \in Seq(Row)
        /\ Len(jobs') = Len(jobs)
        /\ DOMAIN jobs' = DOMAIN jobs
        /\ jobs'[j] = RowOf(p)
        /\ \A i \in DOMAIN jobs : i # j => jobs'[i] = jobs[i]
    BY <1>1, <1>2, <1>4, UpdateSeq
  <2>2. RowSaved(p, j) /\ j \in Nat
    BY <1>2, <1>4, <2>1 DEF RowSaved, Fits
  <2> QED
    BY <1>4, <2>2
<1> QED
  BY <1>3, <1>4 DEF SaveDiscoveredJob, p

\* The save: the row of a posting without text waits for the message just saved,
\* which nobody has saved before and so nobody holds past its save.
LEMMA SaveStep ==
    ASSUME Inv, NEW d \in Dispatchers, SaveDiscoveredJob(d)
    PROVE  Inv'
<1> DEFINE e == dispatcher[d].event
           p == log[e]
<1>1. /\ dispatcher[d].step = "save" /\ e \notin audited
      /\ audited' = audited \cup {e}
      /\ UNCHANGED <<log, unacked, requested>>
  BY DEF SaveDiscoveredJob
<1>2. /\ dispatcher[d] \in [step : {"save"} \cup SavedSteps, event : EventIds, job : Nat]
      /\ e \in DOMAIN log
  BY <1>1, BusyDispatcher
<1>3. p \in Postings
  BY <1>2, ElementOfSeq, LenProperties DEF Inv, TypeOK
<1>4. PICK k \in Nat : RowSaved(p, k) /\ SavedAs(d, k) /\ Left(k, p)
  BY <1>3, SaveRow
<1> DEFINE new == [dispatcher[d] EXCEPT !.step = "announce", !.job = k]
<1>5. dispatcher' = [dispatcher EXCEPT ![d] = new]
  BY <1>4 DEF SavedAs
<1>6. /\ new \in [step : SavedSteps, event : EventIds, job : Nat]
      /\ new.step = "announce" /\ new.event = e /\ new.job = k
  BY <1>2 DEF SavedSteps
<1>7. new \in Dispatcher
  BY <1>6 DEF Dispatcher
<1> HIDE DEF new
<1>8. /\ dispatcher' \in [Dispatchers -> Dispatcher]
      /\ dispatcher'[d] = new
      /\ \A c \in Dispatchers : c # d => dispatcher'[c] = dispatcher[c]
  BY <1>5, <1>7 DEF Inv, TypeOK
<1>9. /\ jobs' \in Seq(Row)
      /\ Len(jobs') <= Len(jobs) + 1
      /\ DOMAIN jobs' = DOMAIN jobs \cup {k}
      /\ jobs'[k] = RowOf(p)
      /\ \A i \in DOMAIN jobs : i # k => jobs'[i] = jobs[i] /\ jobs[i].key # KeyOf(p)
  BY <1>4 DEF RowSaved
<1>10. /\ jobs'[k].key = KeyOf(p) /\ jobs'[k].ext = ExternalKey(p)
       /\ jobs'[k].text = p.text
       /\ ExternalKey(p) # NoKey => ExternalKey(p) = KeyOf(p)
  BY <1>3, <1>9, IdentitiesType
<1>11. needy' = IF p.text THEN needy \ {k} ELSE needy \cup {k}
  BY <1>4 DEF Left
<1> HIDE DEF e, p
<1>12. RowsAreFew' /\ Len(jobs') <= MaxEvents
  <2>1. /\ IsFiniteSet(audited) /\ Cardinality(audited) \in Nat
        /\ Len(jobs) <= Cardinality(audited) /\ Len(jobs) \in Nat /\ Len(jobs') \in Nat
    BY <1>9, LenProperties, SavedEventsAreFew DEF Inv, TypeOK, RowsAreFew
  <2>2. Cardinality(audited') = Cardinality(audited) + 1
    BY <1>1, <2>1, FS_AddElement
  <2>3. Cardinality(audited') <= MaxEvents
    <3>1. audited' \subseteq DOMAIN log /\ log \in Seq(Postings) /\ Len(log) <= MaxEvents
      BY <1>1, <1>2 DEF Inv, TypeOK
    <3>2. DOMAIN log = 1 .. Len(log) /\ Len(log) \in Nat
      BY <3>1, LenProperties
    <3> QED
      BY <3>1, <3>2, EventsAreFew
  <2> QED
    BY <1>9, <2>1, <2>2, <2>3, DiscoveryAssumption DEF RowsAreFew
<1>13. TypeOK'
  BY <1>1, <1>2, <1>8, <1>9, <1>11, <1>12 DEF Inv, TypeOK
<1>14. UniqueKeys'
  BY <1>9, <1>10 DEF Inv, UniqueKeys
<1>15. KeysAgree'
  BY <1>9, <1>10 DEF Inv, KeysAgree
<1>16. HeldRowsExist' /\ AcknowledgedIsSaved'
  BY <1>1, <1>2, <1>6, <1>8, <1>9 DEF Inv, HeldRowsExist, AcknowledgedIsSaved
<1>17. ASSUME NEW i \in DOMAIN jobs, i # k, NEW f \in DOMAIN log, WillRequest(f, i)
       PROVE  WillRequest(f, i)'
  <2>1. f # e
    BY <1>1, <1>17 DEF WillRequest
  <2> QED
    BY <1>1, <1>6, <1>8, <1>9, <1>17, <2>1 DEF WillRequest, KeyOf
<1>18. ASSUME NEW i \in DOMAIN jobs, i # k PROVE Covered(i)'
  <2>1. Covered(i)
    BY DEF Inv, BlankJobsAreCovered
  <2> QED
    BY <1>1, <1>9, <1>11, <1>17, <1>18, <2>1 DEF Covered
<1>19. Covered(k)'
  <2>1. CASE p.text
    BY <1>10, <1>11, <2>1 DEF Covered
  <2>2. CASE ~ p.text
    <3>1. PICK f \in DOMAIN log : f = e
      BY <1>2 DEF e
    <3>2. \A c \in Dispatchers : c # d /\ dispatcher[c].step \in SavedSteps =>
                                     dispatcher[c].event # f
      BY <1>1, <3>1 DEF Inv, HeldRowsExist
    <3>3. f \in unacked
      BY <1>1, <3>1 DEF Inv, AcknowledgedIsSaved
    <3>4. KeyOf(log[f]) = jobs'[k].key /\ ~ log[f].text
      BY <1>10, <2>2, <3>1 DEF p
    <3>5. new.event = f /\ new.job = k /\ new.step = "announce"
      BY <1>6, <3>1 DEF e
    <3>6. WillRequest(f, k)'
      BY <1>1, <1>8, <3>1, <3>2, <3>3, <3>4, <3>5 DEF WillRequest, KeyOf
    <3> QED
      BY <1>1, <1>11, <2>2, <3>6 DEF Covered
  <2> QED
    BY <2>1, <2>2
<1> QED
  BY <1>9, <1>12, <1>13, <1>14, <1>15, <1>16, <1>18, <1>19 DEF Inv, BlankJobsAreCovered

--------------------------------------------------------------------------------
(* The theorems.                                                           *)

\* Every step preserves the invariant.
LEMMA NextInv == Inv /\ [Next]_vars => Inv'
<1> SUFFICES ASSUME Inv, [Next]_vars PROVE Inv'
  OBVIOUS
<1>1. CASE UNCHANGED vars
  <2>1. UNCHANGED <<log, unacked, audited, jobs, requested, needy, dispatcher>>
    BY <1>1 DEF vars
  <2>2. TypeOK' /\ HeldRowsExist' /\ AcknowledgedIsSaved'
    BY <2>1 DEF Inv, TypeOK, HeldRowsExist, AcknowledgedIsSaved
  <2>3. UniqueKeys' /\ KeysAgree' /\ RowsAreFew'
    BY <2>1, SameRows DEF Inv
  <2>4. ASSUME NEW j \in DOMAIN jobs, NEW e \in DOMAIN log, WillRequest(e, j)
        PROVE  WillRequest(e, j)'
    BY <2>1, <2>4 DEF WillRequest, KeyOf
  <2>5. BlankJobsAreCovered'
    BY <2>1, <2>4 DEF Inv, BlankJobsAreCovered, Covered
  <2> QED
    BY <2>2, <2>3, <2>5 DEF Inv
<1>2. CASE \E p \in Postings : Discover(p)
  BY <1>2, DiscoverStep
<1>3. CASE \E r \in requested, text \in BOOLEAN : FetchDescription(r, text)
  BY <1>3, FetchStep
<1>4. CASE \E d \in Dispatchers : \E e \in unacked : Deliver(d, e)
  BY <1>4, DeliverStep
<1>5. CASE \E d \in Dispatchers : GiveUp(d) \/ SaveDiscoveredJob(d) \/ Redelivered(d)
  BY <1>5, GiveUpStep, SaveStep, RedeliveredStep
<1>6. CASE \E d \in Dispatchers : PublishSaved(d) \/ RequestDescription(d) \/ Ack(d)
  BY <1>6, PublishSavedStep, RequestStep, AckStep
<1> QED
  BY <1>1, <1>2, <1>3, <1>4, <1>5, <1>6 DEF Next

\* What JobsMoveByUrl says of one step.
MovesByUrl ==
    \A j \in DOMAIN jobs :
        jobs'[j].key # jobs[j].key => /\ jobs'[j].url = jobs[j].url
                                      /\ jobs[j].url # NoUrl

\* Only a save writes keys, and it finds a row with another key by URL only.
LEMMA MovesByUrlStep ==
    ASSUME Inv, [Next]_vars
    PROVE  MovesByUrl
<1> USE DEF MovesByUrl
<1>1. ASSUME Inv, NEW d \in Dispatchers, SaveDiscoveredJob(d)
      PROVE  MovesByUrl
  <2> DEFINE p == log[dispatcher[d].event]
  <2>1. dispatcher[d].step = "save"
    BY <1>1 DEF SaveDiscoveredJob
  <2>2. p \in Postings
    BY <1>1, <2>1, BusyDispatcher, ElementOfSeq, LenProperties DEF Inv, TypeOK
  <2>3. RowOf(p) \in Row /\ RowOf(p).key = KeyOf(p) /\ RowOf(p).url = Url(p)
    BY <2>2, IdentitiesType
  <2>4. jobs \in Seq(Row)
    BY <1>1 DEF Inv, TypeOK
  <2>5. ByExternalId(p) \subseteq ByKey(p)
    BY <1>1, <2>2, ExternalIdGivesKey DEF Inv
  <2> HIDE DEF p
  <2>6. CASE jobs' = Append(jobs, RowOf(p))
    BY <2>3, <2>4, <2>6, ExtendSeq
  <2>7. ASSUME NEW k \in DOMAIN jobs, Found(p, k), jobs' = [jobs EXCEPT ![k] = RowOf(p)]
        PROVE  MovesByUrl
    <3>1. /\ jobs'[k] = RowOf(p)
          /\ \A j \in DOMAIN jobs : j # k => jobs'[j] = jobs[j]
      BY <2>3, <2>4, <2>7, UpdateSeq
    <3>2. CASE k \in ByKey(p)
      BY <2>3, <3>1, <3>2 DEF ByKey
    <3>3. CASE k \in ByUrl(p)
      BY <2>3, <3>1, <3>3 DEF ByUrl
    <3> QED
      BY <2>5, <2>7, <3>2, <3>3 DEF Found
  <2> QED
    BY <1>1, <2>6, <2>7 DEF SaveDiscoveredJob, p
<1>2. ASSUME Inv, NEW r \in requested, NEW text \in BOOLEAN,
             FetchDescription(r, text)
      PROVE  MovesByUrl
  <2>1. r[2] \in DOMAIN jobs /\ jobs \in Seq(Row)
    BY <1>2 DEF Inv, TypeOK
  <2>2. jobs[r[2]] \in Row
    BY <2>1, ElementOfSeq, LenProperties
  <2> DEFINE new == [jobs[r[2]] EXCEPT !.text = text]
  <2>3. new \in Row /\ new.key = jobs[r[2]].key
    BY <2>2 DEF Row
  <2>4. jobs' = [jobs EXCEPT ![r[2]] = new]
    BY <1>2 DEF FetchDescription
  <2> HIDE DEF new
  <2>5. /\ jobs'[r[2]] = new
        /\ \A j \in DOMAIN jobs : j # r[2] => jobs'[j] = jobs[j]
    BY <2>1, <2>3, <2>4, UpdateSeq
  <2> QED
    BY <2>3, <2>5
<1>3. CASE UNCHANGED jobs
  BY <1>3
<1> QED
  BY <1>1, <1>2, <1>3 DEF Next, vars, Discover, Deliver, GiveUp, Redelivered,
                          PublishSaved, RequestDescription, Ack

\* The inductive invariant of discovery holds always.
THEOREM DiscoveryInvariance == Spec => []Inv
BY InitInv, NextInv, PTL DEF Spec

\* The variables of discovery keep their types.
THEOREM DiscoveryTypeCorrect == Spec => []TypeOK
<1>1. Inv => TypeOK
  BY DEF Inv
<1> QED
  BY <1>1, DiscoveryInvariance, PTL

\* A save never runs into a unique index of jobs: the row found by any of the
\* three queries of upsertJob can always take over the identities of the event.
THEOREM NoSaveConflicts == Spec => []SavesNeverConflict
<1>1. Inv => SavesNeverConflict
  BY FoundRowFits DEF Inv, SavesNeverConflict
<1> QED
  BY <1>1, DiscoveryInvariance, PTL

\* A job that was left without a description has a request to fetch it, or a
\* message that will make one is still in the stream.
THEOREM BlankJobsRequested == Spec => []BlankJobsAreRequested
<1>1. Inv => BlankJobsAreRequested
  BY DEF Inv, BlankJobsAreCovered, Covered, WillRequest, BlankJobsAreRequested,
         StillToBeRequested
<1> QED
  BY <1>1, DiscoveryInvariance, PTL

\* A row of jobs becomes another posting only by way of a common canonical URL.
THEOREM JobsOnlyMoveByUrl == Spec => JobsMoveByUrl
<1>1. Inv /\ [Next]_vars =>
        [\A j \in DOMAIN jobs :
            jobs'[j].key # jobs[j].key => /\ jobs'[j].url = jobs[j].url
                                          /\ jobs[j].url # NoUrl]_vars
  BY MovesByUrlStep DEF MovesByUrl
<1> QED
  BY <1>1, DiscoveryInvariance, PTL DEF Spec, JobsMoveByUrl

--------------------------------------------------------------------------------
(* The promise to the pipeline, step by step.                              *)

SavedStep == [Saved!SavedNext]_(Saved!savedVars)

\* What is covered is owed, and rows are numbered within the bound.
LEMMA NeedyAreOwed ==
    ASSUME Inv
    PROVE  needy \subseteq Owed /\ Owed \subseteq DOMAIN jobs /\ DOMAIN jobs \subseteq Rows
<1>1. ASSUME NEW j \in needy PROVE j \in Owed
  <2>1. j \in DOMAIN jobs
    BY DEF Inv, TypeOK
  <2>2. \E e \in DOMAIN log : WillRequest(e, j)
    BY <2>1 DEF Inv, BlankJobsAreCovered, Covered
  <2> QED
    BY <2>1, <2>2 DEF WillRequest, Owed, StillToBeRequested
<1>2. Owed \subseteq DOMAIN jobs
  BY DEF Owed
<1>3. DOMAIN jobs \subseteq Rows
  <2>1. DOMAIN jobs = 1 .. Len(jobs) /\ Len(jobs) \in Nat /\ Len(jobs) <= MaxEvents
    BY LenProperties DEF Inv, TypeOK
  <2> QED
    BY <2>1, DiscoveryAssumption DEF Rows, EventIds
<1> QED
  BY <1>1, <1>2, <1>3

\* Two sets that differ in one element at most.
LEMMA OneElement ==
    ASSUME NEW A, NEW B, NEW j, \A i : i # j => (i \in A <=> i \in B)
    PROVE  B \in {A, A \cup {j}, A \ {j}}
<1>1. CASE j \in A /\ j \in B
  BY <1>1
<1>2. CASE j \in A /\ j \notin B
  BY <1>2
<1>3. CASE j \notin A
  BY <1>3
<1> QED
  BY <1>1, <1>2, <1>3

\* A step that leaves the needy alone and concerns one job at most is a turn of it.
LEMMA TurnStep ==
    ASSUME Inv, Inv', UNCHANGED needy, NEW j, \A i : i # j => (i \in Owed <=> i \in Owed')
    PROVE  SavedStep
<1>1. Owed' \in {Owed, Owed \cup {j}, Owed \ {j}}
  BY OneElement
<1>2. needy \subseteq Owed' /\ Owed' \subseteq DOMAIN jobs' /\ DOMAIN jobs' \subseteq Rows
  <2>1. (needy \subseteq Owed /\ Owed \subseteq DOMAIN jobs /\ DOMAIN jobs \subseteq Rows)'
    BY NeedyAreOwed, PTL
  <2> QED
    BY <2>1 DEF Rows, EventIds
<1>3. Owed \subseteq Rows
  BY NeedyAreOwed
<1>4. CASE Owed' = Owed
  BY <1>4 DEF SavedStep, Saved!savedVars
<1>5. CASE Owed' # Owed
  <2>1. j \in Rows
    BY <1>1, <1>2, <1>3, <1>5
  <2>2. Owed' = Owed \cup {j} \/ (j \notin needy /\ Owed' = Owed \ {j})
    BY <1>1, <1>2, <1>5
  <2> QED
    BY <2>1, <2>2 DEF SavedStep, Saved!SavedNext, Saved!Turn
<1> QED
  BY <1>4, <1>5

\* Only the dispatcher that moves may begin or cease to be about to ask.
LEMMA OthersWillAsk ==
    ASSUME Inv, NEW d \in Dispatchers, NEW new,
           dispatcher' = [dispatcher EXCEPT ![d] = new], UNCHANGED log
    PROVE  /\ dispatcher'[d] = new
           /\ \A i : \A c \in Dispatchers : c # d => (WillAsk(c, i)' <=> WillAsk(c, i))
<1>1. dispatcher \in [Dispatchers -> Dispatcher]
  BY DEF Inv, TypeOK
<1>2. dispatcher'[d] = new /\ \A c \in Dispatchers : c # d => dispatcher'[c] = dispatcher[c]
  BY <1>1
<1> QED
  BY <1>2 DEF WillAsk

\* A dispatcher that only moves on: what it will ask for changes for one job at most.
LEMMA MoveTurns ==
    ASSUME Inv, Inv', NEW d \in Dispatchers, NEW new,
           dispatcher' = [dispatcher EXCEPT ![d] = new],
           UNCHANGED <<log, unacked, audited, jobs, needy>>,
           NEW j, \A i : i # j => (WillAsk(d, i)' <=> WillAsk(d, i))
    PROVE  SavedStep
<1>1. \A i : \A c \in Dispatchers : i # j => (WillAsk(c, i)' <=> WillAsk(c, i))
  BY OthersWillAsk
<1>2. \A i : StillToBeRequested(i)' <=> StillToBeRequested(i)
  BY DEF StillToBeRequested, KeyOf
<1>3. \A i : i # j => (i \in Owed <=> i \in Owed')
  BY <1>1, <1>2 DEF Owed
<1> QED
  BY <1>3, TurnStep

\* An event that is not saved yet asks for nothing.
LEMMA DiscoverSaves ==
    ASSUME Inv, Inv', NEW p \in Postings, Discover(p)
    PROVE  SavedStep
<1>1. /\ log' = Append(log, p) /\ unacked' = unacked \cup {Len(log) + 1}
      /\ UNCHANGED <<audited, jobs, needy, dispatcher>>
  BY DEF Discover
<1>2. Len(log) + 1 \notin DOMAIN log /\ \A e \in DOMAIN log : log'[e] = log[e]
  BY <1>1, ExtendSeq DEF Inv, TypeOK
<1>3. \A i : StillToBeRequested(i)' <=> StillToBeRequested(i)
  <2>1. unacked' \cap audited' = unacked \cap audited
    BY <1>1, <1>2 DEF Inv, TypeOK
  <2>2. \A e \in unacked \cap audited : e \in DOMAIN log
    BY DEF Inv, TypeOK
  <2> QED
    BY <1>1, <1>2, <2>1, <2>2 DEF StillToBeRequested, KeyOf
<1>4. \A i : \A d \in Dispatchers : WillAsk(d, i)' <=> WillAsk(d, i)
  <2>1. \A d \in Dispatchers : dispatcher[d].step \in {"announce", "request"} =>
                                   dispatcher[d].event \in DOMAIN log
    BY DEF Inv, HeldRowsExist
  <2> QED
    BY <1>1, <1>2, <2>1 DEF WillAsk
<1>5. \A i : i # 0 => (i \in Owed <=> i \in Owed')
  BY <1>1, <1>3, <1>4 DEF Owed
<1> QED
  BY <1>1, <1>5, TurnStep

\* A fetched description.
LEMMA FetchSaves ==
    ASSUME Inv, Inv', NEW r \in requested, NEW text \in BOOLEAN, FetchDescription(r, text)
    PROVE  SavedStep
<1> DEFINE k == r[2]
           new == [jobs[k] EXCEPT !.text = text]
<1>1. /\ jobs' = [jobs EXCEPT ![k] = new] /\ needy' = needy \ {k}
      /\ UNCHANGED <<log, unacked, audited, dispatcher>>
  BY DEF FetchDescription
<1>2. k \in DOMAIN jobs /\ jobs \in Seq(Row) /\ k \in Rows
  BY NeedyAreOwed DEF Inv, TypeOK
<1>3. jobs[k] \in Row
  BY <1>2, ElementOfSeq, LenProperties
<1>4. new \in Row /\ new.key = jobs[k].key
  BY <1>3 DEF Row
<1> HIDE DEF new
<1>5. DOMAIN jobs' = DOMAIN jobs /\ \A i \in DOMAIN jobs : jobs'[i].key = jobs[i].key
  BY <1>1, <1>2, <1>4, UpdateSeq
<1>6. \A i \in DOMAIN jobs : StillToBeRequested(i)' <=> StillToBeRequested(i)
  BY <1>1, <1>5 DEF StillToBeRequested, KeyOf
<1>7. \A i : \A d \in Dispatchers : WillAsk(d, i)' <=> WillAsk(d, i)
  BY <1>1 DEF WillAsk
<1>8. Owed' = Owed
  BY <1>5, <1>6, <1>7 DEF Owed
<1> QED
  BY <1>1, <1>2, <1>8 DEF SavedStep, Saved!SavedNext, Saved!Fetched

\* A dispatcher that takes a message or gives it up.
LEMMA DeliverSaves ==
    ASSUME Inv, Inv', NEW d \in Dispatchers, NEW e \in unacked, Deliver(d, e)
    PROVE  SavedStep
<1>1. PICK new : new = [step |-> "save", event |-> e, job |-> None]
  OBVIOUS
<1>2. /\ dispatcher' = [dispatcher EXCEPT ![d] = new] /\ dispatcher[d].step = "idle"
      /\ UNCHANGED <<log, unacked, audited, jobs, needy>>
  BY <1>1 DEF Deliver
<1>3. dispatcher'[d] = new /\ new.step = "save"
  BY <1>1, <1>2, OthersWillAsk
<1>4. \A i : WillAsk(d, i)' <=> WillAsk(d, i)
  BY <1>2, <1>3 DEF WillAsk
<1> QED
  BY <1>2, <1>4, MoveTurns

LEMMA GiveUpSaves ==
    ASSUME Inv, Inv', NEW d \in Dispatchers, GiveUp(d)
    PROVE  SavedStep
<1>1. /\ dispatcher' = [dispatcher EXCEPT ![d] = Idle]
      /\ UNCHANGED <<log, unacked, audited, jobs, needy>>
  BY DEF GiveUp
<1>2. dispatcher'[d] = Idle
  BY <1>1, OthersWillAsk
<1>3. \A i : i # dispatcher[d].job => (WillAsk(d, i)' <=> WillAsk(d, i))
  BY <1>2 DEF WillAsk, Idle
<1> QED
  BY <1>1, <1>3, MoveTurns

\* A saved event delivered again: it will ask for the row with its key.
LEMMA RedeliveredSaves ==
    ASSUME Inv, Inv', NEW d \in Dispatchers, Redelivered(d)
    PROVE  SavedStep
<1>1. PICK j \in ByKey(log[dispatcher[d].event]) : SavedAs(d, j)
  BY DEF Redelivered
<1>2. dispatcher[d].step = "save" /\ UNCHANGED <<log, unacked, audited, jobs, needy>>
  BY DEF Redelivered
<1>3. PICK new : new = [dispatcher[d] EXCEPT !.step = "announce", !.job = j]
  OBVIOUS
<1>4. dispatcher' = [dispatcher EXCEPT ![d] = new]
  BY <1>1, <1>3 DEF SavedAs
<1>5. dispatcher[d] \in [step : {"save"} \cup SavedSteps, event : EventIds, job : Nat]
  BY <1>2, BusyDispatcher
<1>6. dispatcher'[d] = new /\ new.job = j
  BY <1>2, <1>3, <1>4, <1>5, OthersWillAsk
<1>7. \A i : i # j => (WillAsk(d, i)' <=> WillAsk(d, i))
  BY <1>2, <1>6 DEF WillAsk
<1> QED
  BY <1>2, <1>4, <1>7, MoveTurns

\* jobs.saved: who was about to ask still is.
LEMMA PublishSavedSaves ==
    ASSUME Inv, Inv', NEW d \in Dispatchers, PublishSaved(d)
    PROVE  SavedStep
<1>1. PICK next : next = IF log[dispatcher[d].event].text THEN "ack" ELSE "request"
  OBVIOUS
<1>2. PICK new : new = [dispatcher[d] EXCEPT !.step = next]
  OBVIOUS
<1>3. /\ dispatcher' = [dispatcher EXCEPT ![d] = new] /\ dispatcher[d].step = "announce"
      /\ UNCHANGED <<log, unacked, audited, jobs, needy>>
  BY <1>1, <1>2 DEF PublishSaved
<1>4. dispatcher[d] \in [step : {"save"} \cup SavedSteps, event : EventIds, job : Nat]
  BY <1>3, BusyDispatcher
<1>5. dispatcher'[d] = new /\ new.job = dispatcher[d].job
  BY <1>2, <1>3, <1>4, OthersWillAsk
<1>6. \A i : i # dispatcher[d].job => (WillAsk(d, i)' <=> WillAsk(d, i))
  BY <1>3, <1>5 DEF WillAsk
<1> QED
  BY <1>3, <1>6, MoveTurns

\* The request for a row that is owed.
LEMMA RequestSaves ==
    ASSUME Inv, Inv', NEW d \in Dispatchers, RequestDescription(d)
    PROVE  SavedStep
<1> DEFINE j == dispatcher[d].job
<1>1. PICK new : new = [dispatcher[d] EXCEPT !.step = "ack"]
  OBVIOUS
<1>2. /\ dispatcher' = [dispatcher EXCEPT ![d] = new] /\ dispatcher[d].step = "request"
      /\ needy' = needy \ {j} /\ UNCHANGED <<log, unacked, audited, jobs>>
  BY <1>1 DEF RequestDescription
<1>3. dispatcher[d] \in [step : {"save"} \cup SavedSteps, event : EventIds, job : Nat]
  BY <1>2, BusyDispatcher
<1>4. dispatcher'[d] = new /\ new.job = j
  BY <1>1, <1>2, <1>3, OthersWillAsk
<1>5. j \in Owed /\ j \in Rows
  <2>1. j \in DOMAIN jobs /\ ~ log[dispatcher[d].event].text
    BY <1>2 DEF Inv, HeldRowsExist, SavedSteps
  <2>2. WillAsk(d, j)
    BY <1>2, <2>1 DEF WillAsk
  <2> QED
    BY <2>1, <2>2, NeedyAreOwed DEF Owed
<1>6. \A i : \A c \in Dispatchers : i # j => (WillAsk(c, i)' <=> WillAsk(c, i))
  <2>1. \A i : i # j => (WillAsk(d, i)' <=> WillAsk(d, i))
    BY <1>4 DEF WillAsk
  <2> QED
    BY <1>2, <2>1, OthersWillAsk
<1>7. \A i : StillToBeRequested(i)' <=> StillToBeRequested(i)
  BY <1>2 DEF StillToBeRequested, KeyOf
<1>8. \A i : i # j => (i \in Owed <=> i \in Owed')
  BY <1>2, <1>6, <1>7 DEF Owed
<1>9. Owed' \in {Owed, Owed \ {j}}
  BY <1>5, <1>8, OneElement
<1> QED
  BY <1>2, <1>5, <1>9 DEF SavedStep, Saved!SavedNext, Saved!Ask

\* An acknowledgement: at most the row with the key of the message is concerned.
LEMMA AckSaves ==
    ASSUME Inv, Inv', NEW d \in Dispatchers, Ack(d)
    PROVE  SavedStep
<1> DEFINE e == dispatcher[d].event
<1>1. /\ dispatcher' = [dispatcher EXCEPT ![d] = Idle] /\ dispatcher[d].step = "ack"
      /\ unacked' = unacked \ {e} /\ UNCHANGED <<log, audited, jobs, needy>>
  BY DEF Ack
<1>2. dispatcher'[d] = Idle
  BY <1>1, OthersWillAsk
<1>3. \A i : \A c \in Dispatchers : WillAsk(c, i)' <=> WillAsk(c, i)
  <2>1. \A i : WillAsk(d, i)' <=> WillAsk(d, i)
    BY <1>1, <1>2 DEF WillAsk, Idle
  <2> QED
    BY <1>1, <2>1, OthersWillAsk
<1>4. \A i \in DOMAIN jobs :
          jobs[i].key # KeyOf(log[e]) => (StillToBeRequested(i)' <=> StillToBeRequested(i))
  BY <1>1 DEF StillToBeRequested, KeyOf
<1>5. PICK j : \A i \in DOMAIN jobs : jobs[i].key = KeyOf(log[e]) => i = j
  BY DEF Inv, UniqueKeys
<1>6. \A i : i # j => (i \in Owed <=> i \in Owed')
  BY <1>1, <1>3, <1>4, <1>5 DEF Owed
<1> QED
  BY <1>1, <1>6, TurnStep

\* The save: nobody else's row changes hands, and the saved one is owed if it is blank.
LEMMA SaveSaves ==
    ASSUME Inv, Inv', NEW d \in Dispatchers, SaveDiscoveredJob(d)
    PROVE  SavedStep
<1> DEFINE e == dispatcher[d].event
           p == log[e]
<1>1. /\ dispatcher[d].step = "save" /\ audited' = audited \cup {e}
      /\ UNCHANGED <<log, unacked>>
  BY DEF SaveDiscoveredJob
<1>2. /\ dispatcher[d] \in [step : {"save"} \cup SavedSteps, event : EventIds, job : Nat]
      /\ e \in DOMAIN log
  BY <1>1, BusyDispatcher
<1>3. p \in Postings
  BY <1>2, ElementOfSeq, LenProperties DEF Inv, TypeOK
<1>4. PICK k \in Nat : RowSaved(p, k) /\ SavedAs(d, k) /\ Left(k, p)
  BY <1>3, SaveRow
<1>5. PICK new : new = [dispatcher[d] EXCEPT !.step = "announce", !.job = k]
  OBVIOUS
<1>6. dispatcher' = [dispatcher EXCEPT ![d] = new]
  BY <1>4, <1>5 DEF SavedAs
<1>7. dispatcher'[d] = new /\ new.step = "announce" /\ new.job = k /\ new.event = e
  BY <1>1, <1>2, <1>5, <1>6, OthersWillAsk
<1>8. needy' = IF p.text THEN needy \ {k} ELSE needy \cup {k}
  BY <1>4 DEF Left
<1>9. /\ DOMAIN jobs' = DOMAIN jobs \cup {k}
      /\ \A i \in DOMAIN jobs : i # k => jobs'[i] = jobs[i] /\ jobs[i].key # KeyOf(p)
  BY <1>4 DEF RowSaved
<1>10. k \in Rows
  <2>1. (DOMAIN jobs \subseteq Rows)'
    BY NeedyAreOwed, PTL
  <2> QED
    BY <1>9, <2>1 DEF Rows, EventIds
<1>11. \A i : i # k => \A c \in Dispatchers : WillAsk(c, i)' <=> WillAsk(c, i)
  <2>1. \A i : i # k => (WillAsk(d, i)' <=> WillAsk(d, i))
    BY <1>1, <1>7 DEF WillAsk
  <2> QED
    BY <1>1, <1>6, <2>1, OthersWillAsk
<1>12. \A i \in DOMAIN jobs : i # k => (StillToBeRequested(i)' <=> StillToBeRequested(i))
  BY <1>1, <1>9 DEF StillToBeRequested, KeyOf
<1>13. \A i : i # k => (i \in Owed <=> i \in Owed')
  BY <1>9, <1>11, <1>12 DEF Owed
<1>14. Owed' \in {Owed, Owed \cup {k}, Owed \ {k}}
  BY <1>13, OneElement
<1>15. CASE p.text
  BY <1>8, <1>10, <1>14, <1>15 DEF SavedStep, Saved!SavedNext, Saved!SaveText
<1>16. CASE ~ p.text
  <2>1. WillAsk(d, k)'
    BY <1>1, <1>7, <1>16 DEF WillAsk
  <2>2. k \in Owed'
    BY <1>9, <2>1 DEF Owed
  <2>3. Owed' = Owed \cup {k}
    BY <1>14, <2>2
  <2> QED
    BY <1>8, <1>10, <1>16, <2>3 DEF SavedStep, Saved!SavedNext, Saved!SaveBlank
<1> QED
  BY <1>15, <1>16

\* Discovery keeps its promise to the pipeline: every blank job is owed a request, and
\* the debt ends only with a request, a fetched description or a posting with a text.
THEOREM DiscoveryKeepsItsPromise == Spec => ImplementsSavedJobs
<1>1. Init => Saved!SavedInit
  BY DEF Init, Owed, Saved!SavedInit
<1>2. Inv /\ Inv' /\ [Next]_vars => [Saved!SavedNext]_(Saved!savedVars)
  <2> SUFFICES ASSUME Inv, Inv', [Next]_vars PROVE SavedStep
    BY DEF SavedStep
  <2>1. CASE UNCHANGED vars
    <3>1. UNCHANGED <<log, unacked, audited, jobs, needy, dispatcher>>
      BY <2>1 DEF vars
    <3>2. Owed' = Owed
      BY <3>1 DEF Owed, StillToBeRequested, WillAsk, KeyOf
    <3> QED
      BY <3>1, <3>2 DEF SavedStep, Saved!savedVars
  <2>2. CASE \E p \in Postings : Discover(p)
    BY <2>2, DiscoverSaves
  <2>3. CASE \E r \in requested, text \in BOOLEAN : FetchDescription(r, text)
    BY <2>3, FetchSaves
  <2>4. CASE \E d \in Dispatchers : \E e \in unacked : Deliver(d, e)
    BY <2>4, DeliverSaves
  <2>5. CASE \E d \in Dispatchers : GiveUp(d) \/ SaveDiscoveredJob(d) \/ Redelivered(d)
    BY <2>5, GiveUpSaves, SaveSaves, RedeliveredSaves
  <2>6. CASE \E d \in Dispatchers : PublishSaved(d) \/ RequestDescription(d) \/ Ack(d)
    BY <2>6, PublishSavedSaves, RequestSaves, AckSaves
  <2> QED
    BY <2>1, <2>2, <2>3, <2>4, <2>5, <2>6 DEF Next
<1> QED
  BY <1>1, <1>2, DiscoveryInvariance, PTL DEF Spec, ImplementsSavedJobs, Saved!SavedSpec

================================================================================
