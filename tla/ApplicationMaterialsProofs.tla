------------------------ MODULE ApplicationMaterialsProofs -----------------------
(***************************************************************************)
(* Proofs about ApplicationMaterials, for any number of applications,      *)
(* tuners and announcements: one row of each kind per announcement, no     *)
(* message acknowledged before its packet is in the table, and what        *)
(* ReviewedMaterials promises to the automation handoff.                   *)
(***************************************************************************)
EXTENDS ApplicationMaterials, SequenceFacts, FiniteSetTheorems, TLAPS

Steps == {"draft", "look", "write"}

\* A packet has its rows up to a place.
HasDrafts(e, P) == \A k \in P : RowsOf(e, k) # {}

\* What a tuner in state p has done for its message.
TunerOK(p) ==
    /\ p.step # "idle" => p.event \in DOMAIN events
    /\ p.step = "start" => p.place = 1
    /\ p.step = "idle" => p = Idle
    /\ p.found # None => p.step = "write" /\ p.found \in RowsOf(p.event, p.place)
    /\ p.step \in Steps => /\ p.content \in Contents
                           /\ HasDrafts(p.event, 1 .. p.place - 1)
    /\ p.step \in {"publish", "ack"} => HasDrafts(p.event, Places)
    /\ p.step \in {"look", "write", "publish", "ack"} => p.event \in versioned
    /\ p.step = "draft" /\ p.place # 1 => p.event \in versioned

\* A row belongs to the application of its announcement.
RowsFollowEvents ==
    \A m \in DOMAIN rows :
        rows[m].event \in DOMAIN events /\ rows[m].app = events[rows[m].event]

\* The unique index.
UniqueRows ==
    \A m, n \in DOMAIN rows :
        rows[m].event = rows[n].event /\ rows[m].place = rows[n].place => m = n

Drafted(e) == HasDrafts(e, Places) /\ e \in versioned

Types ==
    /\ ready \subseteq Applications
    /\ content \in Contents
    /\ rows \in Seq(Row)
    /\ versioned \subseteq DOMAIN events
    /\ announcing \subseteq Applications
    /\ events \in Seq(Applications) /\ Len(events) <= MaxEvents
    /\ unacked \subseteq DOMAIN events
    /\ tuner \in [Tuners -> Tuner]
    /\ everApproved \subseteq DOMAIN rows

\* The inductive invariant.
Inv ==
    /\ Types
    /\ RowsFollowEvents
    /\ UniqueRows
    /\ \A t \in Tuners : TunerOK(tuner[t])
    /\ \A e \in DOMAIN events \ unacked : Drafted(e)

--------------------------------------------------------------------------------
(* The tables.                                                             *)

LEMMA PlacesAre == /\ Places = {1, 2, 3} /\ Places = 1 .. 3
                   /\ \A k \in Places : KindOrder[k] = "resume" <=> k = 1
BY DEF Places, KindOrder

\* Identifiers are positions in the tables.
LEMMA TableFacts ==
    ASSUME Types
    PROVE  /\ Len(events) \in Nat /\ DOMAIN events = 1 .. Len(events)
           /\ DOMAIN events \subseteq EventIds
           /\ \A e \in DOMAIN events : events[e] \in Applications
           /\ Len(rows) \in Nat /\ DOMAIN rows = 1 .. Len(rows)
           /\ \A m \in DOMAIN rows : rows[m] \in Row
<1>1. /\ Len(events) \in Nat /\ DOMAIN events = 1 .. Len(events)
      /\ \A e \in DOMAIN events : events[e] \in Applications
      /\ Len(rows) \in Nat /\ DOMAIN rows = 1 .. Len(rows)
      /\ \A m \in DOMAIN rows : rows[m] \in Row
  BY LenProperties, ElementOfSeq DEF Types
<1> QED
  BY <1>1, MaterialsAssumption DEF Types, EventIds

\* With the unique index the table has three rows at most for every announcement.
LEMMA TableIsSmall ==
    ASSUME Types, RowsFollowEvents, UniqueRows
    PROVE  Len(rows) <= 3 * MaxEvents
<1> DEFINE S == 1 .. Len(rows)
           T == 4 .. 3 * MaxEvents + 3
           f == [m \in S |-> 3 * rows[m].event + rows[m].place]
<1>1. /\ Len(rows) \in Nat /\ MaxEvents \in Nat
      /\ \A m \in S : /\ rows[m].event \in 1 .. MaxEvents /\ rows[m].place \in 1 .. 3
                      /\ m \in DOMAIN rows
  BY TableFacts, PlacesAre, MaterialsAssumption DEF Row, EventIds
<1>2. f \in [S -> T]
  BY <1>1
<1>3. ASSUME NEW m \in S, NEW n \in S, f[m] = f[n] PROVE m = n
  <2>1. 3 * rows[m].event + rows[m].place = 3 * rows[n].event + rows[n].place
    BY <1>3
  <2>2. \A a, b \in Nat : \A k, l \in 1 .. 3 : 3 * a + k = 3 * b + l => a = b /\ k = l
    OBVIOUS
  <2>3. /\ rows[m].event \in Nat /\ rows[n].event \in Nat
        /\ rows[m].place \in 1 .. 3 /\ rows[n].place \in 1 .. 3
    BY <1>1
  <2> HIDE DEF S, f
  <2>4. rows[m].event = rows[n].event /\ rows[m].place = rows[n].place
    BY <2>1, <2>2, <2>3
  <2> QED
    BY <1>1, <2>4 DEF UniqueRows
<1>4. /\ IsFiniteSet(S) /\ IsFiniteSet(T)
      /\ Cardinality(S) = Len(rows) /\ Cardinality(T) = 3 * MaxEvents
  <2>1. /\ IsFiniteSet(S)
        /\ Cardinality(S) = IF 1 > Len(rows) THEN 0 ELSE Len(rows) - 1 + 1
    BY <1>1, FS_Interval
  <2>2. \A b \in Int : /\ IsFiniteSet(4 .. b)
                       /\ Cardinality(4 .. b) = IF 4 > b THEN 0 ELSE b - 4 + 1
    BY FS_Interval
  <2>3. /\ IsFiniteSet(T)
        /\ Cardinality(T) = IF 4 > 3 * MaxEvents + 3 THEN 0 ELSE 3 * MaxEvents + 3 - 4 + 1
    BY <1>1, <2>2
  <2> QED
    BY <1>1, <2>1, <2>3
<1> HIDE DEF S, T, f
<1>5. ~ Cardinality(T) < Cardinality(S)
  BY <1>2, <1>3, <1>4, FS_PigeonHole
<1> QED
  BY <1>1, <1>4, <1>5

\* Tables only grow, and the identity of a row stays.
Grow ==
    /\ DOMAIN events \subseteq DOMAIN events'
    /\ \A e \in DOMAIN events : events'[e] = events[e]
    /\ DOMAIN rows \subseteq DOMAIN rows'
    /\ \A m \in DOMAIN rows : /\ rows'[m].app = rows[m].app
                              /\ rows'[m].event = rows[m].event
                              /\ rows'[m].place = rows[m].place
    /\ versioned \subseteq versioned'

\* What a packet has it keeps.
LEMMA DraftsStay ==
    ASSUME Grow, NEW e \in DOMAIN events
    PROVE  /\ \A k : RowsOf(e, k) \subseteq RowsOf(e, k)'
           /\ \A P : HasDrafts(e, P) => HasDrafts(e, P)'
           /\ Drafted(e) => Drafted(e)'
<1>1. \A k : RowsOf(e, k) \subseteq RowsOf(e, k)'
  BY DEF RowsOf, Grow
<1>2. \A P : HasDrafts(e, P) => HasDrafts(e, P)'
  BY <1>1 DEF HasDrafts
<1> QED
  BY <1>1, <1>2 DEF Drafted, Grow

\* So what another tuner has done stays done.
LEMMA TunerStays ==
    ASSUME Grow, NEW p \in Tuner, TunerOK(p)
    PROVE  TunerOK(p)'
<1>1. CASE p.step = "idle"
  BY <1>1 DEF TunerOK, Idle, Steps, None
<1>2. CASE p.step # "idle"
  <2>1. p.event \in DOMAIN events
    BY <1>2 DEF TunerOK
  <2> QED
    BY <1>2, <2>1, DraftsStay DEF TunerOK, Grow
<1> QED
  BY <1>1, <1>2

\* Messages are acknowledged with their packets, by tuners that have written them.
LEMMA TunersKeep ==
    ASSUME Inv, Grow, NEW t \in Tuners, NEW to \in Tuner,
           tuner' = [tuner EXCEPT ![t] = to], TunerOK(to)',
           Types', RowsFollowEvents', UniqueRows',
           \A e \in DOMAIN events' \ unacked' :
               e \in DOMAIN events \ unacked \/ Drafted(e)'
    PROVE  Inv'
<1>1. /\ tuner'[t] = to
      /\ \A u \in Tuners : u # t => tuner'[u] = tuner[u]
      /\ \A u \in Tuners : tuner[u] \in Tuner
  BY DEF Inv, Types
<1>2. ASSUME NEW u \in Tuners PROVE TunerOK(tuner[u])'
  <2>1. CASE u = t
    BY <1>1, <2>1 DEF TunerOK
  <2>2. CASE u # t
    <3>1. PICK p : p = tuner[u]
      OBVIOUS
    <3>2. p \in Tuner /\ TunerOK(p) /\ tuner'[u] = p
      BY <1>1, <2>2, <3>1 DEF Inv
    <3>3. TunerOK(p)'
      BY <3>2, TunerStays
    <3> QED
      BY <3>2, <3>3 DEF TunerOK
  <2> QED
    BY <2>1, <2>2
<1>3. \A e \in DOMAIN events' \ unacked' : Drafted(e)'
  BY DraftsStay DEF Inv
<1> QED
  BY <1>2, <1>3 DEF Inv

--------------------------------------------------------------------------------
(* The surroundings and the review.                                        *)

\* At first there is nothing.
LEMMA InitInv == Init => Inv
<1> SUFFICES ASSUME Init PROVE Inv
  OBVIOUS
<1>1. DOMAIN rows = {} /\ DOMAIN events = {} /\ Len(events) = 0
  BY DEF Init
<1>2. rows \in Seq(Row) /\ events \in Seq(Applications)
  BY DEF Init
<1>3. Idle \in Tuner
  BY PlacesAre DEF Idle, Tuner
<1>4. Types
  BY <1>1, <1>2, <1>3, MaterialsAssumption DEF Init, Types
<1>5. \A t \in Tuners : TunerOK(tuner[t])
  BY DEF Init, TunerOK, Idle, Steps
<1> QED
  BY <1>1, <1>4, <1>5 DEF Inv, RowsFollowEvents, UniqueRows

\* No message, no row and no tuner is touched.
LEMMA SurroundingsKeep ==
    ASSUME Inv, Types', UNCHANGED <<rows, versioned, events, unacked, tuner>>
    PROVE  Inv'
BY DEF Inv, RowsFollowEvents, UniqueRows, TunerOK, Drafted, HasDrafts, RowsOf

LEMMA ProfileKeeps ==
    ASSUME Inv, NEW a \in Applications,
           EditProfile \/ MarkApplicationReady(a) \/ LeaveReady(a) \/ AnnounceLost(a)
    PROVE  Inv'
<1>1. UNCHANGED <<rows, versioned, events, unacked, tuner, everApproved>>
  BY DEF EditProfile, MarkApplicationReady, LeaveReady, AnnounceLost
<1>2. Types'
  BY <1>1 DEF Inv, Types, EditProfile, MarkApplicationReady, LeaveReady, AnnounceLost
<1> QED
  BY <1>1, <1>2, SurroundingsKeep

\* A new message is not acknowledged.
LEMMA AnnounceKeeps ==
    ASSUME Inv, NEW a \in Applications, Announce(a)
    PROVE  Inv'
<1>1. /\ events' = Append(events, a) /\ unacked' = unacked \cup {Len(events) + 1}
      /\ announcing' = announcing \ {a} /\ Len(events) < MaxEvents
      /\ UNCHANGED <<ready, content, rows, versioned, tuner, everApproved>>
  BY DEF Announce
<1>2. Len(events) \in Nat /\ MaxEvents \in Nat
  BY TableFacts, MaterialsAssumption DEF Inv
<1>3. /\ events' \in Seq(Applications) /\ Len(events') = Len(events) + 1
      /\ DOMAIN events' = DOMAIN events \cup {Len(events) + 1}
      /\ \A e \in DOMAIN events : events'[e] = events[e]
  BY <1>1, ExtendSeq DEF Inv, Types
<1>4. Grow
  BY <1>1, <1>3 DEF Grow
<1>5. Types'
  <2>1. Len(events') <= MaxEvents
    BY <1>1, <1>2, <1>3
  <2> QED
    BY <1>1, <1>3, <2>1 DEF Inv, Types
<1>6. RowsFollowEvents' /\ UniqueRows'
  BY <1>1, <1>3 DEF Inv, RowsFollowEvents, UniqueRows
<1>7. ASSUME NEW t \in Tuners PROVE TunerOK(tuner[t])'
  <2>1. PICK p : p = tuner[t]
    OBVIOUS
  <2>2. p \in Tuner /\ TunerOK(p) /\ tuner'[t] = p
    BY <1>1, <2>1 DEF Inv, Types
  <2>3. TunerOK(p)'
    BY <1>4, <2>2, TunerStays
  <2> QED
    BY <2>2, <2>3 DEF TunerOK
<1>8. \A e \in DOMAIN events' \ unacked' : Drafted(e)'
  BY <1>1, <1>3, <1>4, DraftsStay DEF Inv
<1> QED
  BY <1>5, <1>6, <1>7, <1>8 DEF Inv

\* A row is written: its identity stays, its content and status are new.
LEMMA WriteRow ==
    ASSUME Inv, NEW m \in DOMAIN rows, NEW row \in Row, rows' = [rows EXCEPT ![m] = row],
           row.app = rows[m].app, row.event = rows[m].event, row.place = rows[m].place,
           UNCHANGED <<events, versioned>>
    PROVE  /\ rows' \in Seq(Row) /\ DOMAIN rows' = DOMAIN rows /\ Len(rows') = Len(rows)
           /\ Grow
           /\ RowsFollowEvents' /\ UniqueRows'
<1>1. /\ rows' \in Seq(Row) /\ DOMAIN rows' = DOMAIN rows /\ Len(rows') = Len(rows)
      /\ rows'[m] = row
      /\ \A n \in DOMAIN rows : n # m => rows'[n] = rows[n]
  BY UpdateSeq DEF Inv, Types
<1>2. \A n \in DOMAIN rows : /\ rows'[n].app = rows[n].app
                             /\ rows'[n].event = rows[n].event
                             /\ rows'[n].place = rows[n].place
  BY <1>1
<1>3. Grow
  BY <1>1, <1>2 DEF Grow
<1>4. RowsFollowEvents' /\ UniqueRows'
  BY <1>1, <1>2 DEF Inv, RowsFollowEvents, UniqueRows
<1> QED
  BY <1>1, <1>3, <1>4

LEMMA ReviewKeeps ==
    ASSUME Inv, NEW m \in DOMAIN rows, NEW status \in Verdicts, ReviewMaterial(m, status)
    PROVE  Inv'
<1>1. PICK row : row = [rows[m] EXCEPT !.status = status]
  OBVIOUS
<1>2. /\ rows' = [rows EXCEPT ![m] = row]
      /\ UNCHANGED <<ready, content, versioned, events, unacked, tuner>>
  BY <1>1 DEF ReviewMaterial
<1>3. rows[m] \in Row /\ status \in MaterialStatuses
  BY TableFacts, MaterialsAssumption DEF Inv
<1>4. /\ row \in Row /\ row.app = rows[m].app /\ row.event = rows[m].event
      /\ row.place = rows[m].place
  BY <1>1, <1>3 DEF Row
<1>5. /\ rows' \in Seq(Row) /\ DOMAIN rows' = DOMAIN rows /\ Grow
      /\ RowsFollowEvents' /\ UniqueRows'
  BY <1>2, <1>4, WriteRow
<1>6. Types'
  <2>1. rows[m].app \in Applications
    BY <1>3 DEF Row
  <2>2. everApproved' \subseteq DOMAIN rows' /\ announcing' \subseteq Applications
    BY <1>5, <2>1 DEF ReviewMaterial, Inv, Types
  <2> QED
    BY <1>2, <1>5, <2>2 DEF Inv, Types
<1>7. ASSUME NEW t \in Tuners PROVE TunerOK(tuner[t])'
  <2>1. PICK p : p = tuner[t]
    OBVIOUS
  <2>2. p \in Tuner /\ TunerOK(p) /\ tuner'[t] = p
    BY <1>2, <2>1 DEF Inv, Types
  <2>3. TunerOK(p)'
    BY <1>5, <2>2, TunerStays
  <2> QED
    BY <2>2, <2>3 DEF TunerOK
<1>8. \A e \in DOMAIN events' \ unacked' : Drafted(e)'
  BY <1>2, <1>5, DraftsStay DEF Inv
<1> QED
  BY <1>5, <1>6, <1>7, <1>8 DEF Inv

--------------------------------------------------------------------------------
(* The tuners.                                                             *)

\* A tuner moves and writes nothing.
LEMMA MoveKeeps ==
    ASSUME Inv, NEW t \in Tuners, NEW to \in Tuner, tuner' = [tuner EXCEPT ![t] = to],
           UNCHANGED <<otherThanTuner, rows, versioned, unacked, everApproved>>,
           TunerOK(to)
    PROVE  Inv'
<1>1. UNCHANGED <<ready, content, announcing, events, rows, versioned, unacked, everApproved>>
  BY DEF otherThanTuner
<1>2. Grow
  BY <1>1 DEF Grow
<1>3. Types' /\ RowsFollowEvents' /\ UniqueRows'
  BY <1>1 DEF Inv, Types, RowsFollowEvents, UniqueRows
<1>4. TunerOK(to)'
  BY <1>2, TunerStays
<1> QED
  BY <1>1, <1>2, <1>3, <1>4, TunersKeep

LEMMA IdleIsFine == Idle \in Tuner /\ TunerOK(Idle)
BY PlacesAre DEF Idle, Tuner, TunerOK, Steps, None

\* A message is taken or given up.
LEMMA TakeKeeps ==
    ASSUME Inv, NEW t \in Tuners, GiveUp(t) \/ \E e \in unacked : Deliver(t, e)
    PROVE  Inv'
<1>1. CASE GiveUp(t)
  BY <1>1, IdleIsFine, MoveKeeps DEF GiveUp
<1>2. ASSUME NEW e \in unacked, Deliver(t, e) PROVE Inv'
  <2> DEFINE to == [Idle EXCEPT !.step = "start", !.event = e]
  <2>1. e \in DOMAIN events /\ e \in EventIds
    BY TableFacts DEF Inv, Types
  <2>2. /\ to \in Tuner /\ to.step = "start" /\ to.event = e /\ to.place = 1
        /\ to.found = None
    BY <2>1, IdleIsFine DEF Tuner, Idle
  <2> HIDE DEF to
  <2>3. TunerOK(to)
    BY <2>1, <2>2 DEF TunerOK, Steps
  <2> QED
    BY <1>2, <2>2, <2>3, MoveKeeps DEF Deliver, to
<1> QED
  BY <1>1, <1>2

\* The application is read, a material is looked for, the end is announced.
LEMMA ReadKeeps ==
    ASSUME Inv, NEW t \in Tuners, GetContext(t) \/ LookForMaterial(t) \/ PublishDrafted(t)
    PROVE  Inv'
<1>1. PICK p : p = tuner[t]
  OBVIOUS
<1>2. p \in Tuner /\ TunerOK(p) /\ tuner \in [Tuners -> Tuner] /\ content \in Contents
  BY <1>1 DEF Inv, Types
<1>3. CASE GetContext(t)
  <2> DEFINE to == [p EXCEPT !.step = "draft", !.content = content]
  <2>1. p.step = "start" /\ tuner' = [tuner EXCEPT ![t] = to]
    BY <1>1, <1>2, <1>3 DEF GetContext
  <2>2. /\ to \in Tuner /\ to.step = "draft" /\ to.event = p.event /\ to.place = p.place
        /\ to.content = content /\ to.found = p.found
    BY <1>2 DEF Tuner
  <2> HIDE DEF to
  <2>3. TunerOK(to)
    <3>1. to.place = 1 /\ to.event \in DOMAIN events /\ to.found = None
      BY <1>2, <2>1, <2>2 DEF TunerOK
    <3>2. HasDrafts(to.event, 1 .. to.place - 1)
      BY <3>1 DEF HasDrafts
    <3> QED
      BY <1>2, <2>2, <3>1, <3>2 DEF TunerOK, Steps
  <2> QED
    BY <1>3, <2>1, <2>2, <2>3, MoveKeeps DEF GetContext
<1>4. CASE LookForMaterial(t)
  <2>1. PICK m \in RowsOf(p.event, p.place) \cup {None} :
           tuner' = [tuner EXCEPT ![t].step = "write", ![t].found = m]
    BY <1>1, <1>4 DEF LookForMaterial
  <2> DEFINE to == [p EXCEPT !.step = "write", !.found = m]
  <2>2. p.step = "look" /\ tuner' = [tuner EXCEPT ![t] = to]
    BY <1>1, <1>2, <1>4, <2>1 DEF LookForMaterial
  <2>3. m \in RowIds \cup {None}
    <3>1. /\ Len(rows) <= 3 * MaxEvents /\ Len(rows) \in Nat /\ DOMAIN rows = 1 .. Len(rows)
          /\ MaxEvents \in Nat
      BY TableIsSmall, TableFacts, MaterialsAssumption DEF Inv
    <3>2. DOMAIN rows \subseteq RowIds
      BY <3>1 DEF RowIds
    <3> QED
      BY <2>1, <3>2 DEF RowsOf
  <2>4. /\ to \in Tuner /\ to.step = "write" /\ to.event = p.event /\ to.place = p.place
        /\ to.content = p.content /\ to.found = m
    BY <1>2, <2>3 DEF Tuner
  <2> HIDE DEF to
  <2>5. TunerOK(to)
    BY <1>2, <2>1, <2>2, <2>4 DEF TunerOK, Steps
  <2> QED
    BY <1>4, <2>2, <2>4, <2>5, MoveKeeps DEF LookForMaterial
<1>5. CASE PublishDrafted(t)
  <2> DEFINE to == [p EXCEPT !.step = "ack"]
  <2>1. p.step = "publish" /\ tuner' = [tuner EXCEPT ![t] = to]
    BY <1>1, <1>2, <1>5 DEF PublishDrafted
  <2>2. /\ to \in Tuner /\ to.step = "ack" /\ to.event = p.event /\ to.found = p.found
    BY <1>2 DEF Tuner
  <2> HIDE DEF to
  <2>3. TunerOK(to)
    BY <1>2, <2>1, <2>2 DEF TunerOK, Steps
  <2> QED
    BY <1>5, <2>1, <2>2, <2>3, MoveKeeps DEF PublishDrafted
<1> QED
  BY <1>3, <1>4, <1>5

\* The document and, before the resume, the version are there first.
LEMMA DocumentKeeps ==
    ASSUME Inv, NEW t \in Tuners, CreateDocument(t)
    PROVE  Inv'
<1>1. PICK p : p = tuner[t]
  OBVIOUS
<1> DEFINE to == [p EXCEPT !.step = "look"]
<1>2. /\ p \in Tuner /\ TunerOK(p) /\ p.step = "draft"
      /\ tuner' = [tuner EXCEPT ![t] = to]
      /\ UNCHANGED <<ready, content, announcing, events, rows, unacked, everApproved>>
      /\ versioned' = IF KindOrder[p.place] = "resume" THEN versioned \cup {p.event}
                      ELSE versioned
  BY <1>1 DEF CreateDocument, otherThanTuner, Inv, Types
<1>3. /\ to \in Tuner /\ to.step = "look" /\ to.event = p.event /\ to.place = p.place
      /\ to.content = p.content /\ to.found = p.found
  BY <1>2 DEF Tuner
<1> HIDE DEF to
<1>4. p.event \in DOMAIN events /\ p.place \in Places
  BY <1>2 DEF TunerOK, Tuner
<1>5. /\ versioned \subseteq versioned' /\ versioned' \subseteq DOMAIN events'
      /\ p.event \in versioned'
  BY <1>2, <1>4, PlacesAre DEF TunerOK, Inv, Types
<1>6. Grow
  BY <1>2, <1>5 DEF Grow
<1>7. Types' /\ RowsFollowEvents' /\ UniqueRows'
  BY <1>2, <1>3, <1>5 DEF Inv, Types, RowsFollowEvents, UniqueRows
<1>8. TunerOK(to)'
  <2>1. HasDrafts(p.event, 1 .. p.place - 1)' /\ p.content \in Contents /\ p.found = None
    BY <1>2, <1>4, <1>6, DraftsStay DEF TunerOK, Steps
  <2> QED
    BY <1>2, <1>3, <1>4, <1>5, <2>1 DEF TunerOK, Steps
<1> QED
  BY <1>2, <1>3, <1>6, <1>7, <1>8, TunersKeep

\* The tuner that has written the row of its place goes on to the next one.
LEMMA ContinueKeeps ==
    ASSUME Inv, Grow, NEW t \in Tuners, NEW p, p = tuner[t], p.step = "write", Continue(t),
           RowsOf(p.event, p.place)' # {},
           UNCHANGED <<otherThanTuner, versioned, unacked, everApproved>>,
           rows' \in Seq(Row), RowsFollowEvents', UniqueRows'
    PROVE  Inv'
<1>2. PICK next : next = p.place + 1
  OBVIOUS
<1> DEFINE to == [p EXCEPT !.step = IF next \in Places THEN "draft" ELSE "publish",
                           !.place = IF next \in Places THEN next ELSE @,
                           !.found = None]
<1>3. p \in Tuner /\ TunerOK(p) /\ tuner \in [Tuners -> Tuner]
  BY DEF Inv, Types
<1>4. tuner' = [tuner EXCEPT ![t] = to]
  BY <1>2, <1>3 DEF Continue, NextPlace
<1>5. p.place \in 1 .. 3
  BY <1>3, PlacesAre DEF Tuner
<1>6. /\ to \in Tuner /\ to.event = p.event /\ to.content = p.content /\ to.found = None
      /\ to.step = IF next \in Places THEN "draft" ELSE "publish"
      /\ next \in Places => to.place = next
  BY <1>3 DEF Tuner
<1>7. next \notin Places => p.place = 3
  BY <1>2, <1>5, PlacesAre
<1> HIDE DEF to
<1>8. /\ p.event \in DOMAIN events /\ p.content \in Contents /\ p.event \in versioned
      /\ HasDrafts(p.event, 1 .. p.place - 1)'
  BY <1>3, DraftsStay DEF TunerOK, Steps
<1>9. HasDrafts(p.event, 1 .. p.place)'
  <2>1. \A k \in 1 .. p.place : k \in 1 .. p.place - 1 \/ k = p.place
    BY <1>5
  <2> QED
    BY <1>8, <2>1 DEF HasDrafts
<1>10. TunerOK(to)'
  <2>1. CASE next \in Places
    <3>1. 1 .. to.place - 1 = 1 .. p.place
      BY <1>2, <1>5, <1>6, <2>1
    <3> QED
      BY <1>6, <1>8, <1>9, <2>1, <3>1 DEF TunerOK, Steps, Grow
  <2>2. CASE next \notin Places
    <3>1. HasDrafts(p.event, Places)'
      BY <1>7, <1>9, <2>2, PlacesAre
    <3> QED
      BY <1>6, <1>8, <2>2, <3>1 DEF TunerOK, Steps, Grow
  <2> QED
    BY <2>1, <2>2
<1>11. Types'
  <2>1. everApproved' \subseteq DOMAIN rows' /\ tuner' \in [Tuners -> Tuner]
    BY <1>4, <1>6 DEF Inv, Types, Grow
  <2> QED
    BY <2>1 DEF Inv, Types, otherThanTuner
<1>12. UNCHANGED <<events, unacked>>
  BY DEF otherThanTuner
<1> QED
  BY <1>4, <1>6, <1>10, <1>11, <1>12, TunersKeep

\* A new row: the unique index has no other one for its announcement and kind.
LEMMA InsertKeeps ==
    ASSUME Inv, NEW t \in Tuners, InsertMaterial(t)
    PROVE  Inv' /\ rows' = Append(rows, NewDraft(t)) /\ NewDraft(t) \in Row
<1>1. PICK p : p = tuner[t]
  OBVIOUS
<1>2. PICK row : row = NewDraft(t)
  OBVIOUS
<1>3. /\ p \in Tuner /\ TunerOK(p) /\ p.step = "write"
      /\ RowsOf(p.event, p.place) = {}
      /\ rows' = Append(rows, row)
      /\ UNCHANGED <<otherThanTuner, versioned, unacked, everApproved>>
  BY <1>1, <1>2 DEF InsertMaterial, UniqueDraft, Inv, Types
<1>4. p.event \in DOMAIN events /\ p.content \in Contents
  BY <1>3 DEF TunerOK, Steps
<1>5. /\ row \in Row /\ row.app = events[p.event] /\ row.event = p.event /\ row.place = p.place
  BY <1>1, <1>2, <1>3, <1>4, TableFacts DEF NewDraft, Row, Tuner, Inv, MaterialStatuses
<1>6. /\ rows' \in Seq(Row) /\ DOMAIN rows' = DOMAIN rows \cup {Len(rows) + 1}
      /\ rows'[Len(rows) + 1] = row
      /\ \A m \in DOMAIN rows : rows'[m] = rows[m]
  BY <1>3, <1>5, ExtendSeq DEF Inv, Types
<1>7. UNCHANGED events /\ Grow
  BY <1>3, <1>6 DEF Grow, otherThanTuner
<1>8. RowsFollowEvents'
  BY <1>4, <1>5, <1>6, <1>7 DEF Inv, RowsFollowEvents
<1>9. UniqueRows'
  <2>1. \A m \in DOMAIN rows : ~ (rows[m].event = p.event /\ rows[m].place = p.place)
    BY <1>3 DEF RowsOf, Inv, RowsFollowEvents
  <2> QED
    BY <1>5, <1>6, <2>1 DEF Inv, UniqueRows
<1>10. RowsOf(p.event, p.place)' # {}
  BY <1>5, <1>6, <1>7 DEF RowsOf
<1> QED
  BY <1>1, <1>2, <1>3, <1>5, <1>6, <1>7, <1>8, <1>9, <1>10, ContinueKeeps DEF InsertMaterial

\* A row that was found is a draft of the new content.
LEMMA UpdateKeeps ==
    ASSUME Inv, NEW t \in Tuners, UpdateMaterial(t)
    PROVE  /\ Inv'
           /\ tuner[t].found \in RowsOf(tuner[t].event, tuner[t].place)
           /\ \E new \in Contents :
                 rows' = [rows EXCEPT ![tuner[t].found] =
                             [rows[tuner[t].found] EXCEPT !.content = new, !.status = "draft"]]
<1>1. PICK p : p = tuner[t]
  OBVIOUS
<1>2. PICK row : row = [rows[p.found] EXCEPT !.content = p.content, !.status = "draft"]
  OBVIOUS
<1>3. /\ p \in Tuner /\ TunerOK(p) /\ p.step = "write" /\ p.found # None
      /\ UNCHANGED <<otherThanTuner, versioned, unacked, everApproved>>
  BY <1>1 DEF UpdateMaterial, Inv, Types
<1>4. /\ p.event \in DOMAIN events /\ p.content \in Contents
      /\ p.found \in RowsOf(p.event, p.place) /\ p.found \in DOMAIN rows
  BY <1>3 DEF TunerOK, Steps, RowsOf
<1>5. rows' = [rows EXCEPT ![p.found] = row]
  BY <1>1, <1>2, <1>4 DEF UpdateMaterial, Redraft
<1>6. rows[p.found] \in Row
  BY <1>4, TableFacts DEF Inv
<1>7. /\ row \in Row /\ row.app = rows[p.found].app /\ row.event = rows[p.found].event
      /\ row.place = rows[p.found].place
  BY <1>2, <1>4, <1>6 DEF Row, MaterialStatuses
<1>8. UNCHANGED events
  BY <1>3 DEF otherThanTuner
<1>9. rows' \in Seq(Row) /\ Grow /\ RowsFollowEvents' /\ UniqueRows'
  BY <1>3, <1>4, <1>5, <1>7, <1>8, WriteRow
<1>10. RowsOf(p.event, p.place)' # {}
  BY <1>4, <1>9, DraftsStay
<1>11. Inv'
  BY <1>1, <1>3, <1>9, <1>10, ContinueKeeps DEF UpdateMaterial
<1> QED
  BY <1>1, <1>2, <1>4, <1>5, <1>11

\* Only a message with its whole packet is acknowledged.
LEMMA AckKeeps ==
    ASSUME Inv, NEW t \in Tuners, Ack(t)
    PROVE  Inv'
<1>1. PICK p : p = tuner[t]
  OBVIOUS
<1>2. /\ p.step = "ack" /\ TunerOK(p)
      /\ unacked' = unacked \ {p.event} /\ tuner' = [tuner EXCEPT ![t] = Idle]
      /\ UNCHANGED <<ready, content, announcing, events, rows, versioned, everApproved>>
  BY <1>1 DEF Ack, otherThanTuner, Inv
<1>3. Grow
  BY <1>2 DEF Grow
<1>4. Drafted(p.event) /\ p.event \in DOMAIN events
  BY <1>2 DEF TunerOK, Drafted
<1>5. Drafted(p.event)'
  BY <1>3, <1>4, DraftsStay
<1>6. Types' /\ RowsFollowEvents' /\ UniqueRows'
  BY <1>2, IdleIsFine DEF Inv, Types, RowsFollowEvents, UniqueRows
<1>7. TunerOK(Idle)'
  BY <1>3, IdleIsFine, TunerStays
<1>8. \A e \in DOMAIN events' \ unacked' :
          e \in DOMAIN events \ unacked \/ Drafted(e)'
  BY <1>2, <1>5
<1> QED
  BY <1>2, <1>3, <1>6, <1>7, <1>8, IdleIsFine, TunersKeep

--------------------------------------------------------------------------------
(* The invariant, and what it is for.                                      *)

LEMMA NextInv == Inv /\ [Next]_vars => Inv'
<1> SUFFICES ASSUME Inv, [Next]_vars PROVE Inv'
  OBVIOUS
<1>1. CASE EditProfile
  <2>1. UNCHANGED <<rows, versioned, events, unacked, tuner>> /\ Types'
    BY <1>1 DEF EditProfile, Inv, Types
  <2> QED
    BY <2>1, SurroundingsKeep
<1>2. ASSUME NEW a \in Applications,
             MarkApplicationReady(a) \/ LeaveReady(a) \/ AnnounceLost(a)
      PROVE  Inv'
  BY <1>2, ProfileKeeps
<1>3. ASSUME NEW a \in Applications, Announce(a) PROVE Inv'
  BY <1>3, AnnounceKeeps
<1>4. ASSUME NEW t \in Tuners, GiveUp(t) \/ \E e \in unacked : Deliver(t, e) PROVE Inv'
  BY <1>4, TakeKeeps
<1>5. ASSUME NEW t \in Tuners, Process(t) PROVE Inv'
  BY <1>5, ReadKeeps, DocumentKeeps, InsertKeeps, UpdateKeeps, AckKeeps DEF Process
<1>6. ASSUME NEW m \in DOMAIN rows, NEW status \in Verdicts, ReviewMaterial(m, status)
      PROVE  Inv'
  BY <1>6, ReviewKeeps
<1>7. CASE UNCHANGED vars
  <2>1. UNCHANGED <<ready, content, announcing, rows, versioned, events, unacked, tuner,
                    everApproved>>
    BY <1>7 DEF vars
  <2>2. Types'
    BY <2>1 DEF Inv, Types
  <2> QED
    BY <2>1, <2>2, SurroundingsKeep
<1> QED
  BY <1>1, <1>2, <1>3, <1>4, <1>5, <1>6, <1>7 DEF Next

\* The invariant holds always.
LEMMA Invariant == Spec => []Inv
BY InitInv, NextInv, PTL DEF Spec

\* The types of all variables; the table has three rows at most per announcement.
THEOREM TypeCorrect == Spec => []TypeOK
<1>1. Inv => TypeOK
  BY TableIsSmall DEF Inv, Types, TypeOK
<1> QED
  BY <1>1, Invariant, PTL

\* An announcement has at most one material of each kind, however many tuners work on
\* redeliveries of it (the unique index behind CreateApplicationMaterial).
THEOREM OneMaterial == Spec => []OneMaterialPerKind
<1>1. Inv => OneMaterialPerKind
  BY DEF Inv, UniqueRows, OneMaterialPerKind, DraftsOf
<1> QED
  BY <1>1, Invariant, PTL

\* A message is acknowledged only when resume, letter, answers and the resume version
\* are in the tables (processMessage before its Ack).
THEOREM AcknowledgedDrafted == Spec => []AcknowledgedMeansDrafted
<1>1. Inv => AcknowledgedMeansDrafted
  <2> SUFFICES ASSUME Inv, NEW e \in DOMAIN events \ unacked
               PROVE  {rows[m].place : m \in DraftsOf(e)} = Places /\ e \in versioned
    BY DEF AcknowledgedMeansDrafted
  <2>1. HasDrafts(e, Places) /\ e \in versioned
    BY DEF Inv, Drafted
  <2>2. \A k \in Places : \E m \in DraftsOf(e) : rows[m].place = k
    BY <2>1 DEF HasDrafts, RowsOf, DraftsOf
  <2>3. \A m \in DraftsOf(e) : rows[m].place \in Places
    BY TableFacts DEF Inv, DraftsOf, Row
  <2> QED
    BY <2>1, <2>2, <2>3
<1> QED
  BY <1>1, Invariant, PTL

--------------------------------------------------------------------------------
(* Steps that write rows, and those that do not.                           *)

\* What a step may do to the table.
RowsChange ==
    \/ rows' = rows
    \/ \E t \in Tuners : InsertMaterial(t)
    \/ \E t \in Tuners : UpdateMaterial(t)
    \/ \E m \in DOMAIN rows, status \in Verdicts : ReviewMaterial(m, status)

LEMMA NextChanges == [Next]_vars => RowsChange
BY DEF Next, vars, Process, RowsChange, EditProfile, MarkApplicationReady, LeaveReady,
   Announce, AnnounceLost, Deliver, GiveUp, GetContext, CreateDocument, LookForMaterial,
   PublishDrafted, Ack

\* What a reviewer approved keeps its content until it is no longer approved: a tuner
\* that replaces it makes it a draft (Redraft).
THEOREM ApprovedContent == Spec => ApprovedContentIsFixed
<1> DEFINE Fixed == \A m \in DOMAIN rows :
              rows[m].status = "approved" /\ rows'[m].status = "approved" =>
                  rows'[m].content = rows[m].content
<1>1. Inv /\ [Next]_vars => [Fixed]_vars
  <2> SUFFICES ASSUME Inv, [Next]_vars PROVE Fixed
    OBVIOUS
  <2>1. CASE rows' = rows
    BY <2>1
  <2>2. ASSUME NEW t \in Tuners, InsertMaterial(t) PROVE Fixed
    <3>1. rows \in Seq(Row) /\ rows' = Append(rows, NewDraft(t)) /\ NewDraft(t) \in Row
      BY <2>2, InsertKeeps DEF Inv, Types
    <3> QED
      BY <3>1, ExtendSeq
  <2>3. ASSUME NEW t \in Tuners, UpdateMaterial(t) PROVE Fixed
    <3>1. PICK f : f = tuner[t].found
      OBVIOUS
    <3>2. PICK new \in Contents :
             rows' = [rows EXCEPT ![f] = [rows[f] EXCEPT !.content = new, !.status = "draft"]]
      BY <2>3, <3>1, UpdateKeeps
    <3>3. f \in DOMAIN rows /\ \A m \in DOMAIN rows : rows[m] \in Row
      BY <2>3, <3>1, UpdateKeeps, TableFacts DEF RowsOf, Inv
    <3>4. rows'[f].status = "draft" /\ \A m \in DOMAIN rows : m # f => rows'[m] = rows[m]
      BY <3>2, <3>3 DEF Row
    <3> QED
      BY <3>4
  <2>4. ASSUME NEW m \in DOMAIN rows, NEW status \in Verdicts, ReviewMaterial(m, status)
        PROVE  Fixed
    <3>1. \A n \in DOMAIN rows : rows[n] \in Row
      BY TableFacts DEF Inv
    <3>2. rows' = [rows EXCEPT ![m] = [rows[m] EXCEPT !.status = status]]
      BY <2>4 DEF ReviewMaterial
    <3>3. \A n \in DOMAIN rows : rows'[n].content = rows[n].content
      BY <3>1, <3>2 DEF Row
    <3> QED
      BY <3>3
  <2> QED
    BY <2>1, <2>2, <2>3, <2>4, NextChanges DEF RowsChange
<1>2. Spec => [][Fixed]_vars
  BY <1>1, Invariant, PTL DEF Spec
<1> QED
  BY <1>2 DEF ApprovedContentIsFixed

--------------------------------------------------------------------------------
(* The promise to the automation handoff.                                  *)

Seen(row) == [app |-> row.app, kind |-> KindOrder[row.place],
              status |-> IF row.status = "approved" THEN "approved" ELSE "pending"]

\* The table as the handoff sees it.
Materials == [m \in DOMAIN rows |-> Seen(rows[m])]

AtWork(p) == p.step \notin {"idle", "start"}
Own(p) == IF AtWork(p) THEN {events[p.event]} ELSE {}

\* What the handoff sees of a row.
LEMMA SeenType == \A row \in Row : Seen(row) \in Reviewed!Material
<1> SUFFICES ASSUME NEW row \in Row PROVE Seen(row) \in Reviewed!Material
  OBVIOUS
<1>1. row.app \in Applications /\ row.place \in {1, 2, 3}
  BY PlacesAre DEF Row
<1>2. KindOrder[row.place] \in Reviewed!Kinds
  BY <1>1 DEF KindOrder, Reviewed!Kinds
<1> QED
  BY <1>1, <1>2 DEF Seen, Reviewed!Material, Reviewed!ReviewStatuses

\* A table of rows is seen as a table of as many rows.
LEMMA MaterialsType ==
    ASSUME NEW table \in Seq(Row)
    PROVE  LET seen == [m \in DOMAIN table |-> Seen(table[m])] IN
           seen \in Seq(Reviewed!Material) /\ Len(seen) = Len(table)
<1>1. Len(table) \in Nat /\ DOMAIN table = 1 .. Len(table)
  BY LenProperties
<1>2. \A m \in DOMAIN table : Seen(table[m]) \in Reviewed!Material
  BY ElementOfSeq, SeenType
<1>3. [m \in DOMAIN table |-> Seen(table[m])] \in [1 .. Len(table) -> Reviewed!Material]
  BY <1>1, <1>2
<1> QED
  BY <1>1, <1>3, SeqDef, LenProperties

\* A row inserted is a row inserted.
LEMMA SeenAppend ==
    ASSUME NEW table \in Seq(Row), NEW row \in Row
    PROVE  [m \in DOMAIN Append(table, row) |-> Seen(Append(table, row)[m])]
               = Append([m \in DOMAIN table |-> Seen(table[m])], Seen(row))
<1> DEFINE longer == Append(table, row)
           seen == [m \in DOMAIN table |-> Seen(table[m])]
           after == [m \in DOMAIN longer |-> Seen(longer[m])]
           more == Append(seen, Seen(row))
<1>1. seen \in Seq(Reviewed!Material) /\ Len(seen) = Len(table)
  BY MaterialsType
<1>2. /\ longer \in Seq(Row) /\ Len(longer) = Len(table) + 1
      /\ DOMAIN longer = DOMAIN table \cup {Len(table) + 1}
      /\ longer[Len(table) + 1] = row
      /\ \A m \in DOMAIN table : longer[m] = table[m]
  BY ExtendSeq
<1>3. /\ more \in Seq(Reviewed!Material) /\ Len(more) = Len(table) + 1
      /\ more[Len(table) + 1] = Seen(row)
      /\ \A m \in DOMAIN seen : more[m] = seen[m]
  BY <1>1, ExtendSeq, SeenType
<1>4. after \in Seq(Reviewed!Material) /\ Len(after) = Len(longer)
  BY <1>2, MaterialsType
<1>5. ASSUME NEW m \in 1 .. Len(after) PROVE after[m] = more[m]
  <2>1. m \in DOMAIN longer
    BY <1>2, <1>4, LenProperties
  <2>2. after[m] = Seen(longer[m])
    BY <2>1
  <2>3. m \in DOMAIN table \/ m = Len(table) + 1
    BY <1>2, <2>1
  <2>4. CASE m \in DOMAIN table
    <3>1. longer[m] = table[m] /\ seen[m] = Seen(table[m]) /\ m \in DOMAIN seen
      BY <1>2, <2>4
    <3> HIDE DEF longer, seen, after, more
    <3> QED
      BY <1>3, <2>2, <3>1
  <2>5. CASE m = Len(table) + 1
    <3> HIDE DEF longer, seen, after, more
    <3> QED
      BY <1>2, <1>3, <2>2, <2>5
  <2> QED
    BY <2>3, <2>4, <2>5
<1> HIDE DEF longer, seen, after, more
<1>6. after = more
  BY <1>2, <1>3, <1>4, <1>5, SeqEqual
<1> QED
  BY <1>6 DEF longer, seen, after, more

\* A row written is a row written.
LEMMA SeenUpdate ==
    ASSUME NEW table \in Seq(Row), NEW m \in DOMAIN table, NEW row \in Row,
           row.app = table[m].app, row.place = table[m].place
    PROVE  LET seen == [n \in DOMAIN table |-> Seen(table[n])]
               new == [table EXCEPT ![m] = row] IN
           [n \in DOMAIN new |-> Seen(new[n])] =
               [seen EXCEPT ![m].status = IF row.status = "approved" THEN "approved"
                                          ELSE "pending"]
<1>1. PICK new : new = [table EXCEPT ![m] = row]
  OBVIOUS
<1>2. DOMAIN new = DOMAIN table /\ new[m] = row /\ \A n \in DOMAIN table : n # m => new[n] = table[n]
  BY <1>1
<1>3. Seen(row) = [Seen(table[m]) EXCEPT !.status = IF row.status = "approved" THEN "approved"
                                                    ELSE "pending"]
  BY DEF Seen
<1> QED
  BY <1>1, <1>2, <1>3

\* A tuner is at work on the application of its message, and so perhaps are others.
LEMMA DraftingMoves ==
    ASSUME Inv, NEW t \in Tuners, NEW p, p = tuner[t], NEW to,
           tuner' = [tuner EXCEPT ![t] = to], UNCHANGED events
    PROVE  \E Rest : Drafting = Rest \cup Own(p) /\ Drafting' = Rest \cup Own(to)
<1> DEFINE Rest == {events[tuner[u].event] : u \in {v \in Tuners \ {t} : AtWork(tuner[v])}}
<1>1. DOMAIN tuner = Tuners
  BY DEF Inv, Types
<1>2. tuner'[t] = to /\ \A u \in Tuners : u # t => tuner'[u] = tuner[u]
  BY <1>1
<1>3. Drafting = Rest \cup Own(p)
  BY DEF Drafting, Own, AtWork
<1>4. Drafting' = Rest \cup Own(to)
  BY <1>2 DEF Drafting, Own, AtWork
<1> QED
  BY <1>3, <1>4

\* The table is untouched.
LEMMA QuietRefines ==
    ASSUME Inv, UNCHANGED <<rows, everApproved>>,
           \/ Drafting' = Drafting
           \/ \E a \in Applications : Drafting' \in {Drafting \cup {a}, Drafting \ {a}}
    PROVE  [Reviewed!MaterialsNext]_(Reviewed!materialVars)
BY DEF Reviewed!MaterialsNext, Reviewed!BeginDrafting, Reviewed!EndDrafting,
   Reviewed!materialVars

\* A tuner that writes nothing begins, goes on or ends.
LEMMA TunerRefines ==
    ASSUME Inv, NEW t \in Tuners, NEW to, tuner' = [tuner EXCEPT ![t] = to],
           UNCHANGED <<events, rows, everApproved>>,
           to.step = "idle" \/ (tuner[t].step # "idle" /\ to.event = tuner[t].event)
                            \/ to.step = "start"
    PROVE  [Reviewed!MaterialsNext]_(Reviewed!materialVars)
<1>1. PICK p : p = tuner[t]
  OBVIOUS
<1>2. PICK Rest : Drafting = Rest \cup Own(p) /\ Drafting' = Rest \cup Own(to)
  BY <1>1, DraftingMoves
<1>3. p.step # "idle" => p.event \in DOMAIN events /\ events[p.event] \in Applications
  BY <1>1, TableFacts DEF Inv, TunerOK
<1>4. Own(p) = {} \/ (Own(p) = {events[p.event]} /\ p.step # "idle")
  BY DEF Own, AtWork
<1>5. Own(to) = {} \/ (Own(to) = {events[p.event]} /\ p.step # "idle")
  BY <1>1 DEF Own, AtWork
<1>6. \/ Drafting' = Drafting
      \/ \E a \in Applications : Drafting' \in {Drafting \cup {a}, Drafting \ {a}}
  BY <1>2, <1>3, <1>4, <1>5
<1> QED
  BY <1>6, QuietRefines

\* Every step of the tuners, the reviewers and their surroundings is one that the
\* handoff expects, or it does not see it.
LEMMA StepRefines ==
    ASSUME Inv, Inv', Len(rows') <= 3 * MaxEvents, [Next]_vars
    PROVE  [Reviewed!MaterialsNext]_(Reviewed!materialVars)
<1>1. CASE /\ UNCHANGED <<rows, tuner, everApproved>>
           /\ \A e \in DOMAIN events : events'[e] = events[e]
  <2>1. Drafting' = Drafting
    <3>1. \A t \in Tuners : tuner[t].step \notin {"idle", "start"} =>
              events'[tuner[t].event] = events[tuner[t].event]
      BY <1>1 DEF Inv, TunerOK
    <3> QED
      BY <1>1, <3>1 DEF Drafting
  <2> QED
    BY <1>1, <2>1, QuietRefines
<1>2. CASE EditProfile \/ UNCHANGED vars
  BY <1>1, <1>2 DEF EditProfile, vars
<1>3. ASSUME NEW a \in Applications,
             MarkApplicationReady(a) \/ LeaveReady(a) \/ AnnounceLost(a)
      PROVE  [Reviewed!MaterialsNext]_(Reviewed!materialVars)
  BY <1>1, <1>3 DEF MarkApplicationReady, LeaveReady, AnnounceLost
<1>4. ASSUME NEW a \in Applications, Announce(a)
      PROVE  [Reviewed!MaterialsNext]_(Reviewed!materialVars)
  <2>1. \A e \in DOMAIN events : events'[e] = events[e]
    BY <1>4, ExtendSeq DEF Announce, Inv, Types
  <2> QED
    BY <1>1, <1>4, <2>1 DEF Announce
<1>5. ASSUME NEW t \in Tuners,
             \/ GetContext(t) \/ CreateDocument(t) \/ LookForMaterial(t)
             \/ PublishDrafted(t) \/ Ack(t) \/ GiveUp(t) \/ \E e \in unacked : Deliver(t, e)
      PROVE  [Reviewed!MaterialsNext]_(Reviewed!materialVars)
  <2>1. UNCHANGED <<events, rows, everApproved>>
    BY <1>5 DEF GetContext, CreateDocument, LookForMaterial, PublishDrafted, Ack, GiveUp,
       Deliver, otherThanTuner
  <2>2. PICK p : p = tuner[t]
    OBVIOUS
  <2>3. p \in Tuner /\ tuner \in [Tuners -> Tuner]
    BY <2>2 DEF Inv, Types
  <2>4. CASE GetContext(t)
    <3>1. p.step = "start" /\ tuner' = [tuner EXCEPT ![t] = [p EXCEPT !.step = "draft", !.content = content]]
      BY <2>2, <2>3, <2>4 DEF GetContext
    <3>2. [p EXCEPT !.step = "draft", !.content = content].event = p.event
      BY <2>3 DEF Tuner
    <3> QED
      BY <2>1, <2>2, <3>1, <3>2, TunerRefines
  <2>5. CASE CreateDocument(t)
    <3>1. p.step = "draft" /\ tuner' = [tuner EXCEPT ![t] = [p EXCEPT !.step = "look"]]
      BY <2>2, <2>3, <2>5 DEF CreateDocument
    <3>2. [p EXCEPT !.step = "look"].event = p.event
      BY <2>3 DEF Tuner
    <3> QED
      BY <2>1, <2>2, <3>1, <3>2, TunerRefines
  <2>6. CASE LookForMaterial(t)
    <3>1. PICK m : tuner' = [tuner EXCEPT ![t].step = "write", ![t].found = m]
      BY <2>6 DEF LookForMaterial
    <3>2. /\ p.step = "look"
          /\ tuner' = [tuner EXCEPT ![t] = [p EXCEPT !.step = "write", !.found = m]]
      BY <2>2, <2>3, <2>6, <3>1 DEF LookForMaterial
    <3>3. [p EXCEPT !.step = "write", !.found = m].event = p.event
      BY <2>3 DEF Tuner
    <3> QED
      BY <2>1, <2>2, <3>2, <3>3, TunerRefines
  <2>7. CASE PublishDrafted(t)
    <3>1. p.step = "publish" /\ tuner' = [tuner EXCEPT ![t] = [p EXCEPT !.step = "ack"]]
      BY <2>2, <2>3, <2>7 DEF PublishDrafted
    <3>2. [p EXCEPT !.step = "ack"].event = p.event
      BY <2>3 DEF Tuner
    <3> QED
      BY <2>1, <2>2, <3>1, <3>2, TunerRefines
  <2>8. CASE Ack(t) \/ GiveUp(t)
    BY <2>1, <2>8, TunerRefines DEF Ack, GiveUp, Idle
  <2>9. CASE \E e \in unacked : Deliver(t, e)
    <3>1. PICK e \in unacked : Deliver(t, e)
      BY <2>9
    <3>2. [Idle EXCEPT !.step = "start", !.event = e].step = "start"
      BY DEF Idle
    <3> QED
      BY <2>1, <3>1, <3>2, TunerRefines DEF Deliver
  <2> QED
    BY <1>5, <2>4, <2>5, <2>6, <2>7, <2>8, <2>9
<1>6. ASSUME NEW t \in Tuners, InsertMaterial(t)
      PROVE  [Reviewed!MaterialsNext]_(Reviewed!materialVars)
  <2>1. PICK p : p = tuner[t]
    OBVIOUS
  <2>2. PICK row : row = NewDraft(t)
    OBVIOUS
  <2>3. rows' = Append(rows, row) /\ row \in Row /\ rows \in Seq(Row)
    BY <1>6, <2>2, InsertKeeps DEF Inv, Types
  <2>4. Materials' = Append(Materials, Seen(row))
    BY <2>3, SeenAppend DEF Materials
  <2>5. /\ p.step = "write" /\ p.event \in DOMAIN events /\ p.place \in Places
        /\ row.app = events[p.event] /\ row.place = p.place /\ row.status = "draft"
        /\ events[p.event] \in Applications
        /\ UNCHANGED <<events, everApproved>>
    BY <1>6, <2>1, <2>2, TableFacts
       DEF InsertMaterial, Inv, Types, TunerOK, Tuner, NewDraft, otherThanTuner
  <2>6. Seen(row) = [app |-> events[p.event], kind |-> KindOrder[p.place], status |-> "pending"]
    BY <2>5 DEF Seen
  <2>7. KindOrder[p.place] \in Reviewed!Kinds
    BY <2>5, PlacesAre DEF KindOrder, Reviewed!Kinds
  <2>8. Len(Materials) < 3 * MaxEvents
    <3>1. Len(rows') = Len(rows) + 1
      BY <2>3, ExtendSeq
    <3>2. Len(Materials) = Len(rows) /\ Len(rows) \in Nat /\ MaxEvents \in Nat
      BY <2>3, MaterialsType, LenProperties, MaterialsAssumption DEF Materials
    <3> QED
      BY <3>1, <3>2
  <2>9. events[p.event] \in Drafting
    BY <2>1, <2>5 DEF Drafting
  <2>10. Drafting' = Drafting
    <3> DEFINE next == p.place + 1
               to == [p EXCEPT !.step = IF next \in Places THEN "draft" ELSE "publish",
                               !.place = IF next \in Places THEN next ELSE @,
                               !.found = None]
    <3>1. p \in Tuner /\ tuner \in [Tuners -> Tuner]
      BY <2>1 DEF Inv, Types
    <3>2. tuner' = [tuner EXCEPT ![t] = to]
      BY <1>6, <2>1, <3>1 DEF InsertMaterial, Continue, NextPlace
    <3>3. to.event = p.event /\ to.step \in {"draft", "publish"}
      BY <3>1 DEF Tuner
    <3> HIDE DEF to
    <3>4. Own(to) = Own(p)
      BY <2>5, <3>3 DEF Own, AtWork
    <3>5. PICK Rest : Drafting = Rest \cup Own(p) /\ Drafting' = Rest \cup Own(to)
      BY <2>1, <2>5, <3>2, DraftingMoves
    <3> QED
      BY <3>4, <3>5
  <2>11. Reviewed!InsertDraft(events[p.event], KindOrder[p.place])
    BY <2>4, <2>5, <2>6, <2>8, <2>9, <2>10 DEF Reviewed!InsertDraft, Materials, Seen
  <2> QED
    BY <2>5, <2>7, <2>11 DEF Reviewed!MaterialsNext
<1>7. ASSUME NEW t \in Tuners, UpdateMaterial(t)
      PROVE  [Reviewed!MaterialsNext]_(Reviewed!materialVars)
  <2>1. PICK p : p = tuner[t]
    OBVIOUS
  <2>2. PICK f : f = p.found
    OBVIOUS
  <2>3. /\ p \in Tuner /\ TunerOK(p) /\ tuner \in [Tuners -> Tuner] /\ p.step = "write"
        /\ UNCHANGED <<events, everApproved>>
    BY <1>7, <2>1 DEF UpdateMaterial, Inv, Types, otherThanTuner
  <2>4. PICK new \in Contents :
           rows' = [rows EXCEPT ![f] = [rows[f] EXCEPT !.content = new, !.status = "draft"]]
    BY <1>7, <2>1, <2>2, UpdateKeeps
  <2>5. PICK row : row = [rows[f] EXCEPT !.content = new, !.status = "draft"]
    OBVIOUS
  <2>6. f \in RowsOf(p.event, p.place) /\ f \in DOMAIN rows /\ rows[f] \in Row
    BY <1>7, <2>1, <2>2, UpdateKeeps, TableFacts DEF RowsOf, Inv
  <2>7. /\ row \in Row /\ row.app = rows[f].app /\ row.place = rows[f].place
        /\ row.status = "draft"
    BY <2>5, <2>6 DEF Row, MaterialStatuses
  <2>8. Materials' = [Materials EXCEPT ![f].status = "pending"]
    <3>1. rows \in Seq(Row) /\ rows' = [rows EXCEPT ![f] = row]
      BY <2>4, <2>5 DEF Inv, Types
    <3>2. PICK seen : seen = IF row.status = "approved" THEN "approved" ELSE "pending"
      OBVIOUS
    <3>3. f \in DOMAIN rows /\ row \in Row /\ row.app = rows[f].app /\ row.place = rows[f].place
      BY <2>6, <2>7
    <3>4. Materials' = [Materials EXCEPT ![f].status = seen]
      BY <3>1, <3>2, <3>3, SeenUpdate DEF Materials
    <3> QED
      BY <2>7, <3>2, <3>4
  <2>9. /\ Materials[f].app = events[p.event] /\ f \in DOMAIN Materials
        /\ events[p.event] \in Drafting
    BY <2>1, <2>3, <2>6 DEF Materials, Seen, RowsOf, Drafting
  <2>10. Drafting' = Drafting
    <3> DEFINE next == p.place + 1
               to == [p EXCEPT !.step = IF next \in Places THEN "draft" ELSE "publish",
                               !.place = IF next \in Places THEN next ELSE @,
                               !.found = None]
    <3>1. tuner' = [tuner EXCEPT ![t] = to]
      BY <1>7, <2>1, <2>3 DEF UpdateMaterial, Continue, NextPlace
    <3>2. to.event = p.event /\ to.step \in {"draft", "publish"}
      BY <2>3 DEF Tuner
    <3> HIDE DEF to
    <3>3. Own(to) = Own(p)
      BY <2>3, <3>2 DEF Own, AtWork
    <3>4. PICK Rest : Drafting = Rest \cup Own(p) /\ Drafting' = Rest \cup Own(to)
      BY <2>1, <2>3, <3>1, DraftingMoves
    <3> QED
      BY <3>3, <3>4
  <2>11. Reviewed!ReplaceDraft(f)
    BY <2>3, <2>8, <2>9, <2>10 DEF Reviewed!ReplaceDraft, Materials, Seen
  <2> QED
    BY <2>9, <2>11 DEF Reviewed!MaterialsNext, Materials, Seen
<1>8. ASSUME NEW m \in DOMAIN rows, NEW status \in Verdicts, ReviewMaterial(m, status)
      PROVE  [Reviewed!MaterialsNext]_(Reviewed!materialVars)
  <2>1. PICK row : row = [rows[m] EXCEPT !.status = status]
    OBVIOUS
  <2>2. rows[m] \in Row /\ status \in MaterialStatuses /\ rows \in Seq(Row)
    BY TableFacts, MaterialsAssumption DEF Inv, Types
  <2>3. /\ row \in Row /\ row.app = rows[m].app /\ row.place = rows[m].place
        /\ row.status = status
    BY <2>1, <2>2 DEF Row
  <2>4. /\ rows' = [rows EXCEPT ![m] = row] /\ UNCHANGED <<events, tuner>>
        /\ everApproved' = IF status = "approved" THEN everApproved \cup {m} ELSE everApproved
    BY <1>8, <2>1 DEF ReviewMaterial
  <2>5. PICK seen : seen = IF status = "approved" THEN "approved" ELSE "pending"
    OBVIOUS
  <2>6. Materials' = [Materials EXCEPT ![m].status = seen]
    BY <2>2, <2>3, <2>4, <2>5, SeenUpdate DEF Materials
  <2>7. Drafting' = Drafting
    BY <2>4 DEF Drafting
  <2>8. Reviewed!ReviewMaterial(m, seen)
    BY <2>4, <2>5, <2>6, <2>7 DEF Reviewed!ReviewMaterial, Materials, Seen
  <2>9. seen \in Reviewed!ReviewStatuses /\ m \in DOMAIN Materials
    BY <2>5 DEF Reviewed!ReviewStatuses, Materials
  <2> QED
    BY <2>8, <2>9 DEF Reviewed!MaterialsNext, Materials, Seen
<1> QED
  BY <1>2, <1>3, <1>4, <1>5, <1>6, <1>7, <1>8 DEF Next, Process

\* Tuners, redeliveries, crashes and reviews do to the table only what the automation
\* handoff is built on (AutomationHandoff extends ReviewedMaterials).
THEOREM Implements == Spec => ImplementsReviewedMaterials
<1>1. Init => Reviewed!MaterialsInit
  <2> SUFFICES ASSUME Init PROVE Reviewed!MaterialsInit
    OBVIOUS
  <2>1. /\ rows = <<>> /\ rows \in Seq(Row) /\ Len(rows) = 0 /\ everApproved = {}
        /\ \A t \in Tuners : tuner[t].step = "idle"
    BY DEF Init, Idle
  <2>2. Materials \in Seq(Reviewed!Material) /\ Len(Materials) = 0
    BY <2>1, MaterialsType DEF Materials
  <2>3. Materials = <<>>
    BY <2>2, EmptySeq
  <2>4. Drafting = {}
    BY <2>1 DEF Drafting
  <2> QED
    BY <2>1, <2>3, <2>4 DEF Reviewed!MaterialsInit, Materials, Seen
<1>2. Inv => Len(rows) <= 3 * MaxEvents
  BY TableIsSmall DEF Inv
<1>3. Inv /\ Inv' /\ (Len(rows) <= 3 * MaxEvents)' /\ [Next]_vars
          => [Reviewed!MaterialsNext]_(Reviewed!materialVars)
  BY StepRefines
<1> QED
  BY <1>1, <1>2, <1>3, Invariant, PTL
     DEF Spec, ImplementsReviewedMaterials, Reviewed!MaterialsSpec

================================================================================
