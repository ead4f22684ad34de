-------------------------- MODULE EnrollmentProofs --------------------------
(***************************************************************************)
(* Proofs about Enrollment, for any number of contacts, processors, edits, *)
(* failures and any page size: a contact that a poll has found to be       *)
(* unenrolled is not dialed; polls stay inside the list of contacts.       *)
(***************************************************************************)
EXTENDS Enrollment, FiniteSetTheorems, WellFoundedInduction, TLAPS

(* TypeOK without the bounds on the offset of the strip and on the counters. *)
Types ==
    /\ crm \subseteq Contact
    /\ tagged \subseteq Contact
    /\ row \in [Phoned -> RowStatus]
    /\ cadence \in [Phoned -> CadenceState]
    /\ poll \in Poll
    /\ stamping \subseteq Phoned
    /\ outcome \in [Processor -> Outcome \cup {None}]
    /\ gone \subseteq Phoned

(* An idle poll and one about to save its scan have not begun to strip. *)
StripNotBegun == poll.stage \in {"idle", "guard", "merge"} => poll.offset = 0

(* What a strip of one page has left of the tags is in the scan or was      *)
(* written by an outcome in the meantime.                                   *)
StripIsDone ==
    \/ poll.stage = "cancel"
    \/ poll.stage = "strip" /\ poll.offset # 0
LeftTags == StripIsDone /\ poll.onePage => tagged \subseteq poll.scan \cup poll.rewritten

(* A contact found to be unenrolled carries no tag, and neither a placeCall *)
(* nor an outcome processor has one to write back.                          *)
GoneIsForgotten == gone \cap (tagged \cup Remembered) = {}

EnrollInv == Types /\ StripNotBegun /\ LeftTags /\ GoneIsForgotten

-----------------------------------------------------------------------------
(* Lemmas about pages and remembered tags. *)

(* A first page at least as long as the list is the list. *)
LEMMA FirstPageIsAll ==
    ASSUME tagged \subseteq Contact, Cardinality(tagged) <= Page
    PROVE  PageAt(0) = tagged
<1> DEFINE before(c) == Cardinality({d \in tagged : d < c})
<1>1. IsFiniteSet(tagged)
  BY EnrollmentAssumption, FS_Subset
<1>2. ASSUME NEW c \in tagged
      PROVE  before(c) \in Nat /\ before(c) < Page
  <2> DEFINE smaller == {d \in tagged : d < c}
  <2>1. smaller \in SUBSET (tagged \ {c})
    BY EnrollmentAssumption
  <2>2. IsFiniteSet(tagged \ {c}) /\ Cardinality(tagged \ {c}) = Cardinality(tagged) - 1
    BY <1>1, FS_RemoveElement
  <2>3. IsFiniteSet(smaller) /\ Cardinality(smaller) <= Cardinality(tagged \ {c})
    BY <2>1, <2>2, FS_Subset
  <2>4. Cardinality(smaller) \in Nat /\ Cardinality(tagged) \in Nat
    BY <1>1, <2>3, FS_CardinalityType
  <2> QED
    BY <2>2, <2>3, <2>4, EnrollmentAssumption
<1>3. PageAt(0) = {c \in tagged : 0 <= before(c) /\ before(c) < 0 + Page}
  BY DEF PageAt
<1>4. ASSUME NEW c \in tagged PROVE 0 <= before(c) /\ before(c) < 0 + Page
  <2> HIDE DEF before
  <2> QED BY <1>2, EnrollmentAssumption
<1> HIDE DEF before
<1> QED
  BY <1>3, <1>4, Zenon

(* A full page ends inside the list: its elements come after as many others *)
(* as the offset says.                                                      *)
LEMMA FullPageFits ==
    ASSUME tagged \subseteq Contact, NEW offset \in Nat, Cardinality(PageAt(offset)) >= Page
    PROVE  offset + Page <= Cardinality(Contact)
<1> DEFINE page == PageAt(offset)
           below(c) == {d \in tagged : d < c}
<1>1. page \subseteq tagged /\ tagged \subseteq Nat
  BY EnrollmentAssumption DEF PageAt
<1>2. /\ IsFiniteSet(tagged) /\ Cardinality(tagged) <= Cardinality(Contact)
      /\ Cardinality(tagged) \in Nat /\ Cardinality(Contact) \in Nat
  BY EnrollmentAssumption, FS_Subset, FS_CardinalityType
<1>3. IsFiniteSet(page) /\ Cardinality(page) \in Nat
  BY <1>1, <1>2, FS_Subset, FS_CardinalityType
<1>4. Cardinality(page) >= Page
  OBVIOUS
<1>5. ASSUME NEW c \in page PROVE offset <= Cardinality(below(c))
  BY <1>5 DEF PageAt
<1>6. page # {}
  BY <1>4, FS_EmptySet, EnrollmentAssumption
<1> HIDE DEF page
<1>7. PICK first \in page : \A c \in page : ~(c < first)
  <2>1. page \in SUBSET Nat
    BY <1>1
  <2>2. PICK first \in page : \A c \in page : ~(<<c, first>> \in OpToRel(<, Nat))
    BY <1>6, <2>1, NatLessThanWellFounded, WFMin, Zenon
  <2> QED BY <2>1, <2>2 DEF OpToRel
<1> DEFINE before == below(first)
<1>8. before \subseteq tagged /\ before \cap page = {}
  BY <1>1, <1>7
<1>9. offset <= Cardinality(before)
  BY <1>5, <1>7
<1> HIDE DEF before, below
<1>10. IsFiniteSet(before) /\ Cardinality(before) \in Nat
  BY <1>2, <1>8, FS_Subset, FS_CardinalityType
<1>11. Cardinality(before \cup page) = Cardinality(before) + Cardinality(page)
  <2>1. Cardinality(before \cup page)
            = Cardinality(before) + Cardinality(page) - Cardinality(before \cap page)
    BY <1>3, <1>10, FS_Union
  <2>2. Cardinality(before \cap page) = 0
    BY <1>8, FS_EmptySet
  <2> QED BY <1>3, <1>10, <2>1, <2>2
<1>12. /\ Cardinality(before \cup page) <= Cardinality(tagged)
  BY <1>1, <1>2, <1>8, FS_Subset
<1> QED
  BY <1>2, <1>3, <1>4, <1>9, <1>10, <1>11, <1>12, EnrollmentAssumption

(* Only a dial of a tagged contact, or a processor that starts to work on   *)
(* one, remembers a new tag.                                                *)
LEMMA RememberedShrinks ==
    ASSUME NEW p \in Processor, Types, stamping' = stamping,
           outcome' = [outcome EXCEPT ![p] = None]
    PROVE  Remembered' \subseteq Remembered
BY DEF Remembered, Types

LEMMA RememberedGrows ==
    ASSUME NEW p \in Processor, NEW c \in Phoned, NEW enrolled \in BOOLEAN,
           NEW own \in BOOLEAN, Types, enrolled => c \in tagged, stamping' = stamping,
           outcome' = [outcome EXCEPT ![p] = [contact |-> c, enrolled |-> enrolled,
                                              own |-> own]]
    PROVE  Remembered' \subseteq Remembered \cup (tagged \cap {c})
<1>1. SUFFICES ASSUME NEW d \in Phoned, NEW q \in Processor,
                      outcome'[q] # None, outcome'[q].contact = d, outcome'[q].enrolled
               PROVE  d \in Remembered \cup (tagged \cap {c})
  BY DEF Remembered
<1>2. CASE q = p
  <2>1. outcome'[q] = [contact |-> c, enrolled |-> enrolled, own |-> own]
    BY <1>2 DEF Types
  <2>2. d = c /\ enrolled
    BY <1>1, <2>1
  <2> QED BY <2>2
<1>3. CASE q # p
  <2>1. outcome'[q] = outcome[q]
    BY <1>3 DEF Types
  <2> QED BY <1>1, <2>1 DEF Remembered
<1> QED BY <1>2, <1>3

-----------------------------------------------------------------------------
(* One lemma per group of actions. *)

LEMMA InitEnroll == Init => EnrollInv
BY EnrollmentAssumption DEF Init, EnrollInv, Types, StripNotBegun, LeftTags, StripIsDone,
     GoneIsForgotten, IdlePoll, Poll, PollStage, RowStatus, CadenceState, Remembered

LEMMA ScanEnroll ==
    ASSUME EnrollInv, ScanCrm \/ CheckScan \/ PollAborts
    PROVE  EnrollInv'
<1> USE DEF EnrollInv
<1>1. UNCHANGED <<tagged, row, cadence, stamping, outcome, gone, crm>>
  BY DEF ScanCrm, CheckScan, PollAborts
<1>2. /\ poll' \in Poll
      /\ poll'.stage \in {"idle", "guard", "merge"}
      /\ poll'.offset = 0
  <2>1. CASE ScanCrm
    <3>1. PICK scan \in SUBSET crm :
             poll' = [IdlePoll EXCEPT !.stage = "guard", !.scan = scan]
      BY <2>1 DEF ScanCrm
    <3>2. scan \in SUBSET Contact
      BY <3>1 DEF Types
    <3> QED BY <3>1, <3>2 DEF IdlePoll, Poll, PollStage
  <2>2. CASE CheckScan
    <3>1. poll' = IdlePoll \/ poll' = [poll EXCEPT !.stage = "merge"]
      BY <2>2 DEF CheckScan
    <3>2. poll \in Poll /\ poll.offset = 0
      BY <2>2 DEF CheckScan, Types, StripNotBegun
    <3>3. CASE poll' = IdlePoll
      BY <3>3 DEF IdlePoll, Poll, PollStage
    <3>4. CASE poll' = [poll EXCEPT !.stage = "merge"]
      BY <3>2, <3>4 DEF Poll, PollStage
    <3> QED BY <3>1, <3>3, <3>4
  <2>3. CASE PollAborts
    BY <2>3 DEF PollAborts, IdlePoll, Poll, PollStage
  <2> QED BY <2>1, <2>2, <2>3
<1>3. Types'
  BY <1>1, <1>2 DEF Types
<1>4. StripNotBegun' /\ LeftTags'
  BY <1>2 DEF StripNotBegun, LeftTags, StripIsDone
<1>5. GoneIsForgotten'
  BY <1>1 DEF GoneIsForgotten, Remembered
<1> QED BY <1>3, <1>4, <1>5

LEMMA MergeEnroll ==
    ASSUME EnrollInv, MergeContacts
    PROVE  EnrollInv'
<1> USE DEF EnrollInv
<1>1. poll \in Poll /\ poll.offset = 0
  BY DEF MergeContacts, Types, StripNotBegun
<1>2. poll' \in Poll /\ poll'.stage = "strip" /\ poll'.offset = 0
  <2>1. CASE SaveScan
    <3>1. {c \in poll.scan \cap Phoned : cadence[c] = "due"} \in SUBSET Contact
      BY EnrollmentAssumption
    <3> QED BY <1>1, <2>1, <3>1 DEF SaveScan, Poll, PollStage
  <2>2. CASE SaveFails
    BY <1>1, <2>2 DEF SaveFails, Poll, PollStage
  <2> QED BY <2>1, <2>2 DEF MergeContacts
<1>3. UNCHANGED <<crm, row, cadence, stamping, outcome>>
  BY DEF MergeContacts
<1>4. \/ tagged' = tagged \cup poll.scan /\ gone' = gone \ poll.scan
      \/ UNCHANGED <<tagged, gone>>
  BY DEF MergeContacts, SaveScan, SaveFails
<1>5. Types'
  BY <1>1, <1>2, <1>3, <1>4 DEF Types, Poll
<1>6. StripNotBegun' /\ LeftTags'
  BY <1>2 DEF StripNotBegun, LeftTags, StripIsDone
<1>7. Remembered' = Remembered
  BY <1>3 DEF Remembered
<1>8. GoneIsForgotten'
  BY <1>4, <1>7 DEF GoneIsForgotten
<1> QED BY <1>5, <1>6, <1>8

LEMMA StripEnroll ==
    ASSUME EnrollInv, StripPage
    PROVE  EnrollInv'
<1> USE DEF EnrollInv
<1> DEFINE page == PageAt(poll.offset)
           last == Cardinality(page) < Page
<1>1. /\ poll.stage = "strip"
      /\ tagged' = tagged \ (page \ poll.scan)
      /\ poll' = [poll EXCEPT
                    !.stage = IF last THEN "cancel" ELSE "strip",
                    !.offset = IF last THEN 0 ELSE @ + Page,
                    !.onePage = IF poll.offset = 0 THEN Cardinality(tagged) <= Page ELSE @]
      /\ UNCHANGED <<crm, row, cadence, stamping, outcome, gone>>
  BY DEF StripPage
<1>2. poll \in Poll /\ poll.offset \in Nat
  BY DEF Types, Poll
<1> HIDE DEF page, last
<1>3. /\ poll'.stage = IF last THEN "cancel" ELSE "strip"
      /\ poll'.offset = IF last THEN 0 ELSE poll.offset + Page
      /\ poll'.onePage = IF poll.offset = 0 THEN Cardinality(tagged) <= Page ELSE poll.onePage
      /\ poll'.scan = poll.scan
      /\ poll'.rewritten = poll.rewritten
  BY <1>1, <1>2 DEF Poll
<1>4. PICK stage \in PollStage, offset \in Nat, onePage \in BOOLEAN :
         poll' = [poll EXCEPT !.stage = stage, !.offset = offset, !.onePage = onePage]
  <2> DEFINE stage == IF last THEN "cancel" ELSE "strip"
             offset == IF last THEN 0 ELSE poll.offset + Page
             onePage == IF poll.offset = 0 THEN Cardinality(tagged) <= Page ELSE poll.onePage
  <2>1. stage \in PollStage
    BY DEF PollStage
  <2>2. offset \in Nat
    BY <1>2, EnrollmentAssumption
  <2>3. onePage \in BOOLEAN
    <3>1. Cardinality(tagged) \in Nat
      BY EnrollmentAssumption, FS_Subset, FS_CardinalityType DEF Types
    <3>2. (Cardinality(tagged) <= Page) \in BOOLEAN
      BY <3>1, EnrollmentAssumption
    <3>3. poll.onePage \in BOOLEAN
      BY <1>2 DEF Poll
    <3> QED BY <3>2, <3>3
  <2>4. poll' = [poll EXCEPT !.stage = stage, !.offset = offset, !.onePage = onePage]
    BY <1>1
  <2> HIDE DEF stage, offset, onePage
  <2> QED BY <2>1, <2>2, <2>3, <2>4
<1>5. poll' \in Poll
  BY <1>2, <1>4 DEF Poll
<1>6. Types'
  BY <1>1, <1>5 DEF Types
<1>7. StripNotBegun'
  BY <1>3 DEF StripNotBegun
<1>8. LeftTags'
  <2>1. SUFFICES ASSUME poll'.onePage
                 PROVE  tagged' \subseteq poll.scan \cup poll.rewritten
    BY <1>3 DEF LeftTags
  <2>2. CASE poll.offset = 0
    <3>1. page = tagged
      BY <1>3, <2>1, <2>2, FirstPageIsAll DEF Types, page
    <3> QED BY <1>1, <3>1
  <2>3. CASE poll.offset # 0
    <3>1. tagged \subseteq poll.scan \cup poll.rewritten
      BY <1>1, <1>3, <2>1, <2>3 DEF LeftTags, StripIsDone
    <3> QED BY <1>1, <3>1
  <2> QED BY <2>2, <2>3
<1>9. GoneIsForgotten'
  BY <1>1 DEF GoneIsForgotten, Remembered
<1> QED BY <1>6, <1>7, <1>8, <1>9

LEMMA CancelEnroll ==
    ASSUME EnrollInv, CancelStale
    PROVE  EnrollInv'
<1> USE DEF EnrollInv
<1>1. /\ poll.stage = "cancel"
      /\ poll' = [IdlePoll EXCEPT !.stage = "enqueue", !.due = poll.due]
      /\ UNCHANGED <<crm, tagged, cadence, stamping, outcome>>
  BY DEF CancelStale
<1>2. poll' \in Poll /\ poll'.stage = "enqueue"
  BY <1>1 DEF Types, Poll, PollStage, IdlePoll
<1>3. row' \in [Phoned -> RowStatus]
  BY DEF CancelStale, Types, RowStatus
<1>4. Remembered' = Remembered
  BY <1>1 DEF Remembered
<1>5. gone' \subseteq Phoned /\ GoneIsForgotten'
  <2>1. CASE gone' = gone
    BY <1>1, <1>4, <2>1 DEF GoneIsForgotten, Types
  <2>2. CASE /\ poll.onePage
             /\ gone' = gone \cup (Phoned \ (poll.scan \cup poll.rewritten \cup Remembered))
    <3>1. tagged \subseteq poll.scan \cup poll.rewritten
      BY <1>1, <2>2 DEF LeftTags, StripIsDone
    <3> QED BY <1>1, <1>4, <2>2, <3>1 DEF GoneIsForgotten, Types
  <2> QED BY <2>1, <2>2 DEF CancelStale
<1>6. StripNotBegun' /\ LeftTags'
  BY <1>2 DEF StripNotBegun, LeftTags, StripIsDone
<1> QED BY <1>1, <1>2, <1>3, <1>5, <1>6 DEF Types

LEMMA EnqueueEnroll ==
    ASSUME EnrollInv, EnqueueEligible
    PROVE  EnrollInv'
<1> USE DEF EnrollInv
<1>1. poll' = IdlePoll /\ UNCHANGED <<crm, tagged, cadence, stamping, outcome, gone>>
  BY DEF EnqueueEligible
<1>2. poll' \in Poll /\ poll'.stage = "idle" /\ poll'.offset = 0
  BY <1>1 DEF IdlePoll, Poll, PollStage
<1>3. row' \in [Phoned -> RowStatus]
  BY DEF EnqueueEligible, Types, RowStatus
<1>4. StripNotBegun' /\ LeftTags' /\ GoneIsForgotten'
  BY <1>1, <1>2 DEF StripNotBegun, LeftTags, StripIsDone, GoneIsForgotten, Remembered
<1> QED BY <1>1, <1>2, <1>3, <1>4 DEF Types

LEMMA DialEnroll ==
    ASSUME EnrollInv, NEW c \in Phoned,
           ManualEnqueue(c) \/ PlaceCall(c) \/ BecomesDue(c)
    PROVE  EnrollInv'
<1> USE DEF EnrollInv
<1>1. UNCHANGED <<crm, tagged, poll, outcome, gone>>
  BY DEF ManualEnqueue, PlaceCall, BecomesDue
<1>2. row' \in [Phoned -> RowStatus] /\ cadence' \in [Phoned -> CadenceState]
  BY DEF ManualEnqueue, PlaceCall, Dial, Refuse, BecomesDue, Types, RowStatus, CadenceState
<1>3. stamping' \subseteq stamping \cup (tagged \cap {c})
  BY DEF ManualEnqueue, PlaceCall, Dial, Refuse, BecomesDue
<1>4. Types'
  BY <1>1, <1>2, <1>3 DEF Types
<1>5. Remembered' \subseteq Remembered \cup (tagged \cap {c})
  BY <1>1, <1>3 DEF Remembered
<1>6. GoneIsForgotten'
  BY <1>1, <1>5 DEF GoneIsForgotten
<1> QED
  BY <1>1, <1>4, <1>6 DEF StripNotBegun, LeftTags, StripIsDone

LEMMA ReadEnroll ==
    ASSUME EnrollInv, NEW p \in Processor, NEW c \in Phoned,
           ReadContact(p, c) \/ ReadOther(p, c)
    PROVE  EnrollInv'
<1> USE DEF EnrollInv
<1>1. UNCHANGED <<crm, tagged, row, cadence, poll, stamping, gone>>
  BY DEF ReadContact, ReadOther
<1>2. PICK enrolled \in BOOLEAN, own \in BOOLEAN :
        /\ enrolled => c \in tagged
        /\ outcome' = [outcome EXCEPT ![p] = [contact |-> c, enrolled |-> enrolled,
                                              own |-> own]]
  <2>1. (c \in tagged) \in BOOLEAN
    OBVIOUS
  <2> QED BY <2>1 DEF ReadContact, ReadOther
<1>3. [contact |-> c, enrolled |-> enrolled, own |-> own] \in Outcome
  BY DEF Outcome
<1>4. outcome' \in [Processor -> Outcome \cup {None}]
  BY <1>2, <1>3 DEF Types
<1>5. Types'
  BY <1>1, <1>4 DEF Types
<1>6. Remembered' \subseteq Remembered \cup (tagged \cap {c})
  BY <1>1, <1>2, RememberedGrows
<1>7. GoneIsForgotten'
  BY <1>1, <1>6 DEF GoneIsForgotten
<1> QED BY <1>1, <1>5, <1>7 DEF StripNotBegun, LeftTags, StripIsDone

(* Writing tags back: a tag comes back only if somebody remembers it.       *)
LEMMA WriteEnroll ==
    ASSUME EnrollInv, NEW c \in Phoned, NEW enrolled \in BOOLEAN, WriteTags(c, enrolled),
           enrolled => c \in Remembered, Remembered' \subseteq Remembered, gone' = gone
    PROVE  /\ tagged' \subseteq Contact /\ poll' \in Poll
           /\ StripNotBegun' /\ LeftTags' /\ GoneIsForgotten'
<1> USE DEF EnrollInv
<1>1. c \in Contact
  BY EnrollmentAssumption
<1>2. tagged' \subseteq tagged \cup {c} /\ (~enrolled => tagged' \subseteq tagged)
  BY DEF WriteTags
<1>3. GoneIsForgotten'
  BY <1>2 DEF GoneIsForgotten
<1>4. poll \in Poll
  BY DEF Types
<1>5. CASE poll.stage \in {"strip", "cancel"}
  <2>1. poll' = [poll EXCEPT !.rewritten = @ \cup {c}]
    BY <1>5 DEF WriteTags
  <2>2. /\ poll' \in Poll
        /\ poll'.stage = poll.stage /\ poll'.offset = poll.offset
        /\ poll'.scan = poll.scan /\ poll'.onePage = poll.onePage
        /\ poll'.rewritten = poll.rewritten \cup {c}
    BY <1>1, <1>4, <2>1 DEF Poll
  <2>3. StripNotBegun' /\ LeftTags'
    BY <1>2, <2>2 DEF StripNotBegun, LeftTags, StripIsDone
  <2> QED BY <1>1, <1>2, <1>3, <2>2, <2>3 DEF Types
<1>6. CASE poll.stage \notin {"strip", "cancel"}
  <2>1. poll' = poll
    BY <1>6 DEF WriteTags
  <2>2. StripNotBegun' /\ LeftTags'
    BY <1>6, <2>1 DEF StripNotBegun, LeftTags, StripIsDone
  <2> QED BY <1>1, <1>2, <1>3, <1>4, <2>1, <2>2 DEF Types
<1> QED BY <1>5, <1>6

LEMMA StampEnroll ==
    ASSUME EnrollInv, NEW c \in Phoned, StampDialed(c)
    PROVE  EnrollInv'
<1> USE DEF EnrollInv
<1>1. /\ UNCHANGED <<crm, row, cadence, outcome, gone>>
      /\ stamping' = stamping \ {c} /\ c \in stamping
      /\ WriteTags(c, TRUE) \/ UNCHANGED <<tagged, poll>>
  BY DEF StampDialed
<1>2. Remembered' \subseteq Remembered /\ c \in Remembered
  BY <1>1 DEF Remembered
<1>3. /\ tagged' \subseteq Contact /\ poll' \in Poll
      /\ StripNotBegun' /\ LeftTags' /\ GoneIsForgotten'
  <2>1. CASE WriteTags(c, TRUE)
    BY <1>1, <1>2, <2>1, WriteEnroll
  <2>2. CASE UNCHANGED <<tagged, poll>>
    BY <1>1, <1>2, <2>2 DEF Types, StripNotBegun, LeftTags, StripIsDone, GoneIsForgotten
  <2> QED BY <1>1, <2>1, <2>2
<1> QED BY <1>1, <1>3 DEF Types

LEMMA OutcomeEnroll ==
    ASSUME EnrollInv, NEW p \in Processor, ChainNextPhone(p) \/ EndOutcome(p)
    PROVE  EnrollInv'
<1> USE DEF EnrollInv
<1> DEFINE c == outcome[p].contact
<1>1. outcome[p] \in Outcome /\ outcome' = [outcome EXCEPT ![p] = None]
      /\ stamping' = stamping
  BY DEF ChainNextPhone, EndOutcome, EndAttempt, EndOther, Types
<1>2. c \in Phoned /\ outcome[p].enrolled \in BOOLEAN
  BY <1>1 DEF Outcome
<1>3. outcome[p].enrolled => c \in Remembered
  BY <1>1, <1>2, EnrollmentAssumption DEF Remembered, ChainNextPhone, EndOutcome, EndAttempt,
     EndOther
<1>4. Remembered' \subseteq Remembered
  BY <1>1, RememberedShrinks
<1>5. /\ crm' = crm /\ gone' = gone /\ stamping' = stamping
      /\ row' \in [Phoned -> RowStatus] /\ cadence' \in [Phoned -> CadenceState]
      /\ outcome' \in [Processor -> Outcome \cup {None}]
  BY <1>1, <1>2 DEF ChainNextPhone, EndOutcome, EndAttempt, EndOther, Types, RowStatus,
     CadenceState
<1>6. \/ UNCHANGED <<tagged, poll>>
      \/ WriteTags(c, outcome[p].enrolled)
      \/ WriteTags(c, FALSE)
  BY DEF ChainNextPhone, EndOutcome, EndAttempt, EndOther
<1>7. CASE UNCHANGED <<tagged, poll>>
  BY <1>4, <1>5, <1>7 DEF Types, StripNotBegun, LeftTags, StripIsDone, GoneIsForgotten
<1>8. CASE WriteTags(c, outcome[p].enrolled)
  BY <1>2, <1>3, <1>4, <1>5, <1>8, WriteEnroll DEF Types
<1>9. CASE WriteTags(c, FALSE)
  BY <1>2, <1>4, <1>5, <1>9, WriteEnroll DEF Types
<1> QED BY <1>6, <1>7, <1>8, <1>9

LEMMA EditEnroll ==
    ASSUME EnrollInv, NEW c \in Contact, EditCrm(c)
    PROVE  EnrollInv'
BY DEF EditCrm, EnrollInv, Types, StripNotBegun, LeftTags, StripIsDone, GoneIsForgotten,
   Remembered

-----------------------------------------------------------------------------
(* The theorem. *)

LEMMA NextEnroll ==
    ASSUME EnrollInv, [Next]_vars
    PROVE  EnrollInv'
<1>1. CASE PollStep
  BY <1>1, ScanEnroll, MergeEnroll, StripEnroll, CancelEnroll, EnqueueEnroll DEF PollStep
<1>2. CASE \E c \in Phoned :
           ManualEnqueue(c) \/ PlaceCall(c) \/ StampDialed(c) \/ BecomesDue(c)
  BY <1>2, DialEnroll, StampEnroll
<1>3. CASE \E p \in Processor, c \in Phoned : ReadContact(p, c) \/ ReadOther(p, c)
  BY <1>3, ReadEnroll
<1>4. CASE \E p \in Processor : ChainNextPhone(p) \/ EndOutcome(p)
  BY <1>4, OutcomeEnroll
<1>5. CASE \E c \in Contact : EditCrm(c)
  BY <1>5, EditEnroll
<1>6. CASE UNCHANGED vars
  BY <1>6 DEF vars, EnrollInv, Types, StripNotBegun, LeftTags, StripIsDone, GoneIsForgotten,
     Remembered
<1> QED BY <1>1, <1>2, <1>3, <1>4, <1>5, <1>6 DEF Next

(* In every behavior, contacts found to be unenrolled carry no tag that     *)
(* placeCall would trust, and nobody, neither a placeCall under way nor an  *)
(* outcome processor, has an enroll tag of theirs to write back.            *)
THEOREM GoneAreForgotten == Spec => []EnrollInv
<1>1. Init => EnrollInv
  BY InitEnroll
<1>2. EnrollInv /\ [Next]_vars => EnrollInv'
  BY NextEnroll
<1> QED BY <1>1, <1>2, PTL DEF Spec

(* Only placeCall starts a dial, and it looks at the tag.                   *)
LEMMA DialStepEnroll ==
    ASSUME EnrollInv, [Next]_vars, NEW c \in Phoned,
           row[c] # "dialing", row'[c] = "dialing"
    PROVE  c \notin gone
<1> SUFFICES ASSUME c \in gone
             PROVE  FALSE
  OBVIOUS
<1>1. c \notin tagged /\ row \in [Phoned -> RowStatus]
      /\ outcome \in [Processor -> Outcome \cup {None}]
  BY DEF EnrollInv, GoneIsForgotten, Types
<1>2. ~PollStep
  BY <1>1 DEF PollStep, ScanCrm, CheckScan, MergeContacts, StripPage, CancelStale, PollAborts,
     EnqueueEligible
<1>3. ASSUME NEW d \in Phoned
      PROVE  ~ManualEnqueue(d) /\ ~PlaceCall(d) /\ ~StampDialed(d) /\ ~BecomesDue(d)
  BY <1>1, <1>3 DEF ManualEnqueue, PlaceCall, Dial, Refuse, StampDialed, BecomesDue
<1>4. ASSUME NEW p \in Processor, NEW d \in Phoned
      PROVE  ~ReadContact(p, d) /\ ~ReadOther(p, d)
  BY <1>4 DEF ReadContact, ReadOther
<1>5. ASSUME NEW p \in Processor PROVE ~ChainNextPhone(p) /\ ~EndOutcome(p)
  BY <1>1, <1>5 DEF ChainNextPhone, EndOutcome, EndAttempt, EndOther
<1>6. ASSUME NEW d \in Contact PROVE ~EditCrm(d)
  BY <1>6 DEF EditCrm
<1>7. ~UNCHANGED vars
  BY DEF vars
<1> QED BY <1>2, <1>3, <1>4, <1>5, <1>6, <1>7 DEF Next

(* A contact that a finished poll has found to be unenrolled is not dialed, *)
(* whatever polls, operators, placeCalls that end late and outcome          *)
(* processors do.                                                           *)
THEOREM UnenrolledStaysUndialed == Spec => UnenrolledIsNotDialed
<1>1. EnrollInv /\ [Next]_vars =>
        [\A c \in Phoned : row[c] # "dialing" /\ row'[c] = "dialing" => c \notin gone]_vars
  BY DialStepEnroll
<1> QED BY <1>1, GoneAreForgotten, PTL DEF Spec, UnenrolledIsNotDialed
-----------------------------------------------------------------------------
(* Type correctness, with the bounds. *)

Bounded ==
    /\ poll.offset <= Cardinality(Contact)
    /\ acts \in 0..MaxActs
    /\ others \in 0..MaxOthers
    /\ faults \in 0..MaxFaults

LEMMA CountersKept ==
    ASSUME Bounded, [Next]_vars
    PROVE  acts' \in 0..MaxActs /\ others' \in 0..MaxOthers /\ faults' \in 0..MaxFaults
<1>1. acts' = acts \/ OperatorActs
  BY DEF Next, PollStep, ScanCrm, CheckScan, MergeContacts, StripPage, CancelStale, PollAborts,
     EnqueueEligible, ManualEnqueue, PlaceCall, StampDialed, BecomesDue, ReadContact,
     ReadOther, ChainNextPhone, EndOutcome, EndAttempt, EndOther, EditCrm, vars
<1>2. others' = others \/ (others < MaxOthers /\ others' = others + 1)
  <2>1. ASSUME NEW p, NEW c, ReadOther(p, c) PROVE others < MaxOthers /\ others' = others + 1
    BY <2>1 DEF ReadOther
  <2>2. ASSUME NEW p, NEW c, ReadContact(p, c) PROVE others' = others
    BY <2>2 DEF ReadContact
  <2>3. CASE ~\E p \in Processor, c \in Phoned : ReadContact(p, c) \/ ReadOther(p, c)
    BY <2>3 DEF Next, PollStep, ScanCrm, CheckScan, MergeContacts, StripPage, CancelStale,
       PollAborts, EnqueueEligible, ManualEnqueue, PlaceCall, StampDialed, BecomesDue,
       ChainNextPhone, EndOutcome, EndAttempt, EndOther, EditCrm, vars
  <2> QED BY <2>1, <2>2, <2>3
<1>3. faults' = faults \/ Fault
  BY DEF Next, PollStep, ScanCrm, CheckScan, MergeContacts, SaveScan, SaveFails, StripPage,
     CancelStale, PollAborts, EnqueueEligible, ManualEnqueue, PlaceCall, StampDialed,
     BecomesDue, ReadContact, ReadOther, ChainNextPhone, EndOutcome, EndAttempt, EndOther,
     EditCrm, vars
<1> QED
  BY <1>1, <1>2, <1>3, EnrollmentAssumption DEF Bounded, OperatorActs, Fault

(* The offset is set back, kept, or moved past a full page.                 *)
LEMMA OffsetKept ==
    ASSUME Types, Bounded, [Next]_vars
    PROVE  poll'.offset <= Cardinality(Contact)
<1>1. Cardinality(Contact) \in Nat
  BY EnrollmentAssumption, FS_CardinalityType
<1>2. poll \in Poll /\ poll.offset \in Nat /\ IdlePoll.offset = 0
  BY DEF Types, Poll, IdlePoll
<1>3. CASE poll'.offset \in {0, poll.offset}
  BY <1>1, <1>2, <1>3 DEF Bounded
<1>4. CASE StripPage
  <2>1. CASE Cardinality(PageAt(poll.offset)) < Page
    <3>1. poll'.offset = 0
      BY <1>2, <1>4, <2>1 DEF StripPage, Poll
    <3> QED BY <1>3, <3>1
  <2>2. CASE ~(Cardinality(PageAt(poll.offset)) < Page)
    <3>1. poll'.offset = poll.offset + Page
      BY <1>2, <1>4, <2>2 DEF StripPage, Poll
    <3>2. PageAt(poll.offset) \subseteq Contact
      BY DEF PageAt, Types
    <3>3. Cardinality(PageAt(poll.offset)) >= Page
      BY <2>2, <3>2, EnrollmentAssumption, FS_Subset, FS_CardinalityType
    <3> QED
      BY <1>2, <3>1, <3>3, FullPageFits DEF Types
  <2> QED BY <2>1, <2>2
<1>5. CASE PollStep /\ ~StripPage
  <2>1. ASSUME ScanCrm PROVE poll'.offset = 0
    BY <2>1 DEF ScanCrm, IdlePoll
  <2>2. ASSUME CheckScan PROVE poll'.offset \in {0, poll.offset}
    BY <1>2, <2>2 DEF CheckScan, Poll
  <2>3. ASSUME MergeContacts PROVE poll'.offset = poll.offset
    BY <1>2, <2>3 DEF MergeContacts, SaveScan, SaveFails, Poll
  <2>4. ASSUME CancelStale PROVE poll'.offset = 0
    <3>1. poll' = [IdlePoll EXCEPT !.stage = "enqueue", !.due = poll.due]
      BY <2>4 DEF CancelStale
    <3> QED BY <3>1 DEF IdlePoll
  <2>5. ASSUME PollAborts \/ EnqueueEligible PROVE poll'.offset = 0
    BY <1>2, <2>5 DEF PollAborts, EnqueueEligible
  <2> QED BY <1>3, <1>5, <2>1, <2>2, <2>3, <2>4, <2>5 DEF PollStep
<1>6. CASE poll' = poll
  BY <1>3, <1>6
<1>7. ASSUME NEW c, NEW enrolled, WriteTags(c, enrolled) PROVE poll'.offset = poll.offset
  BY <1>2, <1>7 DEF WriteTags, Poll
<1>8. \/ PollStep \/ poll' = poll
      \/ \E c \in Phoned, enrolled \in BOOLEAN : WriteTags(c, enrolled)
  <2>1. ASSUME NEW c \in Phoned, StampDialed(c)
        PROVE  poll' = poll \/ WriteTags(c, TRUE)
    BY <2>1 DEF StampDialed
  <2>2. ASSUME NEW p \in Processor, EndOutcome(p)
        PROVE  \/ poll' = poll
               \/ \E c \in Phoned, enrolled \in BOOLEAN : WriteTags(c, enrolled)
    <3>1. outcome[p].contact \in Phoned /\ outcome[p].enrolled \in BOOLEAN
      BY <2>2 DEF EndOutcome, EndAttempt, EndOther, Types, Outcome
    <3> QED BY <2>2, <3>1 DEF EndOutcome, EndAttempt, EndOther
  <2>3. CASE ~\/ \E c \in Phoned : StampDialed(c)
              \/ \E p \in Processor : EndOutcome(p)
    BY <2>3 DEF Next, ManualEnqueue, PlaceCall, BecomesDue, ReadContact, ReadOther,
       ChainNextPhone, EditCrm, vars
  <2> QED BY <2>1, <2>2, <2>3
<1> QED BY <1>3, <1>4, <1>5, <1>6, <1>7, <1>8

(* Type correctness of polls, outcomes, queue and tags: a strip never looks *)
(* for a page behind the last contact, and operators, other agents and      *)
(* faults stay within their bounds.                                         *)
THEOREM EnrollTypeCorrect == Spec => []TypeOK
<1>1. Init => Bounded
  <2>1. Cardinality(Contact) \in Nat
    BY EnrollmentAssumption, FS_CardinalityType
  <2> QED BY <2>1, EnrollmentAssumption DEF Init, Bounded, IdlePoll
<1>2. EnrollInv /\ Bounded /\ [Next]_vars => Bounded'
  BY CountersKept, OffsetKept DEF EnrollInv, Bounded
<1>3. EnrollInv /\ Bounded => TypeOK
  BY DEF EnrollInv, Types, Bounded, TypeOK
<1> QED BY <1>1, <1>2, <1>3, GoneAreForgotten, PTL DEF Spec
=============================================================================
