----------------------------- MODULE Enrollment -----------------------------
(***************************************************************************)
(* Who is enrolled with an agent.  The CRM decides: a contact is enrolled  *)
(* while it carries the agent's enroll tag there.  Every poll scans the    *)
(* tag and brings the local copy of the tags and the call queue in line    *)
(* with it, in several statements; placeCall trusts the local copy.  The   *)
(* copy is also written with tags read earlier: by placeCall itself once   *)
(* the call rings, and by outcome processing, of this agent's calls and of *)
(* other agents' calls of the same contact.                                *)
(*                                                                         *)
(* One poll of the agent at a time, and room for every eligible contact:   *)
(* DialCapacity has the counts, DialQueue the steps of a dial.             *)
(***************************************************************************)
EXTENDS Integers, FiniteSets

CONSTANTS
    Contact,     \* the contacts, numbered in the order the database returns them
    Phoned,      \* those with a phone number
    Enrolled,    \* those enrolled when the engine starts
    Processor,   \* outcome processors
    None,
    Threshold,   \* ZERO_CRM_SCAN_GUARD_THRESHOLD, 10
    LowRatio,    \* one over LOW_CRM_SCAN_RATIO, 4
    Page,        \* STRIP_TAGS_PAGE, 500
    MaxActs,     \* how often operators edit a tag in the CRM or queue a contact by hand
    MaxOthers,   \* how often a call of another agent or a test call rewrites the tags
    MaxFaults    \* how many scans are incomplete, writes fail, polls abort

ASSUME EnrollmentAssumption ==
    /\ Contact \subseteq Nat
    /\ IsFiniteSet(Contact)
    /\ Phoned \subseteq Contact
    /\ Enrolled \subseteq Contact
    /\ None \notin Contact
    /\ Threshold \in Nat
    /\ LowRatio \in Nat
    /\ Page \in Nat \ {0}
    /\ MaxActs \in Nat
    /\ MaxOthers \in Nat
    /\ MaxFaults \in Nat

VARIABLES
    crm,      \* contacts that carry the enroll tag in the CRM
    tagged,   \* contacts whose local tags contain it (contacts.tags)
    row,      \* the contact's active row of call_queue_entries
    cadence,  \* agent_contact_states: due, called and not yet due again, terminal
    poll,     \* where the poll stands and what it has read
    stamping, \* contacts whose placeCall has yet to write back the tags it has read
    outcome,  \* the contact an outcome processor works on, and the tag it has read
    gone,     \* history: phoned contacts that a finished poll has found to be unenrolled
    acts, others, faults

vars == <<crm, tagged, row, cadence, poll, stamping, outcome, gone, acts, others, faults>>

RowStatus == {"none", "pending", "next", "dialing"}  \* next: pending with a further number
Waiting == {"pending", "next"}
CadenceState == {"due", "called", "terminal"}
PollStage == {"idle", "guard", "merge", "strip", "cancel", "enqueue"}

Poll == [stage : PollStage,
         scan : SUBSET Contact,       \* what getContactsByTag returned
         saved : SUBSET Contact,      \* what the upsert into contacts returned
         due : SUBSET Contact,        \* eligible by the states read
         offset : Nat,                \* where the next page of the strip begins
         onePage : BOOLEAN,           \* history: all tagged contacts were on one page
         rewritten : SUBSET Contact]  \* history: tags written by outcomes since the merge

Outcome == [contact : Phoned, enrolled : BOOLEAN, own : BOOLEAN]

IdlePoll == [stage |-> "idle", scan |-> {}, saved |-> {}, due |-> {}, offset |-> 0,
             onePage |-> TRUE, rewritten |-> {}]

TypeOK ==
    /\ crm \subseteq Contact
    /\ tagged \subseteq Contact
    /\ row \in [Phoned -> RowStatus]
    /\ cadence \in [Phoned -> CadenceState]
    /\ poll \in Poll
    /\ poll.offset <= Cardinality(Contact)
    /\ stamping \subseteq Phoned
    /\ outcome \in [Processor -> Outcome \cup {None}]
    /\ gone \subseteq Phoned
    /\ acts \in 0..MaxActs
    /\ others \in 0..MaxOthers
    /\ faults \in 0..MaxFaults

Init ==
    /\ crm = Enrolled
    /\ tagged = {}
    /\ row = [c \in Phoned |-> "none"]
    /\ cadence = [c \in Phoned |-> "due"]
    /\ poll = IdlePoll
    /\ stamping = {}
    /\ outcome = [p \in Processor |-> None]
    /\ gone = {}
    /\ acts = 0 /\ others = 0 /\ faults = 0

Fault == faults < MaxFaults /\ faults' = faults + 1

OperatorActs == acts < MaxActs /\ acts' = acts + 1

(***************************************************************************)
(* The poll.                                                               *)
(***************************************************************************)

(* The CRM is read page by page while operators edit it, and a provider may *)
(* answer with nothing at all: a scan may lack contacts that are enrolled.  *)
ScanCrm ==
    /\ poll.stage = "idle"
    /\ \/ /\ poll' = [IdlePoll EXCEPT !.stage = "guard", !.scan = crm]
          /\ UNCHANGED faults
       \/ /\ Fault
          /\ \E scan \in SUBSET crm :
                poll' = [IdlePoll EXCEPT !.stage = "guard", !.scan = scan]
    /\ UNCHANGED <<crm, tagged, row, cadence, stamping, outcome, gone, acts, others>>

(* shouldGuardCrmScan. *)
Guarded(scanned, local) ==
    /\ local >= Threshold
    /\ scanned = 0 \/ scanned * LowRatio < local

CheckScan ==
    /\ poll.stage = "guard"
    /\ poll' = IF Guarded(Cardinality(poll.scan), Cardinality(tagged))
               THEN IdlePoll ELSE [poll EXCEPT !.stage = "merge"]
    /\ UNCHANGED <<crm, tagged, row, cadence, stamping, outcome, gone, acts, others, faults>>

SaveScan ==
    /\ poll' = [poll EXCEPT !.stage = "strip", !.saved = poll.scan,
                            !.due = {c \in poll.scan \cap Phoned : cadence[c] = "due"}]
    /\ tagged' = tagged \cup poll.scan
    /\ gone' = gone \ poll.scan
    /\ UNCHANGED faults

(* The result of the upsert is used without a look at its error: when it    *)
(* fails, the poll goes on with no contacts.                                *)
SaveFails ==
    /\ Fault
    /\ poll' = [poll EXCEPT !.stage = "strip"]
    /\ UNCHANGED <<tagged, gone>>

MergeContacts ==
    /\ poll.stage = "merge"
    /\ SaveScan \/ SaveFails
    /\ UNCHANGED <<crm, row, cadence, stamping, outcome, acts, others>>

(* The page of tagged contacts that starts at an offset. *)
PageAt(offset) ==
    {c \in tagged : LET before == Cardinality({d \in tagged : d < c})
                    IN  offset <= before /\ before < offset + Page}

\* [slip] one page is taken for all of them.
StripFirstPage ==
    /\ poll.stage = "strip"
    /\ tagged' = tagged \ (PageAt(poll.offset) \ poll.scan)
    /\ poll' = [poll EXCEPT !.stage = "cancel", !.onePage = Cardinality(tagged) <= Page]
    /\ UNCHANGED <<crm, row, cadence, stamping, outcome, gone, acts, others, faults>>

\* [slip] the offset runs on to a page that cannot exist.
StripUntilEmpty ==
    /\ poll.stage = "strip"
    /\ LET page == PageAt(poll.offset)
       IN  /\ tagged' = tagged \ (page \ poll.scan)
           /\ poll' = [poll EXCEPT
                          !.stage = IF page = {} THEN "cancel" ELSE "strip",
                          !.offset = @ + Page,
                          !.onePage = IF poll.offset = 0 THEN Cardinality(tagged) <= Page
                                                         ELSE @]
    /\ UNCHANGED <<crm, row, cadence, stamping, outcome, gone, acts, others, faults>>

(* stripStaleLocalEnrollTags, one page of it: read, then update row by row. *)
(* The tags it removes shorten the list the next offset counts in.          *)
StripPage ==
    /\ poll.stage = "strip"
    /\ LET page == PageAt(poll.offset)
           last == Cardinality(page) < Page
       IN  /\ tagged' = tagged \ (page \ poll.scan)
           /\ poll' = [poll EXCEPT
                          !.stage = IF last THEN "cancel" ELSE "strip",
                          !.offset = IF last THEN 0 ELSE @ + Page,
                          !.onePage = IF poll.offset = 0 THEN Cardinality(tagged) <= Page
                                                         ELSE @]
    /\ UNCHANGED <<crm, row, cadence, stamping, outcome, gone, acts, others, faults>>

(* Contacts whose tag placeCall or a processor has read and may write back. *)
Remembered == stamping \cup {c \in Phoned : \E p \in Processor :
                                /\ outcome[p] # None
                                /\ outcome[p].contact = c
                                /\ outcome[p].enrolled}

(* reconcileUnenrolledQueueOnPoll. *)
CancelStale ==
    /\ poll.stage = "cancel"
    /\ row' = [c \in Phoned |-> IF row[c] \in Waiting /\ c \notin poll.saved
                                THEN "none" ELSE row[c]]
    /\ poll' = [IdlePoll EXCEPT !.stage = "enqueue", !.due = poll.due]
    /\ gone' = IF poll.onePage
               THEN gone \cup (Phoned \ (poll.scan \cup poll.rewritten \cup Remembered))
               ELSE gone
    /\ UNCHANGED <<crm, tagged, cadence, stamping, outcome, acts, others, faults>>

(* A failed update or look-up ends the poll where it is. *)
PollAborts ==
    /\ poll.stage \in {"strip", "cancel"}
    /\ Fault
    /\ poll' = IdlePoll
    /\ UNCHANGED <<crm, tagged, row, cadence, stamping, outcome, gone, acts, others>>

EnqueueEligible ==
    /\ poll.stage = "enqueue"
    /\ row' = [c \in Phoned |-> IF c \in poll.due /\ row[c] = "none"
                                THEN "pending" ELSE row[c]]
    /\ poll' = IdlePoll
    /\ UNCHANGED <<crm, tagged, cadence, stamping, outcome, gone, acts, others, faults>>

PollStep ==
    \/ ScanCrm \/ CheckScan \/ MergeContacts \/ StripPage \/ CancelStale
    \/ PollAborts \/ EnqueueEligible

(* "Queue calls now": the contact must carry the tag locally. *)
ManualEnqueue(c) ==
    /\ c \in tagged
    /\ cadence[c] # "terminal"
    /\ row[c] = "none"
    /\ OperatorActs
    /\ row' = [row EXCEPT ![c] = "pending"]
    /\ UNCHANGED <<crm, tagged, cadence, poll, stamping, outcome, gone, others, faults>>

(***************************************************************************)
(* Dials and outcomes.                                                     *)
(***************************************************************************)

(* placeCall dials: the first number of an attempt leaves it with tags to   *)
(* write back.                                                              *)
Dial(c) ==
    /\ row' = [row EXCEPT ![c] = "dialing"]
    /\ cadence' = [cadence EXCEPT ![c] = "called"]
    /\ stamping' = IF row[c] = "pending" THEN stamping \cup {c} ELSE stamping

\* A refused contact loses its rows.
Refuse(c) ==
    /\ row' = [row EXCEPT ![c] = "none"]
    /\ UNCHANGED <<cadence, stamping>>

\* [slip] no look at the tags before the dial.
PlaceCallUnchecked(c) ==
    /\ row[c] \in Waiting
    /\ IF cadence[c] # "terminal" THEN Dial(c) ELSE Refuse(c)
    /\ UNCHANGED <<crm, tagged, poll, outcome, gone, acts, others, faults>>

\* [slip] a refused dial leaves its row claimed.
PlaceCallKeepsClaim(c) ==
    /\ row[c] \in Waiting
    /\ IF c \in tagged /\ cadence[c] # "terminal" THEN Dial(c)
       ELSE row' = [row EXCEPT ![c] = "dialing"] /\ UNCHANGED <<cadence, stamping>>
    /\ UNCHANGED <<crm, tagged, poll, outcome, gone, acts, others, faults>>

(* placeCall, from the contact it reads to the call. *)
PlaceCall(c) ==
    /\ row[c] \in Waiting
    /\ IF c \in tagged /\ cadence[c] # "terminal" THEN Dial(c) ELSE Refuse(c)
    /\ UNCHANGED <<crm, tagged, poll, outcome, gone, acts, others, faults>>

(* The tags as read are written back, with or without the enroll tag. *)
WriteTags(c, enrolled) ==
    /\ tagged' = IF enrolled THEN tagged \cup {c} ELSE tagged \ {c}
    /\ poll' = IF poll.stage \in {"strip", "cancel"}
                THEN [poll EXCEPT !.rewritten = @ \cup {c}] ELSE poll

(* The end of placeCall: the tags it read, the enroll tag among them, with  *)
(* the tag of the day added; nothing when that tag is there already or the  *)
(* CRM fails.                                                               *)
StampDialed(c) ==
    /\ c \in stamping
    /\ WriteTags(c, TRUE) \/ UNCHANGED <<tagged, poll>>
    /\ stamping' = stamping \ {c}
    /\ UNCHANGED <<crm, row, cadence, outcome, gone, acts, others, faults>>

Processing(c) == \E p \in Processor : outcome[p] # None /\ outcome[p].contact = c /\ outcome[p].own

(* processRetellWebhook reads the contact and works with its tags from then on. *)
ReadContact(p, c) ==
    /\ outcome[p] = None
    /\ row[c] = "dialing" /\ ~Processing(c)
    /\ outcome' = [outcome EXCEPT ![p] = [contact |-> c, enrolled |-> c \in tagged, own |-> TRUE]]
    /\ UNCHANGED <<crm, tagged, row, cadence, poll, stamping, gone, acts, others, faults>>

(* Another agent's dial or outcome, or a test call, of the same contact
   reads its tags. *)
ReadOther(p, c) ==
    /\ outcome[p] = None
    /\ others < MaxOthers
    /\ others' = others + 1
    /\ outcome' = [outcome EXCEPT ![p] = [contact |-> c, enrolled |-> c \in tagged, own |-> FALSE]]
    /\ UNCHANGED <<crm, tagged, row, cadence, poll, stamping, gone, acts, faults>>

(* An attempt that goes on with the next number writes no tags. *)
ChainNextPhone(p) ==
    /\ outcome[p] # None
    /\ outcome[p].own
    /\ row' = [row EXCEPT ![outcome[p].contact] = "next"]
    /\ outcome' = [outcome EXCEPT ![p] = None]
    /\ UNCHANGED <<crm, tagged, cadence, poll, stamping, gone, acts, others, faults>>

(* A terminal outcome drops the enroll tag locally; in the CRM tags are     *)
(* only ever added.                                                         *)
EndAttempt(p) ==
    /\ outcome[p] # None
    /\ outcome[p].own
    /\ LET c == outcome[p].contact
       IN  /\ \/ WriteTags(c, outcome[p].enrolled) /\ UNCHANGED cadence
              \/ WriteTags(c, FALSE) /\ cadence' = [cadence EXCEPT ![c] = "terminal"]
           /\ row' = [row EXCEPT ![c] = "none"]
    /\ outcome' = [outcome EXCEPT ![p] = None]
    /\ UNCHANGED <<crm, stamping, gone, acts, others, faults>>

EndOther(p) ==
    /\ outcome[p] # None
    /\ ~outcome[p].own
    /\ \/ WriteTags(outcome[p].contact, outcome[p].enrolled)
       \/ UNCHANGED <<tagged, poll>>
    /\ outcome' = [outcome EXCEPT ![p] = None]
    /\ UNCHANGED <<crm, row, cadence, stamping, gone, acts, others, faults>>

EndOutcome(p) == EndAttempt(p) \/ EndOther(p)

(***************************************************************************)
(* The CRM's users and the calendar.                                       *)
(***************************************************************************)
EditCrm(c) ==
    /\ OperatorActs
    /\ crm' = IF c \in crm THEN crm \ {c} ELSE crm \cup {c}
    /\ UNCHANGED <<tagged, row, cadence, poll, stamping, outcome, gone, others, faults>>

BecomesDue(c) ==
    /\ cadence[c] = "called"
    /\ row[c] = "none"
    /\ cadence' = [cadence EXCEPT ![c] = "due"]
    /\ UNCHANGED <<crm, tagged, row, poll, stamping, outcome, gone, acts, others, faults>>

Next ==
    \/ PollStep
    \/ \E c \in Phoned : ManualEnqueue(c) \/ PlaceCall(c) \/ StampDialed(c) \/ BecomesDue(c)
    \/ \E p \in Processor, c \in Phoned : ReadContact(p, c) \/ ReadOther(p, c)
    \/ \E p \in Processor : ChainNextPhone(p) \/ EndOutcome(p)
    \/ \E c \in Contact : EditCrm(c)

Spec == Init /\ [][Next]_vars

(* The scheduler keeps polling, jobs reach placeCall, and a placeCall and    *)
(* an outcome processing that have started end; nothing is assumed of edits, *)
(* chains, failures or dates.                                                *)
Fairness ==
    /\ WF_vars(PollStep)
    /\ \A c \in Phoned : WF_vars(PlaceCall(c)) /\ WF_vars(StampDialed(c))
    /\ \A p \in Processor : WF_vars(EndOutcome(p))

FairSpec == Spec /\ Fairness

(***************************************************************************)
(* Properties.                                                             *)
(***************************************************************************)

(* A contact that a finished poll has found to be without the tag is not    *)
(* dialed until a poll finds the tag again: neither the next number of an   *)
(* attempt under way nor an operator's batch reaches it.  Only a placeCall  *)
(* or an outcome processor that read the tag before and has yet to write it *)
(* back, or a strip that needs several pages, can keep the tag alive beyond *)
(* that poll.                                                               *)
UnenrolledIsNotDialed ==
    [][\A c \in Phoned : row[c] # "dialing" /\ row'[c] = "dialing" => c \notin gone]_vars

(* The guard holds the poll back, with the CRM and the local tags as they are. *)
Held == Guarded(Cardinality(crm), Cardinality(tagged))

(* The engine recovers from incomplete scans, failed writes and tags that   *)
(* another agent's outcome wiped out: a contact that stays enrolled does    *)
(* not stay due, unless the scan guard stays shut.                          *)
EnrolledIsDialed ==
    \A c \in Phoned : <>[](c \in crm /\ ~Held) => []<>(cadence[c] # "due")

(* Polls forget a contact that left the CRM, whatever page it is on and     *)
(* whoever writes its old tags back: in the end it is neither tagged nor    *)
(* waiting in the queue, unless the scan guard stays shut.                  *)
UnenrolledIsForgotten ==
    \A c \in Phoned :
        <>[](c \notin crm /\ ~Held) => <>[](c \notin tagged /\ row[c] \notin Waiting)
=============================================================================
