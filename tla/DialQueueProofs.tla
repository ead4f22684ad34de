-------------------------- MODULE DialQueueProofs --------------------------
(***************************************************************************)
(* Theorems about DialQueue, for every value of its constants: types; who  *)
(* holds a row and dials; which number rings, in which attempt, on which   *)
(* day; forced dials.                                                      *)
(***************************************************************************)
EXTENDS DialQueue, TLAPS

(***************************************************************************)
(* Type correctness.  Linked is what makes it inductive: a job is built    *)
(* from the row its poller wrote, and the outcome processor follows the id *)
(* of the call it claimed.                                                 *)
(***************************************************************************)
TypeInv == TypeOK /\ Linked

\* The tables start empty and well typed.
LEMMA InitTyped == Init => TypeInv
  BY ParamAssumption DEF Init, TypeInv, TypeOK, Linked, NoRow, NoCall,
     IdleExec, IdleHandler, IdlePoll, Row, RowStatus, Call, CallStatus,
     Outcome, Exec, ExecPC, Handling, HandlerPC, Poll, PollPC, Job

\* The blank records of the five tables have the right type.
LEMMA BlankRecords ==
    /\ \A s \in RowStatus : NoRow(s) \in Row
    /\ NoCall \in Call
    /\ IdleExec \in Exec
    /\ IdleHandler \in Handling
    /\ IdlePoll \in Poll
  BY DEF NoRow, NoCall, IdleExec, IdleHandler, IdlePoll, Row, RowStatus,
     Call, CallStatus, Outcome, Exec, ExecPC, Handling, HandlerPC, Poll, PollPC

\* An update of a table keeps its type if the new entry has the entries' type
\* (or the key is not one of the table's).
LEMMA UpdateTyped ==
    ASSUME NEW S, NEW T, NEW f \in [S -> T], NEW x, NEW v, x \in S => v \in T
    PROVE  [f EXCEPT ![x] = v] \in [S -> T]
  OBVIOUS

\* Counting a ring, or a lost answer, of a call.
LEMMA CountTyped ==
    ASSUME NEW f \in [CallId -> Nat], NEW c
    PROVE  [f EXCEPT ![c] = @ + 1] \in [CallId -> Nat]
<1>1. c \in CallId => f[c] + 1 \in Nat
  OBVIOUS
<1>2. QED
  BY <1>1, UpdateTyped

\* Deleting rows keeps the table well typed.
LEMMA WithoutTyped ==
    ASSUME TypeOK, NEW gone
    PROVE  Without(gone) \in [RowId -> Row]
  BY BlankRecords DEF TypeOK, Without, RowStatus

\* So does giving a claim back.
LEMMA RevertedTyped ==
    ASSUME TypeOK, NEW r
    PROVE  Reverted(r) \in [RowId -> Row]
<1>1. CASE r # None /\ r \in Live
  <2>1. Reverted(r) = [rows EXCEPT ![r] =
                          [rows[r] EXCEPT !.status = "pending", !.call = None]]
    BY <1>1 DEF Reverted
  <2>2. [rows[r] EXCEPT !.status = "pending", !.call = None] \in Row
    BY <1>1 DEF TypeOK, Live, Row, RowStatus
  <2>3. QED
    BY <2>1, <2>2 DEF TypeOK
<1>2. CASE ~(r # None /\ r \in Live)
  BY <1>2 DEF Reverted, TypeOK
<1>3. QED
  BY <1>1, <1>2

\* Moving an executor to another program point keeps it well typed.
LEMMA ExecMoves ==
    ASSUME TypeOK, NEW e \in Executor, NEW p \in ExecPC
    PROVE  /\ [exec EXCEPT ![e].pc = p] \in [Executor -> Exec]
           /\ Finished(e) \in [Executor -> Exec]
<1>1. [exec[e] EXCEPT !.pc = p] \in Exec
  BY DEF TypeOK, Exec
<1>2. QED
  BY <1>1, BlankRecords DEF TypeOK, Finished

\* The failure exit of placeCall.
LEMMA ThrowsTyped ==
    ASSUME TypeOK, NEW e \in Executor, Throws(e)
    PROVE  rows' \in [RowId -> Row] /\ exec' \in [Executor -> Exec]
  BY RevertedTyped, ExecMoves DEF Throws, ExecPC

\* The steps of pollAgent and enqueueContactsNow keep the types.
LEMMA PollTyped ==
    ASSUME TypeInv, NEW p \in Poller, PollStep(p)
    PROVE  TypeInv'
<1> USE DEF TypeInv
<1>1. CASE PollReadState(p)
  <2>1. poll' \in [Poller -> Poll]
    BY <1>1 DEF PollReadState, TypeOK, Attempt, Poll, PollPC
  <2>2. TypeOK'
    BY <1>1, <2>1 DEF PollReadState, TypeOK, queueVars, callVars
  <2>3. Linked'
    BY <1>1 DEF PollReadState, Linked, TypeOK, Attempt
  <2>4. QED
    BY <2>2, <2>3
<1>2. CASE PollReadQueue(p)
  <2>1. poll' \in [Poller -> Poll]
    BY <1>2 DEF PollReadQueue, TypeOK, Poll, PollPC, IdlePoll
  <2>2. TypeOK'
    BY <1>2, <2>1 DEF PollReadQueue, TypeOK, queueVars, callVars
  <2>3. Linked'
    BY <1>2 DEF PollReadQueue, Linked, TypeOK, IdlePoll
  <2>4. QED
    BY <2>2, <2>3
<1>3. CASE ManualReadState(p)
  <2>1. poll' \in [Poller -> Poll]
    BY <1>3 DEF ManualReadState, TypeOK, Attempt, Poll, PollPC
  <2>2. TypeOK'
    BY <1>3, <2>1 DEF ManualReadState, TypeOK, queueVars, callVars
  <2>3. Linked'
    BY <1>3 DEF ManualReadState, Linked, TypeOK, Attempt
  <2>4. QED
    BY <2>2, <2>3
<1>4. CASE EnqueueLookup(p)
  <2>1. PICK r \in RowId \cup {None} :
            poll' = [poll EXCEPT ![p].pc = "write", ![p].row = r]
    BY <1>4 DEF EnqueueLookup, RowsOfDay, Live
  <2>2. [poll[p] EXCEPT !.pc = "write", !.row = r] \in Poll
    BY DEF TypeOK, Poll, PollPC
  <2>3. poll' = [poll EXCEPT ![p] = [poll[p] EXCEPT !.pc = "write", !.row = r]]
    BY <2>1
  <2>4. TypeOK'
    BY <1>4, <2>2, <2>3 DEF EnqueueLookup, TypeOK, queueVars, callVars
  <2>5. Linked'
    BY <1>4, <2>1 DEF EnqueueLookup, Linked, TypeOK, Poll
  <2>6. QED
    BY <2>4, <2>5
<1>5. CASE EnqueueRow(p)
  <2>1. [poll[p] EXCEPT !.pc = "push"] \in Poll
    BY DEF TypeOK, Poll, PollPC
  <2>2. CASE poll[p].row # None
    <3>1. /\ poll' = [poll EXCEPT ![p] = [poll[p] EXCEPT !.pc = "push"]]
          /\ \/ UNCHANGED rows
             \/ /\ poll[p].row \in RowId
                /\ rows' = [rows EXCEPT ![poll[p].row] =
                              [rows[poll[p].row] EXCEPT
                                 !.attempt = poll[p].attempt, !.phone = 0]]
      BY <1>5, <2>2 DEF EnqueueRow, Live
    <3>2. ASSUME poll[p].row \in RowId
          PROVE  [rows[poll[p].row] EXCEPT !.attempt = poll[p].attempt,
                                           !.phone = 0] \in Row
      <4>1. rows[poll[p].row] \in Row /\ poll[p].attempt \in Nat
        BY <3>2 DEF TypeOK, Poll
      <4>2. \A row \in Row, n \in Nat :
                [row EXCEPT !.attempt = n, !.phone = 0] \in Row
        BY DEF Row
      <4>3. QED
        BY <4>1, <4>2
    <3>3. rows' \in [RowId -> Row]
      BY <3>1, <3>2 DEF TypeOK
    <3>4. TypeOK'
      BY <1>5, <2>1, <3>1, <3>3 DEF EnqueueRow, TypeOK, callVars
    <3>5. Linked'
      <4>1. poll'[p].row \in RowId
        <5>1. [poll[p] EXCEPT !.pc = "push"].row = poll[p].row
          BY DEF TypeOK, Poll
        <5>2. poll'[p] = [poll[p] EXCEPT !.pc = "push"]
          BY <3>1 DEF TypeOK
        <5>3. poll[p].row \in RowId
          BY <2>2 DEF TypeOK, Poll
        <5>4. QED
          BY <5>1, <5>2, <5>3
      <4>2. \A q \in Poller : q # p => poll'[q] = poll[q]
        BY <3>1 DEF TypeOK
      <4>3. UNCHANGED handler
        BY <1>5 DEF EnqueueRow
      <4>4. QED
        BY <4>1, <4>2, <4>3 DEF Linked
    <3>6. QED
      BY <3>4, <3>5
  <2>3. CASE poll[p].row = None
    <3>1. PICK s \in RowId :
              /\ rows' = [rows EXCEPT ![s] = FreshRow(p)]
              /\ poll' = [poll EXCEPT ![p].pc = "push", ![p].row = s]
      BY <1>5, <2>3 DEF EnqueueRow, RowsOfDay, Live, Unused
    <3>2. [poll[p] EXCEPT !.pc = "push", !.row = s] \in Poll
      BY DEF TypeOK, Poll, PollPC
    <3>3. FreshRow(p) \in Row
      BY DEF FreshRow, TypeOK, Poll, Row, RowStatus
    <3>4. poll' = [poll EXCEPT ![p] = [poll[p] EXCEPT !.pc = "push", !.row = s]]
      BY <3>1
    <3>5. TypeOK'
      BY <1>5, <3>1, <3>2, <3>3, <3>4 DEF EnqueueRow, TypeOK, callVars
    <3>6. Linked'
      <4>1. poll'[p].row = s
        BY <3>1 DEF TypeOK, Poll
      <4>2. \A q \in Poller : q # p => poll'[q] = poll[q]
        BY <3>1 DEF TypeOK
      <4>3. UNCHANGED handler
        BY <1>5 DEF EnqueueRow
      <4>4. QED
        BY <4>1, <4>2, <4>3 DEF Linked
    <3>7. QED
      BY <3>5, <3>6
  <2>4. QED
    BY <2>2, <2>3
<1>6. CASE EnqueueJob(p)
  <2>1. jobs' \subseteq Job
    BY <1>6 DEF EnqueueJob, TypeOK, Linked, Job, Poll
  <2>2. poll' \in [Poller -> Poll]
    BY <1>6, BlankRecords DEF EnqueueJob, TypeOK
  <2>3. TypeOK'
    BY <1>6, <2>1, <2>2 DEF EnqueueJob, TypeOK, queueVars, callVars
  <2>4. Linked'
    BY <1>6 DEF EnqueueJob, Linked, TypeOK, IdlePoll
  <2>5. QED
    BY <2>3, <2>4
<1>7. CASE ManualRollback(p)
  <2>1. rows' \in [RowId -> Row]
    BY <1>7, WithoutTyped DEF ManualRollback
  <2>2. poll' \in [Poller -> Poll]
    BY <1>7, BlankRecords DEF ManualRollback, TypeOK
  <2>3. TypeOK'
    BY <1>7, <2>1, <2>2 DEF ManualRollback, TypeOK, queueVars, callVars
  <2>4. Linked'
    BY <1>7 DEF ManualRollback, Linked, TypeOK, IdlePoll
  <2>5. QED
    BY <2>3, <2>4
<1>8. QED
  BY <1>1, <1>2, <1>3, <1>4, <1>5, <1>6, <1>7 DEF PollStep

\* So does a claim by whoever starts a dial.
LEMMA ClaimedTyped ==
    ASSUME TypeOK, NEW r \in RowId
    PROVE  Claimed(r) \in [RowId -> Row]
<1>1. [rows[r] EXCEPT !.status = "dialing"] \in Row
  BY DEF TypeOK, Row, RowStatus
<1>2. QED
  BY <1>1 DEF TypeOK, Claimed

\* The ways a dial starts keep the types.
LEMMA StartTyped ==
    ASSUME TypeInv, StartStep
    PROVE  TypeInv'
<1> USE DEF TypeInv
<1>1. ASSUME NEW w \in Worker, NEW j \in jobs, WorkerClaim(w, j)
      PROVE  TypeInv'
  <2>1. Dialing("check", j.row, j.attempt, j.phone) \in Exec
    BY DEF TypeOK, Job, Dialing, Exec, ExecPC
  <2>2. j.row \in RowId
    BY DEF TypeOK, Job
  <2>3. TypeOK'
    BY <1>1, <2>1, <2>2, ClaimedTyped DEF WorkerClaim, TypeOK, callVars
  <2>4. Linked'
    BY <1>1 DEF WorkerClaim, Linked
  <2>5. QED
    BY <2>3, <2>4
<1>2. ASSUME NEW w \in Worker, RetryLater(w)
      PROVE  TypeInv'
  <2>1. TypeOK'
    BY <1>2, ExecMoves DEF RetryLater, TypeOK, queueVars, callVars, Executor, ExecPC
  <2>2. Linked'
    BY <1>2 DEF RetryLater, Linked
  <2>3. QED
    BY <2>1, <2>2
<1>3. ASSUME NEW d \in Drain, NEW r \in RowId, DrainScan(d, r)
      PROVE  TypeInv'
  <2>1. Dialing("scanned", r, rows[r].attempt, rows[r].phone) \in Exec
    BY DEF TypeOK, Row, Dialing, Exec, ExecPC
  <2>2. TypeOK'
    BY <1>3, <2>1 DEF DrainScan, TypeOK, queueVars, callVars
  <2>3. Linked'
    BY <1>3 DEF DrainScan, Linked
  <2>4. QED
    BY <2>2, <2>3
<1>4. ASSUME NEW d \in Drain, DrainClaim(d)
      PROVE  TypeInv'
  <2>1. exec[d].row \in RowId
    BY <1>4 DEF DrainClaim, Claimable, Pending
  <2>2. exec' \in [Executor -> Exec]
    BY <1>4, ExecMoves DEF DrainClaim, Executor, ExecPC
  <2>3. TypeOK'
    BY <1>4, <2>1, <2>2, ClaimedTyped DEF DrainClaim, TypeOK, callVars
  <2>4. Linked'
    BY <1>4 DEF DrainClaim, Linked
  <2>5. QED
    BY <2>3, <2>4
<1>5. ASSUME NEW d \in Drain, DrainSkip(d)
      PROVE  TypeInv'
  <2>1. TypeOK'
    BY <1>5, BlankRecords DEF DrainSkip, TypeOK, queueVars, callVars
  <2>2. Linked'
    BY <1>5 DEF DrainSkip, Linked
  <2>3. QED
    BY <2>1, <2>2
<1>6. ASSUME NEW f \in Forcer, ForcedStart(f)
      PROVE  TypeInv'
  <2>1. exec' \in [Executor -> Exec]
    BY <1>6, ExecMoves DEF ForcedStart, Executor, ExecPC
  <2>2. rows' \in [RowId -> Row]
    BY <1>6, WithoutTyped DEF ForcedStart, CancelQueueEntries, TypeOK
  <2>3. TypeOK'
    BY <1>6, <2>1, <2>2 DEF ForcedStart, TypeOK, callVars
  <2>4. Linked'
    BY <1>6 DEF ForcedStart, Linked
  <2>5. QED
    BY <2>3, <2>4
<1>7. ASSUME NEW f \in Forcer, ForcedNumber(f)
      PROVE  TypeInv'
  <2>1. PICK a \in Nat :
            exec' = [exec EXCEPT ![f].pc = "check", ![f].attempt = a + 1]
    <3>1. AttemptsOnRecord \cup {cadence.attempts} \subseteq Nat
      BY DEF AttemptsOnRecord, TypeOK, Call
    <3>2. QED
      BY <1>7, <3>1 DEF ForcedNumber
  <2>2. [exec[f] EXCEPT !.pc = "check", !.attempt = a + 1] \in Exec
    <3>1. exec[f] \in Exec /\ a + 1 \in Nat
      BY DEF TypeOK, Executor
    <3>2. \A x \in Exec, n \in Nat :
              [x EXCEPT !.pc = "check", !.attempt = n] \in Exec
      BY DEF Exec, ExecPC
    <3>3. QED
      BY <3>1, <3>2
  <2>3. exec' = [exec EXCEPT ![f] =
                    [exec[f] EXCEPT !.pc = "check", !.attempt = a + 1]]
    BY <2>1 DEF TypeOK
  <2>4. TypeOK'
    BY <1>7, <2>2, <2>3 DEF ForcedNumber, TypeOK, queueVars, callVars
  <2>5. Linked'
    BY <1>7 DEF ForcedNumber, Linked
  <2>6. QED
    BY <2>4, <2>5
<1>8. QED
  BY <1>1, <1>2, <1>3, <1>4, <1>5, <1>6, <1>7 DEF StartStep

\* Giving an executor its calls row keeps it well typed.
LEMMA CallTaken ==
    ASSUME TypeOK, NEW e \in Executor, NEW c \in CallId,
           exec' = [exec EXCEPT ![e].pc = "dial", ![e].call = c]
    PROVE  exec' \in [Executor -> Exec]
<1>1. \A x \in Exec : [x EXCEPT !.pc = "dial", !.call = c] \in Exec
  BY DEF Exec, ExecPC
<1>2. exec' = [exec EXCEPT ![e] = [exec[e] EXCEPT !.pc = "dial", !.call = c]]
  BY DEF TypeOK
<1>3. [exec[e] EXCEPT !.pc = "dial", !.call = c] \in Exec
  BY <1>1 DEF TypeOK
<1>4. QED
  BY <1>2, <1>3, UpdateTyped DEF TypeOK

\* Every step of placeCall, of its caller and of a crash keeps the types.
LEMMA PlaceCallTyped ==
    ASSUME TypeInv, NEW e \in Executor, PlaceCallStep(e) \/ Crash(e)
    PROVE  TypeInv'
<1> USE DEF TypeInv
<1>1. CASE CheckTerminal(e)
  <2>1. rows' \in [RowId -> Row] /\ exec' \in [Executor -> Exec]
    BY <1>1, ThrowsTyped DEF CheckTerminal
  <2>2. TypeOK'
    BY <1>1, <2>1 DEF CheckTerminal, TypeOK, queueVars, callVars
  <2>3. Linked'
    BY <1>1 DEF CheckTerminal, Linked
  <2>4. QED
    BY <2>2, <2>3
<1>2. CASE CheckUnenrolled(e)
  <2>1. exec' \in [Executor -> Exec]
    BY <1>2, ExecMoves DEF CheckUnenrolled, ExecPC
  <2>2. rows' \in [RowId -> Row]
    BY <1>2, RevertedTyped, BlankRecords DEF CheckUnenrolled, RowStatus
  <2>3. TypeOK'
    BY <1>2, <2>1, <2>2 DEF CheckUnenrolled, TypeOK, queueVars, callVars
  <2>4. Linked'
    BY <1>2 DEF CheckUnenrolled, Linked
  <2>5. QED
    BY <2>3, <2>4
<1>3. CASE CheckWindowClosed(e)
  <2>1. exec' \in [Executor -> Exec]
    BY <1>3, ExecMoves DEF CheckWindowClosed, ExecPC
  <2>2. rows' \in [RowId -> Row]
    BY <1>3, RevertedTyped DEF CheckWindowClosed
  <2>3. TypeOK'
    BY <1>3, <2>1, <2>2 DEF CheckWindowClosed, TypeOK, queueVars, callVars
  <2>4. Linked'
    BY <1>3 DEF CheckWindowClosed, Linked
  <2>5. QED
    BY <2>3, <2>4
<1>4. CASE CheckDuplicate(e)
  <2>1. exec' \in [Executor -> Exec]
    BY <1>4, ExecMoves DEF CheckDuplicate, ExecPC
  <2>2. TypeOK'
    BY <1>4, <2>1 DEF CheckDuplicate, TypeOK, queueVars, callVars
  <2>3. Linked'
    BY <1>4 DEF CheckDuplicate, Linked
  <2>4. QED
    BY <2>2, <2>3
<1>5. CASE CheckPasses(e)
  <2>1. exec' \in [Executor -> Exec]
    BY <1>5, ExecMoves DEF CheckPasses, ExecPC
  <2>2. TypeOK'
    BY <1>5, <2>1 DEF CheckPasses, TypeOK, queueVars, callVars
  <2>3. Linked'
    BY <1>5 DEF CheckPasses, Linked
  <2>4. QED
    BY <2>2, <2>3
<1>6. CASE RecordNew(e)
  <2>1. PICK c \in CallId : /\ calls' = [calls EXCEPT ![c] = QueuedCall(e)]
                            /\ exec' = [exec EXCEPT ![e].pc = "dial",
                                                    ![e].call = c]
    BY <1>6 DEF RecordNew
  <2>2. QueuedCall(e) \in Call
    <3>1. exec[e].attempt \in Nat /\ exec[e].phone \in Nat
      BY DEF TypeOK, Exec
    <3>2. Phones(e) \in Nat
      BY ParamAssumption DEF Phones
    <3>3. QED
      BY <3>1, <3>2 DEF QueuedCall, Call, CallStatus
  <2>3. exec' \in [Executor -> Exec]
    BY <2>1, CallTaken
  <2>4. TypeOK'
    BY <1>6, <2>1, <2>2, <2>3 DEF RecordNew, TypeOK, queueVars
  <2>5. Linked'
    BY <1>6 DEF RecordNew, Linked
  <2>6. QED
    BY <2>4, <2>5
<1>7. CASE RecordReuse(e)
  <2>1. PICK c \in CallId : exec' = [exec EXCEPT ![e].pc = "dial",
                                                 ![e].call = c]
    BY <1>7 DEF RecordReuse, ActiveCalls
  <2>2. TypeOK'
    BY <1>7, <2>1, CallTaken DEF RecordReuse, TypeOK, queueVars, callVars
  <2>3. Linked'
    BY <1>7 DEF RecordReuse, Linked
  <2>4. QED
    BY <2>2, <2>3
<1>8. CASE RecordConflict(e)
  <2>1. (exec' = Finished(e) /\ UNCHANGED rows) \/ Throws(e)
    BY <1>8 DEF RecordConflict
  <2>2. Finished(e) \in [Executor -> Exec] /\ rows \in [RowId -> Row]
    BY ExecMoves DEF ExecPC, TypeOK
  <2>3. rows' \in [RowId -> Row] /\ exec' \in [Executor -> Exec]
    BY <2>1, <2>2, ThrowsTyped
  <2>4. TypeOK'
    BY <1>8, <2>3 DEF RecordConflict, TypeOK, queueVars, callVars
  <2>5. Linked'
    BY <1>8 DEF RecordConflict, Linked
  <2>6. QED
    BY <2>4, <2>5
<1>9. CASE RetellAccepts(e)
  <2>1. \A x \in Exec : [x EXCEPT !.pc = "link", !.day = today] \in Exec
    BY DEF TypeOK, Exec, ExecPC
  <2>2. exec' = [exec EXCEPT ![e] =
                    [exec[e] EXCEPT !.pc = "link", !.day = today]]
    BY <1>9 DEF RetellAccepts, TypeOK
  <2>3. exec' \in [Executor -> Exec]
    BY <2>1, <2>2 DEF TypeOK
  <2>4. rings' \in [CallId -> Nat]
    BY <1>9, CountTyped DEF RetellAccepts, TypeOK
  <2>5. TypeOK'
    BY <1>9, <2>3, <2>4 DEF RetellAccepts, TypeOK, queueVars
  <2>6. Linked'
    BY <1>9 DEF RetellAccepts, Linked
  <2>7. QED
    BY <2>5, <2>6
<1>10. CASE RetellRejects(e)
  <2>1. rows' \in [RowId -> Row] /\ exec' \in [Executor -> Exec]
    BY <1>10, ThrowsTyped DEF RetellRejects
  <2>2. faults' \in Nat
    BY <1>10 DEF RetellRejects, Fault, TypeOK
  <2>3. TypeOK'
    BY <1>10, <2>1, <2>2 DEF RetellRejects, TypeOK, queueVars, callVars
  <2>4. Linked'
    BY <1>10 DEF RetellRejects, Linked
  <2>5. QED
    BY <2>3, <2>4
<1>11. CASE RetellAnswerLost(e)
  <2>1. rows' \in [RowId -> Row] /\ exec' \in [Executor -> Exec]
    BY <1>11, ThrowsTyped DEF RetellAnswerLost
  <2>2. faults' \in Nat
    BY <1>11 DEF RetellAnswerLost, Fault, TypeOK
  <2>3. rings' \in [CallId -> Nat]
    BY <1>11, CountTyped DEF RetellAnswerLost, TypeOK
  <2>4. lost' \in [CallId -> Nat]
    BY <1>11, CountTyped DEF RetellAnswerLost, TypeOK
  <2>5. TypeOK'
    BY <1>11, <2>1, <2>2, <2>3, <2>4 DEF RetellAnswerLost, TypeOK, queueVars,
           callVars
  <2>6. Linked'
    BY <1>11 DEF RetellAnswerLost, Linked
  <2>7. QED
    BY <2>5, <2>6
<1>12. CASE LinkCall(e)
  <2>1. exec' \in [Executor -> Exec]
    BY <1>12, ExecMoves DEF LinkCall, ExecPC
  <2>2. \A x \in Call : [x EXCEPT !.status = "dialing", !.retell = TRUE] \in Call
    BY DEF Call, CallStatus
  <2>3. \/ UNCHANGED calls
        \/ calls' = [calls EXCEPT ![exec[e].call] =
              [calls[exec[e].call] EXCEPT !.status = "dialing",
                                          !.retell = TRUE]]
    BY <1>12 DEF LinkCall
  <2>4. calls' \in [CallId -> Call]
    <3>1. calls \in [CallId -> Call]
      BY DEF TypeOK
    <3>2. exec[e].call \in CallId =>
            [calls[exec[e].call] EXCEPT !.status = "dialing", !.retell = TRUE]
               \in Call
      BY <2>2, <3>1
    <3>3. QED
      BY <2>3, <3>1, <3>2, UpdateTyped
  <2>5. lost' \in [CallId -> Nat]
    BY <1>12, CountTyped DEF LinkCall, TypeOK
  <2>6. TypeOK'
    BY <1>12, <2>1, <2>4, <2>5 DEF LinkCall, TypeOK, queueVars
  <2>7. Linked'
    BY <1>12 DEF LinkCall, Linked
  <2>8. QED
    BY <2>6, <2>7
<1>13. CASE MarkQueue(e)
  <2>1. exec' \in [Executor -> Exec]
    BY <1>13, ExecMoves DEF MarkQueue, ExecPC
  <2>2. \A x \in Row, c \in CallId \cup {None} :
            [x EXCEPT !.status = "dialing", !.call = c] \in Row
    BY DEF Row, RowStatus
  <2>3. exec[e].call \in CallId \cup {None}
    BY DEF TypeOK, Exec
  <2>4. rows' \in [RowId -> Row]
    BY <1>13, <2>2, <2>3 DEF MarkQueue, MarkedDialing, TypeOK
  <2>5. TypeOK'
    BY <1>13, <2>1, <2>4 DEF MarkQueue, TypeOK, callVars
  <2>6. Linked'
    BY <1>13 DEF MarkQueue, Linked
  <2>7. QED
    BY <2>5, <2>6
<1>14. CASE StampCadence(e)
  <2>1. exec' \in [Executor -> Exec]
    BY <1>14, ExecMoves DEF StampCadence, ExecPC
  <2>2. cadence' \in [attempts : Nat, last : Nat, next : Nat,
                    terminal : BOOLEAN]
    BY <1>14 DEF StampCadence, TypeOK, Exec
  <2>3. TypeOK'
    BY <1>14, <2>1, <2>2 DEF StampCadence, TypeOK, queueVars, callVars
  <2>4. Linked'
    BY <1>14 DEF StampCadence, Linked
  <2>5. QED
    BY <2>3, <2>4
<1>15. CASE StampFails(e)
  <2>1. rows' \in [RowId -> Row] /\ exec' \in [Executor -> Exec]
    BY <1>15, ThrowsTyped DEF StampFails
  <2>2. faults' \in Nat
    BY <1>15 DEF StampFails, Fault, TypeOK
  <2>3. TypeOK'
    BY <1>15, <2>1, <2>2 DEF StampFails, TypeOK, queueVars, callVars
  <2>4. Linked'
    BY <1>15 DEF StampFails, Linked
  <2>5. QED
    BY <2>3, <2>4
<1>16. CASE GiveUp(e)
  <2>1. exec' \in [Executor -> Exec]
    BY <1>16, ExecMoves DEF GiveUp, ExecPC
  <2>2. rows' \in [RowId -> Row]
    BY <1>16, WithoutTyped DEF GiveUp, FailQueueEntry
  <2>3. \A x \in Call : [x EXCEPT !.status = "failed"] \in Call
    BY DEF Call, CallStatus
  <2>4. calls' \in [CallId -> Call]
    BY <1>16, <2>3 DEF GiveUp, TypeOK
  <2>5. TypeOK'
    BY <1>16, <2>1, <2>2, <2>4 DEF GiveUp, TypeOK
  <2>6. Linked'
    BY <1>16 DEF GiveUp, Linked
  <2>7. QED
    BY <2>5, <2>6
<1>17. CASE Crash(e)
  <2>1. exec' \in [Executor -> Exec]
    BY <1>17, ExecMoves DEF Crash, ExecPC
  <2>2. faults' \in Nat
    BY <1>17 DEF Crash, Fault, TypeOK
  <2>3. lost' \in [CallId -> Nat]
    BY <1>17 DEF Crash, TypeOK
  <2>4. TypeOK'
    BY <1>17, <2>1, <2>2, <2>3 DEF Crash, TypeOK, queueVars, callVars
  <2>5. Linked'
    BY <1>17 DEF Crash, Linked
  <2>6. QED
    BY <2>4, <2>5
<1>18. QED
  BY <1>1, <1>2, <1>3, <1>4, <1>5, <1>6, <1>7, <1>8, <1>9, <1>10, <1>11, <1>12,
     <1>13, <1>14, <1>15, <1>16, <1>17 DEF PlaceCallStep

\* Outcome processing keeps the types.
LEMMA OutcomeTyped ==
    ASSUME TypeInv, NEW h \in Handler,
           \/ \E c \in CallId, o \in Outcome : ClaimOutcome(h, c, o)
           \/ OutcomeStep(h)
           \/ HandlerCrash(h)
    PROVE  TypeInv'
<1> USE DEF TypeInv
<1>1. ASSUME NEW c \in CallId, NEW o \in Outcome, ClaimOutcome(h, c, o)
      PROVE  TypeInv'
  <2>1. TypeOK'
    BY <1>1 DEF ClaimOutcome, TypeOK, Handling, HandlerPC, queueVars, callVars
  <2>2. Linked'
    BY <1>1 DEF ClaimOutcome, Linked, TypeOK
  <2>3. QED
    BY <2>1, <2>2
<1>2. CASE PersistOutcome(h)
  <2>1. PICK entry \in RowId \cup {None}, pc \in {"chain", "cadence"} :
            handler' = [handler EXCEPT ![h].entry = entry, ![h].pc = pc]
    BY <1>2 DEF PersistOutcome, EntryOfCall, RowOfCall
  <2>2. \A x \in Handling : [x EXCEPT !.entry = entry, !.pc = pc] \in Handling
    BY DEF Handling, HandlerPC
  <2>3. handler' = [handler EXCEPT ![h] =
                        [handler[h] EXCEPT !.entry = entry, !.pc = pc]]
    BY <2>1 DEF TypeOK
  <2>4. handler' \in [Handler -> Handling]
    BY <2>2, <2>3 DEF TypeOK
  <2>5. \A x \in Call, o \in Outcome \cup {None} :
            [x EXCEPT !.status = "completed", !.outcome = o] \in Call
    BY DEF Call, CallStatus
  <2>6. handler[h] \in Handling /\ handler[h].call \in CallId
    BY <1>2 DEF PersistOutcome, TypeOK, Linked
  <2>7. \/ UNCHANGED calls
        \/ calls' = [calls EXCEPT ![handler[h].call] =
              [calls[handler[h].call] EXCEPT !.status = "completed",
                                             !.outcome = handler[h].outcome]]
    BY <1>2 DEF PersistOutcome
  <2>8. handler[h].outcome \in Outcome \cup {None}
    BY <2>6 DEF Handling
  <2>9. calls' \in [CallId -> Call]
    <3>1. calls \in [CallId -> Call]
      BY DEF TypeOK
    <3>2. [calls[handler[h].call] EXCEPT !.status = "completed",
                                         !.outcome = handler[h].outcome]
             \in Call
      BY <2>5, <2>6, <2>8, <3>1
    <3>3. QED
      BY <2>7, <3>1, <3>2, UpdateTyped
  <2>10. TypeOK'
    BY <1>2, <2>4, <2>9 DEF PersistOutcome, TypeOK, queueVars
  <2>11. Linked'
    <3>1. [handler[h] EXCEPT !.entry = entry, !.pc = pc].call = handler[h].call
      BY <2>6 DEF Handling
    <3>2. handler'[h].call \in CallId
      BY <2>3, <2>6, <3>1 DEF TypeOK
    <3>3. \A g \in Handler : g # h => handler'[g] = handler[g]
      BY <2>3 DEF TypeOK
    <3>4. UNCHANGED poll
      BY <1>2 DEF PersistOutcome
    <3>5. QED
      BY <3>2, <3>3, <3>4 DEF Linked
  <2>12. QED
    BY <2>10, <2>11
<1>3. CASE ChainNextPhone(h)
  <2>1. handler' \in [Handler -> Handling]
    BY <1>3, BlankRecords DEF ChainNextPhone, TypeOK
  <2>2. handler[h].call \in CallId
    BY <1>3 DEF ChainNextPhone, Linked
  <2>3. calls[handler[h].call].phone + 1 \in Nat
    BY <2>2 DEF TypeOK, Call
  <2>4. \A x \in Row, n \in Nat :
            [x EXCEPT !.status = "pending", !.call = None, !.phone = n] \in Row
    BY DEF Row, RowStatus
  <2>5. CASE handler[h].entry \in Live
    <3>1. /\ rows' = [rows EXCEPT ![handler[h].entry] =
                        [rows[handler[h].entry] EXCEPT !.status = "pending",
                            !.call = None,
                            !.phone = calls[handler[h].call].phone + 1]]
          /\ jobs' = jobs \cup {[row |-> handler[h].entry,
                                 attempt |-> rows[handler[h].entry].attempt,
                                 phone |-> calls[handler[h].call].phone + 1]}
      BY <1>3, <2>5 DEF ChainNextPhone
    <3>2. handler[h].entry \in RowId
      BY <2>5 DEF Live
    <3>3. rows' \in [RowId -> Row]
      BY <2>3, <2>4, <3>1, <3>2 DEF TypeOK
    <3>4. jobs' \subseteq Job
      BY <2>3, <3>1, <3>2 DEF TypeOK, Job, Row
    <3>5. QED
      BY <1>3, <2>1, <3>3, <3>4 DEF ChainNextPhone, TypeOK, Linked, callVars,
         IdleHandler
  <2>6. CASE handler[h].entry \notin Live
    BY <1>3, <2>1, <2>6 DEF ChainNextPhone, TypeOK, Linked, queueVars,
       callVars, IdleHandler
  <2>7. QED
    BY <2>5, <2>6
<1>4. CASE AdvanceCadence(h)
  <2>1. handler' = [handler EXCEPT ![h] = [handler[h] EXCEPT !.pc = "complete"]]
    BY <1>4 DEF AdvanceCadence
  <2>2. \A x \in Handling : /\ [x EXCEPT !.pc = "complete"] \in Handling
                            /\ [x EXCEPT !.pc = "complete"].call = x.call
    BY DEF Handling, HandlerPC
  <2>3. today + Gap \in Nat
    BY ParamAssumption DEF TypeOK
  <2>4. cadence' \in [attempts : Nat, last : Nat, next : Nat,
                      terminal : BOOLEAN]
    BY <1>4, <2>3 DEF AdvanceCadence, TypeOK
  <2>5. TypeOK'
    BY <1>4, <2>1, <2>2, <2>4 DEF AdvanceCadence, TypeOK, queueVars, callVars
  <2>6. Linked'
    BY <1>4, <2>1, <2>2 DEF AdvanceCadence, TypeOK, Linked
  <2>7. QED
    BY <2>5, <2>6
<1>5. CASE CompleteQueueEntry(h)
  <2>1. TypeOK'
    BY <1>5, WithoutTyped, BlankRecords DEF CompleteQueueEntry, TypeOK, callVars
  <2>2. Linked'
    BY <1>5 DEF CompleteQueueEntry, Linked, TypeOK, IdleHandler
  <2>3. QED
    BY <2>1, <2>2
<1>6. CASE HandlerCrash(h)
  <2>1. TypeOK'
    BY <1>6, BlankRecords DEF HandlerCrash, Fault, TypeOK, queueVars, callVars
  <2>2. Linked'
    BY <1>6 DEF HandlerCrash, Linked, TypeOK, IdleHandler
  <2>3. QED
    BY <2>1, <2>2
<1>7. QED
  BY <1>1, <1>2, <1>3, <1>4, <1>5, <1>6 DEF OutcomeStep

\* Every step of the dial path keeps the types.
LEMMA StepTyped == TypeInv /\ [Next]_vars => TypeInv'
<1> SUFFICES ASSUME TypeInv, [Next]_vars
             PROVE  TypeInv'
  OBVIOUS
<1> USE DEF TypeInv
<1>1. CASE UNCHANGED vars
  BY <1>1 DEF vars, TypeOK, Linked
<1>2. CASE NextDay
  BY <1>2 DEF NextDay, TypeOK, Linked, queueVars, callVars
<1>3. CASE PollDropsUnenrolled
  BY <1>3, WithoutTyped DEF PollDropsUnenrolled, CancelQueueEntries, TypeOK,
     Linked, callVars
<1>4. ASSUME NEW r \in RowId, DropZombie(r)
      PROVE  TypeInv'
  BY <1>4, WithoutTyped DEF DropZombie, TypeOK, Linked, callVars
<1>5. ASSUME NEW r \in RowId, SweepRow(r)
      PROVE  TypeInv'
  BY <1>5 DEF SweepRow, TypeOK, Linked, Job, Row, callVars
<1>6. QED
  BY <1>1, <1>2, <1>3, <1>4, <1>5, PollTyped, StartTyped, PlaceCallTyped,
     OutcomeTyped DEF Next

\* Whatever its constants, the dial path is well typed: no handler follows a
\* missing call id and no job is built without its row.
THEOREM TypeCorrect == Spec => []TypeOK
<1>1. TypeInv => TypeOK
  BY DEF TypeInv
<1>2. QED
  BY InitTyped, StepTyped, <1>1, PTL DEF Spec

(***************************************************************************)
(* One executor at a time.  Under ScheduledOnly a claim needs a pending    *)
(* row; an executor that is dialing holds a claimed one; and the contact   *)
(* has at most one active row.  So nobody can claim while somebody dials,  *)
(* and nobody else's step can reach the row he holds.                      *)
(***************************************************************************)
\* The inductive invariant of the scheduled engine.
Inv == TypeInv /\ DialInv

\* ... and the round trip in which a failed dial is cleaned up.
BusyPC == DialPC \cup {"cleanup"}

\* Nothing is claimed, linked or dialed when the engine starts.
LEMMA DialInit == Init => DialInv
<1> SUFFICES ASSUME Init
             PROVE  DialInv
  OBVIOUS
<1>1. Linked
  BY InitTyped DEF TypeInv
<1>2. Live = {}
  BY DEF Init, Live, NoRow
<1>3. \A p \in Poller : poll[p].pc = "idle"
  BY DEF Init, IdlePoll
<1>4. OneLiveRow
  BY <1>2, <1>3 DEF OneLiveRow
<1>5. \A e \in Executor : exec[e].pc = "idle"
  BY DEF Init, IdleExec
<1>6. OneExecutor
  BY <1>5 DEF OneExecutor, DialPC
<1>7. \A r \in RowId : rows[r].call = None
  BY DEF Init, NoRow
<1>8. ClaimsAreUnlinked
  BY <1>5, <1>7 DEF ClaimsAreUnlinked, Dialer, DialPC
<1>9. \A h \in Handler : handler[h].pc = "idle"
  BY DEF Init, IdleHandler
<1>10. ChainsAreLinked
  BY <1>9 DEF ChainsAreLinked
<1>11. QED
  BY <1>1, <1>4, <1>6, <1>8, <1>10 DEF DialInv

\* While somebody dials, the row he holds is the only active one, and no
\* outcome processor is about to chain on an active row.
LEMMA DialerHoldsTheRow ==
    ASSUME Inv, NEW e \in Dialer
    PROVE  /\ e \in Executor
           /\ exec[e].row \in RowId
           /\ exec[e].row # None
           /\ rows[exec[e].row].status = "dialing"
           /\ rows[exec[e].row].call = None
           /\ Live = {exec[e].row}
           /\ Pending = {}
           /\ \A d \in Dialer : d = e
           /\ \A h \in Handler :
                 handler[h].pc = "chain" => handler[h].entry \notin Live
<1>1. /\ e \in Executor
      /\ exec[e].row \in RowId
      /\ exec[e].row # None
      /\ rows[exec[e].row].status = "dialing"
      /\ rows[exec[e].row].call = None
  BY IdsAssumption DEF Inv, DialInv, ClaimsAreUnlinked, Dialer
<1>2. exec[e].row \in Live
  BY <1>1 DEF Live
<1>3. \A r, s \in Live : r = s
  BY DEF Inv, DialInv, OneLiveRow
<1>4. Live = {exec[e].row}
  BY <1>2, <1>3
<1>5. Pending = {}
  BY <1>1, <1>4 DEF Live, Pending
<1>6. \A d \in Dialer : d = e
  BY DEF Inv, DialInv, OneExecutor, Dialer
<1>7. ASSUME NEW h \in Handler, handler[h].pc = "chain"
      PROVE  handler[h].entry \notin Live
  <2>1. handler[h].call \in CallId
    BY <1>7 DEF Inv, TypeInv, Linked
  <2>2. handler[h].entry \in Live => rows[handler[h].entry].call # None
    BY <1>7, <2>1, IdsAssumption DEF Inv, DialInv, ChainsAreLinked
  <2>3. QED
    BY <1>1, <1>4, <2>2
<1>8. QED
  BY <1>1, <1>4, <1>5, <1>6, <1>7

\* The parts of the invariant, each kept by a step that changes little.  No row
\* becomes active and no poller comes closer to its insert.
LEMMA OneLiveRowKept ==
    ASSUME OneLiveRow,
           Live' \subseteq Live,
           \A p \in Poller : poll'[p].pc \in {"lookup", "write"}
                               => poll'[p] = poll[p]
    PROVE  OneLiveRow'
<1>1. \A r, s \in Live' : r = s
  BY DEF OneLiveRow
<1>2. ASSUME NEW p \in Poller, poll'[p].pc \in {"lookup", "write"}
      PROVE  Live' = {} /\ (poll'[p].pc = "write" => poll'[p].row = None)
  BY <1>2 DEF OneLiveRow
<1>3. QED
  BY <1>1, <1>2 DEF OneLiveRow

\* Nobody becomes busy.
LEMMA OneExecutorKept ==
    ASSUME OneExecutor,
           \A e \in Executor : exec'[e].pc \in BusyPC => exec[e].pc \in BusyPC
    PROVE  OneExecutor'
  BY DEF OneExecutor, BusyPC, DialPC

\* Whoever dials dialed before, and his row did not change.
LEMMA ClaimsKept ==
    ASSUME ClaimsAreUnlinked,
           \A e \in Executor : exec'[e].pc \in DialPC =>
               /\ e \in Dialer
               /\ exec'[e].row = exec[e].row
               /\ rows'[exec[e].row] = rows[exec[e].row],
           \A r \in RowId : rows'[r].call # None => rows'[r].status = "dialing"
    PROVE  ClaimsAreUnlinked'
  BY DEF ClaimsAreUnlinked, Dialer, DialPC

\* No outcome is taken up, and the rows of those about to chain keep their link.
LEMMA ChainsKept ==
    ASSUME ChainsAreLinked,
           \A h \in Handler : handler'[h].pc # "idle" =>
               /\ handler[h].pc # "idle"
               /\ handler'[h].call = handler[h].call,
           \A h \in Handler : handler'[h].pc = "chain" =>
               /\ handler'[h] = handler[h]
               /\ rows'[handler[h].entry].status # "unused"
               /\ handler[h].entry \in Live' =>
                     /\ handler[h].entry \in Live
                     /\ rows'[handler[h].entry].call = rows[handler[h].entry].call
    PROVE  ChainsAreLinked'
<1>1. ASSUME NEW h \in Handler, handler'[h].pc = "chain"
      PROVE  /\ handler'[h].entry \in RowId
             /\ rows'[handler'[h].entry].status # "unused"
             /\ handler'[h].entry \in Live' =>
                   rows'[handler'[h].entry].call = handler'[h].call
  BY <1>1 DEF ChainsAreLinked
<1>2. ASSUME NEW g \in Handler, NEW h \in Handler,
             handler'[g].pc # "idle", handler'[h].pc # "idle",
             handler'[g].call = handler'[h].call
      PROVE  g = h
  BY <1>2 DEF ChainsAreLinked
<1>3. QED
  BY <1>1, <1>2 DEF ChainsAreLinked

\* What most steps leave alone: no poller comes closer to its insert, nobody
\* starts a dial, no outcome is taken up or goes on to another number.
PollsSettle ==
    \A p \in Poller : poll'[p].pc \in {"lookup", "write"} => poll'[p] = poll[p]
ExecsSettle ==
    \A e \in Executor :
        /\ exec'[e].pc \in BusyPC => exec[e].pc \in BusyPC
        /\ exec'[e].pc \in DialPC => e \in Dialer /\ exec'[e].row = exec[e].row
HandlersSettle ==
    \A h \in Handler :
        /\ handler'[h].pc # "idle" =>
              handler[h].pc # "idle" /\ handler'[h].call = handler[h].call
        /\ handler'[h].pc = "chain" => handler'[h] = handler[h]

\* A process table that does not change settles.
LEMMA UnchangedSettles ==
    /\ UNCHANGED poll => PollsSettle
    /\ UNCHANGED exec => ExecsSettle
    /\ UNCHANGED handler => HandlersSettle
  BY DEF PollsSettle, ExecsSettle, HandlersSettle, Dialer

\* An executor that lets go, or that moves on within its dial.
LEMMA ExecSettles ==
    ASSUME TypeOK, NEW e \in Executor
    PROVE  /\ exec' = Finished(e) => ExecsSettle
           /\ \A pc \in ExecPC \ BusyPC :
                 exec' = [exec EXCEPT ![e].pc = pc] => ExecsSettle
           /\ \A pc \in ExecPC :
                 e \in Dialer /\ exec' = [exec EXCEPT ![e].pc = pc] => ExecsSettle
<1>1. ASSUME exec' = Finished(e)
      PROVE  ExecsSettle
  BY <1>1 DEF ExecsSettle, Finished, IdleExec, TypeOK, BusyPC, DialPC, Dialer
<1>2. ASSUME NEW pc \in ExecPC, exec' = [exec EXCEPT ![e].pc = pc],
             pc \notin BusyPC \/ e \in Dialer
      PROVE  ExecsSettle
  <2>1. \A d \in Executor : d # e => exec'[d] = exec[d]
    BY <1>2 DEF TypeOK
  <2>2. exec'[e].pc = pc /\ exec'[e].row = exec[e].row
    BY <1>2 DEF TypeOK, Exec
  <2>3. QED
    BY <1>2, <2>1, <2>2 DEF ExecsSettle, BusyPC, Dialer
<1>3. QED
  BY <1>1, <1>2

\* Deleting rows that no dialing executor holds keeps the invariant.
LEMMA DeletionKept ==
    ASSUME Inv, NEW gone, rows' = Without(gone),
           \A e \in Dialer : exec[e].row \notin gone,
           PollsSettle, ExecsSettle, HandlersSettle, Linked'
    PROVE  DialInv'
<1> USE DEF Inv
<1>1. \A r \in RowId : /\ r \in gone => rows'[r] = NoRow("deleted")
                       /\ r \notin gone => rows'[r] = rows[r]
  BY DEF Without
<1>2. Live' \subseteq Live
  BY <1>1 DEF Live, NoRow
<1>3. OneLiveRow'
  BY <1>2, OneLiveRowKept DEF DialInv, PollsSettle
<1>4. OneExecutor'
  BY OneExecutorKept DEF DialInv, ExecsSettle
<1>5. ASSUME NEW e \in Executor, exec'[e].pc \in DialPC
      PROVE  /\ e \in Dialer
             /\ exec'[e].row = exec[e].row
             /\ rows'[exec[e].row] = rows[exec[e].row]
  BY <1>1, <1>5, DialerHoldsTheRow DEF ExecsSettle
<1>6. ASSUME NEW r \in RowId, rows'[r].call # None
      PROVE  rows'[r].status = "dialing"
  BY <1>1, <1>6 DEF NoRow, DialInv, ClaimsAreUnlinked
<1>7. ClaimsAreUnlinked'
  BY <1>5, <1>6, ClaimsKept DEF DialInv
<1>8. ASSUME NEW h \in Handler, handler'[h].pc = "chain"
      PROVE  /\ handler'[h] = handler[h]
             /\ rows'[handler[h].entry].status # "unused"
             /\ handler[h].entry \in Live' =>
                   /\ handler[h].entry \in Live
                   /\ rows'[handler[h].entry].call = rows[handler[h].entry].call
  <2>1. handler'[h] = handler[h]
    BY <1>8 DEF HandlersSettle
  <2>2. /\ handler[h].entry \in RowId
        /\ rows[handler[h].entry].status # "unused"
    BY <1>8, <2>1 DEF DialInv, ChainsAreLinked
  <2>3. QED
    BY <1>1, <1>2, <2>1, <2>2 DEF NoRow, Live
<1>9. ChainsAreLinked'
  BY <1>8, ChainsKept DEF DialInv, HandlersSettle
<1>10. QED
  BY <1>3, <1>4, <1>7, <1>9 DEF DialInv

\* In particular a step that does not touch the rows.
LEMMA RowsUntouched ==
    ASSUME Inv, UNCHANGED rows, PollsSettle, ExecsSettle, HandlersSettle, Linked'
    PROVE  DialInv'
<1>1. rows' = Without({})
  BY DEF Without, Inv, TypeInv, TypeOK
<1>2. QED
  BY <1>1, DeletionKept

\* A dialing executor that gives its claim back and stops dialing.
LEMMA RevertKept ==
    ASSUME Inv, NEW e \in Dialer, rows' = Reverted(exec[e].row),
           exec'[e].pc \notin DialPC,
           PollsSettle, ExecsSettle, HandlersSettle, Linked'
    PROVE  DialInv'
<1> USE DEF Inv
<1>1. /\ rows' = [rows EXCEPT ![exec[e].row] =
                    [rows[exec[e].row] EXCEPT !.status = "pending",
                                              !.call = None]]
      /\ exec[e].row \in RowId
      /\ Live = {exec[e].row}
  BY DialerHoldsTheRow DEF Reverted
<1>2. /\ rows'[exec[e].row].status = "pending"
      /\ rows'[exec[e].row].call = None
      /\ \A r \in RowId : r # exec[e].row => rows'[r] = rows[r]
  BY <1>1 DEF TypeInv, TypeOK, Row
<1>3. Live' \subseteq Live
  BY <1>1, <1>2 DEF Live
<1>4. OneLiveRow'
  BY <1>3, OneLiveRowKept DEF DialInv, PollsSettle
<1>5. OneExecutor'
  BY OneExecutorKept DEF DialInv, ExecsSettle
<1>6. \A d \in Executor : exec'[d].pc \notin DialPC
  BY DialerHoldsTheRow DEF ExecsSettle
<1>7. \A r \in RowId : rows'[r].call # None => rows'[r].status = "dialing"
  BY <1>2 DEF DialInv, ClaimsAreUnlinked
<1>8. ClaimsAreUnlinked'
  BY <1>6, <1>7, ClaimsKept DEF DialInv
<1>9. ASSUME NEW h \in Handler, handler'[h].pc = "chain"
      PROVE  /\ handler'[h] = handler[h]
             /\ rows'[handler[h].entry].status # "unused"
             /\ handler[h].entry \notin Live'
  <2>1. handler'[h] = handler[h]
    BY <1>9 DEF HandlersSettle
  <2>2. /\ handler[h].entry \in RowId
        /\ rows[handler[h].entry].status # "unused"
    BY <1>9, <2>1 DEF DialInv, ChainsAreLinked
  <2>3. handler[h].entry \notin Live
    BY <1>9, <2>1, DialerHoldsTheRow
  <2>4. QED
    BY <1>2, <1>3, <2>1, <2>2, <2>3
<1>10. ChainsAreLinked'
  BY <1>9, ChainsKept DEF DialInv, HandlersSettle
<1>11. QED
  BY <1>4, <1>5, <1>8, <1>10 DEF DialInv

\* The steps of the poll.  It inserts only when the contact has no active row.
LEMMA PollDial ==
    ASSUME ScheduledOnly, Inv, NEW p \in Poller, PollStep(p)
    PROVE  DialInv'
<1> USE DEF Inv
<1>1. Linked'
  BY PollTyped DEF TypeInv
<1>2. \A q \in Poller : q = p
  BY DEF ScheduledOnly
<1>3. UNCHANGED exec /\ UNCHANGED handler
  BY DEF PollStep, PollReadState, PollReadQueue, ManualReadState,
     EnqueueLookup, EnqueueRow, EnqueueJob, ManualRollback
<1>4. ExecsSettle /\ HandlersSettle
  BY <1>3, UnchangedSettles
<1>5. CASE PollReadState(p)
  <2>1. PollsSettle
    BY <1>2, <1>5 DEF PollReadState, Attempt, PollsSettle, TypeInv, TypeOK
  <2>2. UNCHANGED rows
    BY <1>5 DEF PollReadState, queueVars
  <2>3. QED
    BY <1>1, <1>4, <2>1, <2>2, RowsUntouched
<1>6. CASE PollReadQueue(p) \/ EnqueueLookup(p)
  <2>1. UNCHANGED rows
    BY <1>6 DEF PollReadQueue, EnqueueLookup, queueVars
  <2>2. poll'[p].pc \in {"lookup", "write"} => Live = {}
    BY <1>6 DEF PollReadQueue, EnqueueLookup, IdlePoll, TypeInv, TypeOK,
       DialInv, OneLiveRow
  <2>3. poll'[p].pc = "write" => poll'[p].row = None
    <3>1. CASE PollReadQueue(p)
      <4>1. poll'[p] = [poll[p] EXCEPT !.pc = "lookup"] \/ poll'[p] = IdlePoll
        BY <3>1 DEF PollReadQueue, TypeInv, TypeOK
      <4>2. poll[p] \in Poll
        BY DEF TypeInv, TypeOK
      <4>3. QED
        BY <4>1, <4>2 DEF IdlePoll, Poll
    <3>2. CASE EnqueueLookup(p)
      <4>1. Live = {}
        BY <3>2 DEF EnqueueLookup, DialInv, OneLiveRow
      <4>2. RowsOfDay(poll[p].day) = {}
        BY <4>1 DEF RowsOfDay
      <4>3. poll' = [poll EXCEPT ![p].pc = "write", ![p].row = None]
        BY <3>2, <4>2 DEF EnqueueLookup
      <4>4. QED
        BY <4>3 DEF TypeInv, TypeOK, Poll
    <3>3. QED
      BY <1>6, <3>1, <3>2
  <2>4. Live' = Live
    BY <2>1 DEF Live
  <2>5. OneLiveRow'
    BY <1>2, <2>2, <2>3, <2>4 DEF DialInv, OneLiveRow
  <2>6. (OneExecutor /\ ClaimsAreUnlinked /\ ChainsAreLinked)'
    BY <1>3, <2>1, <2>4 DEF DialInv, OneExecutor, ClaimsAreUnlinked, Dialer,
       ChainsAreLinked
  <2>7. QED
    BY <1>1, <2>5, <2>6 DEF DialInv
<1>7. CASE EnqueueRow(p)
  <2>1. Live = {} /\ poll[p].row = None
    BY <1>7 DEF EnqueueRow, DialInv, OneLiveRow
  <2>2. RowsOfDay(poll[p].day) = {}
    BY <2>1 DEF RowsOfDay
  <2>3. PICK s \in Unused :
            /\ rows' = [rows EXCEPT ![s] = FreshRow(p)]
            /\ poll' = [poll EXCEPT ![p].pc = "push", ![p].row = s]
    BY <1>7, <2>1, <2>2 DEF EnqueueRow
  <2>4. /\ s \in RowId /\ rows[s].status = "unused"
        /\ rows'[s] = FreshRow(p)
        /\ \A r \in RowId : r # s => rows'[r] = rows[r]
    BY <2>3 DEF Unused, TypeInv, TypeOK
  <2>5. Live' = {s}
    BY <2>1, <2>4 DEF Live, FreshRow
  <2>6. poll'[p].pc = "push"
    BY <2>3 DEF TypeInv, TypeOK, Poll
  <2>7. OneLiveRow'
    BY <1>2, <2>5, <2>6 DEF OneLiveRow
  <2>8. Dialer = {}
    BY <2>1, DialerHoldsTheRow
  <2>9. OneExecutor'
    BY <1>3 DEF DialInv, OneExecutor
  <2>10. ClaimsAreUnlinked'
    BY <1>3, <2>4, <2>8 DEF DialInv, ClaimsAreUnlinked, Dialer, FreshRow
  <2>11. ChainsAreLinked'
    BY <1>3, <2>1, <2>4, <2>5 DEF DialInv, ChainsAreLinked
  <2>12. QED
    BY <1>1, <2>7, <2>9, <2>10, <2>11 DEF DialInv
<1>8. CASE EnqueueJob(p) \/ ManualRollback(p)
  <2>1. poll'[p].pc = "idle"
    BY <1>8 DEF EnqueueJob, ManualRollback, IdlePoll, TypeInv, TypeOK
  <2>2. PollsSettle
    BY <1>2, <2>1 DEF PollsSettle
  <2>3. CASE EnqueueJob(p)
    BY <1>1, <1>4, <2>2, <2>3, RowsUntouched DEF EnqueueJob
  <2>4. CASE ManualRollback(p)
    <3>1. rows' = Without({r \in Pending : rows[r].day = poll[p].day})
      BY <2>4 DEF ManualRollback
    <3>2. \A e \in Dialer :
              exec[e].row \notin {r \in Pending : rows[r].day = poll[p].day}
      BY DialerHoldsTheRow
    <3>3. QED
      BY <1>1, <1>4, <2>2, <3>1, <3>2, DeletionKept
  <2>5. QED
    BY <1>8, <2>3, <2>4
<1>9. CASE ManualReadState(p)
  BY <1>9 DEF ManualReadState, ScheduledOnly
<1>10. QED
  BY <1>5, <1>6, <1>7, <1>8, <1>9 DEF PollStep

\* A claim: the row was pending, so nobody was dialing or cleaning up.
LEMMA ClaimDial ==
    ASSUME ScheduledOnly, Inv, NEW e \in Executor, NEW r \in Pending,
           CleanupIsPrompt, rows' = Claimed(r),
           exec'[e].pc = "check", exec'[e].row = r,
           \A d \in Executor : d # e => exec'[d] = exec[d],
           UNCHANGED poll, UNCHANGED handler
    PROVE  DialInv'
<1> USE DEF Inv
<1>1. Dialer = {}
  BY DialerHoldsTheRow
<1>2. \A d \in Executor : exec[d].pc \notin BusyPC
  BY <1>1 DEF CleanupIsPrompt, ScheduledOnly, BusyPC, Dialer
<1>3. /\ r \in RowId
      /\ rows[r].status = "pending"
      /\ rows[r].call = None
  BY DEF Pending, DialInv, ClaimsAreUnlinked
<1>4. /\ rows'[r].status = "dialing"
      /\ rows'[r].call = None
      /\ \A s \in RowId : s # r => rows'[s] = rows[s]
  BY <1>3 DEF Claimed, TypeInv, TypeOK, Row
<1>5. Live' = Live
  BY <1>3, <1>4 DEF Live
<1>6. Linked' /\ OneLiveRow'
  BY <1>5 DEF TypeInv, Linked, DialInv, OneLiveRow
<1>7. OneExecutor'
  BY <1>2 DEF OneExecutor, BusyPC
<1>8. ClaimsAreUnlinked'
  BY <1>2, <1>3, <1>4 DEF DialInv, ClaimsAreUnlinked, Dialer, BusyPC
<1>9. ChainsAreLinked'
  <2>1. \A h \in Handler : handler[h].pc = "chain" =>
            /\ handler[h].entry \in RowId
            /\ rows'[handler[h].entry].status # "unused"
            /\ rows'[handler[h].entry].call = rows[handler[h].entry].call
    BY <1>3, <1>4 DEF DialInv, ChainsAreLinked
  <2>2. QED
    BY <1>5, <2>1 DEF DialInv, ChainsAreLinked
<1>10. QED
  BY <1>6, <1>7, <1>8, <1>9 DEF DialInv

\* The ways the scheduled engine starts a dial.
LEMMA StartDial ==
    ASSUME ScheduledOnly, Inv, StartStep
    PROVE  DialInv'
<1> USE DEF Inv
<1>1. Linked'
  BY StartTyped DEF TypeInv
<1>2. ASSUME NEW w \in Worker, NEW j \in jobs, WorkerClaim(w, j)
      PROVE  DialInv'
  <2>1. /\ w \in Executor
        /\ j.row \in Pending
        /\ CleanupIsPrompt
        /\ rows' = Claimed(j.row)
        /\ UNCHANGED poll
        /\ UNCHANGED handler
    BY <1>2 DEF WorkerClaim, Executor, Claimable
  <2>2. exec'[w].pc = "check" /\ exec'[w].row = j.row
    BY <1>2, <2>1 DEF WorkerClaim, Dialing, TypeInv, TypeOK
  <2>3. \A d \in Executor : d # w => exec'[d] = exec[d]
    BY <1>2, <2>1 DEF WorkerClaim, TypeInv, TypeOK
  <2>4. QED
    BY <2>1, <2>2, <2>3, ClaimDial
<1>3. ASSUME NEW d \in Drain, DrainClaim(d)
      PROVE  DialInv'
  <2>1. /\ d \in Executor
        /\ exec[d].row \in Pending
        /\ CleanupIsPrompt
        /\ rows' = Claimed(exec[d].row)
        /\ UNCHANGED poll
        /\ UNCHANGED handler
    BY <1>3 DEF DrainClaim, Executor, Claimable
  <2>2. exec'[d].pc = "check" /\ exec'[d].row = exec[d].row
    BY <1>3, <2>1 DEF DrainClaim, TypeInv, TypeOK, Exec
  <2>3. \A e \in Executor : e # d => exec'[e] = exec[e]
    BY <1>3, <2>1 DEF DrainClaim, TypeInv, TypeOK
  <2>4. QED
    BY <2>1, <2>2, <2>3, ClaimDial
<1>4. ASSUME NEW d \in Drain, NEW r \in RowId, DrainScan(d, r)
      PROVE  DialInv'
  <2>1. /\ UNCHANGED rows
        /\ UNCHANGED poll
        /\ UNCHANGED handler
    BY <1>4 DEF DrainScan, queueVars
  <2>2. exec'[d].pc = "scanned"
    BY <1>4 DEF DrainScan, Dialing, TypeInv, TypeOK, Executor
  <2>3. \A e \in Executor : e # d => exec'[e] = exec[e]
    BY <1>4 DEF DrainScan, TypeInv, TypeOK
  <2>4. ExecsSettle
    BY <2>2, <2>3 DEF ExecsSettle, BusyPC, DialPC, Dialer
  <2>5. QED
    BY <1>1, <2>1, <2>4, UnchangedSettles, RowsUntouched
<1>5. ASSUME NEW w \in Worker, RetryLater(w)
      PROVE  DialInv'
  <2>1. /\ UNCHANGED rows
        /\ UNCHANGED poll
        /\ UNCHANGED handler
        /\ ExecsSettle
    BY <1>5, ExecSettles DEF RetryLater, queueVars, Executor, TypeInv
  <2>2. QED
    BY <1>1, <2>1, UnchangedSettles, RowsUntouched
<1>6. ASSUME NEW d \in Drain, DrainSkip(d)
      PROVE  DialInv'
  <2>1. /\ UNCHANGED rows
        /\ UNCHANGED poll
        /\ UNCHANGED handler
        /\ ExecsSettle
    BY <1>6, ExecSettles DEF DrainSkip, Finished, queueVars, Executor, TypeInv
  <2>2. QED
    BY <1>1, <2>1, UnchangedSettles, RowsUntouched
<1>7. Forcer = {}
  BY DEF ScheduledOnly
<1>8. QED
  BY <1>2, <1>3, <1>4, <1>5, <1>6, <1>7 DEF StartStep

\* placeCall throws: the claim is given back and the executor stops dialing.
LEMMA ThrowDial ==
    ASSUME ScheduledOnly, Inv, NEW e \in Dialer, Throws(e),
           UNCHANGED poll, UNCHANGED handler, Linked'
    PROVE  DialInv'
<1> USE DEF Inv
<1>1. e \in Executor /\ e \notin Forcer
  BY DEF Dialer, ScheduledOnly
<1>2. rows' = Reverted(exec[e].row)
  BY DEF Throws
<1>3. exec' = [exec EXCEPT ![e].pc = "cleanup"]
  BY <1>1 DEF Throws
<1>4. exec'[e].pc \notin DialPC
  BY <1>1, <1>3 DEF TypeInv, TypeOK, DialPC
<1>5. ExecsSettle
  BY <1>1, <1>3, ExecSettles DEF ExecPC, TypeInv
<1>6. QED
  BY <1>2, <1>4, <1>5, UnchangedSettles, RevertKept

\* A step within placeCall, or a return, that leaves the rows alone.
LEMMA MoveDial ==
    ASSUME Inv, NEW e \in Executor, UNCHANGED rows, UNCHANGED poll,
           UNCHANGED handler, Linked',
           \/ exec' = Finished(e)
           \/ /\ e \in Dialer
              /\ exec'[e].row = exec[e].row
              /\ \A d \in Executor : d # e => exec'[d] = exec[d]
    PROVE  DialInv'
<1>1. ExecsSettle
  <2>1. CASE exec' = Finished(e)
    BY <2>1, ExecSettles DEF Inv, TypeInv
  <2>2. CASE /\ e \in Dialer
             /\ exec'[e].row = exec[e].row
             /\ \A d \in Executor : d # e => exec'[d] = exec[d]
    BY <2>2 DEF ExecsSettle, BusyPC, Dialer
  <2>3. QED
    BY <2>1, <2>2
<1>2. QED
  BY <1>1, UnchangedSettles, RowsUntouched

\* Marking the queue: the only active row is the one this executor holds, and it
\* stops dialing with this step.
LEMMA MarkDial ==
    ASSUME Inv, NEW e \in Executor, MarkQueue(e)
    PROVE  DialInv'
<1> USE DEF Inv
<1>1. Linked'
  BY PlaceCallTyped DEF PlaceCallStep, TypeInv
<1>2. e \in Dialer
  BY DEF MarkQueue, Dialer, DialPC
<1>3. UNCHANGED poll /\ UNCHANGED handler
  BY DEF MarkQueue
<1>4. ExecsSettle
  BY ExecSettles DEF MarkQueue, ExecPC, BusyPC, DialPC, TypeInv
<1>5. exec'[e].pc \notin DialPC
  BY DEF MarkQueue, Finished, IdleExec, TypeInv, TypeOK, DialPC
<1>6. /\ \A r \in RowId : r \notin Live => rows'[r] = rows[r]
      /\ \A r \in RowId : \/ rows'[r] = rows[r]
                          \/ rows'[r].status = "dialing"
  <2>1. \A x \in Row, c \in CallId \cup {None} :
            [x EXCEPT !.status = "dialing", !.call = c].status = "dialing"
    BY DEF Row
  <2>2. exec[e].call \in CallId \cup {None}
    BY DEF TypeInv, TypeOK, Exec
  <2>3. \A r \in RowId : rows[r] \in Row
    BY DEF TypeInv, TypeOK
  <2>4. QED
    BY <2>1, <2>2, <2>3 DEF MarkQueue, MarkedDialing
<1>7. Live' \subseteq Live
  BY <1>6 DEF Live
<1>8. OneLiveRow'
  BY <1>3, <1>7, OneLiveRowKept DEF DialInv
<1>9. OneExecutor'
  BY <1>4, OneExecutorKept DEF DialInv, ExecsSettle
<1>10. \A d \in Executor : exec'[d].pc \notin DialPC
  BY <1>2, <1>4, <1>5, DialerHoldsTheRow DEF ExecsSettle
<1>11. \A r \in RowId : rows'[r].call # None => rows'[r].status = "dialing"
  BY <1>6 DEF DialInv, ClaimsAreUnlinked
<1>12. ClaimsAreUnlinked'
  BY <1>10, <1>11, ClaimsKept DEF DialInv
<1>13. ASSUME NEW h \in Handler, handler'[h].pc = "chain"
       PROVE  /\ handler'[h] = handler[h]
              /\ rows'[handler[h].entry].status # "unused"
              /\ handler[h].entry \notin Live'
  <2>1. handler'[h] = handler[h]
    BY <1>3
  <2>2. /\ handler[h].entry \in RowId
        /\ rows[handler[h].entry].status # "unused"
    BY <1>13, <2>1 DEF DialInv, ChainsAreLinked
  <2>3. handler[h].entry \notin Live
    BY <1>2, <1>13, <2>1, DialerHoldsTheRow
  <2>4. QED
    BY <1>6, <1>7, <2>1, <2>2, <2>3
<1>14. ChainsAreLinked'
  BY <1>3, <1>13, ChainsKept DEF DialInv
<1>15. QED
  BY <1>1, <1>8, <1>9, <1>12, <1>14 DEF DialInv

\* placeCall, its callers and a crash.
LEMMA PlaceCallDial ==
    ASSUME ScheduledOnly, Inv, NEW e \in Executor, PlaceCallStep(e) \/ Crash(e)
    PROVE  DialInv'
<1> USE DEF Inv
<1>1. Linked'
  BY PlaceCallTyped DEF TypeInv
<1>2. UNCHANGED poll /\ UNCHANGED handler
  BY DEF PlaceCallStep, Crash, CheckTerminal, CheckUnenrolled,
     CheckWindowClosed, CheckDuplicate, CheckPasses, RecordNew, RecordReuse,
     RecordConflict, RetellAccepts, RetellRejects, RetellAnswerLost, LinkCall,
     MarkQueue, StampCadence, StampFails, GiveUp
<1>3. CASE Throws(e) /\ e \in Dialer
  BY <1>1, <1>2, <1>3, ThrowDial
<1>4. CASE CheckTerminal(e)
  BY <1>3, <1>4 DEF CheckTerminal, Dialer, DialPC
<1>5. CASE CheckUnenrolled(e)
  <2>1. e \in Dialer
    BY <1>5 DEF CheckUnenrolled, Dialer, DialPC
  <2>2. Pending = {}
    BY <2>1, DialerHoldsTheRow
  <2>3. Reverted(exec[e].row) \in [RowId -> Row]
    BY RevertedTyped DEF TypeInv
  <2>4. rows' = Reverted(exec[e].row)
    BY <1>5, <2>2, <2>3 DEF CheckUnenrolled
  <2>5. exec' = Finished(e) \/ exec' = [exec EXCEPT ![e].pc = "cleanup"]
    BY <1>5 DEF CheckUnenrolled
  <2>6. exec'[e].pc \notin DialPC
    <3>1. exec' = Finished(e) => exec'[e].pc = "idle"
      BY DEF Finished, IdleExec, TypeInv, TypeOK
    <3>2. exec' = [exec EXCEPT ![e].pc = "cleanup"] => exec'[e].pc = "cleanup"
      BY DEF TypeInv, TypeOK
    <3>3. QED
      BY <2>5, <3>1, <3>2 DEF DialPC
  <2>7. ExecsSettle
    BY <2>1, <2>5, ExecSettles DEF ExecPC, TypeInv
  <2>8. QED
    BY <1>1, <1>2, <2>1, <2>4, <2>6, <2>7, UnchangedSettles, RevertKept
<1>6. CASE CheckWindowClosed(e)
  <2>1. e \in Dialer
    BY <1>6 DEF CheckWindowClosed, Dialer, DialPC
  <2>2. rows' = Reverted(exec[e].row) /\ exec' = Finished(e)
    BY <1>6 DEF CheckWindowClosed
  <2>3. exec'[e].pc \notin DialPC
    BY <2>2 DEF Finished, IdleExec, TypeInv, TypeOK, DialPC
  <2>4. ExecsSettle
    BY <2>2, ExecSettles DEF TypeInv
  <2>5. QED
    BY <1>1, <1>2, <2>1, <2>2, <2>3, <2>4, UnchangedSettles, RevertKept
<1>7. CASE CheckDuplicate(e) \/ StampCadence(e) \/ Crash(e)
  <2>1. UNCHANGED rows /\ exec' = Finished(e)
    BY <1>7 DEF CheckDuplicate, StampCadence, Crash, queueVars
  <2>2. QED
    BY <1>1, <1>2, <2>1, MoveDial
<1>8. CASE CheckPasses(e) \/ LinkCall(e)
  <2>1. UNCHANGED rows /\ e \in Dialer
    BY <1>8 DEF CheckPasses, LinkCall, queueVars, Dialer, DialPC
  <2>2. PICK pc \in ExecPC : exec' = [exec EXCEPT ![e].pc = pc]
    BY <1>8 DEF CheckPasses, LinkCall, ExecPC
  <2>3. /\ exec'[e].row = exec[e].row
        /\ \A d \in Executor : d # e => exec'[d] = exec[d]
    BY <2>2 DEF TypeInv, TypeOK, Exec
  <2>4. QED
    BY <1>1, <1>2, <2>1, <2>3, MoveDial
<1>9. CASE RecordNew(e) \/ RecordReuse(e)
  <2>1. UNCHANGED rows /\ e \in Dialer
    BY <1>9 DEF RecordNew, RecordReuse, queueVars, Dialer, DialPC
  <2>2. PICK c \in CallId :
            exec' = [exec EXCEPT ![e].pc = "dial", ![e].call = c]
    BY <1>9 DEF RecordNew, RecordReuse, ActiveCalls
  <2>3. \A x \in Exec : [x EXCEPT !.pc = "dial", !.call = c].row = x.row
    BY DEF Exec
  <2>4. exec' = [exec EXCEPT ![e] =
                    [exec[e] EXCEPT !.pc = "dial", !.call = c]]
    BY <2>2 DEF TypeInv, TypeOK
  <2>5. /\ exec'[e].row = exec[e].row
        /\ \A d \in Executor : d # e => exec'[d] = exec[d]
    BY <2>3, <2>4 DEF TypeInv, TypeOK
  <2>6. QED
    BY <1>1, <1>2, <2>1, <2>5, MoveDial
<1>10. CASE RecordConflict(e)
  <2>1. e \in Dialer
    BY <1>10 DEF RecordConflict, Dialer, DialPC
  <2>2. (exec' = Finished(e) /\ UNCHANGED rows) \/ Throws(e)
    BY <1>10 DEF RecordConflict
  <2>3. QED
    BY <1>1, <1>2, <1>3, <2>1, <2>2, MoveDial
<1>11. CASE RetellAccepts(e)
  <2>1. UNCHANGED rows /\ e \in Dialer
    BY <1>11 DEF RetellAccepts, queueVars, Dialer, DialPC
  <2>2. \A x \in Exec : [x EXCEPT !.pc = "link", !.day = today].row = x.row
    BY DEF Exec
  <2>3. exec' = [exec EXCEPT ![e] =
                    [exec[e] EXCEPT !.pc = "link", !.day = today]]
    BY <1>11 DEF RetellAccepts, TypeInv, TypeOK
  <2>4. /\ exec'[e].row = exec[e].row
        /\ \A d \in Executor : d # e => exec'[d] = exec[d]
    BY <2>2, <2>3 DEF TypeInv, TypeOK
  <2>5. QED
    BY <1>1, <1>2, <2>1, <2>4, MoveDial
<1>12. CASE RetellRejects(e) \/ RetellAnswerLost(e)
  BY <1>3, <1>12 DEF RetellRejects, RetellAnswerLost, Dialer, DialPC
<1>13. CASE MarkQueue(e)
  BY <1>13, MarkDial
<1>14. CASE StampFails(e)
  BY <1>14 DEF StampFails, Fault, ScheduledOnly
<1>15. CASE GiveUp(e)
  <2>1. rows' = Without(Live) /\ exec' = Finished(e)
    BY <1>15 DEF GiveUp, FailQueueEntry
  <2>2. Dialer = {}
    BY <1>15 DEF GiveUp, DialInv, OneExecutor, Dialer, DialPC
  <2>3. ExecsSettle
    BY <2>1, ExecSettles DEF TypeInv
  <2>4. QED
    BY <1>1, <1>2, <2>1, <2>2, <2>3, UnchangedSettles, DeletionKept
<1>16. QED
  BY <1>4, <1>5, <1>6, <1>7, <1>8, <1>9, <1>10, <1>11, <1>12, <1>13, <1>14,
     <1>15 DEF PlaceCallStep

\* Chaining to the next number: the row is linked to the processor's call, so
\* no executor holds it and no other processor is about to chain on it.
LEMMA ChainDial ==
    ASSUME Inv, NEW h \in Handler, ChainNextPhone(h), handler[h].entry \in Live
    PROVE  DialInv'
<1> USE DEF Inv
<1> DEFINE r == handler[h].entry
<1>1. Linked'
  BY OutcomeTyped DEF OutcomeStep, TypeInv
<1>2. Dialer = {}
  BY DialerHoldsTheRow DEF ChainNextPhone
<1>3. UNCHANGED exec /\ UNCHANGED poll
  BY DEF ChainNextPhone
<1>4. handler' = [handler EXCEPT ![h] = IdleHandler]
  BY DEF ChainNextPhone
<1>5. HandlersSettle
  BY <1>4 DEF HandlersSettle, IdleHandler, TypeInv, TypeOK
<1>6. /\ rows'[r].status = "pending"
      /\ rows'[r].call = None
      /\ \A s \in RowId : s # r => rows'[s] = rows[s]
  <2>1. \A x \in Row, n \in Nat :
          /\ [x EXCEPT !.status = "pending", !.call = None, !.phone = n].status
               = "pending"
          /\ [x EXCEPT !.status = "pending", !.call = None, !.phone = n].call
               = None
    BY DEF Row
  <2>2. rows' = [rows EXCEPT ![r] =
                    [rows[r] EXCEPT !.status = "pending", !.call = None,
                        !.phone = calls[handler[h].call].phone + 1]]
    BY DEF ChainNextPhone
  <2>3. calls[handler[h].call].phone + 1 \in Nat
    BY DEF ChainNextPhone, TypeInv, Linked, TypeOK, Call
  <2>4. r \in RowId /\ rows[r] \in Row
    BY DEF Live, TypeInv, TypeOK
  <2>5. QED
    BY <2>1, <2>2, <2>3, <2>4 DEF TypeInv, TypeOK
<1>7. Live' \subseteq Live
  BY <1>6 DEF Live
<1>8. OneLiveRow'
  BY <1>3, <1>7, OneLiveRowKept DEF DialInv
<1>9. OneExecutor'
  BY <1>3 DEF DialInv, OneExecutor
<1>10. ClaimsAreUnlinked'
  BY <1>2, <1>3, <1>6 DEF DialInv, ClaimsAreUnlinked, Dialer
<1>11. ASSUME NEW g \in Handler, handler'[g].pc = "chain"
       PROVE  /\ handler'[g] = handler[g]
              /\ rows'[handler[g].entry].status # "unused"
              /\ handler[g].entry \in Live' =>
                    /\ handler[g].entry \in Live
                    /\ rows'[handler[g].entry].call = rows[handler[g].entry].call
  <2>1. g # h /\ handler'[g] = handler[g]
    BY <1>4, <1>11 DEF IdleHandler, TypeInv, TypeOK
  <2>2. handler[g].pc = "chain" /\ handler[h].pc = "chain"
    BY <1>11, <2>1 DEF ChainNextPhone
  <2>3. handler[g].entry # r
    BY <2>1, <2>2 DEF DialInv, ChainsAreLinked
  <2>4. handler[g].entry \in RowId /\ rows[handler[g].entry].status # "unused"
    BY <2>2 DEF DialInv, ChainsAreLinked
  <2>5. QED
    BY <1>6, <1>7, <2>1, <2>3, <2>4
<1>12. ChainsAreLinked'
  BY <1>5, <1>11, ChainsKept DEF DialInv, HandlersSettle
<1>13. QED
  BY <1>1, <1>8, <1>9, <1>10, <1>12 DEF DialInv

\* Processing an outcome.
LEMMA OutcomeDial ==
    ASSUME Inv, NEW h \in Handler,
           \/ \E c \in CallId, o \in Outcome : ClaimOutcome(h, c, o)
           \/ OutcomeStep(h)
           \/ HandlerCrash(h)
    PROVE  DialInv'
<1> USE DEF Inv
<1>1. Linked'
  BY OutcomeTyped DEF TypeInv
<1>2. UNCHANGED exec /\ UNCHANGED poll
  BY DEF OutcomeStep, ClaimOutcome, PersistOutcome, ChainNextPhone,
     AdvanceCadence, CompleteQueueEntry, HandlerCrash
<1>3. ASSUME UNCHANGED rows, ChainsAreLinked'
      PROVE  DialInv'
  BY <1>1, <1>2, <1>3 DEF DialInv, OneLiveRow, Live, OneExecutor,
     ClaimsAreUnlinked, Dialer
<1>4. ASSUME NEW c \in CallId, NEW o \in Outcome, ClaimOutcome(h, c, o)
      PROVE  DialInv'
  <2>1. /\ UNCHANGED rows
        /\ \A g \in Handler : handler[g].call # c
        /\ handler'[h].pc = "claimed"
        /\ handler'[h].call = c
        /\ \A g \in Handler : g # h => handler'[g] = handler[g]
    BY <1>4 DEF ClaimOutcome, queueVars, TypeInv, TypeOK
  <2>2. ChainsAreLinked'
    BY <2>1 DEF DialInv, ChainsAreLinked, Live
  <2>3. QED
    BY <1>3, <2>1, <2>2
<1>5. CASE PersistOutcome(h)
  <2>1. PICK entry \in RowId \cup {None}, pc \in {"chain", "cadence"} :
            /\ handler' = [handler EXCEPT ![h].entry = entry, ![h].pc = pc]
            /\ pc = "chain" => entry \in RowOfCall(handler[h].call)
    BY <1>5 DEF PersistOutcome, EntryOfCall, RowOfCall
  <2>2. handler[h] \in Handling /\ handler[h].call \in CallId
    BY <1>5 DEF PersistOutcome, TypeInv, TypeOK, Linked
  <2>3. \A x \in Handling :
          /\ [x EXCEPT !.entry = entry, !.pc = pc].entry = entry
          /\ [x EXCEPT !.entry = entry, !.pc = pc].pc = pc
          /\ [x EXCEPT !.entry = entry, !.pc = pc].call = x.call
    BY DEF Handling
  <2>4. handler' = [handler EXCEPT ![h] =
                        [handler[h] EXCEPT !.entry = entry, !.pc = pc]]
    BY <2>1 DEF TypeInv, TypeOK
  <2>5. /\ handler'[h].entry = entry
        /\ handler'[h].pc = pc
        /\ handler'[h].call = handler[h].call
        /\ \A g \in Handler : g # h => handler'[g] = handler[g]
    BY <2>2, <2>3, <2>4 DEF TypeInv, TypeOK
  <2>6. UNCHANGED rows /\ handler[h].pc # "idle"
    BY <1>5 DEF PersistOutcome, queueVars
  <2>7. pc = "chain" => /\ entry \in RowId
                        /\ rows[entry].call = handler[h].call
                        /\ rows[entry].status = "dialing"
    BY <2>1, <2>2, IdsAssumption DEF RowOfCall, DialInv, ClaimsAreUnlinked
  <2>8. Live' = Live
    BY <2>6 DEF Live
  <2>9. \A g \in Handler : handler'[g].pc = "chain" =>
            /\ handler'[g].entry \in RowId
            /\ rows'[handler'[g].entry].status # "unused"
            /\ handler'[g].entry \in Live' =>
                  rows'[handler'[g].entry].call = handler'[g].call
    BY <2>5, <2>6, <2>7, <2>8 DEF DialInv, ChainsAreLinked
  <2>10. \A g \in Handler : /\ handler'[g].call = handler[g].call
                            /\ handler'[g].pc # "idle" => handler[g].pc # "idle"
    BY <2>5, <2>6
  <2>11. ChainsAreLinked'
    <3>1. \A f, g \in Handler :
              /\ handler[f].pc # "idle" /\ handler[g].pc # "idle"
              /\ handler[f].call = handler[g].call
              => f = g
      BY DEF DialInv, ChainsAreLinked
    <3>2. ASSUME NEW f \in Handler, NEW g \in Handler,
                 handler'[f].pc # "idle", handler'[g].pc # "idle",
                 handler'[f].call = handler'[g].call
          PROVE  f = g
      <4>1. handler[f].pc # "idle" /\ handler[g].pc # "idle"
        BY <2>10, <3>2
      <4>2. handler[f].call = handler[g].call
        BY <2>10, <3>2
      <4>3. QED
        BY <3>1, <4>1, <4>2
    <3>3. QED
      BY <2>9, <3>2 DEF ChainsAreLinked
  <2>12. QED
    BY <1>3, <2>6, <2>11
<1>6. CASE ChainNextPhone(h) /\ handler[h].entry \in Live
  BY <1>6, ChainDial
<1>7. ASSUME handler' = [handler EXCEPT ![h] = IdleHandler]
      PROVE  HandlersSettle
  BY <1>7 DEF HandlersSettle, IdleHandler, TypeInv, TypeOK
<1>8. CASE ChainNextPhone(h) /\ handler[h].entry \notin Live
  <2>1. UNCHANGED rows /\ HandlersSettle
    BY <1>7, <1>8 DEF ChainNextPhone, queueVars
  <2>2. QED
    BY <1>1, <1>2, <2>1, UnchangedSettles, RowsUntouched
<1>9. CASE AdvanceCadence(h)
  <2>1. UNCHANGED rows
    BY <1>9 DEF AdvanceCadence, queueVars
  <2>2. handler'[h].pc = "complete" /\ handler'[h].call = handler[h].call
    BY <1>9 DEF AdvanceCadence, TypeInv, TypeOK, Handling
  <2>3. \A g \in Handler : g # h => handler'[g] = handler[g]
    BY <1>9 DEF AdvanceCadence, TypeInv, TypeOK
  <2>4. handler[h].pc # "idle"
    BY <1>9 DEF AdvanceCadence
  <2>5. HandlersSettle
    BY <2>2, <2>3, <2>4 DEF HandlersSettle
  <2>6. QED
    BY <1>1, <1>2, <2>1, <2>5, UnchangedSettles, RowsUntouched
<1>10. CASE CompleteQueueEntry(h)
  <2>1. rows' = Without(RowOfCall(handler[h].call)) /\ HandlersSettle
    BY <1>7, <1>10 DEF CompleteQueueEntry
  <2>2. handler[h].call # None
    BY <1>10, IdsAssumption DEF CompleteQueueEntry, TypeInv, Linked
  <2>3. \A e \in Dialer : exec[e].row \notin RowOfCall(handler[h].call)
    BY <2>2, DialerHoldsTheRow DEF RowOfCall
  <2>4. QED
    BY <1>1, <1>2, <2>1, <2>3, UnchangedSettles, DeletionKept
<1>11. CASE HandlerCrash(h)
  <2>1. UNCHANGED rows /\ HandlersSettle
    BY <1>7, <1>11 DEF HandlerCrash, queueVars
  <2>2. QED
    BY <1>1, <1>2, <2>1, UnchangedSettles, RowsUntouched
<1>12. QED
  BY <1>4, <1>5, <1>6, <1>8, <1>9, <1>10, <1>11 DEF OutcomeStep

\* Every step of the scheduled engine keeps the invariant.
LEMMA DialStep == ScheduledOnly /\ Inv /\ [Next]_vars => Inv'
<1> SUFFICES ASSUME ScheduledOnly, Inv, [Next]_vars
             PROVE  Inv'
  OBVIOUS
<1> USE DEF Inv
<1>1. TypeInv' /\ Linked'
  BY StepTyped DEF TypeInv
<1>2. CASE UNCHANGED vars
  BY <1>1, <1>2, UnchangedSettles, RowsUntouched DEF vars
<1>3. CASE NextDay
  BY <1>1, <1>3, UnchangedSettles, RowsUntouched DEF NextDay, queueVars
<1>4. CASE PollDropsUnenrolled
  <2>1. rows' = Without(Pending)
    BY <1>4 DEF PollDropsUnenrolled, CancelQueueEntries
  <2>2. \A e \in Dialer : exec[e].row \notin Pending
    BY DialerHoldsTheRow
  <2>3. UNCHANGED <<exec, handler, poll>>
    BY <1>4 DEF PollDropsUnenrolled
  <2>4. QED
    BY <1>1, <2>1, <2>2, <2>3, UnchangedSettles, DeletionKept
<1>5. ASSUME NEW r \in RowId, DropZombie(r)
      PROVE  DialInv'
  <2>1. rows' = Without({r}) /\ \A e \in Executor : exec[e].row # r
    BY <1>5 DEF DropZombie
  <2>2. \A e \in Dialer : exec[e].row \notin {r}
    BY <2>1 DEF Dialer
  <2>3. UNCHANGED <<exec, handler, poll>>
    BY <1>5 DEF DropZombie
  <2>4. QED
    BY <1>1, <2>1, <2>2, <2>3, UnchangedSettles, DeletionKept
<1>6. ASSUME NEW r \in RowId, SweepRow(r)
      PROVE  DialInv'
  BY <1>1, <1>6, UnchangedSettles, RowsUntouched DEF SweepRow
<1>7. QED
  BY <1>1, <1>2, <1>3, <1>4, <1>5, <1>6, PollDial, StartDial, PlaceCallDial,
     OutcomeDial DEF Next

\* The scheduled engine keeps its invariant, for any number of workers, drains,
\* processors, rows and calls, any delivery of jobs and any of the other faults.
THEOREM DialInvariant == ASSUME ScheduledOnly PROVE Spec => []Inv
<1>1. Init => Inv
  BY InitTyped, DialInit DEF Inv
<1>2. Inv /\ [Next]_vars => Inv'
  BY DialStep
<1>3. QED
  BY <1>1, <1>2, PTL DEF Spec

\* The account of rows, claims and chains that the run checks.
THEOREM DialAccount == ASSUME ScheduledOnly PROVE Spec => []DialInv
<1>1. Inv => DialInv
  BY DEF Inv
<1>2. QED
  BY <1>1, DialInvariant, PTL

\* One executor at a time is inside placeCall for a contact
\* (claimQueueEntryById).
THEOREM ExclusiveDial == ASSUME ScheduledOnly PROVE Spec => []OneDialAtATime
<1>1. Inv => OneDialAtATime
  BY DEF Inv, DialInv, OneExecutor, OneDialAtATime, Dialer
<1>2. QED
  BY <1>1, DialInvariant, PTL

\* The row an executor claimed stays claimed and unlinked until it lets go
\* (drain.ts, call.worker.ts).
THEOREM ClaimsHold == ASSUME ScheduledOnly PROVE Spec => []ClaimIsKept
<1>1. Inv => ClaimIsKept
  BY DEF Inv, DialInv, ClaimsAreUnlinked, ClaimIsKept
<1>2. QED
  BY <1>1, DialInvariant, PTL

(***************************************************************************)
(* Which number rings, in which attempt, on which day.  A second invariant, *)
(* on top of the first: what the calls table says of every request that     *)
(* Retell accepted, and how far rows, jobs, polls and executors may be      *)
(* behind the cadence state.                                                *)
(***************************************************************************)
ActiveStatus == {"queued", "dialing", "completed"}

\* The dial of this number of this attempt is on record.
Recorded(attempt, phone) ==
    \E c \in CallId : /\ calls[c].retell
                      /\ calls[c].attempt = attempt
                      /\ calls[c].phone = phone

\* calls_one_active_attempt_per_phone holds; only a dialed or completed call
\* carries Retell's id; nothing rings and nobody works for an unused id.
CallsAreUnique ==
    /\ \A c, d \in CallId :
          /\ calls[c].status \in ActiveStatus
          /\ calls[d].status \in ActiveStatus
          /\ calls[c].attempt = calls[d].attempt
          /\ calls[c].phone = calls[d].phone
          => c = d
    /\ \A c \in CallId :
          /\ calls[c].retell => calls[c].status \in {"dialing", "completed"}
          /\ calls[c].status = "unused" => rings[c] = 0 /\ lost[c] = 0
    /\ \A h \in Handler :
          handler[h].pc # "idle" => calls[handler[h].call].status # "unused"

\* An executor past its check works on the active call of its number, a number
\* not on record yet; what rang and is on record nowhere is being linked now.
DialsAreCounted ==
    /\ \A e \in Executor : exec[e].pc \in {"dial", "link", "mark"} =>
          /\ exec[e].call \in CallId
          /\ calls[exec[e].call].status \in ActiveStatus
          /\ calls[exec[e].call].attempt = exec[e].attempt
          /\ calls[exec[e].call].phone = exec[e].phone
    /\ \A e \in Executor : exec[e].pc = "link" =>
          rings[exec[e].call] = lost[exec[e].call] + 1
    /\ \A e \in Executor : exec[e].pc = "mark" => calls[exec[e].call].retell
    /\ \A e \in Executor : exec[e].pc \in {"record", "dial", "link"} =>
          ~Recorded(exec[e].attempt, exec[e].phone)
    /\ \A e \in Executor, c \in CallId :
          /\ exec[e].pc \in {"record", "dial"}
          /\ calls[c].attempt = exec[e].attempt
          /\ calls[c].phone = exec[e].phone
          => rings[c] = lost[c]
    /\ \A c \in CallId : rings[c] # lost[c] =>
          \/ calls[c].retell
          \/ \E e \in Executor : exec[e].pc = "link" /\ exec[e].call = c

\* The row was written, and while it is live it belongs to this attempt.
Belongs(r, attempt) ==
    /\ rows[r].status # "unused"
    /\ r \in Live => rows[r].attempt = attempt

RowPC == DialPC \cup {"scanned"}

\* Whoever carries an attempt number to or from a row carries the row's.
AttemptsMatch ==
    /\ \A r \in RowId : rows[r].call # None =>
          /\ calls[rows[r].call].retell
          /\ calls[rows[r].call].attempt = rows[r].attempt
    /\ \A j \in jobs : Belongs(j.row, j.attempt)
    /\ \A p \in Poller : poll[p].pc = "push" => Belongs(poll[p].row, poll[p].attempt)
    /\ \A e \in Executor : exec[e].pc \in RowPC =>
          exec[e].row \in RowId /\ Belongs(exec[e].row, exec[e].attempt)

\* The call ended without an answer and nobody can change that any more.
Settled(c) ==
    /\ calls[c].status = "completed"
    /\ calls[c].outcome = "no_answer"
    /\ \A e \in Executor : exec[e].pc \in {"dial", "link"} => exec[e].call # c
    /\ \A h \in Handler : handler[h].pc = "claimed" => handler[h].call # c

\* The numbers before this one have rung in this attempt, in vain.
Reached(attempt, phone) ==
    phone > 0 => \E c \in CallId : /\ Settled(c)
                                   /\ calls[c].attempt = attempt
                                   /\ calls[c].phone + 1 = phone

PhonesInOrder ==
    /\ \A j \in jobs : Reached(j.attempt, j.phone)
    /\ \A r \in Live : Reached(rows[r].attempt, rows[r].phone)
    /\ \A e \in Executor : exec[e].pc \in RowPC =>
          Reached(exec[e].attempt, exec[e].phone)
    /\ \A h \in Handler : handler[h].pc = "chain" => Settled(handler[h].call)

\* The executors whose dial is on record and not yet in the cadence state.
Stamper == {e \in Executor : \/ exec[e].pc = "stamp"
                             \/ exec[e].pc = "mark" /\ exec[e].phone = 0}

Current(attempt) ==
    /\ attempt > 0
    /\ attempt \in {cadence.attempts, cadence.attempts + 1}

\* Polls and rows are at most one attempt ahead of the cadence state, never
\* behind it; an executor about to stamp is exactly one ahead, and so is then
\* everybody else.
AttemptsAreCurrent ==
    /\ \A p \in Poller : poll[p].pc # "idle" =>
          /\ Current(poll[p].attempt)
          /\ \A r \in Live : rows[r].attempt <= poll[p].attempt
    /\ \A r \in Live : Current(rows[r].attempt)
    /\ \A e \in Stamper :
          /\ exec[e].attempt = cadence.attempts + 1
          /\ Recorded(exec[e].attempt, 0)
          /\ \A r \in Live : rows[r].attempt = exec[e].attempt
          /\ \A p \in Poller : poll[p].pc # "idle" => poll[p].attempt = exec[e].attempt
          /\ \A d \in Stamper : d = e
    /\ cadence.attempts > 0 => Recorded(cadence.attempts, 0)

\* An attempt not yet stamped does not belong to the day of the last stamp.
DaysAreApart ==
    /\ cadence.last <= today
    /\ \A e \in Executor : exec[e].day <= today
    /\ \A p \in Poller : /\ poll[p].pc # "idle"
                         /\ poll[p].attempt > cadence.attempts
                         => cadence.last # today
    /\ \A r \in Live : rows[r].attempt > cadence.attempts => cadence.last # today

NumberInv ==
    /\ CallsAreUnique
    /\ DialsAreCounted
    /\ AttemptsMatch
    /\ PhonesInOrder
    /\ AttemptsAreCurrent
    /\ DaysAreApart

(***************************************************************************)
(* What most steps leave alone, in the terms of this invariant.            *)
(***************************************************************************)
LiveStays ==
    \A r \in Live' : r \in Live /\ rows'[r].attempt = rows[r].attempt
TargetsStay ==
    \A r \in Live' : \/ rows'[r].phone = rows[r].phone
                     \/ Reached(rows'[r].attempt, rows'[r].phone)
LinksStay ==
    \A r \in RowId :
        /\ rows'[r].status = "unused" => rows[r].status = "unused"
        /\ rows'[r].call # None =>
              \/ /\ rows'[r].call = rows[r].call
                 /\ rows'[r].attempt = rows[r].attempt
              \/ /\ rows'[r].call \in CallId
                 /\ calls[rows'[r].call].retell
                 /\ calls[rows'[r].call].attempt = rows'[r].attempt
RecordsStay ==
    \A c \in CallId : calls[c].retell => /\ calls'[c].retell
                                         /\ calls'[c].attempt = calls[c].attempt
                                         /\ calls'[c].phone = calls[c].phone
SettledStay ==
    \A c \in CallId : Settled(c) => /\ Settled(c)'
                                    /\ calls'[c].attempt = calls[c].attempt
                                    /\ calls'[c].phone = calls[c].phone
PollersStay ==
    \A p \in Poller : poll'[p].pc # "idle" => /\ poll[p].pc # "idle"
                                              /\ poll'[p].attempt = poll[p].attempt
PushesStay == \A p \in Poller : poll'[p].pc = "push" => poll'[p] = poll[p]
CarriersStay ==
    \A e \in Executor : exec'[e].pc \in RowPC =>
        \/ /\ exec[e].pc \in RowPC
           /\ exec'[e].row = exec[e].row
           /\ exec'[e].attempt = exec[e].attempt
           /\ exec'[e].phone = exec[e].phone
        \/ /\ exec'[e].row \in RowId
           /\ Belongs(exec'[e].row, exec'[e].attempt)
           /\ Reached(exec'[e].attempt, exec'[e].phone)
StampersStay ==
    \A e \in Stamper' : e \in Stamper /\ exec'[e].attempt = exec[e].attempt
DaysStay == \A e \in Executor : exec'[e].day \in {0, exec[e].day}
CountStays ==
    cadence'.attempts = cadence.attempts /\ cadence'.last = cadence.last

\* Nobody takes up or leaves a dial that is past its check.
PastCheck == {"record", "dial", "link", "mark"}
DialsStay ==
    \A e \in Executor : \/ exec'[e] = exec[e]
                        \/ exec'[e].pc \notin PastCheck /\ exec[e].pc # "link"
DialLinesStay ==
    \A e \in Executor : exec'[e].pc \in {"dial", "link"} =>
        exec[e].pc \in {"dial", "link"} /\ exec'[e].call = exec[e].call
OutcomesStay ==
    \A h \in Handler :
        /\ handler'[h].pc # "idle" =>
              handler[h].pc # "idle" /\ handler'[h].call = handler[h].call
        /\ handler'[h].pc \in {"claimed", "chain"} => handler'[h] = handler[h]
\* A new job carries the numbers of its row.
JobsFit ==
    \A j \in jobs' \ jobs : /\ j.row \in RowId
                            /\ Belongs(j.row, j.attempt)
                            /\ Reached(j.attempt, j.phone)

\* What is on record stays on record.
LEMMA RecordedStays ==
    ASSUME RecordsStay, NEW a, NEW n, Recorded(a, n)
    PROVE  Recorded(a, n)'
  BY DEF RecordsStay, Recorded

\* The calls table and its processors.
LEMMA UniqueKept ==
    ASSUME CallsAreUnique, UNCHANGED callVars, OutcomesStay
    PROVE  CallsAreUnique'
  BY DEF CallsAreUnique, callVars, OutcomesStay

\* The accounts of the dials.
LEMMA CountedKept ==
    ASSUME DialsAreCounted, UNCHANGED callVars, DialsStay
    PROVE  DialsAreCounted'
<1>1. \A e \in Executor : exec'[e].pc \in PastCheck => exec'[e] = exec[e]
  BY DEF DialsStay
<1>2. \A e \in Executor : exec[e].pc = "link" => exec'[e] = exec[e]
  BY DEF DialsStay
<1>3. \A a, n : Recorded(a, n)' = Recorded(a, n)
  BY DEF Recorded, callVars
<1>4. \A c \in CallId : rings'[c] = rings[c] /\ lost'[c] = lost[c] /\ calls'[c] = calls[c]
  BY DEF callVars
<1>5. QED
  BY <1>1, <1>2, <1>3, <1>4 DEF DialsAreCounted, PastCheck, callVars

\* A row's attempt number.
LEMMA BelongsStays ==
    ASSUME LinksStay, LiveStays, NEW r \in RowId, NEW a, Belongs(r, a)
    PROVE  Belongs(r, a)'
  BY DEF LinksStay, LiveStays, Belongs

LEMMA MatchKept ==
    ASSUME TypeInv, AttemptsMatch, LinksStay, LiveStays, RecordsStay, PushesStay,
           CarriersStay, JobsFit
    PROVE  AttemptsMatch'
<1>1. ASSUME NEW r \in RowId, rows'[r].call # None
      PROVE  /\ calls'[rows'[r].call].retell
             /\ calls'[rows'[r].call].attempt = rows'[r].attempt
  <2>1. PICK c : rows'[r].call = c
    OBVIOUS
  <2>2. c \in CallId /\ calls[c].retell /\ calls[c].attempt = rows'[r].attempt
    BY <1>1, <2>1 DEF LinksStay, AttemptsMatch, TypeInv, TypeOK, Row
  <2>3. QED
    BY <2>1, <2>2 DEF RecordsStay
<1>2. ASSUME NEW j \in jobs'
      PROVE  Belongs(j.row, j.attempt)'
  <2>1. j \in jobs => j.row \in RowId /\ Belongs(j.row, j.attempt)
    BY DEF TypeInv, TypeOK, Job, AttemptsMatch
  <2>2. j.row \in RowId /\ Belongs(j.row, j.attempt)
    BY <2>1 DEF JobsFit
  <2>3. QED
    BY <2>2, BelongsStays
<1>3. ASSUME NEW p \in Poller, poll'[p].pc = "push"
      PROVE  Belongs(poll[p].row, poll[p].attempt)' /\ poll'[p] = poll[p]
  <2>1. poll'[p] = poll[p]
    BY <1>3 DEF PushesStay
  <2>2. poll[p].row \in RowId /\ Belongs(poll[p].row, poll[p].attempt)
    BY <1>3, <2>1 DEF AttemptsMatch, TypeInv, Linked
  <2>3. PICK r, a : r = poll[p].row /\ a = poll[p].attempt
    OBVIOUS
  <2>4. Belongs(r, a)'
    BY <2>2, <2>3, BelongsStays
  <2>5. QED
    BY <2>1, <2>3, <2>4 DEF Belongs
<1>4. ASSUME NEW e \in Executor, exec'[e].pc \in RowPC
      PROVE  exec'[e].row \in RowId /\ Belongs(exec[e].row, exec[e].attempt)'
  <2>1. PICK r, a : exec'[e].row = r /\ exec'[e].attempt = a
    OBVIOUS
  <2>2. r \in RowId /\ Belongs(r, a)
    BY <1>4, <2>1 DEF AttemptsMatch, CarriersStay
  <2>3. Belongs(r, a)'
    BY <2>2, BelongsStays
  <2>4. QED
    BY <2>1, <2>2, <2>3 DEF Belongs
<1>5. QED
  BY <1>1, <1>2, <1>3, <1>4 DEF AttemptsMatch

\* The order of the numbers.
LEMMA ReachedStays ==
    ASSUME SettledStay, NEW a, NEW n, Reached(a, n)
    PROVE  Reached(a, n)'
  BY DEF SettledStay, Reached

LEMMA PhonesKept ==
    ASSUME TypeInv, PhonesInOrder, LiveStays, TargetsStay, SettledStay, CarriersStay,
           JobsFit,
           \A h \in Handler : handler'[h].pc = "chain" =>
               handler'[h] = handler[h] \/ Settled(handler[h].call)'
    PROVE  PhonesInOrder'
<1>1. ASSUME NEW j \in jobs'
      PROVE  Reached(j.attempt, j.phone)'
  BY ReachedStays DEF PhonesInOrder, JobsFit
<1>2. ASSUME NEW r \in Live'
      PROVE  Reached(rows[r].attempt, rows[r].phone)'
  <2>1. PICK a, n : rows'[r].attempt = a /\ rows'[r].phone = n
    OBVIOUS
  <2>2. Reached(a, n)
    BY <2>1 DEF PhonesInOrder, LiveStays, TargetsStay
  <2>3. Reached(a, n)'
    BY <2>2, ReachedStays
  <2>4. QED
    BY <2>1, <2>3 DEF Reached
<1>3. ASSUME NEW e \in Executor, exec'[e].pc \in RowPC
      PROVE  Reached(exec[e].attempt, exec[e].phone)'
  <2>1. PICK a, n : exec'[e].attempt = a /\ exec'[e].phone = n
    OBVIOUS
  <2>2. Reached(a, n)
    BY <1>3, <2>1 DEF PhonesInOrder, CarriersStay
  <2>3. Reached(a, n)'
    BY <2>2, ReachedStays
  <2>4. QED
    BY <2>1, <2>3 DEF Reached
<1>4. ASSUME NEW h \in Handler, handler'[h].pc = "chain"
      PROVE  Settled(handler[h].call)'
  <2>1. CASE Settled(handler[h].call)'
    BY <2>1
  <2>2. CASE handler'[h] = handler[h]
    <3>1. PICK c : c = handler[h].call
      OBVIOUS
    <3>2. c \in CallId /\ Settled(c) /\ handler'[h].call = c
      BY <1>4, <2>2, <3>1 DEF PhonesInOrder, TypeInv, Linked
    <3>3. Settled(c)'
      BY <3>2 DEF SettledStay
    <3>4. QED
      BY <3>2, <3>3 DEF Settled
  <2>3. QED
    BY <1>4, <2>1, <2>2
<1>5. QED
  BY <1>1, <1>2, <1>3, <1>4 DEF PhonesInOrder

\* The numbering of the attempts.
LEMMA CurrentKept ==
    ASSUME AttemptsAreCurrent, LiveStays, PollersStay, StampersStay, RecordsStay,
           CountStays
    PROVE  AttemptsAreCurrent'
<1>1. cadence'.attempts = cadence.attempts
  BY DEF CountStays
<1>2. ASSUME NEW p \in Poller, poll'[p].pc # "idle"
      PROVE  /\ Current(poll[p].attempt)'
             /\ \A r \in Live' : rows'[r].attempt <= poll'[p].attempt
  <2>1. poll[p].pc # "idle" /\ poll'[p].attempt = poll[p].attempt
    BY <1>2 DEF PollersStay
  <2>2. QED
    BY <1>1, <2>1 DEF AttemptsAreCurrent, Current, LiveStays
<1>3. ASSUME NEW r \in Live'
      PROVE  Current(rows[r].attempt)'
  BY <1>1 DEF AttemptsAreCurrent, Current, LiveStays
<1>4. ASSUME NEW e \in Stamper'
      PROVE  /\ exec'[e].attempt = cadence'.attempts + 1
             /\ Recorded(exec[e].attempt, 0)'
             /\ \A r \in Live' : rows'[r].attempt = exec'[e].attempt
             /\ \A p \in Poller : poll'[p].pc # "idle"
                                      => poll'[p].attempt = exec'[e].attempt
             /\ \A d \in Stamper' : d = e
  <2>1. PICK a : a = exec[e].attempt
    OBVIOUS
  <2>2. e \in Stamper /\ exec'[e].attempt = a
    BY <2>1 DEF StampersStay
  <2>3. Recorded(a, 0)
    BY <2>1, <2>2 DEF AttemptsAreCurrent
  <2>4. Recorded(a, 0)'
    BY <2>3, RecordedStays
  <2>5. Recorded(exec[e].attempt, 0)'
    BY <2>2, <2>4 DEF Recorded
  <2>6. \A d \in Stamper' : d = e
    BY <2>2 DEF AttemptsAreCurrent, StampersStay
  <2>7. \A r \in Live' : rows'[r].attempt = exec'[e].attempt
    BY <2>1, <2>2 DEF AttemptsAreCurrent, LiveStays
  <2>8. \A p \in Poller : poll'[p].pc # "idle" => poll'[p].attempt = exec'[e].attempt
    BY <2>1, <2>2 DEF AttemptsAreCurrent, PollersStay
  <2>9. QED
    BY <1>1, <2>1, <2>2, <2>5, <2>6, <2>7, <2>8 DEF AttemptsAreCurrent
<1>5. ASSUME cadence'.attempts > 0
      PROVE  Recorded(cadence.attempts, 0)'
  <2>1. PICK k : k = cadence.attempts
    OBVIOUS
  <2>2. Recorded(k, 0)
    BY <1>1, <1>5, <2>1 DEF AttemptsAreCurrent
  <2>3. Recorded(k, 0)'
    BY <2>2, RecordedStays
  <2>4. QED
    BY <1>1, <2>1, <2>3 DEF Recorded
<1>6. QED
  BY <1>2, <1>3, <1>4, <1>5 DEF AttemptsAreCurrent

\* The days of the attempts.
LEMMA DaysKept ==
    ASSUME TypeInv, DaysAreApart, LiveStays, PollersStay, DaysStay, CountStays,
           UNCHANGED today
    PROVE  DaysAreApart'
<1>1. \A e \in Executor : exec'[e].day <= today'
  BY DEF DaysAreApart, DaysStay, TypeInv, TypeOK, Exec
<1>2. QED
  BY <1>1 DEF DaysAreApart, LiveStays, PollersStay, CountStays

\* A call that ended for good is left alone by whoever does not work on it.
LEMMA SettledKept ==
    ASSUME \A c \in CallId : Settled(c) => calls'[c] = calls[c],
           \A e \in Executor : exec'[e].pc \in {"dial", "link"} =>
               \/ exec[e].pc \in {"dial", "link"} /\ exec'[e].call = exec[e].call
               \/ ~Settled(exec'[e].call),
           \A h \in Handler : handler'[h].pc = "claimed" =>
               \/ handler'[h] = handler[h]
               \/ ~Settled(handler'[h].call)
    PROVE  SettledStay
<1> SUFFICES ASSUME NEW c \in CallId, Settled(c)
             PROVE  Settled(c)' /\ calls'[c] = calls[c]
  BY DEF SettledStay
<1>1. calls'[c] = calls[c]
  OBVIOUS
<1>2. \A e \in Executor : exec'[e].pc \in {"dial", "link"} => exec'[e].call # c
  BY DEF Settled
<1>3. \A h \in Handler : handler'[h].pc = "claimed" => handler'[h].call # c
  BY DEF Settled
<1>4. QED
  BY <1>1, <1>2, <1>3 DEF Settled

\* The tables, taken together.
RowsStay == LiveStays /\ TargetsStay /\ LinksStay
PollsStay == PollersStay /\ PushesStay
ExecsStay == CarriersStay /\ StampersStay /\ DaysStay

\* A step that only lets go of things keeps the whole invariant.
LEMMA QuietKept ==
    ASSUME TypeInv, NumberInv, RowsStay, JobsFit, UNCHANGED callVars,
           PollsStay, ExecsStay, DialsStay, OutcomesStay, CountStays, UNCHANGED today
    PROVE  NumberInv'
<1> USE DEF NumberInv, RowsStay, PollsStay, ExecsStay
<1>1. RecordsStay
  BY DEF RecordsStay, callVars
<1>2. SettledStay
  <2>1. \A e \in Executor : exec'[e].pc \in {"dial", "link"} =>
            exec[e].pc \in {"dial", "link"} /\ exec'[e].call = exec[e].call
    BY DEF DialsStay, PastCheck
  <2>2. \A h \in Handler : handler'[h].pc = "claimed" => handler'[h] = handler[h]
    BY DEF OutcomesStay
  <2>3. QED
    BY <2>1, <2>2, SettledKept DEF callVars
<1>3. CallsAreUnique'
  BY UniqueKept
<1>4. DialsAreCounted'
  BY CountedKept
<1>5. AttemptsMatch'
  BY <1>1, MatchKept
<1>6. PhonesInOrder'
  BY <1>2, PhonesKept DEF OutcomesStay
<1>7. AttemptsAreCurrent'
  BY <1>1, CurrentKept
<1>8. DaysAreApart'
  BY DaysKept
<1>9. QED
  BY <1>3, <1>4, <1>5, <1>6, <1>7, <1>8

\* A table that does not change.
LEMMA SameStays ==
    /\ UNCHANGED rows => RowsStay
    /\ UNCHANGED poll => PollsStay
    /\ UNCHANGED jobs => JobsFit
    /\ UNCHANGED exec => ExecsStay /\ DialsStay
    /\ UNCHANGED handler => OutcomesStay
    /\ UNCHANGED cadence => CountStays
    /\ UNCHANGED callVars => RecordsStay
<1>1. UNCHANGED rows => RowsStay
  BY DEF RowsStay, LiveStays, TargetsStay, LinksStay, Live
<1>2. UNCHANGED poll => PollsStay
  BY DEF PollsStay, PollersStay, PushesStay
<1>3. UNCHANGED exec => ExecsStay /\ DialsStay
  BY DEF ExecsStay, CarriersStay, StampersStay, Stamper, DaysStay, DialsStay
<1>4. QED
  BY <1>1, <1>2, <1>3 DEF JobsFit, OutcomesStay, CountStays, RecordsStay, callVars

\* Deleting rows, claiming one, giving a claim back.
LEMMA RowsGone ==
    ASSUME TypeInv, NEW gone, rows' = Without(gone)
    PROVE  RowsStay
<1>1. \A r \in RowId : /\ r \in gone => rows'[r] = NoRow("deleted")
                       /\ r \notin gone => rows'[r] = rows[r]
  BY DEF Without
<1>2. \A r \in Live' : r \in RowId /\ rows'[r] = rows[r] /\ r \in Live
  BY <1>1 DEF Live, NoRow
<1>3. LinksStay
  BY <1>1 DEF LinksStay, NoRow
<1>4. QED
  BY <1>2, <1>3 DEF RowsStay, LiveStays, TargetsStay

LEMMA RowsClaimed ==
    ASSUME TypeInv, NEW r \in Pending, rows' = Claimed(r)
    PROVE  RowsStay
<1>1. /\ r \in RowId
      /\ rows' = [rows EXCEPT ![r] = [rows[r] EXCEPT !.status = "dialing"]]
  BY DEF Pending, Claimed
<1>2. \A s \in RowId : s # r => rows'[s] = rows[s]
  BY <1>1 DEF TypeInv, TypeOK
<1>3. /\ rows'[r].status = "dialing"
      /\ rows'[r].call = rows[r].call
      /\ rows'[r].attempt = rows[r].attempt
      /\ rows'[r].phone = rows[r].phone
  BY <1>1 DEF TypeInv, TypeOK, Row
<1>4. QED
  BY <1>1, <1>2, <1>3 DEF RowsStay, LiveStays, TargetsStay, LinksStay, Live, Pending

LEMMA RowsReverted ==
    ASSUME TypeInv, NEW r, rows' = Reverted(r)
    PROVE  RowsStay
<1>1. CASE r # None /\ r \in Live
  <2>1. /\ r \in RowId
        /\ rows' = [rows EXCEPT ![r] = [rows[r] EXCEPT !.status = "pending",
                                                       !.call = None]]
    BY <1>1 DEF Reverted, Live
  <2>2. \A s \in RowId : s # r => rows'[s] = rows[s]
    BY <2>1 DEF TypeInv, TypeOK
  <2>3. /\ rows'[r].status = "pending"
        /\ rows'[r].call = None
        /\ rows'[r].attempt = rows[r].attempt
        /\ rows'[r].phone = rows[r].phone
    BY <2>1 DEF TypeInv, TypeOK, Row
  <2>4. QED
    BY <1>1, <2>1, <2>2, <2>3 DEF RowsStay, LiveStays, TargetsStay, LinksStay, Live
<1>2. CASE ~(r # None /\ r \in Live)
  BY <1>2, SameStays DEF Reverted
<1>3. QED
  BY <1>1, <1>2

\* An executor that lets go, cleans up, or claims what it scanned.
LEMMA ExecsLetGo ==
    ASSUME TypeInv, NEW e \in Executor
    PROVE  /\ exec' = Finished(e) =>
                 ExecsStay /\ (exec[e].pc # "link" => DialsStay)
           /\ exec' = [exec EXCEPT ![e].pc = "cleanup"] =>
                 ExecsStay /\ (exec[e].pc # "link" => DialsStay)
           /\ exec' = [exec EXCEPT ![e].pc = "check"] /\ exec[e].pc = "scanned" =>
                 ExecsStay /\ DialsStay
           /\ exec' = [exec EXCEPT ![e].pc = "stamp"]
                 /\ exec[e].pc = "mark" /\ exec[e].phone = 0 =>
                 ExecsStay /\ DialsStay
<1>1. ASSUME exec' = Finished(e)
      PROVE  ExecsStay /\ (exec[e].pc # "link" => DialsStay)
  <2>1. exec'[e] = IdleExec /\ \A d \in Executor : d # e => exec'[d] = exec[d]
    BY <1>1 DEF Finished, TypeInv, TypeOK
  <2>2. QED
    BY <2>1 DEF ExecsStay, CarriersStay, StampersStay, Stamper, DaysStay, DialsStay,
       IdleExec, RowPC, DialPC, PastCheck
<1>2. ASSUME NEW pc \in {"cleanup", "check", "stamp"},
             exec' = [exec EXCEPT ![e].pc = pc],
             pc = "check" => exec[e].pc = "scanned",
             pc = "stamp" => exec[e].pc = "mark" /\ exec[e].phone = 0
      PROVE  ExecsStay /\ (exec[e].pc # "link" => DialsStay)
  <2>1. \A d \in Executor : d # e => exec'[d] = exec[d]
    BY <1>2 DEF TypeInv, TypeOK
  <2>2. /\ exec'[e].pc = pc
        /\ exec'[e].row = exec[e].row
        /\ exec'[e].attempt = exec[e].attempt
        /\ exec'[e].phone = exec[e].phone
        /\ exec'[e].day = exec[e].day
    BY <1>2 DEF TypeInv, TypeOK, Exec
  <2>3. CarriersStay /\ DaysStay
    BY <1>2, <2>1, <2>2 DEF CarriersStay, DaysStay, RowPC, DialPC
  <2>4. StampersStay
    BY <1>2, <2>1, <2>2 DEF StampersStay, Stamper
  <2>5. exec[e].pc # "link" => DialsStay
    BY <1>2, <2>1, <2>2 DEF DialsStay, PastCheck
  <2>6. QED
    BY <2>3, <2>4, <2>5 DEF ExecsStay
<1>3. QED
  BY <1>1, <1>2

\* Polls.  A poll reads the count of the attempts after every row it finds
\* was written, and inserts when there is none.
LEMMA PollNumber ==
    ASSUME ScheduledOnly, Inv, NumberInv, NEW p \in Poller, PollStep(p)
    PROVE  NumberInv'
<1> USE DEF NumberInv, Inv
<1>1. \A q \in Poller : q = p
  BY DEF ScheduledOnly
<1>2. /\ UNCHANGED <<exec, handler, callVars, cadence, today>>
      /\ OutcomesStay /\ ExecsStay /\ DialsStay /\ CountStays /\ RecordsStay
  <2>1. UNCHANGED <<exec, handler, callVars, cadence, today>>
    BY DEF PollStep, PollReadState, PollReadQueue, ManualReadState,
       EnqueueLookup, EnqueueRow, EnqueueJob, ManualRollback
  <2>2. QED
    BY <2>1, SameStays
<1>3. CallsAreUnique' /\ DialsAreCounted'
  BY <1>2, UniqueKept, CountedKept
<1>4. SettledStay
  <2>1. \A e \in Executor : exec'[e] = exec[e]
    BY <1>2
  <2>2. QED
    BY <1>2, <2>1, SettledKept DEF callVars
<1>5. CASE PollReadState(p)
  <2>1. /\ poll[p].pc = "idle"
        /\ Eligible
        /\ poll' = [poll EXCEPT ![p] = Attempt("read", FALSE)]
        /\ UNCHANGED <<rows, jobs>>
    BY <1>5 DEF PollReadState, queueVars
  <2>2. /\ poll'[p].pc = "read"
        /\ poll'[p].attempt = cadence.attempts + 1
    BY <2>1 DEF Attempt, TypeInv, TypeOK
  <2>3. RowsStay /\ PushesStay /\ JobsFit
    BY <1>1, <2>1, <2>2, SameStays DEF PushesStay
  <2>4. AttemptsMatch'
    BY <1>2, <2>1, <2>3, MatchKept DEF RowsStay, ExecsStay
  <2>5. PhonesInOrder'
    BY <1>2, <1>4, <2>1, <2>3, PhonesKept DEF RowsStay, ExecsStay
  <2>6. cadence.attempts \in Nat /\ cadence.last \in Nat
    BY DEF TypeInv, TypeOK
  <2>7. Live' = Live
    BY <2>1 DEF Live
  <2>8. Stamper' = Stamper
    BY <1>2 DEF Stamper
  <2>9. AttemptsAreCurrent'
    <3>1. Current(cadence.attempts + 1)
      BY <2>6 DEF Current
    <3>2. \A r \in Live : rows[r].attempt <= cadence.attempts + 1
      BY <2>6 DEF AttemptsAreCurrent, Current
    <3>3. \A q \in Poller : /\ Current(poll[q].attempt)'
                            /\ \A r \in Live' : rows'[r].attempt <= poll'[q].attempt
      BY <1>1, <1>2, <2>1, <2>2, <2>7, <3>1, <3>2 DEF Current
    <3>4. \A r \in Live' : Current(rows[r].attempt)'
      BY <1>2, <2>1, <2>7 DEF AttemptsAreCurrent, Current
    <3>5. \A a, n : Recorded(a, n)' = Recorded(a, n)
      BY <1>2 DEF Recorded, callVars
    <3>6. ASSUME NEW e \in Stamper'
          PROVE  /\ exec'[e].attempt = cadence'.attempts + 1
                 /\ Recorded(exec[e].attempt, 0)'
                 /\ \A r \in Live' : rows'[r].attempt = exec'[e].attempt
                 /\ \A q \in Poller : poll'[q].pc # "idle"
                                          => poll'[q].attempt = exec'[e].attempt
                 /\ \A d \in Stamper' : d = e
      <4>1. e \in Stamper /\ exec' = exec /\ cadence' = cadence /\ rows' = rows
        BY <1>2, <2>1, <2>8
      <4>2. exec[e].attempt = cadence.attempts + 1
        BY <4>1 DEF AttemptsAreCurrent
      <4>3. Recorded(exec[e].attempt, 0)'
        BY <3>5, <4>1 DEF AttemptsAreCurrent, Recorded
      <4>4. \A q \in Poller : poll'[q].attempt = exec'[e].attempt
        BY <1>1, <2>2, <4>1, <4>2
      <4>5. QED
        BY <2>7, <2>8, <4>1, <4>2, <4>3, <4>4 DEF AttemptsAreCurrent
    <3>7. cadence'.attempts > 0 => Recorded(cadence.attempts, 0)'
      BY <1>2 DEF AttemptsAreCurrent, Recorded, callVars
    <3>8. QED
      BY <3>3, <3>4, <3>6, <3>7 DEF AttemptsAreCurrent
  <2>10. DaysAreApart'
    <3>1. cadence.last # today
      BY <2>1 DEF Eligible
    <3>2. QED
      BY <1>2, <3>1 DEF DaysAreApart
  <2>11. QED
    BY <1>3, <2>4, <2>5, <2>9, <2>10
<1>6. CASE PollReadQueue(p) \/ EnqueueLookup(p)
  <2>1. UNCHANGED <<rows, jobs>>
    BY <1>6 DEF PollReadQueue, EnqueueLookup, queueVars
  <2>2. /\ poll[p].pc # "idle"
        /\ poll'[p].pc # "push"
        /\ poll'[p].pc # "idle" => poll'[p].attempt = poll[p].attempt
    <3>1. CASE PollReadQueue(p)
      <4>1. poll[p].pc # "idle"
        BY <3>1 DEF PollReadQueue
      <4>2. poll'[p] = [poll[p] EXCEPT !.pc = "lookup"] \/ poll'[p] = IdlePoll
        BY <3>1 DEF PollReadQueue, TypeInv, TypeOK
      <4>3. poll[p] \in Poll
        BY DEF TypeInv, TypeOK
      <4>4. QED
        BY <4>1, <4>2, <4>3 DEF IdlePoll, Poll
    <3>2. CASE EnqueueLookup(p)
      <4>1. Live = {}
        BY <3>2 DEF EnqueueLookup, DialInv, OneLiveRow
      <4>2. RowsOfDay(poll[p].day) = {}
        BY <4>1 DEF RowsOfDay
      <4>3. poll' = [poll EXCEPT ![p].pc = "write", ![p].row = None]
        BY <3>2, <4>2 DEF EnqueueLookup
      <4>4. poll[p].pc # "idle"
        BY <3>2 DEF EnqueueLookup
      <4>5. QED
        BY <4>3, <4>4 DEF TypeInv, TypeOK, Poll
    <3>3. QED
      BY <1>6, <3>1, <3>2
  <2>3. PollsStay
    BY <1>1, <2>2 DEF PollsStay, PollersStay, PushesStay
  <2>4. QED
    BY <1>2, <2>1, <2>3, SameStays, QuietKept
<1>7. CASE EnqueueRow(p)
  <2>1. Live = {} /\ poll[p].row = None /\ poll[p].pc = "write"
    BY <1>7 DEF EnqueueRow, DialInv, OneLiveRow
  <2>2. RowsOfDay(poll[p].day) = {}
    BY <2>1 DEF RowsOfDay
  <2>3. PICK s \in Unused :
            /\ rows' = [rows EXCEPT ![s] = FreshRow(p)]
            /\ poll' = [poll EXCEPT ![p].pc = "push", ![p].row = s]
    BY <1>7, <2>1, <2>2 DEF EnqueueRow
  <2>4. /\ s \in RowId /\ rows[s].status = "unused"
        /\ rows'[s] = FreshRow(p)
        /\ \A r \in RowId : r # s => rows'[r] = rows[r]
    BY <2>3 DEF Unused, TypeInv, TypeOK
  <2>5. Live' = {s}
    BY <2>1, <2>4 DEF Live, FreshRow
  <2>6. /\ poll'[p].pc = "push"
        /\ poll'[p].row = s
        /\ poll'[p].attempt = poll[p].attempt
    BY <2>3 DEF TypeInv, TypeOK, Poll
  <2>7. /\ rows'[s].status = "pending"
        /\ rows'[s].attempt = poll[p].attempt
        /\ rows'[s].phone = 0
        /\ rows'[s].call = None
    BY <2>4 DEF FreshRow
  <2>8. UNCHANGED jobs
    BY <1>7 DEF EnqueueRow
  <2>9. \A r \in RowId : \A a : Belongs(r, a) => Belongs(r, a)'
    BY <2>1, <2>4, <2>5 DEF Belongs
  <2>10. AttemptsMatch'
    <3>1. \A r \in RowId : rows'[r].call # None =>
              /\ calls'[rows'[r].call].retell
              /\ calls'[rows'[r].call].attempt = rows'[r].attempt
      BY <1>2, <2>4, <2>7 DEF AttemptsMatch, callVars
    <3>2. \A j \in jobs' : Belongs(j.row, j.attempt)'
      BY <2>8, <2>9 DEF AttemptsMatch, TypeInv, TypeOK, Job
    <3>3. Belongs(poll[p].row, poll[p].attempt)'
      BY <2>6, <2>7 DEF Belongs
    <3>4. ASSUME NEW e \in Executor, exec'[e].pc \in RowPC
          PROVE  exec'[e].row \in RowId /\ Belongs(exec[e].row, exec[e].attempt)'
      <4>1. PICK r, a : r = exec[e].row /\ a = exec[e].attempt
        OBVIOUS
      <4>2. r \in RowId /\ Belongs(r, a) /\ exec' = exec
        BY <1>2, <3>4, <4>1 DEF AttemptsMatch
      <4>3. Belongs(r, a)'
        BY <2>9, <4>2
      <4>4. QED
        BY <4>1, <4>2, <4>3 DEF Belongs
    <3>5. QED
      BY <1>1, <3>1, <3>2, <3>3, <3>4 DEF AttemptsMatch
  <2>11. PhonesInOrder'
    <3>1. Reached(rows[s].attempt, rows[s].phone)'
      BY <2>7 DEF Reached
    <3>2. \A a, n : Reached(a, n) => Reached(a, n)'
      BY <1>4, ReachedStays
    <3>3. \A j \in jobs' : Reached(j.attempt, j.phone)'
      BY <2>8, <3>2 DEF PhonesInOrder
    <3>4. ASSUME NEW e \in Executor, exec'[e].pc \in RowPC
          PROVE  Reached(exec[e].attempt, exec[e].phone)'
      <4>1. PICK a, n : a = exec[e].attempt /\ n = exec[e].phone
        OBVIOUS
      <4>2. Reached(a, n) /\ exec' = exec
        BY <1>2, <3>4, <4>1 DEF PhonesInOrder
      <4>3. Reached(a, n)'
        BY <3>2, <4>2
      <4>4. QED
        BY <4>1, <4>2, <4>3 DEF Reached
    <3>5. ASSUME NEW h \in Handler, handler'[h].pc = "chain"
          PROVE  Settled(handler[h].call)'
      <4>1. PICK c : c = handler[h].call
        OBVIOUS
      <4>2. c \in CallId /\ Settled(c) /\ handler' = handler
        BY <1>2, <3>5, <4>1 DEF PhonesInOrder, TypeInv, Linked
      <4>3. Settled(c)'
        BY <1>4, <4>2 DEF SettledStay
      <4>4. QED
        BY <4>1, <4>2, <4>3 DEF Settled
    <3>6. QED
      BY <2>5, <3>1, <3>3, <3>4, <3>5 DEF PhonesInOrder
  <2>12. Current(poll[p].attempt) /\ poll[p].attempt \in Nat
    BY <2>1 DEF AttemptsAreCurrent, TypeInv, TypeOK, Poll
  <2>13. AttemptsAreCurrent'
    <3>1. \A q \in Poller : /\ Current(poll[q].attempt)'
                            /\ \A r \in Live' : rows'[r].attempt <= poll'[q].attempt
      BY <1>1, <1>2, <2>5, <2>6, <2>7, <2>12 DEF Current
    <3>2. \A r \in Live' : Current(rows[r].attempt)'
      BY <1>2, <2>5, <2>7, <2>12 DEF Current
    <3>3. ASSUME NEW e \in Stamper'
          PROVE  /\ exec'[e].attempt = cadence'.attempts + 1
                 /\ Recorded(exec[e].attempt, 0)'
                 /\ \A r \in Live' : rows'[r].attempt = exec'[e].attempt
                 /\ \A q \in Poller : poll'[q].pc # "idle"
                                          => poll'[q].attempt = exec'[e].attempt
                 /\ \A d \in Stamper' : d = e
      <4>1. e \in Stamper /\ exec' = exec /\ cadence' = cadence /\ Stamper' = Stamper
        BY <1>2 DEF Stamper
      <4>2. Recorded(exec[e].attempt, 0)'
        BY <1>2, <4>1 DEF AttemptsAreCurrent, Recorded, callVars
      <4>3. poll[p].attempt = exec[e].attempt
        BY <2>1, <4>1 DEF AttemptsAreCurrent
      <4>4. QED
        BY <1>1, <2>5, <2>6, <2>7, <4>1, <4>2, <4>3 DEF AttemptsAreCurrent
    <3>4. cadence'.attempts > 0 => Recorded(cadence.attempts, 0)'
      BY <1>2 DEF AttemptsAreCurrent, Recorded, callVars
    <3>5. QED
      BY <3>1, <3>2, <3>3, <3>4 DEF AttemptsAreCurrent
  <2>14. DaysAreApart'
    BY <1>1, <1>2, <2>1, <2>5, <2>6, <2>7 DEF DaysAreApart
  <2>15. QED
    BY <1>3, <2>10, <2>11, <2>13, <2>14
<1>8. CASE EnqueueJob(p)
  <2>1. /\ poll[p].pc = "push"
        /\ jobs' = jobs \cup {[row |-> poll[p].row, attempt |-> poll[p].attempt,
                               phone |-> 0]}
        /\ poll' = [poll EXCEPT ![p] = IdlePoll]
        /\ UNCHANGED rows
    BY <1>8 DEF EnqueueJob
  <2>2. poll'[p].pc = "idle"
    BY <2>1 DEF IdlePoll, TypeInv, TypeOK
  <2>3. PollsStay /\ RowsStay
    BY <1>1, <2>1, <2>2, SameStays DEF PollsStay, PollersStay, PushesStay
  <2>4. JobsFit
    <3>1. \A j \in jobs' \ jobs : j = [row |-> poll[p].row,
                                     attempt |-> poll[p].attempt, phone |-> 0]
      BY <2>1
    <3>2. Belongs(poll[p].row, poll[p].attempt) /\ poll[p].row \in RowId
      BY <2>1 DEF AttemptsMatch, Linked, TypeInv
    <3>3. QED
      BY <3>1, <3>2 DEF JobsFit, Reached
  <2>5. QED
    BY <1>2, <2>1, <2>3, <2>4, QuietKept
<1>9. CASE ManualRollback(p)
  <2>1. /\ rows' = Without({r \in Pending : rows[r].day = poll[p].day})
        /\ poll' = [poll EXCEPT ![p] = IdlePoll]
        /\ UNCHANGED jobs
    BY <1>9 DEF ManualRollback
  <2>2. poll'[p].pc = "idle"
    BY <2>1 DEF IdlePoll, TypeInv, TypeOK
  <2>3. PollsStay /\ RowsStay
    BY <1>1, <2>1, <2>2, RowsGone DEF PollsStay, PollersStay, PushesStay
  <2>4. QED
    BY <1>2, <2>1, <2>3, SameStays, QuietKept
<1>10. CASE ManualReadState(p)
  BY <1>10 DEF ManualReadState, ScheduledOnly
<1>11. QED
  BY <1>5, <1>6, <1>7, <1>8, <1>9, <1>10 DEF PollStep

\* An executor takes a row up: a job or a scanned row, with its numbers.
LEMMA TakesRow ==
    ASSUME TypeInv, NumberInv, NEW e \in Executor, NEW pc \in {"check", "scanned"},
           NEW r \in RowId, NEW a, NEW n, Belongs(r, a), Reached(a, n),
           exec[e].pc = "idle",
           exec' = [exec EXCEPT ![e] = Dialing(pc, r, a, n)],
           RowsStay, UNCHANGED <<today, jobs, callVars, cadence, handler, poll>>
    PROVE  NumberInv'
<1>1. /\ exec'[e] = Dialing(pc, r, a, n)
      /\ \A d \in Executor : d # e => exec'[d] = exec[d]
  BY DEF TypeInv, TypeOK
<1>2. /\ exec'[e].pc = pc
      /\ exec'[e].row = r
      /\ exec'[e].attempt = a
      /\ exec'[e].phone = n
      /\ exec'[e].day = 0
  BY <1>1 DEF Dialing
<1>3. CarriersStay
  BY <1>1, <1>2 DEF CarriersStay
<1>4. StampersStay /\ DaysStay /\ DialsStay
  BY <1>1, <1>2 DEF StampersStay, Stamper, DaysStay, DialsStay, PastCheck
<1>5. QED
  BY <1>3, <1>4, SameStays, QuietKept DEF ExecsStay

\* Claims and scans.
LEMMA StartNumber ==
    ASSUME ScheduledOnly, Inv, NumberInv, StartStep
    PROVE  NumberInv'
<1> USE DEF Inv
<1>1. ASSUME NEW w \in Worker, NEW j \in jobs, WorkerClaim(w, j)
      PROVE  NumberInv'
  <2>1. /\ exec[w].pc = "idle"
        /\ j.row \in Pending
        /\ rows' = Claimed(j.row)
        /\ exec' = [exec EXCEPT ![w] = Dialing("check", j.row, j.attempt, j.phone)]
        /\ UNCHANGED <<today, jobs, callVars, cadence, handler, poll>>
    BY <1>1 DEF WorkerClaim, Claimable
  <2>2. /\ w \in Executor /\ j.row \in RowId
        /\ Belongs(j.row, j.attempt) /\ Reached(j.attempt, j.phone)
    BY <2>1 DEF Executor, Pending, NumberInv, AttemptsMatch, PhonesInOrder
  <2>3. RowsStay
    BY <2>1, RowsClaimed
  <2>4. QED
    BY <2>1, <2>2, <2>3, TakesRow
<1>2. ASSUME NEW d \in Drain, NEW r \in RowId, DrainScan(d, r)
      PROVE  NumberInv'
  <2>1. /\ exec[d].pc = "idle"
        /\ r \in Pending
        /\ exec' = [exec EXCEPT ![d] =
                       Dialing("scanned", r, rows[r].attempt, rows[r].phone)]
        /\ UNCHANGED <<today, rows, jobs, callVars, cadence, handler, poll>>
    BY <1>2 DEF DrainScan, queueVars
  <2>2. /\ d \in Executor
        /\ Belongs(r, rows[r].attempt) /\ Reached(rows[r].attempt, rows[r].phone)
    BY <2>1 DEF Executor, Pending, Live, Belongs, NumberInv, PhonesInOrder
  <2>3. QED
    BY <2>1, <2>2, SameStays, TakesRow
<1>3. ASSUME NEW d \in Drain, DrainClaim(d)
      PROVE  NumberInv'
  <2>1. /\ exec[d].pc = "scanned"
        /\ exec[d].row \in Pending
        /\ rows' = Claimed(exec[d].row)
        /\ exec' = [exec EXCEPT ![d].pc = "check"]
        /\ UNCHANGED <<today, jobs, callVars, cadence, handler, poll>>
    BY <1>3 DEF DrainClaim, Claimable
  <2>2. d \in Executor
    BY DEF Executor
  <2>3. RowsStay
    BY <2>1, RowsClaimed
  <2>4. ExecsStay /\ DialsStay
    BY <2>1, <2>2, ExecsLetGo
  <2>5. QED
    BY <2>1, <2>3, <2>4, SameStays, QuietKept
<1>4. ASSUME NEW e \in Executor, DrainSkip(e) \/ RetryLater(e)
      PROVE  NumberInv'
  <2>1. /\ exec[e].pc # "link"
        /\ exec' = Finished(e)
        /\ UNCHANGED <<today, rows, jobs, callVars, cadence, handler, poll>>
    BY <1>4 DEF DrainSkip, RetryLater, Finished, queueVars
  <2>2. ExecsStay /\ DialsStay
    BY <2>1, ExecsLetGo
  <2>3. QED
    BY <2>1, <2>2, SameStays, QuietKept
<1>5. Forcer = {}
  BY DEF ScheduledOnly
<1>6. QED
  BY <1>1, <1>2, <1>3, <1>4, <1>5 DEF StartStep, Executor

(***************************************************************************)
(* placeCall.  Whoever dials is alone, so what its check saw of the calls   *)
(* table still holds when Retell is asked.                                 *)
(***************************************************************************)
\* Past the check there is only the dialing executor itself.
LEMMA DialsAlone ==
    ASSUME Inv, NEW e \in Dialer,
           \A d \in Executor : d # e => exec'[d] = exec[d]
    PROVE  /\ \A d \in Executor : exec'[d].pc \in PastCheck => d = e
           /\ \A d \in Executor : exec[d].pc \in PastCheck => d = e
<1>1. \A d \in Executor : exec[d].pc \in PastCheck => d = e
  BY DialerHoldsTheRow DEF PastCheck, Dialer, DialPC
<1>2. QED
  BY <1>1

\* The parts that do not look at the accounts of the calls.
LEMMA OthersKept ==
    ASSUME TypeInv, NumberInv, RowsStay, JobsFit, PollsStay, CarriersStay, OutcomesStay,
           RecordsStay, SettledStay
    PROVE  /\ AttemptsMatch'
           /\ PhonesInOrder'
           /\ StampersStay /\ CountStays => AttemptsAreCurrent'
           /\ DaysStay /\ CountStays /\ UNCHANGED today => DaysAreApart'
  BY MatchKept, PhonesKept, CurrentKept, DaysKept
     DEF NumberInv, RowsStay, PollsStay, OutcomesStay

\* No dial is on record yet for the number that passes the check.
LEMMA CheckNumber ==
    ASSUME Inv, NumberInv, NEW e \in Executor, CheckPasses(e)
    PROVE  NumberInv'
<1> USE DEF Inv
<1>1. /\ exec[e].pc = "check"
      /\ ~AlreadyDialed(e)
      /\ exec' = [exec EXCEPT ![e].pc = "record"]
      /\ UNCHANGED <<today, rows, jobs, callVars, cadence, handler, poll>>
  BY DEF CheckPasses, queueVars
<1>2. /\ exec'[e].pc = "record"
      /\ exec'[e].row = exec[e].row
      /\ exec'[e].attempt = exec[e].attempt
      /\ exec'[e].phone = exec[e].phone
      /\ exec'[e].day = exec[e].day
      /\ \A d \in Executor : d # e => exec'[d] = exec[d]
  BY <1>1 DEF TypeInv, TypeOK, Exec
<1>3. e \in Dialer
  BY <1>1 DEF Dialer, DialPC
<1>4. /\ \A d \in Executor : exec'[d].pc \in PastCheck => d = e
      /\ \A d \in Executor : exec[d].pc \notin PastCheck
  BY <1>1, <1>2, <1>3, DialsAlone DEF PastCheck
<1>5. ~Recorded(exec[e].attempt, exec[e].phone)
  BY <1>1 DEF Recorded, AlreadyDialed, ActiveCalls, NumberInv, CallsAreUnique
<1>6. \A c \in CallId : rings[c] # lost[c] => calls[c].retell
  BY <1>4 DEF NumberInv, DialsAreCounted, PastCheck
<1>7. \A c \in CallId : /\ calls[c].attempt = exec[e].attempt
                        /\ calls[c].phone = exec[e].phone
                        => rings[c] = lost[c]
  BY <1>5, <1>6 DEF Recorded
<1>8. calls' = calls /\ rings' = rings /\ lost' = lost
  BY <1>1 DEF callVars
<1>9. DialsAreCounted'
  <2>1. ~Recorded(exec[e].attempt, exec[e].phone)'
    BY <1>2, <1>5, <1>8 DEF Recorded
  <2>2. QED
    BY <1>2, <1>4, <1>6, <1>7, <1>8, <2>1 DEF DialsAreCounted, PastCheck
<1>10. CarriersStay /\ StampersStay /\ DaysStay
  BY <1>1, <1>2 DEF CarriersStay, StampersStay, Stamper, DaysStay, RowPC, DialPC
<1>11. SettledStay
  BY <1>1, <1>2, <1>8, SettledKept
<1>12. CallsAreUnique'
  BY <1>1, SameStays, UniqueKept DEF NumberInv
<1>13. QED
  BY <1>1, <1>9, <1>10, <1>11, <1>12, SameStays, OthersKept DEF NumberInv

\* The calls row of the dial is inserted ...
LEMMA RecordNewNumber ==
    ASSUME Inv, NumberInv, NEW e \in Executor, RecordNew(e)
    PROVE  NumberInv'
<1> USE DEF Inv
<1>1. PICK c \in CallId :
          /\ calls[c].status = "unused"
          /\ calls' = [calls EXCEPT ![c] = QueuedCall(e)]
          /\ exec' = [exec EXCEPT ![e].pc = "dial", ![e].call = c]
  BY DEF RecordNew
<1>2. /\ exec[e].pc = "record"
      /\ ActiveCalls(exec[e].attempt, exec[e].phone) = {}
      /\ UNCHANGED <<today, rows, jobs, rings, lost, cadence, handler, poll>>
  BY DEF RecordNew, queueVars
<1>3. /\ exec'[e].pc = "dial"
      /\ exec'[e].call = c
      /\ exec'[e].row = exec[e].row
      /\ exec'[e].attempt = exec[e].attempt
      /\ exec'[e].phone = exec[e].phone
      /\ exec'[e].day = exec[e].day
      /\ \A d \in Executor : d # e => exec'[d] = exec[d]
  BY <1>1 DEF TypeInv, TypeOK, Exec
<1>4. /\ calls'[c].status = "queued"
      /\ calls'[c].attempt = exec[e].attempt
      /\ calls'[c].phone = exec[e].phone
      /\ ~calls'[c].retell
      /\ \A d \in CallId : d # c => calls'[d] = calls[d]
  BY <1>1 DEF QueuedCall, TypeInv, TypeOK
<1>5. ~calls[c].retell /\ rings[c] = 0 /\ lost[c] = 0
  BY <1>1 DEF NumberInv, CallsAreUnique
<1>6. e \in Dialer
  BY <1>2 DEF Dialer, DialPC
<1>7. /\ \A d \in Executor : exec'[d].pc \in PastCheck => d = e
      /\ \A d \in Executor : exec[d].pc \in PastCheck => d = e
  BY <1>3, <1>6, DialsAlone
<1>8. CallsAreUnique'
  <2>1. ASSUME NEW a \in CallId, NEW b \in CallId,
               calls'[a].status \in ActiveStatus, calls'[b].status \in ActiveStatus,
               calls'[a].attempt = calls'[b].attempt,
               calls'[a].phone = calls'[b].phone
        PROVE  a = b
    BY <1>2, <1>4, <2>1 DEF NumberInv, CallsAreUnique, ActiveCalls, ActiveStatus
  <2>2. \A d \in CallId :
            /\ calls'[d].retell => calls'[d].status \in {"dialing", "completed"}
            /\ calls'[d].status = "unused" => rings'[d] = 0 /\ lost'[d] = 0
    BY <1>2, <1>4 DEF NumberInv, CallsAreUnique
  <2>3. \A h \in Handler : handler'[h].pc # "idle"
                             => calls'[handler'[h].call].status # "unused"
    BY <1>2, <1>4 DEF NumberInv, CallsAreUnique, TypeInv, Linked
  <2>4. QED
    BY <2>1, <2>2, <2>3 DEF CallsAreUnique
<1>9. DialsAreCounted'
  <2>1. ~Recorded(exec[e].attempt, exec[e].phone)'
    <3>1. ~Recorded(exec[e].attempt, exec[e].phone)
      BY <1>2 DEF NumberInv, DialsAreCounted
    <3>2. QED
      BY <1>3, <1>4, <3>1 DEF Recorded
  <2>2. \A d \in CallId : /\ calls'[d].attempt = exec'[e].attempt
                          /\ calls'[d].phone = exec'[e].phone
                          => rings'[d] = lost'[d]
    BY <1>2, <1>3, <1>4, <1>5 DEF NumberInv, DialsAreCounted
  <2>3. \A d \in CallId : rings'[d] # lost'[d] => calls'[d].retell
    BY <1>2, <1>4, <1>5, <1>7 DEF NumberInv, DialsAreCounted, PastCheck
  <2>4. QED
    BY <1>3, <1>4, <1>7, <2>1, <2>2, <2>3
       DEF DialsAreCounted, PastCheck, ActiveStatus
<1>10. CarriersStay /\ StampersStay /\ DaysStay
  BY <1>2, <1>3 DEF CarriersStay, StampersStay, Stamper, DaysStay, RowPC, DialPC
<1>11. SettledStay
  BY <1>1, <1>2, <1>3, <1>4, SettledKept DEF Settled
<1>12. RecordsStay
  BY <1>4, <1>5 DEF RecordsStay
<1>13. QED
  BY <1>2, <1>8, <1>9, <1>10, <1>11, <1>12, SameStays, OthersKept DEF NumberInv

\* ... or a queued one is used again.
LEMMA RecordReuseNumber ==
    ASSUME Inv, NumberInv, NEW e \in Executor, RecordReuse(e)
    PROVE  NumberInv'
<1> USE DEF Inv
<1>1. PICK c \in ActiveCalls(exec[e].attempt, exec[e].phone) :
          /\ calls[c].status = "queued"
          /\ exec' = [exec EXCEPT ![e].pc = "dial", ![e].call = c]
  BY DEF RecordReuse
<1>2. /\ exec[e].pc = "record"
      /\ UNCHANGED <<today, rows, jobs, callVars, cadence, handler, poll>>
  BY DEF RecordReuse, queueVars
<1>3. /\ exec'[e].pc = "dial"
      /\ exec'[e].call = c
      /\ exec'[e].row = exec[e].row
      /\ exec'[e].attempt = exec[e].attempt
      /\ exec'[e].phone = exec[e].phone
      /\ exec'[e].day = exec[e].day
      /\ \A d \in Executor : d # e => exec'[d] = exec[d]
  BY <1>1 DEF TypeInv, TypeOK, Exec
<1>4. /\ c \in CallId
      /\ calls[c].attempt = exec[e].attempt
      /\ calls[c].phone = exec[e].phone
  BY DEF ActiveCalls
<1>5. e \in Dialer
  BY <1>2 DEF Dialer, DialPC
<1>6. /\ \A d \in Executor : exec'[d].pc \in PastCheck => d = e
      /\ \A d \in Executor : exec[d].pc \in PastCheck => d = e
  BY <1>3, <1>5, DialsAlone
<1>7. calls' = calls /\ rings' = rings /\ lost' = lost
  BY <1>2 DEF callVars
<1>8. DialsAreCounted'
  <2>1. ~Recorded(exec[e].attempt, exec[e].phone)'
    BY <1>2, <1>3, <1>7 DEF NumberInv, DialsAreCounted, Recorded
  <2>2. \A d \in CallId : /\ calls[d].attempt = exec[e].attempt
                          /\ calls[d].phone = exec[e].phone
                          => rings[d] = lost[d]
    BY <1>2 DEF NumberInv, DialsAreCounted
  <2>3. \A d \in CallId : rings[d] # lost[d] => calls[d].retell
    BY <1>2, <1>6 DEF NumberInv, DialsAreCounted, PastCheck
  <2>4. /\ exec'[e].call \in CallId
        /\ calls'[exec'[e].call].status \in ActiveStatus
        /\ calls'[exec'[e].call].attempt = exec'[e].attempt
        /\ calls'[exec'[e].call].phone = exec'[e].phone
    BY <1>1, <1>3, <1>4, <1>7 DEF ActiveStatus
  <2>5. \A d \in CallId : /\ calls'[d].attempt = exec'[e].attempt
                          /\ calls'[d].phone = exec'[e].phone
                          => rings'[d] = lost'[d]
    BY <1>3, <1>7, <2>2
  <2>6. \A d \in CallId : rings'[d] # lost'[d] => calls'[d].retell
    BY <1>7, <2>3
  <2>7. QED
    BY <1>3, <1>6, <2>1, <2>4, <2>5, <2>6 DEF DialsAreCounted, PastCheck
<1>9. CarriersStay /\ StampersStay /\ DaysStay
  BY <1>2, <1>3 DEF CarriersStay, StampersStay, Stamper, DaysStay, RowPC, DialPC
<1>10. SettledStay
  BY <1>1, <1>2, <1>3, <1>7, SettledKept DEF Settled
<1>11. CallsAreUnique'
  BY <1>2, SameStays, UniqueKept DEF NumberInv
<1>12. QED
  BY <1>2, <1>8, <1>9, <1>10, <1>11, SameStays, OthersKept DEF NumberInv

\* Retell rings: what is not on record yet is what is being linked.
LEMMA RetellNumber ==
    ASSUME Inv, NumberInv, NEW e \in Executor, RetellAccepts(e)
    PROVE  NumberInv'
<1> USE DEF Inv
<1>1. PICK c : c = exec[e].call
  OBVIOUS
<1>2. /\ exec[e].pc = "dial"
      /\ rings' = [rings EXCEPT ![c] = @ + 1]
      /\ exec' = [exec EXCEPT ![e].pc = "link", ![e].day = today]
      /\ UNCHANGED <<today, rows, jobs, calls, lost, cadence, handler, poll>>
  BY <1>1 DEF RetellAccepts, queueVars
<1>3. /\ exec'[e].pc = "link"
      /\ exec'[e].call = c
      /\ exec'[e].row = exec[e].row
      /\ exec'[e].attempt = exec[e].attempt
      /\ exec'[e].phone = exec[e].phone
      /\ exec'[e].day = today
      /\ \A d \in Executor : d # e => exec'[d] = exec[d]
  BY <1>1, <1>2 DEF TypeInv, TypeOK, Exec
<1>4. /\ c \in CallId
      /\ calls[c].status \in ActiveStatus
      /\ calls[c].attempt = exec[e].attempt
      /\ calls[c].phone = exec[e].phone
      /\ rings[c] = lost[c]
  BY <1>1, <1>2 DEF NumberInv, DialsAreCounted
<1>5. /\ rings'[c] = lost[c] + 1
      /\ \A d \in CallId : d # c => rings'[d] = rings[d]
  BY <1>2, <1>4 DEF TypeInv, TypeOK
<1>6. e \in Dialer
  BY <1>2 DEF Dialer, DialPC
<1>7. /\ \A d \in Executor : exec'[d].pc \in PastCheck => d = e
      /\ \A d \in Executor : exec[d].pc \in PastCheck => d = e
  BY <1>3, <1>6, DialsAlone
<1>8. CallsAreUnique'
  BY <1>2, <1>4, <1>5 DEF NumberInv, CallsAreUnique, ActiveStatus
<1>9. DialsAreCounted'
  <2>1. ~Recorded(exec[e].attempt, exec[e].phone)'
    BY <1>2, <1>3 DEF NumberInv, DialsAreCounted, Recorded
  <2>2. \A d \in CallId : rings'[d] # lost'[d] => calls'[d].retell \/ d = c
    BY <1>2, <1>5, <1>7 DEF NumberInv, DialsAreCounted, PastCheck
  <2>3. /\ exec'[e].call \in CallId
        /\ calls'[exec'[e].call].status \in ActiveStatus
        /\ calls'[exec'[e].call].attempt = exec'[e].attempt
        /\ calls'[exec'[e].call].phone = exec'[e].phone
        /\ rings'[exec'[e].call] = lost'[exec'[e].call] + 1
    BY <1>2, <1>3, <1>4, <1>5
  <2>4. QED
    BY <1>3, <1>7, <2>1, <2>2, <2>3 DEF DialsAreCounted, PastCheck
<1>10. CarriersStay /\ StampersStay
  BY <1>2, <1>3 DEF CarriersStay, StampersStay, Stamper, RowPC, DialPC
<1>11. SettledStay
  BY <1>1, <1>2, <1>3, SettledKept
<1>12. RecordsStay
  BY <1>2 DEF RecordsStay
<1>13. AttemptsMatch' /\ PhonesInOrder' /\ AttemptsAreCurrent'
  BY <1>2, <1>10, <1>11, <1>12, SameStays, OthersKept
<1>14. DaysAreApart'
  <2>1. \A d \in Executor : exec'[d].day <= today
    BY <1>3 DEF NumberInv, DaysAreApart, TypeInv, TypeOK
  <2>2. Live' = Live
    BY <1>2 DEF Live
  <2>3. QED
    BY <1>2, <2>1, <2>2 DEF NumberInv, DaysAreApart
<1>15. QED
  BY <1>8, <1>9, <1>13, <1>14 DEF NumberInv

\* Retell rings and the answer is lost: the request is counted as such, and the
\* executor throws.
LEMMA AnswerLostNumber ==
    ASSUME ScheduledOnly, Inv, NumberInv, NEW e \in Executor, RetellAnswerLost(e)
    PROVE  NumberInv'
<1> USE DEF Inv
<1>1. PICK c : c = exec[e].call
  OBVIOUS
<1>2. /\ exec[e].pc = "dial"
      /\ rings' = [rings EXCEPT ![c] = @ + 1]
      /\ lost' = [lost EXCEPT ![c] = @ + 1]
      /\ rows' = Reverted(exec[e].row)
      /\ exec' = [exec EXCEPT ![e].pc = "cleanup"]
      /\ UNCHANGED <<today, jobs, calls, cadence, handler, poll>>
  BY <1>1 DEF RetellAnswerLost, Throws, ScheduledOnly
<1>3. /\ exec'[e].pc = "cleanup"
      /\ \A d \in Executor : d # e => exec'[d] = exec[d]
  BY <1>2 DEF TypeInv, TypeOK, Exec
<1>4. /\ c \in CallId
      /\ calls[c].status \in ActiveStatus
      /\ rings[c] = lost[c]
  BY <1>1, <1>2 DEF NumberInv, DialsAreCounted
<1>5. /\ rings'[c] = lost'[c]
      /\ \A d \in CallId : d # c => rings'[d] = rings[d] /\ lost'[d] = lost[d]
  BY <1>2, <1>4 DEF TypeInv, TypeOK
<1>6. e \in Dialer
  BY <1>2 DEF Dialer, DialPC
<1>7. /\ \A d \in Executor : exec'[d].pc \notin PastCheck
      /\ \A d \in Executor : exec[d].pc \in PastCheck => d = e
  BY <1>3, <1>6, DialsAlone DEF PastCheck
<1>8. CallsAreUnique'
  BY <1>2, <1>4, <1>5 DEF NumberInv, CallsAreUnique, ActiveStatus
<1>9. DialsAreCounted'
  <2>1. \A d \in CallId : rings'[d] # lost'[d] => calls'[d].retell
    BY <1>2, <1>5, <1>7 DEF NumberInv, DialsAreCounted, PastCheck
  <2>2. QED
    BY <1>7, <2>1 DEF DialsAreCounted, PastCheck
<1>10. ExecsStay /\ RowsStay
  BY <1>2, ExecsLetGo, RowsReverted
<1>11. SettledStay
  BY <1>2, <1>3, SettledKept
<1>12. RecordsStay
  BY <1>2 DEF RecordsStay
<1>13. QED
  BY <1>2, <1>8, <1>9, <1>10, <1>11, <1>12, SameStays, OthersKept
     DEF NumberInv, ExecsStay

\* A dial that has its calls row to itself is never refused by the index.
LEMMA LinkPermitted ==
    ASSUME CallsAreUnique, NEW c \in CallId, calls[c].status \in ActiveStatus
    PROVE  MayBecomeActive(c)
  BY DEF CallsAreUnique, MayBecomeActive, ActiveCalls, ActiveStatus

\* The dial goes on record; an attempt that starts is the one after the last
\* that was stamped.
LEMMA LinkNumber ==
    ASSUME Inv, NumberInv, NEW e \in Executor, LinkCall(e)
    PROVE  NumberInv'
<1> USE DEF Inv
<1>1. PICK c : c = exec[e].call
  OBVIOUS
<1>2. /\ exec[e].pc = "link"
      /\ exec' = [exec EXCEPT ![e].pc = "mark"]
      /\ UNCHANGED <<today, rows, jobs, rings, cadence, handler, poll>>
  BY DEF LinkCall, queueVars
<1>3. /\ c \in CallId
      /\ calls[c].status \in ActiveStatus
      /\ calls[c].attempt = exec[e].attempt
      /\ calls[c].phone = exec[e].phone
      /\ ~Recorded(exec[e].attempt, exec[e].phone)
  BY <1>1, <1>2 DEF NumberInv, DialsAreCounted
<1>4. MayBecomeActive(c)
  BY <1>3, LinkPermitted DEF NumberInv
<1>5. /\ calls' = [calls EXCEPT ![c].status = "dialing", ![c].retell = TRUE]
      /\ lost' = lost
  BY <1>1, <1>4 DEF LinkCall
<1>6. /\ calls'[c].status = "dialing"
      /\ calls'[c].retell
      /\ calls'[c].attempt = calls[c].attempt
      /\ calls'[c].phone = calls[c].phone
      /\ \A d \in CallId : d # c => calls'[d] = calls[d]
  BY <1>3, <1>5 DEF TypeInv, TypeOK, Call
<1>7. /\ exec'[e].pc = "mark"
      /\ exec'[e].call = c
      /\ exec'[e].row = exec[e].row
      /\ exec'[e].attempt = exec[e].attempt
      /\ exec'[e].phone = exec[e].phone
      /\ exec'[e].day = exec[e].day
      /\ \A d \in Executor : d # e => exec'[d] = exec[d]
  BY <1>1, <1>2 DEF TypeInv, TypeOK, Exec
<1>8. e \in Dialer
  BY <1>2 DEF Dialer, DialPC
<1>9. /\ \A d \in Executor : exec'[d].pc \in PastCheck => d = e
      /\ \A d \in Executor : exec[d].pc \in PastCheck => d = e
  BY <1>7, <1>8, DialsAlone
<1>10. CallsAreUnique'
  <2>1. \A a, b \in CallId :
            /\ calls'[a].status \in ActiveStatus
            /\ calls'[b].status \in ActiveStatus
            /\ calls'[a].attempt = calls'[b].attempt
            /\ calls'[a].phone = calls'[b].phone
            => a = b
    BY <1>3, <1>6 DEF NumberInv, CallsAreUnique
  <2>2. \A a \in CallId :
            /\ calls'[a].retell => calls'[a].status \in {"dialing", "completed"}
            /\ calls'[a].status = "unused" => rings'[a] = 0 /\ lost'[a] = 0
    BY <1>2, <1>5, <1>6 DEF NumberInv, CallsAreUnique
  <2>3. \A h \in Handler : handler'[h].pc # "idle"
                             => calls'[handler'[h].call].status # "unused"
    BY <1>2, <1>6 DEF NumberInv, CallsAreUnique, TypeInv, Linked
  <2>4. QED
    BY <2>1, <2>2, <2>3 DEF CallsAreUnique
<1>11. DialsAreCounted'
  <2>1. \A d \in CallId : rings'[d] # lost'[d] => calls'[d].retell
    <3>1. \A d \in CallId : rings[d] # lost[d] => calls[d].retell \/ d = c
      BY <1>1, <1>9 DEF NumberInv, DialsAreCounted, PastCheck
    <3>2. QED
      BY <1>2, <1>5, <1>6, <3>1
  <2>2. /\ exec'[e].call \in CallId
        /\ calls'[exec'[e].call].status \in ActiveStatus
        /\ calls'[exec'[e].call].attempt = exec'[e].attempt
        /\ calls'[exec'[e].call].phone = exec'[e].phone
        /\ calls'[exec'[e].call].retell
    BY <1>3, <1>6, <1>7 DEF ActiveStatus
  <2>3. QED
    BY <1>7, <1>9, <2>1, <2>2 DEF DialsAreCounted, PastCheck
<1>12. CarriersStay /\ DaysStay
  BY <1>2, <1>7 DEF CarriersStay, DaysStay, RowPC, DialPC
<1>13. SettledStay
  <2>1. ~Settled(c)
    BY <1>1, <1>2 DEF Settled
  <2>2. QED
    BY <1>2, <1>6, <1>7, <2>1, SettledKept
<1>14. RecordsStay
  BY <1>6 DEF RecordsStay
<1>15. AttemptsMatch' /\ PhonesInOrder' /\ DaysAreApart'
  BY <1>2, <1>12, <1>13, <1>14, SameStays, OthersKept
<1>16. AttemptsAreCurrent'
  <2>1. CASE exec[e].phone # 0
    <3>1. StampersStay
      BY <1>7, <2>1 DEF StampersStay, Stamper
    <3>2. QED
      BY <1>2, <1>14, <3>1, SameStays, CurrentKept DEF NumberInv, RowsStay, PollsStay
  <2>2. CASE exec[e].phone = 0
    <3>1. /\ exec[e].row \in RowId
          /\ Live = {exec[e].row}
          /\ rows[exec[e].row].attempt = exec[e].attempt
      <4>1. exec[e].row \in RowId /\ Live = {exec[e].row}
        BY <1>8, DialerHoldsTheRow
      <4>2. Belongs(exec[e].row, exec[e].attempt)
        BY <1>2 DEF NumberInv, AttemptsMatch, RowPC, DialPC
      <4>3. QED
        BY <4>1, <4>2 DEF Belongs
    <3>2. Current(exec[e].attempt) /\ ~Recorded(exec[e].attempt, 0)
      BY <1>3, <2>2, <3>1 DEF NumberInv, AttemptsAreCurrent
    <3>3. exec[e].attempt = cadence.attempts + 1
      BY <3>2 DEF Current, NumberInv, AttemptsAreCurrent, TypeInv, TypeOK
    <3>4. Stamper = {}
      <4>1. ASSUME NEW d \in Stamper
            PROVE  FALSE
        <5>1. Recorded(exec[d].attempt, 0)
              /\ rows[exec[e].row].attempt = exec[d].attempt
          BY <3>1 DEF NumberInv, AttemptsAreCurrent
        <5>2. QED
          BY <3>1, <3>2, <5>1
      <4>2. QED
        BY <4>1
    <3>5. Stamper' = {e}
      BY <1>7, <2>2, <3>4 DEF Stamper
    <3>6. Recorded(exec[e].attempt, 0)'
      BY <1>3, <1>6, <1>7, <2>2 DEF Recorded
    <3>7. Live' = Live
      BY <1>2 DEF Live
    <3>8. \A p \in Poller : poll[p].pc # "idle" =>
              /\ Current(poll[p].attempt)
              /\ poll[p].attempt \in Nat
              /\ exec[e].attempt <= poll[p].attempt
      BY <3>1 DEF NumberInv, AttemptsAreCurrent, TypeInv, TypeOK, Poll
    <3>9. \A p \in Poller : poll[p].pc # "idle" => poll[p].attempt = exec[e].attempt
      BY <3>3, <3>8 DEF Current, TypeInv, TypeOK
    <3>10. exec[e].attempt \in Nat
      BY DEF TypeInv, TypeOK, Exec
    <3>11. \A p \in Poller : poll'[p].pc # "idle" =>
              /\ Current(poll[p].attempt)'
              /\ \A r \in Live' : rows'[r].attempt <= poll'[p].attempt
      BY <1>2, <3>7, <3>8 DEF Current, NumberInv, AttemptsAreCurrent
    <3>12. \A r \in Live' : Current(rows[r].attempt)'
      BY <1>2, <3>7 DEF Current, NumberInv, AttemptsAreCurrent
    <3>13. cadence'.attempts > 0 => Recorded(cadence.attempts, 0)'
      <4>1. PICK k : k = cadence.attempts
        OBVIOUS
      <4>2. k > 0 => Recorded(k, 0)'
        BY <1>14, <4>1, RecordedStays DEF NumberInv, AttemptsAreCurrent
      <4>3. QED
        BY <1>2, <4>1, <4>2 DEF Recorded
    <3>14. /\ exec'[e].attempt = cadence'.attempts + 1
           /\ \A r \in Live' : rows'[r].attempt = exec'[e].attempt
           /\ \A p \in Poller : poll'[p].pc # "idle"
                                  => poll'[p].attempt = exec'[e].attempt
      BY <1>2, <1>7, <3>1, <3>3, <3>7, <3>9
    <3>15. QED
      BY <3>5, <3>6, <3>11, <3>12, <3>13, <3>14 DEF AttemptsAreCurrent
  <2>3. QED
    BY <2>1, <2>2
<1>17. QED
  BY <1>10, <1>11, <1>15, <1>16 DEF NumberInv

\* The row, and only the row, of the dial is linked to its call.
LEMMA MarkNumber ==
    ASSUME Inv, NumberInv, NEW e \in Executor, MarkQueue(e)
    PROVE  NumberInv'
<1> USE DEF Inv
<1>1. PICK c, day : c = exec[e].call /\ day = exec[e].day
  OBVIOUS
<1>2. /\ exec[e].pc = "mark"
      /\ rows' = MarkedDialing(day, c)
      /\ exec' = IF exec[e].phone = 0 THEN [exec EXCEPT ![e].pc = "stamp"]
                 ELSE Finished(e)
      /\ UNCHANGED <<today, jobs, callVars, cadence, handler, poll>>
  BY <1>1 DEF MarkQueue
<1>3. e \in Dialer
  BY <1>2 DEF Dialer, DialPC
<1>4. /\ c \in CallId
      /\ calls[c].retell
      /\ calls[c].attempt = exec[e].attempt
  BY <1>1, <1>2 DEF NumberInv, DialsAreCounted
<1>5. /\ exec[e].row \in RowId
      /\ Live = {exec[e].row}
      /\ rows[exec[e].row].attempt = exec[e].attempt
  <2>1. exec[e].row \in RowId /\ Live = {exec[e].row}
    BY <1>3, DialerHoldsTheRow
  <2>2. Belongs(exec[e].row, exec[e].attempt)
    BY <1>2 DEF NumberInv, AttemptsMatch, RowPC, DialPC
  <2>3. QED
    BY <2>1, <2>2 DEF Belongs
<1>6. \A r \in RowId :
          \/ rows'[r] = rows[r]
          \/ r \in Live /\ rows'[r] = [rows[r] EXCEPT !.status = "dialing", !.call = c]
  BY <1>2 DEF MarkedDialing
<1>7. \A r \in RowId :
          \/ rows'[r] = rows[r]
          \/ /\ r = exec[e].row
             /\ rows'[r].status = "dialing"
             /\ rows'[r].call = c
             /\ rows'[r].attempt = rows[r].attempt
             /\ rows'[r].phone = rows[r].phone
  BY <1>5, <1>6 DEF TypeInv, TypeOK, Row
<1>8. LiveStays /\ TargetsStay
  BY <1>5, <1>7 DEF LiveStays, TargetsStay, Live
<1>9. LinksStay
  BY <1>4, <1>5, <1>7 DEF LinksStay
<1>10. ExecsStay /\ DialsStay
  BY <1>2, ExecsLetGo
<1>11. QED
  BY <1>2, <1>8, <1>9, <1>10, SameStays, QuietKept DEF RowsStay

\* The stamp takes the count to the attempt everybody else has by now.
LEMMA StampNumber ==
    ASSUME Inv, NumberInv, NEW e \in Executor, StampCadence(e)
    PROVE  NumberInv'
<1> USE DEF Inv
<1>1. PICK k : k = exec[e].attempt
  OBVIOUS
<1>2. /\ exec[e].pc = "stamp"
      /\ cadence' = [cadence EXCEPT !.attempts = k, !.last = exec[e].day]
      /\ exec' = Finished(e)
      /\ UNCHANGED <<today, rows, jobs, callVars, handler, poll>>
  BY <1>1 DEF StampCadence, queueVars
<1>3. cadence'.attempts = k /\ cadence'.last = exec[e].day
  BY <1>2 DEF TypeInv, TypeOK
<1>4. ExecsStay /\ DialsStay
  BY <1>2, ExecsLetGo
<1>5. CallsAreUnique' /\ DialsAreCounted'
  BY <1>2, <1>4, SameStays, UniqueKept, CountedKept DEF NumberInv
<1>6. SettledStay
  <2>1. \A d \in Executor : exec'[d].pc \in {"dial", "link"} => exec'[d] = exec[d]
    BY <1>4 DEF DialsStay, PastCheck
  <2>2. QED
    BY <1>2, <2>1, SettledKept DEF callVars
<1>7. AttemptsMatch' /\ PhonesInOrder'
  BY <1>2, <1>4, <1>6, SameStays, OthersKept DEF ExecsStay
<1>8. e \in Stamper
  BY <1>2 DEF Stamper
<1>9. /\ k = cadence.attempts + 1
      /\ Recorded(k, 0)
      /\ \A r \in Live : rows[r].attempt = k
      /\ \A p \in Poller : poll[p].pc # "idle" => poll[p].attempt = k
      /\ \A d \in Stamper : d = e
  BY <1>1, <1>8 DEF NumberInv, AttemptsAreCurrent
<1>10. k \in Nat /\ k > 0 /\ cadence.attempts \in Nat
  BY <1>1, <1>9 DEF TypeInv, TypeOK, Exec
<1>11. Live' = Live
  BY <1>2 DEF Live
<1>12. Recorded(k, 0)'
  BY <1>2, <1>9, SameStays, RecordedStays
<1>13. Stamper' = {}
  <2>1. exec'[e].pc = "idle"
    BY <1>2 DEF Finished, IdleExec, TypeInv, TypeOK
  <2>2. \A d \in Stamper' : d \in Stamper /\ d # e
    BY <1>4, <2>1 DEF ExecsStay, StampersStay, Stamper
  <2>3. QED
    BY <1>9, <2>2
<1>14. AttemptsAreCurrent'
  <2>1. \A p \in Poller : poll'[p].pc # "idle" =>
            /\ Current(poll[p].attempt)'
            /\ \A r \in Live' : rows'[r].attempt <= poll'[p].attempt
    BY <1>2, <1>3, <1>9, <1>10, <1>11 DEF Current
  <2>2. \A r \in Live' : Current(rows[r].attempt)'
    BY <1>2, <1>3, <1>9, <1>10, <1>11 DEF Current
  <2>3. Recorded(cadence.attempts, 0)'
    BY <1>3, <1>12 DEF Recorded
  <2>4. QED
    BY <1>13, <2>1, <2>2, <2>3 DEF AttemptsAreCurrent
<1>15. DaysAreApart'
  <2>1. exec[e].day <= today
    BY DEF NumberInv, DaysAreApart
  <2>2. \A d \in Executor : exec'[d].day <= today
    BY <1>4 DEF ExecsStay, DaysStay, NumberInv, DaysAreApart, TypeInv, TypeOK
  <2>3. \A p \in Poller : poll[p].pc # "idle" => ~(poll[p].attempt > k)
    BY <1>9, <1>10
  <2>4. \A r \in Live : ~(rows[r].attempt > k)
    BY <1>9, <1>10
  <2>5. QED
    BY <1>2, <1>3, <1>11, <2>1, <2>2, <2>3, <2>4 DEF DaysAreApart
<1>16. QED
  BY <1>5, <1>7, <1>14, <1>15 DEF NumberInv

\* The final failure: calls that were still queued leave the index.
LEMMA GiveUpNumber ==
    ASSUME Inv, NumberInv, NEW e \in Executor, GiveUp(e)
    PROVE  NumberInv'
<1> USE DEF Inv
<1>1. /\ exec[e].pc = "cleanup"
      /\ rows' = Without(Live)
      /\ exec' = Finished(e)
      /\ UNCHANGED <<today, jobs, rings, lost, cadence, handler, poll>>
  BY DEF GiveUp, FailQueueEntry
<1>2. \A c \in CallId :
          \/ calls'[c] = calls[c]
          \/ /\ calls[c].status = "queued"
             /\ calls'[c] = [calls[c] EXCEPT !.status = "failed"]
  BY DEF GiveUp
<1>3. \A c \in CallId :
          /\ calls'[c].attempt = calls[c].attempt
          /\ calls'[c].phone = calls[c].phone
          /\ calls'[c].retell = calls[c].retell
          /\ \/ calls'[c] = calls[c]
             \/ calls[c].status = "queued" /\ calls'[c].status = "failed"
  <2>1. ASSUME NEW c \in CallId, calls[c].status = "queued",
               calls'[c] = [calls[c] EXCEPT !.status = "failed"]
        PROVE  /\ calls'[c].status = "failed"
               /\ calls'[c].attempt = calls[c].attempt
               /\ calls'[c].phone = calls[c].phone
               /\ calls'[c].retell = calls[c].retell
    <3>1. calls[c] \in Call
      BY DEF TypeInv, TypeOK
    <3>2. QED
      BY <2>1, <3>1 DEF Call
  <2>2. QED
    BY <1>2, <2>1
<1>4. /\ ExecsStay
      /\ \A d \in Executor : exec[d].pc \notin PastCheck
      /\ \A d \in Executor : exec'[d].pc \notin PastCheck
  <2>1. ExecsStay
    BY <1>1, ExecsLetGo
  <2>2. \A d \in Executor : exec[d].pc \notin PastCheck
    BY <1>1 DEF DialInv, OneExecutor, PastCheck, DialPC
  <2>3. exec'[e].pc = "idle" /\ \A d \in Executor : d # e => exec'[d] = exec[d]
    BY <1>1 DEF Finished, IdleExec, TypeInv, TypeOK
  <2>4. QED
    BY <2>1, <2>2, <2>3 DEF PastCheck
<1>5. CallsAreUnique'
  <2>1. \A a, b \in CallId :
            /\ calls'[a].status \in ActiveStatus
            /\ calls'[b].status \in ActiveStatus
            /\ calls'[a].attempt = calls'[b].attempt
            /\ calls'[a].phone = calls'[b].phone
            => a = b
    BY <1>3 DEF NumberInv, CallsAreUnique, ActiveStatus
  <2>2. \A a \in CallId :
            /\ calls'[a].retell => calls'[a].status \in {"dialing", "completed"}
            /\ calls'[a].status = "unused" => rings'[a] = 0 /\ lost'[a] = 0
    BY <1>1, <1>3 DEF NumberInv, CallsAreUnique
  <2>3. \A h \in Handler : handler'[h].pc # "idle"
                             => calls'[handler'[h].call].status # "unused"
    BY <1>1, <1>3 DEF NumberInv, CallsAreUnique, TypeInv, Linked
  <2>4. QED
    BY <2>1, <2>2, <2>3 DEF CallsAreUnique
<1>6. DialsAreCounted'
  <2>1. \A c \in CallId : rings'[c] # lost'[c] => calls'[c].retell
    BY <1>1, <1>3, <1>4 DEF NumberInv, DialsAreCounted, PastCheck
  <2>2. QED
    BY <1>4, <2>1 DEF DialsAreCounted, PastCheck
<1>7. SettledStay
  <2>1. \A c \in CallId : Settled(c) => calls'[c] = calls[c]
    BY <1>3 DEF Settled
  <2>2. QED
    BY <1>1, <1>4, <2>1, SettledKept DEF PastCheck
<1>8. RecordsStay
  BY <1>3 DEF RecordsStay
<1>9. RowsStay
  BY <1>1, RowsGone
<1>10. QED
  BY <1>1, <1>4, <1>5, <1>6, <1>7, <1>8, <1>9, SameStays, OthersKept
     DEF NumberInv, ExecsStay

\* A crash: an accepted dial that was not written down yet is lost.
LEMMA CrashNumber ==
    ASSUME Inv, NumberInv, NEW e \in Executor, Crash(e)
    PROVE  NumberInv'
<1> USE DEF Inv
<1>1. /\ exec' = Finished(e)
      /\ UNCHANGED <<today, rows, jobs, calls, rings, cadence, handler, poll>>
  BY DEF Crash, queueVars
<1>2. ExecsStay
  BY <1>1, ExecsLetGo
<1>3. CASE exec[e].pc # "link"
  <2>1. UNCHANGED callVars
    BY <1>1, <1>3 DEF Crash, callVars
  <2>2. DialsStay
    BY <1>1, <1>3, ExecsLetGo
  <2>3. QED
    BY <1>1, <1>2, <2>1, <2>2, SameStays, QuietKept
<1>4. CASE exec[e].pc = "link"
  <2>1. PICK c : c = exec[e].call
    OBVIOUS
  <2>2. lost' = [lost EXCEPT ![c] = @ + 1]
    BY <1>4, <2>1 DEF Crash
  <2>3. /\ c \in CallId
        /\ calls[c].status \in ActiveStatus
        /\ rings[c] = lost[c] + 1
    BY <1>4, <2>1 DEF NumberInv, DialsAreCounted
  <2>4. /\ rings'[c] = lost'[c]
        /\ \A d \in CallId : d # c => lost'[d] = lost[d]
    BY <1>1, <2>2, <2>3 DEF TypeInv, TypeOK
  <2>5. /\ exec'[e].pc = "idle"
        /\ \A d \in Executor : d # e => exec'[d] = exec[d]
    BY <1>1 DEF Finished, IdleExec, TypeInv, TypeOK
  <2>6. e \in Dialer
    BY <1>4 DEF Dialer, DialPC
  <2>7. /\ \A d \in Executor : exec'[d].pc \notin PastCheck
        /\ \A d \in Executor : exec[d].pc \in PastCheck => d = e
    BY <2>5, <2>6, DialsAlone DEF PastCheck
  <2>8. CallsAreUnique'
    BY <1>1, <2>3, <2>4 DEF NumberInv, CallsAreUnique, ActiveStatus
  <2>9. DialsAreCounted'
    <3>1. \A d \in CallId : rings[d] # lost[d] => calls[d].retell \/ d = c
      BY <2>1, <2>7 DEF NumberInv, DialsAreCounted, PastCheck
    <3>2. \A d \in CallId : rings'[d] # lost'[d] => calls'[d].retell
      BY <1>1, <2>4, <3>1
    <3>3. QED
      BY <2>7, <3>2 DEF DialsAreCounted, PastCheck
  <2>10. SettledStay
    BY <1>1, <2>7, SettledKept DEF PastCheck
  <2>11. RecordsStay
    BY <1>1 DEF RecordsStay
  <2>12. QED
    BY <1>1, <1>2, <2>8, <2>9, <2>10, <2>11, SameStays, OthersKept
       DEF NumberInv, ExecsStay
<1>5. QED
  BY <1>3, <1>4

\* A dial that does not come to ring, and its caller's catch.
LEMMA ThrowNumber ==
    ASSUME ScheduledOnly, TypeInv, NumberInv, NEW e \in Executor,
           exec[e].pc # "link", Throws(e),
           UNCHANGED <<today, jobs, callVars, cadence, handler, poll>>
    PROVE  NumberInv'
<1>1. /\ rows' = Reverted(exec[e].row)
      /\ exec' = [exec EXCEPT ![e].pc = "cleanup"]
  BY DEF Throws, ScheduledOnly
<1>2. RowsStay /\ ExecsStay /\ DialsStay
  BY <1>1, RowsReverted, ExecsLetGo
<1>3. QED
  BY <1>2, SameStays, QuietKept

\* A dial that ends, its row left or given back.
LEMMA LetGoNumber ==
    ASSUME TypeInv, NumberInv, NEW e \in Executor,
           exec[e].pc # "link", exec' = Finished(e), RowsStay,
           UNCHANGED <<today, jobs, callVars, cadence, handler, poll>>
    PROVE  NumberInv'
<1>1. ExecsStay /\ DialsStay
  BY ExecsLetGo
<1>2. QED
  BY <1>1, SameStays, QuietKept

\* Every step of placeCall, its callers and a crash.
LEMMA PlaceCallNumber ==
    ASSUME ScheduledOnly, Inv, NumberInv, NEW e \in Executor,
           PlaceCallStep(e) \/ Crash(e)
    PROVE  NumberInv'
<1> USE DEF Inv
<1>1. CASE CheckTerminal(e)
  BY <1>1, ThrowNumber DEF CheckTerminal
<1>2. CASE CheckUnenrolled(e)
  <2>1. /\ exec[e].pc = "check"
        /\ rows' = [r \in RowId |-> IF r \in Pending THEN NoRow("deleted")
                                    ELSE Reverted(exec[e].row)[r]]
        /\ exec' = Finished(e) \/ exec' = [exec EXCEPT ![e].pc = "cleanup"]
        /\ UNCHANGED <<today, jobs, callVars, cadence, handler, poll>>
    BY <1>2 DEF CheckUnenrolled
  <2>2. e \in Dialer
    BY <2>1 DEF Dialer, DialPC
  <2>3. Pending = {}
    BY <2>2, DialerHoldsTheRow
  <2>4. rows' = Reverted(exec[e].row)
    <3>1. Reverted(exec[e].row) \in [RowId -> Row]
      BY RevertedTyped DEF TypeInv
    <3>2. QED
      BY <2>1, <2>3, <3>1
  <2>5. RowsStay
    BY <2>4, RowsReverted
  <2>6. ExecsStay /\ DialsStay
    BY <2>1, ExecsLetGo
  <2>7. QED
    BY <2>1, <2>5, <2>6, SameStays, QuietKept
<1>3. CASE CheckWindowClosed(e)
  <2>1. RowsStay
    BY <1>3, RowsReverted DEF CheckWindowClosed
  <2>2. QED
    BY <1>3, <2>1, LetGoNumber DEF CheckWindowClosed
<1>4. CASE CheckDuplicate(e)
  <2>1. UNCHANGED <<rows, jobs>>
    BY <1>4 DEF CheckDuplicate, queueVars
  <2>2. QED
    BY <1>4, <2>1, SameStays, LetGoNumber DEF CheckDuplicate
<1>5. CASE RecordConflict(e)
  <2>1. /\ exec[e].pc = "record"
        /\ (exec' = Finished(e) /\ UNCHANGED rows) \/ Throws(e)
        /\ UNCHANGED <<today, jobs, callVars, cadence, handler, poll>>
    BY <1>5 DEF RecordConflict
  <2>2. QED
    BY <2>1, SameStays, LetGoNumber, ThrowNumber
<1>6. CASE RetellRejects(e)
  BY <1>6, ThrowNumber DEF RetellRejects
<1>7. CASE StampFails(e)
  BY <1>7 DEF StampFails, Fault, ScheduledOnly
<1>8. QED
  BY <1>1, <1>2, <1>3, <1>4, <1>5, <1>6, <1>7, CheckNumber, RecordNewNumber,
     RecordReuseNumber, RetellNumber, AnswerLostNumber, LinkNumber, MarkNumber,
     StampNumber, GiveUpNumber, CrashNumber DEF PlaceCallStep

(***************************************************************************)
(* The outcomes.                                                           *)
(***************************************************************************)
\* An outcome is taken up for a call that rang and is not completed.
LEMMA ClaimNumber ==
    ASSUME TypeInv, NumberInv, NEW h \in Handler, NEW c \in CallId, NEW o \in Outcome,
           ClaimOutcome(h, c, o)
    PROVE  NumberInv'
<1>1. /\ rings[c] > 0
      /\ calls[c].status # "completed"
      /\ handler' = [handler EXCEPT ![h] = [pc |-> "claimed", call |-> c,
                                            entry |-> None, outcome |-> o]]
      /\ UNCHANGED <<today, rows, jobs, callVars, cadence, exec, poll>>
  BY DEF ClaimOutcome, queueVars
<1>2. /\ handler'[h].pc = "claimed"
      /\ handler'[h].call = c
      /\ \A g \in Handler : g # h => handler'[g] = handler[g]
  BY <1>1 DEF TypeInv, TypeOK
<1>3. calls[c].status # "unused"
  BY <1>1 DEF NumberInv, CallsAreUnique
<1>4. CallsAreUnique'
  BY <1>1, <1>2, <1>3 DEF NumberInv, CallsAreUnique, callVars
<1>5. DialsAreCounted'
  BY <1>1, SameStays, CountedKept DEF NumberInv
<1>6. SettledStay
  BY <1>1, <1>2, SettledKept DEF Settled, callVars
<1>7. AttemptsMatch' /\ AttemptsAreCurrent' /\ DaysAreApart'
  BY <1>1, SameStays, MatchKept, CurrentKept, DaysKept
     DEF NumberInv, RowsStay, PollsStay, ExecsStay
<1>8. PhonesInOrder'
  BY <1>1, <1>2, <1>6, SameStays, PhonesKept DEF NumberInv, RowsStay, ExecsStay
<1>9. QED
  BY <1>4, <1>5, <1>7, <1>8 DEF NumberInv

\* The outcome of a linked call can be written, and then stays.
LEMMA PersistNumber ==
    ASSUME Inv, NumberInv, NEW h \in Handler, PersistOutcome(h)
    PROVE  NumberInv'
<1> USE DEF Inv
<1>1. PICK c : c = handler[h].call
  OBVIOUS
<1>2. /\ handler[h].pc = "claimed"
      /\ calls' = IF MayBecomeActive(c)
                  THEN [calls EXCEPT ![c].status = "completed",
                                     ![c].outcome = handler[h].outcome]
                  ELSE calls
      /\ UNCHANGED <<today, rows, jobs, rings, lost, cadence, exec, poll>>
  BY <1>1 DEF PersistOutcome, queueVars
<1>3. PICK entry \in EntryOfCall(c) :
          handler' = [handler EXCEPT
              ![h].entry = entry,
              ![h].pc = IF Continues(h) /\ entry # None THEN "chain" ELSE "cadence"]
  BY <1>1 DEF PersistOutcome
<1>4. /\ handler'[h].pc = IF Continues(h) /\ entry # None THEN "chain" ELSE "cadence"
      /\ handler'[h].call = c
      /\ \A g \in Handler : g # h => handler'[g] = handler[g]
  BY <1>1, <1>3 DEF TypeInv, TypeOK, Handling
<1>5. c \in CallId /\ calls[c].status # "unused"
  BY <1>1, <1>2 DEF NumberInv, CallsAreUnique, TypeInv, Linked
<1>6. \A d \in CallId : d # c => calls'[d] = calls[d]
  BY <1>2, <1>5 DEF TypeInv, TypeOK
<1>7. MayBecomeActive(c) => /\ calls'[c].status = "completed"
                            /\ calls'[c].outcome = handler[h].outcome
                            /\ calls'[c].attempt = calls[c].attempt
                            /\ calls'[c].phone = calls[c].phone
                            /\ calls'[c].retell = calls[c].retell
  BY <1>2, <1>5 DEF TypeInv, TypeOK, Call
<1>8. ~MayBecomeActive(c) => calls'[c] = calls[c]
  BY <1>2
<1>9. \A d \in CallId : /\ calls'[d].attempt = calls[d].attempt
                        /\ calls'[d].phone = calls[d].phone
                        /\ calls'[d].retell = calls[d].retell
                        /\ calls'[d] = calls[d] \/ calls'[d].status = "completed"
  BY <1>6, <1>7, <1>8
<1>10. CallsAreUnique'
  <2>1. ASSUME NEW a \in CallId, NEW b \in CallId,
               calls'[a].status \in ActiveStatus, calls'[b].status \in ActiveStatus,
               calls'[a].attempt = calls'[b].attempt,
               calls'[a].phone = calls'[b].phone
        PROVE  a = b
    <3>1. CASE a # c /\ b # c
      BY <1>6, <2>1, <3>1 DEF NumberInv, CallsAreUnique
    <3>2. CASE ~MayBecomeActive(c)
      BY <1>6, <1>8, <2>1, <3>2 DEF NumberInv, CallsAreUnique
    <3>3. CASE MayBecomeActive(c) /\ (a = c \/ b = c)
      <4>1. \A d \in CallId : /\ calls[d].status \in ActiveStatus
                              /\ calls[d].attempt = calls[c].attempt
                              /\ calls[d].phone = calls[c].phone
                              => d = c
        BY <3>3 DEF MayBecomeActive, ActiveCalls, ActiveStatus
      <4>2. QED
        BY <1>6, <1>9, <2>1, <3>3, <4>1
    <3>4. QED
      BY <3>1, <3>2, <3>3
  <2>2. \A d \in CallId :
            /\ calls'[d].retell => calls'[d].status \in {"dialing", "completed"}
            /\ calls'[d].status = "unused" => rings'[d] = 0 /\ lost'[d] = 0
    BY <1>2, <1>9 DEF NumberInv, CallsAreUnique
  <2>3. \A g \in Handler : handler'[g].pc # "idle"
                             => calls'[handler'[g].call].status # "unused"
    <3>1. \A g \in Handler : handler'[g].pc # "idle" =>
              /\ handler[g].pc # "idle"
              /\ handler'[g].call = handler[g].call
      BY <1>1, <1>2, <1>4
    <3>2. QED
      BY <1>9, <3>1 DEF NumberInv, CallsAreUnique, TypeInv, Linked
  <2>4. QED
    BY <2>1, <2>2, <2>3 DEF CallsAreUnique
<1>11. DialsAreCounted'
  <2>1. \A d \in CallId : calls[d].status \in ActiveStatus
                            => calls'[d].status \in ActiveStatus
    BY <1>9 DEF ActiveStatus
  <2>2. \A a, n : Recorded(a, n)' = Recorded(a, n)
    BY <1>9 DEF Recorded
  <2>3. \A e \in Executor : exec'[e] = exec[e]
    BY <1>2
  <2>4. ASSUME NEW e \in Executor, exec'[e].pc \in {"dial", "link", "mark"}
        PROVE  /\ exec'[e].call \in CallId
               /\ calls'[exec'[e].call].status \in ActiveStatus
               /\ calls'[exec'[e].call].attempt = exec'[e].attempt
               /\ calls'[exec'[e].call].phone = exec'[e].phone
               /\ exec'[e].pc = "mark" => calls'[exec'[e].call].retell
               /\ exec'[e].pc = "link" =>
                     rings'[exec'[e].call] = lost'[exec'[e].call] + 1
    <3>1. PICK d : d = exec[e].call
      OBVIOUS
    <3>2. /\ d \in CallId
          /\ calls[d].status \in ActiveStatus
          /\ calls[d].attempt = exec[e].attempt
          /\ calls[d].phone = exec[e].phone
          /\ exec[e].pc = "mark" => calls[d].retell
          /\ exec[e].pc = "link" => rings[d] = lost[d] + 1
      BY <2>3, <2>4, <3>1 DEF NumberInv, DialsAreCounted
    <3>3. /\ exec'[e] = exec[e] /\ rings'[d] = rings[d] /\ lost'[d] = lost[d]
          /\ calls'[d].status \in ActiveStatus
          /\ calls'[d].attempt = calls[d].attempt
          /\ calls'[d].phone = calls[d].phone
          /\ calls'[d].retell = calls[d].retell
      BY <1>2, <1>9, <2>1, <2>3, <3>2
    <3>4. QED
      BY <3>1, <3>2, <3>3
  <2>5. ASSUME NEW e \in Executor, exec'[e].pc \in {"record", "dial", "link"}
        PROVE  ~Recorded(exec[e].attempt, exec[e].phone)'
    <3>1. PICK a, n : a = exec[e].attempt /\ n = exec[e].phone
      OBVIOUS
    <3>2. ~Recorded(a, n)
      BY <2>3, <2>5, <3>1 DEF NumberInv, DialsAreCounted
    <3>3. ~Recorded(a, n)'
      BY <2>2, <3>2
    <3>4. QED
      BY <2>3, <3>1, <3>3 DEF Recorded
  <2>6. \A e \in Executor, d \in CallId :
            /\ exec'[e].pc \in {"record", "dial"}
            /\ calls'[d].attempt = exec'[e].attempt
            /\ calls'[d].phone = exec'[e].phone
            => rings'[d] = lost'[d]
    BY <1>2, <1>9, <2>3 DEF NumberInv, DialsAreCounted
  <2>7. \A d \in CallId : rings'[d] # lost'[d] =>
            \/ calls'[d].retell
            \/ \E e \in Executor : exec'[e].pc = "link" /\ exec'[e].call = d
    <3>1. \A d \in CallId : rings[d] # lost[d] =>
              \/ calls[d].retell
              \/ \E e \in Executor : exec[e].pc = "link" /\ exec[e].call = d
      BY DEF NumberInv, DialsAreCounted
    <3>2. \A d \in CallId : /\ rings'[d] = rings[d]
                            /\ lost'[d] = lost[d]
                            /\ calls'[d].retell = calls[d].retell
      BY <1>2, <1>9
    <3>3. QED
      BY <2>3, <3>1, <3>2
  <2>8. QED
    BY <2>4, <2>5, <2>6, <2>7 DEF DialsAreCounted
<1>12. RecordsStay
  BY <1>9 DEF RecordsStay
<1>13. SettledStay
  <2>1. ~Settled(c)
    BY <1>1, <1>2 DEF Settled
  <2>2. QED
    BY <1>2, <1>4, <1>6, <2>1, SettledKept
<1>14. ASSUME handler'[h].pc = "chain"
       PROVE  Settled(handler[h].call)'
  <2>1. Continues(h) /\ entry # None
    BY <1>4, <1>14
  <2>2. entry \in RowId /\ rows[entry].call = c
    BY <1>3, <2>1 DEF EntryOfCall, RowOfCall
  <2>3. entry \in Live /\ rows[entry].call # None
    BY <1>5, <2>2, IdsAssumption DEF DialInv, ClaimsAreUnlinked, Live
  <2>4. calls[c].status \in ActiveStatus
    BY <1>5, <2>2, <2>3 DEF NumberInv, AttemptsMatch, CallsAreUnique, ActiveStatus
  <2>5. MayBecomeActive(c)
    BY <1>5, <2>4, LinkPermitted DEF NumberInv
  <2>6. calls'[c].status = "completed" /\ calls'[c].outcome = "no_answer"
    BY <1>7, <2>1, <2>5 DEF Continues
  <2>7. \A e \in Executor : exec'[e].pc \notin {"dial", "link"}
    <3>1. ASSUME NEW e \in Dialer
          PROVE  FALSE
      BY <2>3, DialerHoldsTheRow
    <3>2. QED
      BY <1>2, <3>1 DEF Dialer, DialPC
  <2>8. \A g \in Handler : handler'[g].pc = "claimed" => handler'[g].call # c
    BY <1>1, <1>2, <1>4, <1>14 DEF DialInv, ChainsAreLinked
  <2>9. QED
    BY <1>4, <2>6, <2>7, <2>8 DEF Settled
<1>15. PhonesInOrder'
  BY <1>2, <1>4, <1>13, <1>14, SameStays, PhonesKept DEF NumberInv, RowsStay, ExecsStay
<1>16. AttemptsMatch' /\ AttemptsAreCurrent' /\ DaysAreApart'
  BY <1>2, <1>12, SameStays, MatchKept, CurrentKept, DaysKept
     DEF NumberInv, RowsStay, PollsStay, ExecsStay
<1>17. QED
  BY <1>10, <1>11, <1>15, <1>16 DEF NumberInv

\* The next number follows one that ended without an answer.
LEMMA ChainNumber ==
    ASSUME Inv, NumberInv, NEW h \in Handler, ChainNextPhone(h)
    PROVE  NumberInv'
<1> USE DEF Inv
<1>1. PICK r, c : r = handler[h].entry /\ c = handler[h].call
  OBVIOUS
<1>2. PICK a, next : a = rows[r].attempt /\ next = calls[c].phone + 1
  OBVIOUS
<1>3. /\ handler[h].pc = "chain"
      /\ IF r \in Live
         THEN /\ rows' = [rows EXCEPT ![r].status = "pending",
                                      ![r].call = None, ![r].phone = next]
              /\ jobs' = jobs \cup {[row |-> r, attempt |-> a, phone |-> next]}
         ELSE UNCHANGED <<rows, jobs>>
      /\ handler' = [handler EXCEPT ![h] = IdleHandler]
      /\ UNCHANGED <<today, callVars, cadence, exec, poll>>
  BY <1>1, <1>2 DEF ChainNextPhone, queueVars
<1>4. handler'[h].pc = "idle" /\ \A g \in Handler : g # h => handler'[g] = handler[g]
  BY <1>3 DEF IdleHandler, TypeInv, TypeOK
<1>5. OutcomesStay
  BY <1>4 DEF OutcomesStay
<1>6. CASE r \notin Live
  BY <1>3, <1>5, <1>6, SameStays, QuietKept
<1>7. CASE r \in Live
  <2>1. r \in RowId /\ rows[r].call = c /\ c \in CallId
    BY <1>1, <1>3, <1>7 DEF DialInv, ChainsAreLinked, TypeInv, Linked
  <2>2. calls[c].attempt = a
    BY <1>2, <2>1, IdsAssumption DEF NumberInv, AttemptsMatch
  <2>3. Settled(c)
    BY <1>1, <1>3 DEF NumberInv, PhonesInOrder
  <2>4. Reached(a, next)
    BY <1>2, <2>1, <2>2, <2>3 DEF Reached
  <2>5. Belongs(r, a)
    BY <1>2, <1>7 DEF Belongs, Live
  <2>6. /\ rows'[r].status = "pending"
        /\ rows'[r].call = None
        /\ rows'[r].phone = next
        /\ rows'[r].attempt = a
        /\ \A s \in RowId : s # r => rows'[s] = rows[s]
    BY <1>2, <1>3, <1>7, <2>1 DEF TypeInv, TypeOK, Row
  <2>7. JobsFit
    BY <1>3, <1>7, <2>1, <2>4, <2>5 DEF JobsFit
  <2>8. LiveStays
    BY <1>2, <1>7, <2>6 DEF LiveStays, Live
  <2>9. TargetsStay
    BY <2>4, <2>6 DEF TargetsStay, Live
  <2>10. LinksStay
    BY <2>6 DEF LinksStay
  <2>11. QED
    BY <1>3, <1>5, <2>7, <2>8, <2>9, <2>10, SameStays, QuietKept DEF RowsStay
<1>8. QED
  BY <1>6, <1>7

\* The steps of the outcome processors.
LEMMA OutcomeNumber ==
    ASSUME Inv, NumberInv, NEW h \in Handler, OutcomeStep(h) \/ HandlerCrash(h)
    PROVE  NumberInv'
<1> USE DEF Inv
<1>1. CASE AdvanceCadence(h)
  <2>1. /\ handler[h].pc = "cadence"
        /\ handler' = [handler EXCEPT ![h].pc = "complete"]
        /\ UNCHANGED <<today, rows, jobs, callVars, exec, poll>>
    BY <1>1 DEF AdvanceCadence, queueVars
  <2>2. CountStays
    BY <1>1 DEF AdvanceCadence, CountStays, TypeInv, TypeOK
  <2>3. /\ handler'[h].pc = "complete"
        /\ handler'[h].call = handler[h].call
        /\ \A g \in Handler : g # h => handler'[g] = handler[g]
    BY <2>1 DEF TypeInv, TypeOK, Handling
  <2>4. OutcomesStay
    BY <2>1, <2>3 DEF OutcomesStay
  <2>5. QED
    BY <2>1, <2>2, <2>4, SameStays, QuietKept
<1>2. CASE CompleteQueueEntry(h) \/ HandlerCrash(h)
  <2>1. /\ handler' = [handler EXCEPT ![h] = IdleHandler]
        /\ UNCHANGED <<today, jobs, callVars, cadence, exec, poll>>
    BY <1>2 DEF CompleteQueueEntry, HandlerCrash, queueVars
  <2>2. handler'[h].pc = "idle" /\ \A g \in Handler : g # h => handler'[g] = handler[g]
    BY <2>1 DEF IdleHandler, TypeInv, TypeOK
  <2>3. OutcomesStay
    BY <2>2 DEF OutcomesStay
  <2>4. RowsStay
    BY <1>2, SameStays, RowsGone DEF CompleteQueueEntry, HandlerCrash, queueVars
  <2>5. QED
    BY <2>1, <2>3, <2>4, SameStays, QuietKept
<1>3. QED
  BY <1>1, <1>2, PersistNumber, ChainNumber DEF OutcomeStep

(***************************************************************************)
(* The invariant, and what it says of every request to Retell.             *)
(***************************************************************************)
\* Nothing has rung and nobody is at work when the engine starts.
LEMMA NumberInit == Init => NumberInv
<1> SUFFICES ASSUME Init
             PROVE  NumberInv
  OBVIOUS
<1>1. /\ \A r \in RowId : rows[r] = NoRow("unused")
      /\ \A c \in CallId : calls[c] = NoCall /\ rings[c] = 0 /\ lost[c] = 0
      /\ \A e \in Executor : exec[e] = IdleExec
      /\ \A h \in Handler : handler[h] = IdleHandler
      /\ \A p \in Poller : poll[p] = IdlePoll
      /\ jobs = {}
      /\ today = 1
      /\ cadence.attempts = 0 /\ cadence.last = 0
  BY DEF Init
<1>2. Live = {} /\ Stamper = {}
  BY <1>1 DEF Live, NoRow, Stamper, IdleExec
<1>3. CallsAreUnique
  BY <1>1 DEF CallsAreUnique, NoCall, IdleHandler, ActiveStatus
<1>4. DialsAreCounted
  BY <1>1 DEF DialsAreCounted, IdleExec
<1>5. AttemptsMatch
  BY <1>1 DEF AttemptsMatch, NoRow, IdleExec, IdlePoll, RowPC, DialPC
<1>6. PhonesInOrder
  BY <1>1, <1>2 DEF PhonesInOrder, IdleExec, IdleHandler, RowPC, DialPC
<1>7. AttemptsAreCurrent
  BY <1>1, <1>2 DEF AttemptsAreCurrent, IdlePoll
<1>8. DaysAreApart
  BY <1>1, <1>2 DEF DaysAreApart, IdleExec, IdlePoll
<1>9. QED
  BY <1>3, <1>4, <1>5, <1>6, <1>7, <1>8 DEF NumberInv

\* Every step keeps it.
LEMMA NumberStep == ScheduledOnly /\ Inv /\ NumberInv /\ [Next]_vars => NumberInv'
<1> SUFFICES ASSUME ScheduledOnly, Inv, NumberInv, [Next]_vars
             PROVE  NumberInv'
  OBVIOUS
<1> USE DEF Inv
<1>1. CASE UNCHANGED vars
  BY <1>1, SameStays, QuietKept DEF vars, callVars
<1>2. CASE NextDay
  <2>1. /\ today' = today + 1
        /\ UNCHANGED <<rows, jobs, callVars, cadence, exec, handler, poll>>
    BY <1>2 DEF NextDay, queueVars
  <2>2. SettledStay
    <3>1. \A e \in Executor : exec'[e] = exec[e]
      BY <2>1
    <3>2. QED
      BY <2>1, <3>1, SettledKept DEF callVars
  <2>3. CallsAreUnique' /\ DialsAreCounted'
    BY <2>1, SameStays, UniqueKept, CountedKept DEF NumberInv
  <2>4. AttemptsMatch' /\ PhonesInOrder' /\ AttemptsAreCurrent'
    BY <2>1, <2>2, SameStays, OthersKept DEF ExecsStay
  <2>5. DaysAreApart'
    <3>1. /\ today \in Nat
          /\ cadence.last \in Nat
          /\ \A e \in Executor : exec[e].day \in Nat
      BY DEF TypeInv, TypeOK, Exec
    <3>2. QED
      BY <2>1, <3>1 DEF NumberInv, DaysAreApart
  <2>6. QED
    BY <2>3, <2>4, <2>5 DEF NumberInv
<1>3. CASE PollDropsUnenrolled
  <2>1. RowsStay
    BY <1>3, RowsGone DEF PollDropsUnenrolled, CancelQueueEntries
  <2>2. QED
    BY <1>3, <2>1, SameStays, QuietKept DEF PollDropsUnenrolled
<1>4. ASSUME NEW r \in RowId, DropZombie(r)
      PROVE  NumberInv'
  <2>1. RowsStay
    BY <1>4, RowsGone DEF DropZombie
  <2>2. QED
    BY <1>4, <2>1, SameStays, QuietKept DEF DropZombie
<1>5. ASSUME NEW r \in RowId, SweepRow(r)
      PROVE  NumberInv'
  <2>1. /\ r \in Pending
        /\ jobs' = jobs \cup {[row |-> r, attempt |-> rows[r].attempt,
                               phone |-> rows[r].phone]}
        /\ UNCHANGED <<today, rows, callVars, cadence, exec, handler, poll>>
    BY <1>5 DEF SweepRow
  <2>2. Belongs(r, rows[r].attempt) /\ Reached(rows[r].attempt, rows[r].phone)
    BY <2>1 DEF Pending, Live, Belongs, NumberInv, PhonesInOrder
  <2>3. JobsFit
    BY <2>1, <2>2 DEF JobsFit
  <2>4. QED
    BY <2>1, <2>3, SameStays, QuietKept
<1>6. QED
  BY <1>1, <1>2, <1>3, <1>4, <1>5, PollNumber, StartNumber, PlaceCallNumber,
     ClaimNumber, OutcomeNumber DEF Next

\* The scheduled engine keeps both invariants.
THEOREM NumberInvariant == ASSUME ScheduledOnly PROVE Spec => [](Inv /\ NumberInv)
<1>1. Init => Inv /\ NumberInv
  BY InitTyped, DialInit, NumberInit DEF Inv
<1>2. Inv /\ NumberInv /\ [Next]_vars => (Inv /\ NumberInv)'
  BY DialStep, NumberStep
<1>3. QED
  BY <1>1, <1>2, PTL DEF Spec

\* Only an executor that sends its dial makes a call ring.
LEMMA WhoRings ==
    ASSUME TypeInv, [Next]_vars, NEW c \in CallId, rings'[c] > rings[c]
    PROVE  \E e \in Dialer : exec[e].pc = "dial" /\ exec[e].call = c
<1>1. rings[c] \in Nat /\ rings'[c] # rings[c]
  BY DEF TypeInv, TypeOK
<1>2. ASSUME NEW e \in Executor, RetellAccepts(e) \/ RetellAnswerLost(e)
      PROVE  exec[e].pc = "dial" /\ exec[e].call = c /\ e \in Dialer
  <2>1. exec[e].pc = "dial" /\ rings' = [rings EXCEPT ![exec[e].call] = @ + 1]
    BY <1>2 DEF RetellAccepts, RetellAnswerLost
  <2>2. exec[e].call = c
    BY <1>1, <2>1 DEF TypeInv, TypeOK
  <2>3. QED
    BY <2>1, <2>2 DEF Dialer, DialPC
<1>3. ASSUME NEW e \in Executor, PlaceCallStep(e) \/ Crash(e)
      PROVE  RetellAccepts(e) \/ RetellAnswerLost(e)
  BY <1>1, <1>3 DEF PlaceCallStep, Crash, callVars, CheckTerminal, CheckUnenrolled,
     CheckWindowClosed, CheckDuplicate, CheckPasses, RecordNew, RecordReuse,
     RecordConflict, RetellRejects, LinkCall, MarkQueue, StampCadence, StampFails,
     GiveUp
<1>4. ASSUME NEW p \in Poller, PollStep(p)
      PROVE  FALSE
  BY <1>1, <1>4 DEF PollStep, PollReadState, PollReadQueue, ManualReadState,
     EnqueueLookup, EnqueueRow, EnqueueJob, ManualRollback, callVars
<1>5. ~StartStep
  BY <1>1 DEF StartStep, WorkerClaim, RetryLater, DrainScan, DrainClaim, DrainSkip,
     ForcedStart, ForcedNumber, callVars
<1>6. ASSUME NEW h \in Handler
      PROVE  /\ ~OutcomeStep(h) /\ ~HandlerCrash(h)
             /\ \A d \in CallId, o \in Outcome : ~ClaimOutcome(h, d, o)
  BY <1>1 DEF OutcomeStep, PersistOutcome, ChainNextPhone, AdvanceCadence,
     CompleteQueueEntry, HandlerCrash, ClaimOutcome, callVars
<1>7. /\ ~NextDay /\ ~PollDropsUnenrolled /\ ~UNCHANGED vars
      /\ \A r \in RowId : ~DropZombie(r) /\ ~SweepRow(r)
  BY <1>1 DEF NextDay, PollDropsUnenrolled, DropZombie, SweepRow, callVars, vars
<1>8. \E e \in Executor : PlaceCallStep(e) \/ Crash(e)
  BY <1>4, <1>5, <1>6, <1>7 DEF Next
<1>9. QED
  BY <1>2, <1>3, <1>8

(***************************************************************************)
(* Redials.  This one needs no restriction of the constants: it holds with *)
(* forced dials, manual enqueues, failed stamps, slow cleanups and several *)
(* polls, as long as no two executors dial the same number of the same     *)
(* attempt at once.  Two that do may both pass the idempotency check.      *)
(***************************************************************************)
NoTwinDials ==
    \A d, e \in Dialer : /\ exec[d].attempt = exec[e].attempt
                         /\ exec[d].phone = exec[e].phone
                         => d = e

RecordPC == {"record", "dial", "link"}

OnRecord(table, attempt, phone) ==
    \E c \in CallId : /\ table[c].retell
                      /\ table[c].attempt = attempt
                      /\ table[c].phone = phone

\* An executor past its check dials a number not on record; the one that rang
\* has the one answer that is not accounted for; what rang and is on record
\* nowhere is being linked now.
RingsAccounted ==
    /\ \A c \in CallId :
          calls[c].retell => calls[c].status \in {"dialing", "completed"}
    /\ \A e \in Executor : exec[e].pc \in {"dial", "link"} =>
          /\ exec[e].call \in CallId
          /\ calls[exec[e].call].status # "unused"
          /\ calls[exec[e].call].attempt = exec[e].attempt
          /\ calls[exec[e].call].phone = exec[e].phone
    /\ \A e \in Executor : exec[e].pc = "link" =>
          rings[exec[e].call] = lost[exec[e].call] + 1
    /\ \A e \in Executor : exec[e].pc \in RecordPC =>
          ~OnRecord(calls, exec[e].attempt, exec[e].phone)
    /\ \A c \in CallId : rings[c] # lost[c] =>
          \/ calls[c].retell
          \/ \E e \in Executor : exec[e].pc = "link" /\ exec[e].call = c

\* A number not on record, dialed by one executor: all its answers were lost.
LEMMA DialedAnswersLost ==
    ASSUME NoTwinDials, RingsAccounted, NEW e \in Executor, exec[e].pc = "dial",
           NEW d \in CallId, calls[d].attempt = exec[e].attempt,
           calls[d].phone = exec[e].phone
    PROVE  rings[d] = lost[d]
<1>1. ~calls[d].retell
  BY DEF RingsAccounted, RecordPC, OnRecord
<1>2. ASSUME NEW f \in Executor, exec[f].pc = "link", exec[f].call = d
      PROVE  FALSE
  <2>1. e \in Dialer /\ f \in Dialer
    BY <1>2 DEF Dialer, DialPC
  <2>2. exec[f].attempt = exec[e].attempt /\ exec[f].phone = exec[e].phone
    BY <1>2 DEF RingsAccounted
  <2>3. f = e
    BY <2>1, <2>2 DEF NoTwinDials
  <2>4. QED
    BY <1>2, <2>3
<1>3. QED
  BY <1>1, <1>2 DEF RingsAccounted

\* Nobody else is past the check with the call an executor is dialing or linking.
LEMMA NoOtherDialsIt ==
    ASSUME NoTwinDials, RingsAccounted, NEW e \in Executor, NEW f \in Executor,
           exec[e].pc \in {"dial", "link"}, exec[f].pc \in RecordPC,
           exec[f].attempt = calls[exec[e].call].attempt,
           exec[f].phone = calls[exec[e].call].phone
    PROVE  f = e
<1>1. e \in Dialer /\ f \in Dialer
  BY DEF Dialer, DialPC, RecordPC
<1>2. exec[f].attempt = exec[e].attempt /\ exec[f].phone = exec[e].phone
  BY DEF RingsAccounted
<1>3. QED
  BY <1>1, <1>2 DEF NoTwinDials

\* Steps that let executors go and do not touch what the calls table says of
\* the dials.
CallsKeepTheirDials ==
    \A c \in CallId :
        /\ calls'[c].attempt = calls[c].attempt
        /\ calls'[c].phone = calls[c].phone
        /\ calls'[c].retell <=> calls[c].retell
        /\ calls[c].retell => calls'[c].status \in {"dialing", "completed"}
        /\ calls'[c].status = "unused" => calls[c].status = "unused"

LEMMA AccountKept ==
    ASSUME RingsAccounted, UNCHANGED <<rings, lost>>, DialsStay, CallsKeepTheirDials
    PROVE  RingsAccounted'
<1>1. \A e \in Executor : exec'[e].pc \in RecordPC => exec'[e] = exec[e]
  BY DEF DialsStay, PastCheck, RecordPC
<1>2. \A e \in Executor : exec[e].pc = "link" => exec'[e] = exec[e]
  BY DEF DialsStay
<1>3. \A a, n : OnRecord(calls', a, n) => OnRecord(calls, a, n)
  BY DEF OnRecord, CallsKeepTheirDials
<1>4. \A c \in CallId : calls'[c].retell => calls'[c].status \in {"dialing", "completed"}
  BY DEF CallsKeepTheirDials
<1>5. \A e \in Executor : exec'[e].pc \in {"dial", "link"} =>
          /\ exec'[e].call \in CallId
          /\ calls'[exec'[e].call].status # "unused"
          /\ calls'[exec'[e].call].attempt = exec'[e].attempt
          /\ calls'[exec'[e].call].phone = exec'[e].phone
  BY <1>1 DEF RingsAccounted, CallsKeepTheirDials, RecordPC
<1>6. \A e \in Executor : exec'[e].pc = "link" =>
          rings'[exec'[e].call] = lost'[exec'[e].call] + 1
  BY <1>1 DEF RingsAccounted, RecordPC
<1>7. \A e \in Executor : exec'[e].pc \in RecordPC =>
          ~OnRecord(calls', exec'[e].attempt, exec'[e].phone)
  BY <1>1, <1>3 DEF RingsAccounted
<1>8. \A c \in CallId : rings'[c] # lost'[c] =>
          \/ calls'[c].retell
          \/ \E e \in Executor : exec'[e].pc = "link" /\ exec'[e].call = c
  BY <1>2 DEF RingsAccounted, CallsKeepTheirDials
<1>9. QED
  BY <1>4, <1>5, <1>6, <1>7, <1>8 DEF RingsAccounted

\* CheckPasses: what is on record is in an active status, so the check sees it.
LEMMA CheckAccount ==
    ASSUME TypeInv, RingsAccounted, NEW e \in Executor, CheckPasses(e)
    PROVE  RingsAccounted'
<1>1. /\ exec'[e].pc = "record"
      /\ exec'[e].attempt = exec[e].attempt
      /\ exec'[e].phone = exec[e].phone
      /\ \A d \in Executor : d # e => exec'[d] = exec[d]
      /\ UNCHANGED <<calls, rings, lost>>
  BY DEF CheckPasses, TypeInv, TypeOK, Exec, callVars
<1>2. ~OnRecord(calls, exec[e].attempt, exec[e].phone)
  BY DEF CheckPasses, OnRecord, AlreadyDialed, ActiveCalls, RingsAccounted
<1>3. \A a, n : OnRecord(calls', a, n) <=> OnRecord(calls, a, n)
  BY <1>1 DEF OnRecord
<1>4. exec[e].pc = "check"
  BY DEF CheckPasses
<1>5. \A d \in Executor : exec'[d].pc \in {"dial", "link"} => exec'[d] = exec[d]
  BY <1>1
<1>6. \A d \in Executor : exec[d].pc = "link" => exec'[d] = exec[d]
  BY <1>1, <1>4
<1>7. \A d \in Executor : exec'[d].pc \in RecordPC =>
          ~OnRecord(calls', exec'[d].attempt, exec'[d].phone)
  BY <1>1, <1>2, <1>3 DEF RingsAccounted
<1>8. \A c \in CallId : rings'[c] # lost'[c] =>
          \/ calls'[c].retell
          \/ \E d \in Executor : exec'[d].pc = "link" /\ exec'[d].call = c
  BY <1>1, <1>6 DEF RingsAccounted
<1>9. QED
  BY <1>1, <1>5, <1>7, <1>8 DEF RingsAccounted

\* RecordNew and RecordReuse: the call taken carries the executor's number.
LEMMA RecordAccount ==
    ASSUME TypeInv, RingsAccounted, NEW e \in Executor, RecordNew(e) \/ RecordReuse(e)
    PROVE  RingsAccounted'
<1>1. PICK c \in CallId :
          /\ exec' = [exec EXCEPT ![e].pc = "dial", ![e].call = c]
          /\ \/ calls[c].status = "unused" /\ calls' = [calls EXCEPT ![c] = QueuedCall(e)]
             \/ /\ calls[c].status = "queued" /\ UNCHANGED calls
                /\ calls[c].attempt = exec[e].attempt
                /\ calls[c].phone = exec[e].phone
  BY DEF RecordNew, RecordReuse, ActiveCalls, callVars
<1>2. exec[e].pc = "record" /\ UNCHANGED <<rings, lost>>
  BY DEF RecordNew, RecordReuse, callVars
<1>3. /\ exec'[e].pc = "dial"
      /\ exec'[e].call = c
      /\ exec'[e].attempt = exec[e].attempt
      /\ exec'[e].phone = exec[e].phone
  BY <1>1 DEF TypeInv, TypeOK, Exec
<1>4. \A d \in Executor : d # e => exec'[d] = exec[d]
  BY <1>1 DEF TypeInv, TypeOK
<1>5. /\ calls'[c].status = "queued"
      /\ calls'[c].attempt = exec[e].attempt
      /\ calls'[c].phone = exec[e].phone
      /\ ~calls'[c].retell
  <2>1. CASE calls' = [calls EXCEPT ![c] = QueuedCall(e)]
    BY <2>1 DEF QueuedCall, TypeInv, TypeOK
  <2>2. CASE UNCHANGED calls
    BY <1>1, <2>2 DEF RingsAccounted, QueuedCall, TypeInv, TypeOK
  <2>3. QED
    BY <1>1, <2>1, <2>2
<1>6. \A b \in CallId : b # c => calls'[b] = calls[b]
  BY <1>1 DEF TypeInv, TypeOK
<1>7. ~calls[c].retell
  BY <1>1 DEF RingsAccounted
<1>8. \A a, n : OnRecord(calls', a, n) => OnRecord(calls, a, n)
  BY <1>5, <1>6 DEF OnRecord
<1>9. calls[c].status = "unused" => \A d \in Executor :
          exec[d].pc \in {"dial", "link"} => exec[d].call # c
  BY DEF RingsAccounted
<1>10. \A b \in CallId : calls'[b].retell => calls'[b].status \in {"dialing", "completed"}
  BY <1>5, <1>6 DEF RingsAccounted
<1>11. ASSUME NEW d \in Executor, exec'[d].pc \in {"dial", "link"}
       PROVE  /\ exec'[d].call \in CallId
              /\ calls'[exec'[d].call].status # "unused"
              /\ calls'[exec'[d].call].attempt = exec'[d].attempt
              /\ calls'[exec'[d].call].phone = exec'[d].phone
  <2>1. CASE d = e
    BY <1>3, <1>5, <2>1
  <2>2. CASE d # e
    <3>1. exec'[d] = exec[d] /\ exec[d].call \in CallId
      BY <1>4, <1>11, <2>2 DEF RingsAccounted
    <3>2. calls'[exec[d].call] = calls[exec[d].call]
      BY <1>1, <1>6, <1>9, <1>11, <3>1
    <3>3. QED
      BY <1>11, <3>1, <3>2 DEF RingsAccounted
  <2>3. QED
    BY <2>1, <2>2
<1>12. \A d \in Executor : exec'[d].pc = "link" =>
          rings'[exec'[d].call] = lost'[exec'[d].call] + 1
  BY <1>2, <1>3, <1>4 DEF RingsAccounted
<1>13. \A d \in Executor : exec'[d].pc \in RecordPC =>
          ~OnRecord(calls', exec'[d].attempt, exec'[d].phone)
  <2>1. ~OnRecord(calls, exec[e].attempt, exec[e].phone)
    BY <1>2 DEF RingsAccounted, RecordPC
  <2>2. QED
    BY <1>3, <1>4, <1>8, <2>1 DEF RingsAccounted
<1>14. ASSUME NEW b \in CallId, rings'[b] # lost'[b]
       PROVE  \/ calls'[b].retell
              \/ \E d \in Executor : exec'[d].pc = "link" /\ exec'[d].call = b
  <2>1. CASE calls[b].retell
    BY <1>6, <1>7, <2>1
  <2>2. CASE \E d \in Executor : exec[d].pc = "link" /\ exec[d].call = b
    BY <1>2, <1>4, <2>2
  <2>3. QED
    BY <1>2, <1>14, <2>1, <2>2 DEF RingsAccounted
<1>15. QED
  BY <1>10, <1>11, <1>12, <1>13, <1>14 DEF RingsAccounted

\* Retell rings: the answer is under way, or lost.
LEMMA RingAccount ==
    ASSUME TypeInv, NoTwinDials, RingsAccounted, NEW e \in Executor,
           RetellAccepts(e) \/ RetellAnswerLost(e)
    PROVE  RingsAccounted'
<1> DEFINE c == exec[e].call
<1>1. exec[e].pc = "dial" /\ UNCHANGED calls
      /\ rings' = [rings EXCEPT ![c] = @ + 1]
  BY DEF RetellAccepts, RetellAnswerLost
<1>2. /\ c \in CallId
      /\ calls[c].status # "unused"
      /\ calls[c].attempt = exec[e].attempt
      /\ calls[c].phone = exec[e].phone
  BY <1>1 DEF RingsAccounted
<1>3. rings[c] = lost[c]
  BY <1>1, <1>2, DialedAnswersLost
<1>4. \A d \in Executor : d # e => exec'[d] = exec[d]
  BY DEF RetellAccepts, RetellAnswerLost, Throws, Finished, TypeInv, TypeOK
<1>5. \A d \in Executor : d # e /\ exec[d].pc = "link" => exec[d].call # c
  BY <1>1, NoOtherDialsIt DEF RecordPC, RingsAccounted
<1>6. rings \in [CallId -> Nat] /\ lost \in [CallId -> Nat]
  BY DEF TypeInv, TypeOK
<1>7. \A b \in CallId : b # c => rings'[b] = rings[b]
  BY <1>1, <1>6
<1>8. rings'[c] = rings[c] + 1
  BY <1>1, <1>2, <1>6
<1>9. CASE RetellAccepts(e)
  <2>1. /\ exec'[e].pc = "link"
        /\ exec'[e].call = c
        /\ exec'[e].attempt = exec[e].attempt
        /\ exec'[e].phone = exec[e].phone
        /\ UNCHANGED lost
    BY <1>9 DEF RetellAccepts, TypeInv, TypeOK, Exec
  <2>2. \A d \in Executor : exec'[d].pc \in {"dial", "link"} =>
            /\ exec'[d].call \in CallId
            /\ calls'[exec'[d].call].status # "unused"
            /\ calls'[exec'[d].call].attempt = exec'[d].attempt
            /\ calls'[exec'[d].call].phone = exec'[d].phone
    BY <1>1, <1>2, <1>4, <2>1 DEF RingsAccounted
  <2>3. ASSUME NEW d \in Executor, exec'[d].pc = "link"
        PROVE  rings'[exec'[d].call] = lost'[exec'[d].call] + 1
    <3>1. CASE d = e
      BY <1>3, <1>8, <2>1, <3>1
    <3>2. CASE d # e
      BY <1>4, <1>5, <1>7, <2>1, <2>3, <3>2 DEF RingsAccounted
    <3>3. QED
      BY <3>1, <3>2
  <2>4. \A a, n : OnRecord(calls', a, n) <=> OnRecord(calls, a, n)
    BY <1>1 DEF OnRecord
  <2>5. \A d \in Executor : exec'[d].pc \in RecordPC =>
            ~OnRecord(calls', exec'[d].attempt, exec'[d].phone)
    <3>1. ~OnRecord(calls, exec[e].attempt, exec[e].phone)
      BY <1>1 DEF RingsAccounted, RecordPC
    <3>2. QED
      BY <1>4, <2>1, <2>4, <3>1 DEF RingsAccounted
  <2>6. \A b \in CallId : rings'[b] # lost'[b] =>
            \/ calls'[b].retell
            \/ \E d \in Executor : exec'[d].pc = "link" /\ exec'[d].call = b
    <3>1. \A d \in Executor : exec[d].pc = "link" => exec'[d] = exec[d]
      BY <1>1, <1>4
    <3>2. QED
      BY <1>1, <1>7, <2>1, <3>1 DEF RingsAccounted
  <2>7. QED
    BY <1>1, <2>2, <2>3, <2>5, <2>6 DEF RingsAccounted
<1>10. CASE RetellAnswerLost(e)
  <2>1. exec'[e].pc \notin RecordPC /\ lost' = [lost EXCEPT ![c] = @ + 1]
    BY <1>10 DEF RetellAnswerLost, Throws, Finished, IdleExec, RecordPC, TypeInv, TypeOK,
       Exec
  <2>2. lost'[c] = lost[c] + 1 /\ \A b \in CallId : b # c => lost'[b] = lost[b]
    BY <1>2, <1>6, <2>1
  <2>3. \A d \in Executor : exec'[d].pc \in RecordPC => d # e /\ exec'[d] = exec[d]
    BY <1>4, <2>1
  <2>4. \A d \in Executor : exec'[d].pc = "link" =>
            rings'[exec'[d].call] = lost'[exec'[d].call] + 1
    BY <1>5, <1>7, <2>2, <2>3 DEF RingsAccounted, RecordPC
  <2>5. \A a, n : OnRecord(calls', a, n) <=> OnRecord(calls, a, n)
    BY <1>1 DEF OnRecord
  <2>6. \A b \in CallId : rings'[b] # lost'[b] =>
            \/ calls'[b].retell
            \/ \E d \in Executor : exec'[d].pc = "link" /\ exec'[d].call = b
    <3>1. \A d \in Executor : exec[d].pc = "link" => exec'[d] = exec[d]
      BY <1>1, <1>4
    <3>2. rings'[c] = lost'[c]
      BY <1>3, <1>8, <2>2
    <3>3. QED
      BY <1>1, <1>7, <2>2, <3>1, <3>2 DEF RingsAccounted
  <2>7. QED
    BY <1>1, <2>3, <2>4, <2>5, <2>6 DEF RingsAccounted, RecordPC
<1>11. QED
  BY <1>9, <1>10

\* LinkCall, refused by the index or not, and a crash just before it: the answer
\* is on record or lost.
LEMMA LinkAccount ==
    ASSUME TypeInv, NoTwinDials, RingsAccounted, NEW e \in Executor,
           exec[e].pc = "link", LinkCall(e) \/ Crash(e)
    PROVE  RingsAccounted'
<1> DEFINE c == exec[e].call
<1>1. /\ c \in CallId
      /\ calls[c].status # "unused"
      /\ calls[c].attempt = exec[e].attempt
      /\ calls[c].phone = exec[e].phone
      /\ rings[c] = lost[c] + 1
  BY DEF RingsAccounted
<1>2. exec'[e].pc \notin RecordPC /\ \A d \in Executor : d # e => exec'[d] = exec[d]
  BY DEF LinkCall, Crash, Finished, IdleExec, RecordPC, TypeInv, TypeOK, Exec
<1>3. UNCHANGED rings
  BY DEF LinkCall, Crash
<1>4. \A d \in Executor : exec'[d].pc \in RecordPC => d # e /\ exec'[d] = exec[d]
  BY <1>2
<1>5. ASSUME NEW d \in Executor, d # e, exec[d].pc \in RecordPC
      PROVE  ~(exec[d].attempt = calls[c].attempt /\ exec[d].phone = calls[c].phone)
  BY <1>5, NoOtherDialsIt
<1>6. \A d \in Executor : d # e /\ exec[d].pc \in {"dial", "link"} => exec[d].call # c
  BY <1>5 DEF RingsAccounted, RecordPC
<1>7. rings \in [CallId -> Nat] /\ lost \in [CallId -> Nat]
  BY DEF TypeInv, TypeOK
<1>8. CASE lost' = [lost EXCEPT ![c] = @ + 1] /\ UNCHANGED calls
  <2>1. lost'[c] = lost[c] + 1 /\ \A b \in CallId : b # c => lost'[b] = lost[b]
    BY <1>1, <1>7, <1>8
  <2>2. \A a, n : OnRecord(calls', a, n) <=> OnRecord(calls, a, n)
    BY <1>8 DEF OnRecord
  <2>3. \A d \in Executor : exec'[d].pc = "link" =>
            rings'[exec'[d].call] = lost'[exec'[d].call] + 1
    BY <1>3, <1>4, <1>6, <2>1 DEF RingsAccounted, RecordPC
  <2>4. \A b \in CallId : rings'[b] # lost'[b] =>
            \/ calls'[b].retell
            \/ \E d \in Executor : exec'[d].pc = "link" /\ exec'[d].call = b
    <3>1. rings'[c] = lost'[c]
      BY <1>1, <1>3, <2>1
    <3>2. QED
      BY <1>2, <1>3, <1>8, <2>1, <3>1 DEF RingsAccounted
  <2>5. QED
    BY <1>4, <1>8, <2>2, <2>3, <2>4 DEF RingsAccounted, RecordPC
<1>9. CASE /\ calls' = [calls EXCEPT ![c].status = "dialing", ![c].retell = TRUE]
           /\ UNCHANGED lost
  <2>1. /\ calls'[c].status = "dialing"
        /\ calls'[c].retell
        /\ calls'[c].attempt = calls[c].attempt
        /\ calls'[c].phone = calls[c].phone
        /\ \A b \in CallId : b # c => calls'[b] = calls[b]
    BY <1>1, <1>9 DEF TypeInv, TypeOK, Call
  <2>2. \A d \in Executor : exec'[d].pc \in {"dial", "link"} =>
            /\ exec'[d].call \in CallId
            /\ calls'[exec'[d].call].status # "unused"
            /\ calls'[exec'[d].call].attempt = exec'[d].attempt
            /\ calls'[exec'[d].call].phone = exec'[d].phone
    BY <1>4, <1>6, <2>1 DEF RingsAccounted, RecordPC
  <2>3. ASSUME NEW d \in Executor, exec'[d].pc \in RecordPC
        PROVE  ~OnRecord(calls', exec'[d].attempt, exec'[d].phone)
    <3>1. d # e /\ exec'[d] = exec[d] /\ exec[d].pc \in RecordPC
      BY <1>4, <2>3
    <3>2. ~OnRecord(calls, exec[d].attempt, exec[d].phone)
      BY <3>1 DEF RingsAccounted
    <3>3. ~(exec[d].attempt = calls[c].attempt /\ exec[d].phone = calls[c].phone)
      BY <1>5, <3>1
    <3>4. QED
      BY <2>1, <3>1, <3>2, <3>3 DEF OnRecord
  <2>4. \A b \in CallId : rings'[b] # lost'[b] =>
            \/ calls'[b].retell
            \/ \E d \in Executor : exec'[d].pc = "link" /\ exec'[d].call = b
    <3>1. \A d \in Executor : d # e /\ exec[d].pc = "link" => exec'[d] = exec[d]
      BY <1>2
    <3>2. ASSUME NEW b \in CallId, b # c, rings'[b] # lost'[b]
          PROVE  \/ calls[b].retell
                 \/ \E d \in Executor : d # e /\ exec[d].pc = "link" /\ exec[d].call = b
      BY <1>3, <1>9, <3>2 DEF RingsAccounted
    <3>3. QED
      BY <2>1, <3>1, <3>2
  <2>5. \A b \in CallId :
            calls'[b].retell => calls'[b].status \in {"dialing", "completed"}
    BY <2>1 DEF RingsAccounted
  <2>6. \A d \in Executor : exec'[d].pc = "link" =>
            rings'[exec'[d].call] = lost'[exec'[d].call] + 1
    BY <1>3, <1>4, <1>9 DEF RingsAccounted, RecordPC
  <2>7. QED
    BY <2>2, <2>3, <2>4, <2>5, <2>6 DEF RingsAccounted
<1>10. QED
  BY <1>8, <1>9 DEF LinkCall, Crash

\* Every other step of an executor lets its dial go.
LEMMA LetGoAccount ==
    ASSUME TypeInv, RingsAccounted, NEW e \in Executor,
           \/ CheckTerminal(e) \/ CheckUnenrolled(e) \/ CheckWindowClosed(e)
           \/ CheckDuplicate(e) \/ RecordConflict(e) \/ RetellRejects(e)
           \/ MarkQueue(e) \/ StampCadence(e) \/ StampFails(e) \/ GiveUp(e)
           \/ Crash(e) /\ exec[e].pc # "link"
    PROVE  RingsAccounted'
<1>1. UNCHANGED <<rings, lost>>
  BY DEF CheckTerminal, CheckUnenrolled, CheckWindowClosed, CheckDuplicate,
     RecordConflict, RetellRejects, MarkQueue, StampCadence, StampFails, GiveUp,
     Crash, callVars
<1>2. exec[e].pc # "link"
  BY DEF CheckTerminal, CheckUnenrolled, CheckWindowClosed, CheckDuplicate,
     RecordConflict, RetellRejects, MarkQueue, StampCadence, StampFails, GiveUp
<1>3. DialsStay
  <2>1. Throws(e) => DialsStay
    BY <1>2, ExecsLetGo DEF Throws
  <2>2. MarkQueue(e) => DialsStay
    BY <1>2, ExecsLetGo DEF MarkQueue
  <2>3. CheckUnenrolled(e) => DialsStay
    BY <1>2, ExecsLetGo DEF CheckUnenrolled
  <2>4. QED
    BY <1>2, <2>1, <2>2, <2>3, ExecsLetGo DEF CheckTerminal, CheckWindowClosed,
       CheckDuplicate, RecordConflict, RetellRejects, StampCadence, StampFails, GiveUp,
       Crash
<1>4. CallsKeepTheirDials
  <2>1. CASE GiveUp(e)
    <3>1. ASSUME NEW c \in CallId
          PROVE  \/ calls'[c] = calls[c]
                 \/ /\ calls[c].status = "queued"
                    /\ calls'[c] = [calls[c] EXCEPT !.status = "failed"]
      BY <2>1 DEF GiveUp
    <3>2. \A c \in CallId : calls[c] \in Call
      BY DEF TypeInv, TypeOK
    <3>3. ASSUME NEW c \in CallId
          PROVE  /\ calls'[c].attempt = calls[c].attempt
                 /\ calls'[c].phone = calls[c].phone
                 /\ calls'[c].retell = calls[c].retell
                 /\ calls'[c].status \in {calls[c].status, "failed"}
                 /\ calls'[c].status # calls[c].status => calls[c].status = "queued"
      BY <3>1, <3>2 DEF Call
    <3>4. QED
      BY <3>3 DEF CallsKeepTheirDials, RingsAccounted
  <2>2. CASE ~GiveUp(e)
    <3>1. UNCHANGED calls
      BY <2>2 DEF CheckTerminal, CheckUnenrolled, CheckWindowClosed, CheckDuplicate,
         RecordConflict, RetellRejects, MarkQueue, StampCadence, StampFails, Crash,
         callVars
    <3>2. QED
      BY <3>1 DEF CallsKeepTheirDials, RingsAccounted
  <2>3. QED
    BY <2>1, <2>2
<1>5. QED
  BY <1>1, <1>3, <1>4, AccountKept

\* The steps that start a dial stop short of its record.
LEMMA StartAccount ==
    ASSUME TypeInv, RingsAccounted, StartStep
    PROVE  RingsAccounted'
<1>1. UNCHANGED callVars
  BY DEF StartStep, WorkerClaim, RetryLater, DrainScan, DrainClaim, DrainSkip,
     ForcedStart, ForcedNumber, callVars
<1>2. ASSUME NEW e \in Executor, exec[e].pc # "link",
             exec'[e].pc \notin PastCheck,
             \A d \in Executor : d # e => exec'[d] = exec[d]
      PROVE  DialsStay
  BY <1>2 DEF DialsStay
<1>3. ASSUME NEW w \in Worker, RetryLater(w) \/ \E j \in jobs : WorkerClaim(w, j)
      PROVE  DialsStay
  <2>1. w \in Executor /\ exec[w].pc # "link"
    BY <1>3 DEF Executor, RetryLater, WorkerClaim
  <2>2. exec'[w].pc \notin PastCheck /\ \A d \in Executor : d # w => exec'[d] = exec[d]
    BY <1>3, <2>1 DEF RetryLater, WorkerClaim, Finished, IdleExec, Dialing, PastCheck,
       TypeInv, TypeOK
  <2>3. QED
    BY <1>2, <2>1, <2>2
<1>4. ASSUME NEW d \in Drain,
             DrainClaim(d) \/ DrainSkip(d) \/ \E r \in RowId : DrainScan(d, r)
      PROVE  DialsStay
  <2>1. d \in Executor /\ exec[d].pc # "link"
    BY <1>4 DEF Executor, DrainClaim, DrainSkip, DrainScan
  <2>2. exec'[d].pc \notin PastCheck /\ \A e \in Executor : e # d => exec'[e] = exec[e]
    BY <1>4, <2>1 DEF DrainClaim, DrainSkip, DrainScan, IdleExec, Dialing, PastCheck,
       TypeInv, TypeOK, Exec
  <2>3. QED
    BY <1>2, <2>1, <2>2
<1>5. ASSUME NEW f \in Forcer, ForcedStart(f) \/ ForcedNumber(f)
      PROVE  DialsStay
  <2>1. f \in Executor /\ exec[f].pc # "link"
    BY <1>5 DEF Executor, ForcedStart, ForcedNumber
  <2>2. exec'[f].pc \notin PastCheck /\ \A e \in Executor : e # f => exec'[e] = exec[e]
    <3>1. ASSUME NEW a, exec' = [exec EXCEPT ![f].pc = "check", ![f].attempt = a]
          PROVE  exec'[f].pc \notin PastCheck
                 /\ \A e \in Executor : e # f => exec'[e] = exec[e]
      BY <2>1, <3>1 DEF PastCheck, TypeInv, TypeOK, Exec
    <3>2. CASE ForcedStart(f)
      BY <2>1, <3>2 DEF ForcedStart, PastCheck, TypeInv, TypeOK, Exec
    <3>3. CASE ForcedNumber(f)
      BY <3>1, <3>3 DEF ForcedNumber
    <3>4. QED
      BY <1>5, <3>2, <3>3
  <2>3. QED
    BY <1>2, <2>1, <2>2
<1>6. DialsStay
  BY <1>3, <1>4, <1>5 DEF StartStep
<1>7. CallsKeepTheirDials
  BY <1>1 DEF callVars, CallsKeepTheirDials, RingsAccounted
<1>8. QED
  BY <1>1, <1>6, <1>7, AccountKept DEF callVars

\* One step of the dial path, polls, outcomes and repairs included.
LEMMA AccountStep ==
    TypeInv /\ NoTwinDials /\ RingsAccounted /\ [Next]_vars => RingsAccounted'
<1> SUFFICES ASSUME TypeInv, NoTwinDials, RingsAccounted, [Next]_vars
             PROVE  RingsAccounted'
  OBVIOUS
<1>1. ASSUME UNCHANGED <<callVars, exec>>
      PROVE  RingsAccounted'
  <2>1. DialsStay /\ CallsKeepTheirDials
    BY <1>1 DEF DialsStay, CallsKeepTheirDials, RingsAccounted, callVars
  <2>2. QED
    BY <1>1, <2>1, AccountKept DEF callVars
<1>2. ASSUME NEW e \in Executor, PlaceCallStep(e) \/ Crash(e)
      PROVE  RingsAccounted'
  <2>1. LinkCall(e) => exec[e].pc = "link"
    BY DEF LinkCall
  <2>2. QED
    BY <1>2, <2>1, CheckAccount, RecordAccount, RingAccount, LinkAccount, LetGoAccount
       DEF PlaceCallStep
<1>3. ASSUME NEW h \in Handler, PersistOutcome(h)
      PROVE  RingsAccounted'
  <2>1. UNCHANGED <<rings, lost>> /\ UNCHANGED exec
    BY <1>3 DEF PersistOutcome
  <2>2. ASSUME NEW c \in CallId
        PROVE  /\ calls'[c].attempt = calls[c].attempt
               /\ calls'[c].phone = calls[c].phone
               /\ calls'[c].retell = calls[c].retell
               /\ calls'[c].status \in {calls[c].status, "completed"}
    <3>1. \/ calls'[c] = calls[c]
          \/ calls'[c] = [calls[c] EXCEPT !.status = "completed",
                                          !.outcome = handler[h].outcome]
      BY <1>3 DEF PersistOutcome, TypeInv, TypeOK
    <3>2. calls[c] \in Call
      BY DEF TypeInv, TypeOK
    <3>3. QED
      BY <3>1, <3>2 DEF Call
  <2>3. CallsKeepTheirDials
    BY <2>2 DEF CallsKeepTheirDials, RingsAccounted
  <2>4. QED
    BY <2>1, <2>3, AccountKept DEF DialsStay
<1>4. ASSUME NEW p \in Poller, PollStep(p)
      PROVE  UNCHANGED <<callVars, exec>>
  BY <1>4 DEF PollStep, PollReadState, PollReadQueue, ManualReadState, EnqueueLookup,
     EnqueueRow, EnqueueJob, ManualRollback, callVars
<1>5. ASSUME NEW h \in Handler,
             \/ OutcomeStep(h) \/ HandlerCrash(h)
             \/ \E c \in CallId, o \in Outcome : ClaimOutcome(h, c, o)
      PROVE  PersistOutcome(h) \/ UNCHANGED <<callVars, exec>>
  BY <1>5 DEF OutcomeStep, ChainNextPhone, AdvanceCadence, CompleteQueueEntry,
     HandlerCrash, ClaimOutcome, callVars
<1>6. NextDay \/ PollDropsUnenrolled \/ UNCHANGED vars
          \/ (\E r \in RowId : DropZombie(r) \/ SweepRow(r))
          => UNCHANGED <<callVars, exec>>
  BY DEF NextDay, PollDropsUnenrolled, DropZombie, SweepRow, callVars, vars
<1>7. QED
  BY <1>1, <1>2, <1>3, <1>4, <1>5, <1>6, StartAccount DEF Next

\* Whoever dials, and however often: a number of an attempt rings again only if
\* all answers to the earlier requests were lost, as long as no two executors
\* dial it at once (idempotency guard and orphan reuse in placeCall).
THEOREM RedialsAreJustified ==
    Spec /\ []NoTwinDials => RedialOnlyAfterLostAnswer
<1>1. Init => TypeInv /\ RingsAccounted
  BY InitTyped DEF Init, RingsAccounted, OnRecord, NoCall, IdleExec, RecordPC
<1>2. TypeInv /\ NoTwinDials /\ RingsAccounted /\ [Next]_vars => (TypeInv /\ RingsAccounted)'
  BY StepTyped, AccountStep
<1>3. ASSUME TypeInv, NoTwinDials, RingsAccounted, [Next]_vars,
             NEW c \in CallId, NEW d \in CallId, rings'[c] > rings[c],
             calls[d].attempt = calls[c].attempt,
             calls[d].phone = calls[c].phone
      PROVE  rings[d] = lost[d]
  <2>1. PICK e \in Dialer : exec[e].pc = "dial" /\ exec[e].call = c
    BY <1>3, WhoRings
  <2>2. e \in Executor
    BY DEF Dialer
  <2>3. calls[d].attempt = exec[e].attempt /\ calls[d].phone = exec[e].phone
    BY <1>3, <2>1, <2>2 DEF RingsAccounted
  <2>4. QED
    BY <1>3, <2>1, <2>2, <2>3, DialedAnswersLost
<1>4. TypeInv /\ NoTwinDials /\ RingsAccounted /\ [Next]_vars =>
          [\A c, d \in CallId :
              /\ rings'[c] > rings[c]
              /\ calls[d].attempt = calls[c].attempt
              /\ calls[d].phone = calls[c].phone
              => rings[d] = lost[d]]_vars
  BY <1>3
<1>5. QED
  BY <1>1, <1>2, <1>4, PTL DEF Spec, RedialOnlyAfterLostAnswer

\* The scheduled engine meets that condition by itself.
THEOREM ScheduledRedials == ASSUME ScheduledOnly PROVE Spec => RedialOnlyAfterLostAnswer
<1>1. OneDialAtATime => NoTwinDials
  BY DEF OneDialAtATime, NoTwinDials
<1>2. QED
  BY <1>1, ExclusiveDial, RedialsAreJustified, PTL

\* The numbers of an attempt ring in their order, each after one that ended
\* without an answer (chainNextPhoneDial).
THEOREM NumbersRingInOrder == ASSUME ScheduledOnly PROVE Spec => PhoneOrder
<1>1. ASSUME Inv, NumberInv, [Next]_vars, NEW c \in CallId,
             rings'[c] > rings[c], calls[c].phone > 0
      PROVE  \E d \in CallId : /\ calls[d].attempt = calls[c].attempt
                               /\ calls[d].phone + 1 = calls[c].phone
                               /\ calls[d].outcome = "no_answer"
  <2>1. PICK e \in Dialer : exec[e].pc = "dial" /\ exec[e].call = c
    BY <1>1, WhoRings DEF Inv
  <2>2. /\ e \in Executor
        /\ calls[c].attempt = exec[e].attempt
        /\ calls[c].phone = exec[e].phone
    BY <1>1, <2>1 DEF Dialer, NumberInv, DialsAreCounted
  <2>3. Reached(exec[e].attempt, exec[e].phone)
    BY <1>1, <2>1, <2>2 DEF NumberInv, PhonesInOrder, RowPC, DialPC
  <2>4. QED
    BY <1>1, <2>2, <2>3 DEF Reached, Settled
<1>2. Inv /\ NumberInv /\ [Next]_vars =>
          [\A c \in CallId : rings'[c] > rings[c] /\ calls[c].phone > 0 =>
              \E d \in CallId : /\ calls[d].attempt = calls[c].attempt
                                /\ calls[d].phone + 1 = calls[c].phone
                                /\ calls[d].outcome = "no_answer"]_vars
  BY <1>1
<1>3. QED
  BY <1>2, NumberInvariant, PTL DEF Spec, PhoneOrder

\* No attempt rings on the day the one before it was stamped (the
\* last_called_on guards).
THEOREM OneAttemptADay == ASSUME ScheduledOnly PROVE Spec => NoSecondAttemptSameDay
<1>1. ASSUME Inv, NumberInv, [Next]_vars, NEW c \in CallId,
             rings'[c] > rings[c], calls[c].attempt > cadence.attempts
      PROVE  cadence.last # today
  <2>1. PICK e \in Dialer : exec[e].pc = "dial" /\ exec[e].call = c
    BY <1>1, WhoRings DEF Inv
  <2>2. e \in Executor /\ calls[c].attempt = exec[e].attempt
    BY <1>1, <2>1 DEF Dialer, NumberInv, DialsAreCounted
  <2>3. exec[e].row \in Live
    BY <1>1, DialerHoldsTheRow
  <2>4. rows[exec[e].row].attempt = exec[e].attempt
    BY <1>1, <2>1, <2>2, <2>3 DEF NumberInv, AttemptsMatch, Belongs, RowPC, DialPC
  <2>5. QED
    BY <1>1, <2>2, <2>3, <2>4 DEF NumberInv, DaysAreApart
<1>2. Inv /\ NumberInv /\ [Next]_vars =>
          [\A c \in CallId : /\ rings'[c] > rings[c]
                             /\ calls[c].attempt > cadence.attempts
                             => cadence.last # today]_vars
  BY <1>1
<1>3. QED
  BY <1>2, NumberInvariant, PTL DEF Spec, NoSecondAttemptSameDay

\* attempt_count never goes back, however late a stamp is written
\* (updateAgentContactState at the end of placeCall).
THEOREM AttemptsGrow == ASSUME ScheduledOnly PROVE Spec => AttemptsNeverDecrease
<1>1. ASSUME Inv, NumberInv, [Next]_vars
      PROVE  cadence'.attempts >= cadence.attempts
  <2> cadence.attempts \in Nat
    BY <1>1 DEF Inv, TypeInv, TypeOK
  <2>1. CASE cadence'.attempts = cadence.attempts
    BY <2>1
  <2>2. ASSUME NEW e \in Executor, StampCadence(e)
        PROVE  cadence'.attempts = cadence.attempts + 1
    <3>1. e \in Stamper
      BY <2>2 DEF StampCadence, Stamper
    <3>2. cadence'.attempts = exec[e].attempt
      BY <1>1, <2>2 DEF StampCadence, Inv, TypeInv, TypeOK
    <3>3. QED
      BY <1>1, <3>1, <3>2 DEF NumberInv, AttemptsAreCurrent
  <2>3. ASSUME NEW e \in Executor, PlaceCallStep(e) \/ Crash(e)
        PROVE  StampCadence(e) \/ UNCHANGED cadence
    BY <2>3 DEF PlaceCallStep, Crash, CheckTerminal, CheckUnenrolled,
       CheckWindowClosed, CheckDuplicate, CheckPasses, RecordNew, RecordReuse,
       RecordConflict, RetellAccepts, RetellRejects, RetellAnswerLost, LinkCall,
       MarkQueue, StampFails, GiveUp
  <2>4. ASSUME NEW p \in Poller, PollStep(p)
        PROVE  UNCHANGED cadence
    BY <2>4 DEF PollStep, PollReadState, PollReadQueue, ManualReadState,
       EnqueueLookup, EnqueueRow, EnqueueJob, ManualRollback
  <2>5. StartStep => UNCHANGED cadence
    BY DEF StartStep, WorkerClaim, RetryLater, DrainScan, DrainClaim, DrainSkip,
       ForcedStart, ForcedNumber
  <2>6. ASSUME NEW h \in Handler,
               \/ OutcomeStep(h) \/ HandlerCrash(h)
               \/ \E c \in CallId, o \in Outcome : ClaimOutcome(h, c, o)
        PROVE  cadence'.attempts = cadence.attempts
    <3>1. CASE AdvanceCadence(h)
      BY <1>1, <3>1 DEF AdvanceCadence, Inv, TypeInv, TypeOK
    <3>2. CASE ~AdvanceCadence(h)
      BY <2>6, <3>2 DEF OutcomeStep, PersistOutcome, ChainNextPhone,
         CompleteQueueEntry, HandlerCrash, ClaimOutcome
    <3>3. QED
      BY <3>1, <3>2
  <2>7. NextDay \/ PollDropsUnenrolled \/ UNCHANGED vars
            \/ (\E r \in RowId : DropZombie(r) \/ SweepRow(r)) => UNCHANGED cadence
    BY DEF NextDay, PollDropsUnenrolled, DropZombie, SweepRow, vars
  <2>8. QED
    BY <1>1, <2>1, <2>2, <2>3, <2>4, <2>5, <2>6, <2>7 DEF Next
<1>2. Inv /\ NumberInv /\ [Next]_vars => [cadence'.attempts >= cadence.attempts]_vars
  BY <1>1
<1>3. QED
  BY <1>2, NumberInvariant, PTL DEF Spec, AttemptsNeverDecrease

(***************************************************************************)
(* Forced dials.  The number nextForcedAttemptNumber computes is above      *)
(* every number on record, and stays so until the executor's own insert if *)
(* nobody else dials: two overlapping dials may get the same number.        *)
(***************************************************************************)
\* At most one executor works for the contact.
LoneExecutor == \A d, e \in Executor : d = e

\* The number of a forced dial at its check is above those of all calls rows.
FreshNumber ==
    /\ \A c \in CallId : calls[c].status = "unused" => calls[c].attempt = 0
    /\ \A f \in Forcer : exec[f].pc = "check" =>
          \A c \in CallId : calls[c].attempt < exec[f].attempt

\* The numbers on record stay, and no forced dial comes to its check.
LEMMA FreshKept ==
    ASSUME FreshNumber,
           \A c \in CallId : /\ calls'[c].attempt = calls[c].attempt
                             /\ calls'[c].status = "unused" => calls[c].status = "unused",
           \A f \in Forcer : exec'[f].pc = "check" => exec'[f] = exec[f]
    PROVE  FreshNumber'
  BY DEF FreshNumber

\* The steps of a lone executor.
LEMMA ForcedStep ==
    ASSUME LoneExecutor, TypeInv, FreshNumber, NEW e \in Executor,
           PlaceCallStep(e) \/ Crash(e)
    PROVE  FreshNumber'
<1>1. exec[e].pc # "idle"
  BY DEF PlaceCallStep, Crash, CheckTerminal, CheckUnenrolled, CheckWindowClosed,
     CheckDuplicate, CheckPasses, RecordNew, RecordReuse, RecordConflict,
     RetellAccepts, RetellRejects, RetellAnswerLost, LinkCall, MarkQueue,
     StampCadence, StampFails, GiveUp
<1>2. exec'[e].pc # "check"
  <2>1. ASSUME NEW pc, exec' = [exec EXCEPT ![e].pc = pc], pc # "check"
        PROVE  exec'[e].pc # "check"
    BY <2>1 DEF TypeInv, TypeOK, Exec
  <2>2. exec' = Finished(e) => exec'[e].pc # "check"
    BY DEF Finished, IdleExec, TypeInv, TypeOK
  <2>3. Throws(e) => exec'[e].pc # "check"
    BY <2>1, <2>2 DEF Throws
  <2>4. CASE \/ CheckTerminal(e) \/ CheckUnenrolled(e) \/ CheckWindowClosed(e)
             \/ CheckDuplicate(e) \/ CheckPasses(e)
    BY <2>1, <2>2, <2>3, <2>4 DEF CheckTerminal, CheckUnenrolled, CheckWindowClosed,
       CheckDuplicate, CheckPasses
  <2>5. CASE RecordNew(e) \/ RecordReuse(e) \/ RecordConflict(e)
    <3>1. ASSUME NEW c, exec' = [exec EXCEPT ![e].pc = "dial", ![e].call = c]
          PROVE  exec'[e].pc # "check"
      BY <3>1 DEF TypeInv, TypeOK, Exec
    <3>2. QED
      BY <2>2, <2>3, <2>5, <3>1 DEF RecordNew, RecordReuse, RecordConflict
  <2>6. CASE RetellAccepts(e)
    BY <2>6 DEF RetellAccepts, TypeInv, TypeOK, Exec
  <2>7. CASE \/ RetellRejects(e) \/ RetellAnswerLost(e) \/ LinkCall(e) \/ MarkQueue(e)
             \/ StampCadence(e) \/ StampFails(e) \/ GiveUp(e) \/ Crash(e)
    BY <2>1, <2>2, <2>3, <2>7 DEF RetellRejects, RetellAnswerLost, LinkCall,
       MarkQueue, StampCadence, StampFails, GiveUp, Crash
  <2>8. QED
    BY <2>4, <2>5, <2>6, <2>7 DEF PlaceCallStep
<1>3. \A f \in Forcer : exec'[f].pc # "check"
  BY <1>2 DEF LoneExecutor, Executor
<1>4. ASSUME NEW c \in CallId, calls'[c].status = "unused"
      PROVE  calls'[c].attempt = 0
  <2>1. calls[c] \in Call
    BY DEF TypeInv, TypeOK
  <2>2. CASE UNCHANGED calls
    BY <1>4, <2>2 DEF FreshNumber
  <2>3. CASE RecordNew(e)
    <3>1. calls'[c] = calls[c] \/ calls'[c] = QueuedCall(e)
      BY <2>3 DEF RecordNew, TypeInv, TypeOK
    <3>2. QED
      BY <1>4, <3>1 DEF QueuedCall, FreshNumber
  <2>4. CASE LinkCall(e)
    <3>1. \/ calls'[c] = calls[c]
          \/ calls'[c] = [calls[c] EXCEPT !.status = "dialing", !.retell = TRUE]
      BY <2>4 DEF LinkCall, TypeInv, TypeOK
    <3>2. QED
      BY <1>4, <2>1, <3>1 DEF Call, FreshNumber
  <2>5. CASE GiveUp(e)
    <3>1. calls'[c] = calls[c] \/ calls'[c] = [calls[c] EXCEPT !.status = "failed"]
      BY <2>5 DEF GiveUp
    <3>2. QED
      BY <1>4, <2>1, <3>1 DEF Call, FreshNumber
  <2>6. QED
    BY <2>2, <2>3, <2>4, <2>5 DEF PlaceCallStep, Crash, callVars, CheckTerminal,
       CheckUnenrolled, CheckWindowClosed, CheckDuplicate, CheckPasses, RecordReuse,
       RecordConflict, RetellAccepts, RetellRejects, RetellAnswerLost, MarkQueue,
       StampCadence, StampFails
<1>5. QED
  BY <1>3, <1>4 DEF FreshNumber

\* The number comes from the rows that exist and the cadence state.
LEMMA ForcedNumberStep ==
    ASSUME LoneExecutor, TypeInv, FreshNumber, StartStep
    PROVE  FreshNumber'
<1>1. UNCHANGED calls
  BY DEF StartStep, WorkerClaim, RetryLater, DrainScan, DrainClaim, DrainSkip,
     ForcedStart, ForcedNumber, callVars
<1>2. ASSUME NEW e \in Worker \cup Drain
      PROVE  Forcer = {}
  BY ProcessAssumption DEF LoneExecutor, Executor
<1>3. ASSUME NEW f \in Forcer, ForcedStart(f)
      PROVE  \A g \in Forcer : exec'[g].pc # "check"
  <2>1. exec'[f].pc = "number"
    BY <1>3 DEF ForcedStart, TypeInv, TypeOK, Exec, Executor
  <2>2. QED
    BY <2>1 DEF LoneExecutor, Executor
<1>4. ASSUME NEW f \in Forcer, ForcedNumber(f)
      PROVE  \A c \in CallId : calls[c].attempt < exec'[f].attempt
  <2>1. PICK a \in AttemptsOnRecord \cup {cadence.attempts} :
            /\ \A b \in AttemptsOnRecord \cup {cadence.attempts} : b <= a
            /\ exec' = [exec EXCEPT ![f].pc = "check", ![f].attempt = a + 1]
    BY <1>4 DEF ForcedNumber
  <2>2. a \in Nat
    BY DEF AttemptsOnRecord, TypeInv, TypeOK, Call
  <2>3. exec'[f].attempt = a + 1
    BY <2>1 DEF TypeInv, TypeOK, Exec, Executor
  <2>4. ASSUME NEW c \in CallId
        PROVE  calls[c].attempt <= a
    <3>1. CASE calls[c].status = "unused"
      BY <2>2, <3>1 DEF FreshNumber
    <3>2. CASE calls[c].status # "unused"
      BY <2>1, <3>2 DEF AttemptsOnRecord
    <3>3. QED
      BY <3>1, <3>2
  <2>5. QED
    BY <2>2, <2>3, <2>4 DEF TypeInv, TypeOK, Call
<1>5. CASE Forcer = {}
  BY <1>1, <1>5 DEF FreshNumber
<1>6. CASE \E f \in Forcer : ForcedStart(f)
  BY <1>1, <1>3, <1>6 DEF FreshNumber
<1>7. CASE \E f \in Forcer : ForcedNumber(f)
  BY <1>1, <1>4, <1>7 DEF FreshNumber, LoneExecutor, Executor
<1>8. QED
  BY <1>2, <1>5, <1>6, <1>7 DEF StartStep

\* A forced dial rings, however polls, outcomes, sweeps and crashes fall in
\* between, as long as no other executor dials (nextForcedAttemptNumber).
THEOREM ForcedDialsRing == ASSUME LoneExecutor PROVE Spec => []ForcedDialRings
<1>1. Init => TypeInv /\ FreshNumber
  BY InitTyped DEF Init, FreshNumber, NoCall, IdleExec, Executor
<1>2. TypeInv /\ FreshNumber /\ [Next]_vars => (TypeInv /\ FreshNumber)'
  <2> SUFFICES ASSUME TypeInv, FreshNumber, [Next]_vars
               PROVE  FreshNumber'
    BY StepTyped
  <2>1. CASE UNCHANGED <<calls, exec>>
    BY <2>1 DEF FreshNumber
  <2>2. ASSUME NEW h \in Handler, PersistOutcome(h)
        PROVE  FreshNumber'
    <3>1. UNCHANGED exec
      BY <2>2 DEF PersistOutcome
    <3>2. ASSUME NEW c \in CallId
          PROVE  /\ calls'[c].attempt = calls[c].attempt
                 /\ calls'[c].status = "unused" => calls[c].status = "unused"
      <4>1. \/ calls'[c] = calls[c]
            \/ calls'[c] = [calls[c] EXCEPT !.status = "completed",
                                            !.outcome = handler[h].outcome]
        BY <2>2 DEF PersistOutcome, TypeInv, TypeOK
      <4>2. calls[c] \in Call
        BY DEF TypeInv, TypeOK
      <4>3. QED
        BY <4>1, <4>2 DEF Call
    <3>3. QED
      BY <3>1, <3>2, FreshKept
  <2>3. ASSUME NEW p \in Poller, PollStep(p)
        PROVE  UNCHANGED <<calls, exec>>
    BY <2>3 DEF PollStep, PollReadState, PollReadQueue, ManualReadState,
       EnqueueLookup, EnqueueRow, EnqueueJob, ManualRollback, callVars
  <2>4. ASSUME NEW h \in Handler,
               \/ OutcomeStep(h) \/ HandlerCrash(h)
               \/ \E c \in CallId, o \in Outcome : ClaimOutcome(h, c, o)
        PROVE  PersistOutcome(h) \/ UNCHANGED <<calls, exec>>
    BY <2>4 DEF OutcomeStep, ChainNextPhone, AdvanceCadence, CompleteQueueEntry,
       HandlerCrash, ClaimOutcome, callVars
  <2>5. NextDay \/ PollDropsUnenrolled \/ UNCHANGED vars
            \/ (\E r \in RowId : DropZombie(r) \/ SweepRow(r))
            => UNCHANGED <<calls, exec>>
    BY DEF NextDay, PollDropsUnenrolled, DropZombie, SweepRow, callVars, vars
  <2>6. QED
    BY <2>1, <2>2, <2>3, <2>4, <2>5, ForcedStep, ForcedNumberStep DEF Next
<1>3. TypeInv /\ FreshNumber => ForcedDialRings
  BY DEF TypeInv, TypeOK, Call, Exec, FreshNumber, ForcedDialRings, AlreadyDialed,
     ActiveCalls, Executor
<1>4. QED
  BY <1>1, <1>2, <1>3, PTL DEF Spec
=============================================================================
