----------------------------- MODULE CrmTokens -----------------------------
(***************************************************************************)
(* The OAuth tokens of one HighLevel location.  Every job builds its own   *)
(* adapter from the stored credentials; when the access token has expired, *)
(* the adapter presents its refresh token, HighLevel answers with a new    *)
(* pair and forgets the old one, and the adapter writes the new pair back. *)
(* The adapters of one process share a refresh that is under way through   *)
(* refreshLocks; the worker and the console's host do not know each other. *)
(*                                                                         *)
(* A pair of tokens is a number: HighLevel honours the refresh token of    *)
(* the pair "live" only.                                                   *)
(***************************************************************************)
EXTENDS Naturals, FiniteSets

CONSTANTS
    Adapter,  \* adapters that exist at once
    Process,  \* processes that build adapters
    Home,     \* the process of each adapter
    Free,     \* no refresh is under way
    MaxPairs, \* bound on the pairs issued
    MaxLost   \* bound on the pairs lost on their way to the row

ASSUME TokensAssumption ==
    /\ IsFiniteSet(Adapter)
    /\ Home \in [Adapter -> Process]
    /\ Free \notin Adapter
    /\ MaxPairs \in Nat \ {0}
    /\ MaxLost \in Nat

VARIABLES
    live,     \* HighLevel: the pair it honours
    fresh,    \* HighLevel: the live access token has not expired
    stored,   \* the pair in crm_credentials_encrypted
    status,   \* crm_status
    adapter,  \* the adapters
    lock,     \* refreshLocks: whose refresh is under way, by process
    lost      \* pairs whose answer, write or process was lost

vars == <<live, fresh, stored, status, adapter, lock, lost>>

\* ready: the job uses the adapter; asking, answered: its token request is on
\* its way there or back; waiting: for another adapter's; writing, flagging:
\* about to write the row.
AdapterPC == {"none", "ready", "asking", "answered", "waiting", "writing", "flagging"}

\* pair: the tokens it holds; answer: the pair HighLevel sent, 0 for a refusal.
AdapterState == [pc : AdapterPC, pair : 0..MaxPairs, answer : 0..MaxPairs]
NoAdapter == [pc |-> "none", pair |-> 0, answer |-> 0]

TypeOK ==
    /\ live \in 1..MaxPairs
    /\ fresh \in BOOLEAN
    /\ stored \in 1..MaxPairs
    /\ status \in {"connected", "needs_reauth"}
    /\ adapter \in [Adapter -> AdapterState]
    /\ \A a \in Adapter : adapter[a].pc # "none" => adapter[a].pair # 0
    /\ lock \in [Process -> Adapter \cup {Free}]
    /\ lost \subseteq 1..MaxPairs

Init ==
    /\ live = 1
    /\ fresh = TRUE
    /\ stored = 1
    /\ status = "connected"
    /\ adapter = [a \in Adapter |-> NoAdapter]
    /\ lock = [p \in Process |-> Free]
    /\ lost = {}

PC(a) == adapter[a].pc

(* getCrmAdapterForAgent *)
Load(a) ==
    /\ PC(a) = "none"
    /\ adapter' = [adapter EXCEPT ![a] = [pc |-> "ready", pair |-> stored, answer |-> 0]]
    /\ UNCHANGED <<live, fresh, stored, status, lock, lost>>

Accepted(a) == adapter[a].pair = live /\ fresh

EndJob(a) ==
    /\ PC(a) = "ready"
    /\ adapter' = [adapter EXCEPT ![a] = NoAdapter]
    /\ UNCHANGED <<live, fresh, stored, status, lock, lost>>

\* [slip] every adapter refreshes on its own.
AskWithoutLock(a) ==
    /\ adapter' = [adapter EXCEPT ![a].pc = "asking"]
    /\ lock' = [lock EXCEPT ![Home[a]] = a]

(* refreshAccessToken: join the refresh under way, or start one. *)
Ask(a) ==
    IF lock[Home[a]] # Free
    THEN adapter' = [adapter EXCEPT ![a].pc = "waiting"] /\ UNCHANGED lock
    ELSE /\ adapter' = [adapter EXCEPT ![a].pc = "asking"]
         /\ lock' = [lock EXCEPT ![Home[a]] = a]

(* request(): the access token is past its time, or came back with 401.  A  *)
(* pair that has just been issued is accepted, so that the second 401 in a  *)
(* row, with which the code gives up, does not occur.                       *)
Refresh(a) ==
    /\ PC(a) = "ready"
    /\ ~Accepted(a)
    /\ Ask(a)
    /\ UNCHANGED <<live, fresh, stored, status, lost>>

(* HighLevel: the live refresh token is exchanged for a new pair, any other *)
(* is an invalid_grant.                                                     *)
HighLevelAnswers(a) ==
    /\ PC(a) = "asking"
    /\ IF adapter[a].pair = live
       THEN /\ live < MaxPairs
            /\ live' = live + 1
            /\ fresh' = TRUE
            /\ adapter' = [adapter EXCEPT ![a].pc = "answered", ![a].answer = live + 1]
       ELSE /\ adapter' = [adapter EXCEPT ![a].pc = "answered", ![a].answer = 0]
            /\ UNCHANGED <<live, fresh>>
    /\ UNCHANGED <<stored, status, lock, lost>>

\* [slip] the refresh token in hand is kept.
AdoptKeepsRefreshToken(a, pair) == adapter[a].pair

\* [slip] the tokens of a refusal are taken over as well.
AdoptRefusal(a, pair) == pair

(* adoptTokens, which a refusal does not reach. *)
Adopt(a, pair) == IF pair = 0 THEN adapter[a].pair ELSE pair

(* The adapters whose requests wait for the refresh of a. *)
Awaiting(a) == {b \in Adapter : Home[b] = Home[a] /\ PC(b) = "waiting"} \cup {a}

(* The promise settles: the lock is gone, the waiting adapters take over    *)
(* the outcome.  With a new pair they all go on; only the one that asked    *)
(* writes it.  With a refusal each of them flags the row.                   *)
Settle(a) ==
    /\ PC(a) = "answered"
    /\ LET pair == adapter[a].answer
           After(b) == IF pair = 0 THEN "flagging" ELSE IF b = a THEN "writing" ELSE "ready"
       IN  adapter' = [b \in Adapter |->
                IF b \in Awaiting(a)
                THEN [pc |-> After(b), answer |-> 0, pair |-> Adopt(b, pair)]
                ELSE adapter[b]]
    /\ lock' = [lock EXCEPT ![Home[a]] = Free]
    /\ UNCHANGED <<live, fresh, stored, status, lost>>

MayLose == Cardinality(lost) < MaxLost

(* The request times out or comes back with another error, before or after  *)
(* HighLevel has issued the new pair.  Nobody flags the row for that.       *)
RefreshFails(a) ==
    /\ PC(a) = "asking"
    /\ \/ UNCHANGED <<live, fresh, lost>>
       \/ /\ adapter[a].pair = live
          /\ live < MaxPairs
          /\ MayLose
          /\ live' = live + 1
          /\ fresh' = TRUE
          /\ lost' = lost \cup {live + 1}
    /\ adapter' = [b \in Adapter |->
            IF b \in Awaiting(a) THEN [adapter[b] EXCEPT !.pc = "ready"] ELSE adapter[b]]
    /\ lock' = [lock EXCEPT ![Home[a]] = Free]
    /\ UNCHANGED <<stored, status>>

(* persistHighLevelTokens, best effort: the job goes on with the pair it    *)
(* holds when the write fails.                                              *)
Write(a) ==
    /\ PC(a) = "writing"
    /\ \/ stored' = adapter[a].pair /\ status' = "connected" /\ UNCHANGED lost
       \/ MayLose /\ lost' = lost \cup {adapter[a].pair} /\ UNCHANGED <<stored, status>>
    /\ adapter' = [adapter EXCEPT ![a].pc = "ready"]
    /\ UNCHANGED <<live, fresh, lock>>

(* flagHighLevelReauth.  The request fails; whether its job goes on is the  *)
(* caller's affair.                                                         *)
Flag(a) ==
    /\ PC(a) = "flagging"
    /\ status' = "needs_reauth"
    /\ adapter' = [adapter EXCEPT ![a].pc = "ready"]
    /\ UNCHANGED <<live, fresh, stored, lock, lost>>

(* The pair that an adapter is carrying to the row. *)
Carried(a) == CASE PC(a) = "answered" -> {adapter[a].answer} \ {0}
                [] PC(a) = "writing" -> {adapter[a].pair}
                [] OTHER -> {}

(* A process is killed, with the pairs its adapters carry. *)
ProcessDies(p) ==
    /\ MayLose
    /\ lost' = lost \cup UNION {Carried(a) : a \in {b \in Adapter : Home[b] = p}}
    /\ adapter' = [a \in Adapter |-> IF Home[a] = p THEN NoAdapter ELSE adapter[a]]
    /\ lock' = [lock EXCEPT ![p] = Free]
    /\ UNCHANGED <<live, fresh, stored, status>>

(* The access token lives a day: longer than the handling of the refresh    *)
(* that brought it.                                                         *)
Expire ==
    /\ fresh
    /\ \A a \in Adapter : Carried(a) = {}
    /\ fresh' = FALSE
    /\ UNCHANGED <<live, stored, status, adapter, lock, lost>>

(* The OAuth callback, after the owner saw the flag.  It takes minutes; a   *)
(* pair that was on its way to the row then has arrived.                    *)
Reconnect ==
    /\ status = "needs_reauth"
    /\ \A a \in Adapter : Carried(a) = {}
    /\ live < MaxPairs
    /\ live' = live + 1
    /\ fresh' = TRUE
    /\ stored' = live + 1
    /\ status' = "connected"
    /\ UNCHANGED <<adapter, lock, lost>>

Next ==
    \/ \E a \in Adapter :
        \/ Load(a) \/ EndJob(a) \/ Refresh(a)
        \/ HighLevelAnswers(a) \/ RefreshFails(a) \/ Settle(a) \/ Write(a) \/ Flag(a)
    \/ \E p \in Process : ProcessDies(p)
    \/ Expire
    \/ Reconnect

Spec == Init /\ [][Next]_vars

-----------------------------------------------------------------------------
(* Properties *)

InFlight(a) == PC(a) \in {"asking", "answered"}

(* The rotating refresh token is never used concurrently in a process,     *)
(* which the comment of refreshAccessToken promises: whichever adapters of *)
(* old and new jobs find their token expired, one of them asks.            *)
OneRefreshPerProcess ==
    \A a, b \in Adapter : InFlight(a) /\ InFlight(b) /\ Home[a] = Home[b] => a = b

(* The pair that HighLevel honours is stored or on its way to the row: no  *)
(* adapter of any process writes an older pair over it, however many ask   *)
(* with old pairs and are refused.  Only a lost answer, a failed write or  *)
(* the death of the process that carried it loses a pair.                  *)
NewestPairIsKept ==
    stored = live \/ live \in lost \/ \E a \in Adapter : live \in Carried(a)

(* A connection is flagged only when its refresh token is dead: what the   *)
(* comment of flagHighLevelReauth says of it.                              *)
FlagMeansDead == status = "needs_reauth" => stored # live
=============================================================================
