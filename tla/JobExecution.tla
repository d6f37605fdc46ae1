---------------------------- MODULE JobExecution ----------------------------
(***************************************************************************)
(* The job and execution store of the API server: server/store.ts with the *)
(* execute and cancel routes of server/index.ts.                           *)
(*                                                                         *)
(* The server is one Node process.  A handler runs without interruption    *)
(* from one `await` to the next, and at every await any other handler may  *)
(* run; no lock and no transaction spans two awaits.  So each action below *)
(* is what one handler does between two awaits, and a request keeps, in    *)
(* seen, the job row it read first: every later decision uses that copy.   *)
(*                                                                         *)
(* Rows are kept as functions: `job` for the jobs table, `event` for       *)
(* execution_events, whose unique(job_id, idempotency_key) makes it a      *)
(* function of job and key, and `ledger` for the deposit rows that         *)
(* executions add to the user's ledger.                                    *)
(***************************************************************************)
EXTENDS Naturals

CONSTANTS
  Jobs,           \* job ids
  Keys,           \* values of the Idempotency-Key header
  Users,          \* usernames
  SecurityUsers,  \* the users whose role is "security"
  Requests,       \* HTTP requests to the execute and cancel routes
  Calls,          \* what a request may ask for
  MaxAttempts,    \* EXECUTION_RETRY_COUNT, at least 1
  MaxFaults,      \* bound: crashes, database errors and refused inserts
  Null            \* SQL NULL, and "no execution result"

Call == [op : {"execute", "cancel"}, job : Jobs, key : Keys, user : Users,
         positionId : BOOLEAN]

ASSUME CallsAssumption   == Calls \subseteq Call /\ SecurityUsers \subseteq Users
ASSUME BoundsAssumption  == MaxAttempts \in Nat \ {0} /\ MaxFaults \in Nat
ASSUME NullAssumption    == Null \notin Requests \cup Users

VARIABLES
  job,      \* the jobs table
  event,    \* the execution_events table
  ledger,   \* the requests whose execution added a deposit row
  call,     \* what each request asks for
  pc,       \* the await each request is suspended at
  seen,     \* the status in the job row a request read first
  tries,    \* failed adapter attempts of a request
  bundle,   \* the execution result a request holds, named by the request
            \* whose adapter run produced it
  answer,   \* the response sent to each request
  before,   \* history: the requests answered before a request arrived
  faults    \* faults so far

vars == <<job, event, ledger, call, pc, seen, tries, bundle, answer, before, faults>>

Settled   == {"blocked", "executed", "cancelled"}
Statuses  == {"absent", "queued"} \cup Settled
Job       == [status : Statuses, risk : {"Low", "Critical"}, owner : Users \cup {Null}]
Event     == [status : {"none", "accepted", "blocked", "skipped", "failed"},
              bundle : Requests \cup {Null}]
Answer    == [kind : {"none", "not found", "forbidden", "replay", "skip",
                      "job cancelled", "blocked", "adapter failed", "accepted",
                      "cancel done", "cancel refused", "error"},
              ok : BOOLEAN, bundle : Requests \cup {Null}]

AbsentJob == [status |-> "absent", risk |-> "Low", owner |-> Null]
NoEvent   == [status |-> "none", bundle |-> Null]
NoAnswer  == [kind |-> "none", ok |-> FALSE, bundle |-> Null]

\* Where an executing request can be suspended, and a cancelling one.
ExecutePC == {"getJob", "findEvent", "findLatest", "skipEvent", "blockJob", "blockEvent",
              "runAdapter", "failEvent", "markExecuted", "acceptEvent", "recordRow"}
CancelPC  == {"cancelRead", "cancelWrite"}
InFlight  == ExecutePC \cup CancelPC

\* Awaits on the database whose rejection no handler on the way catches, so
\* Express answers 500 (a cancel is answered 400).
UncaughtPC == {"getJob", "findEvent", "findLatest", "blockJob", "markExecuted",
               "cancelRead", "cancelWrite"}

TypeOK ==
  /\ job \in [Jobs -> Job]
  /\ event \in [Jobs -> [Keys -> Event]]
  /\ ledger \subseteq Requests
  /\ call \in [Requests -> Calls]
  /\ pc \in [Requests -> {"idle", "done", "lost"} \cup InFlight]
  /\ seen \in [Requests -> Statuses]
  /\ tries \in [Requests -> 0 .. MaxAttempts]
  /\ bundle \in [Requests -> Requests \cup {Null}]
  /\ answer \in [Requests -> Answer]
  /\ before \in [Requests -> SUBSET Requests]
  /\ faults \in 0 .. MaxFaults

\* Jobs written before migration 0007 have no requested_by; no other job
\* exists yet.  What the clients are going to ask for is arbitrary.
Init ==
  /\ job \in [Jobs -> {AbsentJob, [AbsentJob EXCEPT !.status = "queued"]}]
  /\ event = [j \in Jobs |-> [k \in Keys |-> NoEvent]]
  /\ ledger = {}
  /\ call \in [Requests -> Calls]
  /\ pc = [r \in Requests |-> "idle"]
  /\ seen = [r \in Requests |-> "absent"]
  /\ tries = [r \in Requests |-> 0]
  /\ bundle = [r \in Requests |-> Null]
  /\ answer = [r \in Requests |-> NoAnswer]
  /\ before = [r \in Requests |-> {}]
  /\ faults = 0

-----------------------------------------------------------------------------
(* Helpers *)

JobOf(r) == job[call[r].job]

\* Mutants, here and below: what a definition would be after a plausible slip.
\* The lookup by key alone, without the job; and one that ignores failures.
EventOf_AnyJob(r) ==
  LET found == {j \in Jobs : event[j][call[r].key].status # "none"} IN
  event[IF found = {} THEN call[r].job ELSE CHOOSE j \in found : TRUE][call[r].key]
EventOf_RetryFailed(r) ==
  LET e == event[call[r].job][call[r].key] IN IF e.status = "failed" THEN NoEvent ELSE e

EventOf(r) == event[call[r].job][call[r].key]

Goto(r, from, to) == pc[r] = from /\ pc' = [pc EXCEPT ![r] = to]

\* The handler of r returns from its await `from` and sends the response.
Reply(r, from, kind, ok, result) ==
  /\ Goto(r, from, "done")
  /\ answer' = [answer EXCEPT ![r] = [kind |-> kind, ok |-> ok, bundle |-> result]]

SetStatus(j, status) == job' = [job EXCEPT ![j].status = status]

\* createExecutionEvent: the insert is refused when (job, key) is taken, and a
\* refused insert is logged and dropped.  It is also dropped on any other
\* database error, an id evt_<ms> already taken in that millisecond included.
InsertEvent(r, status, result) ==
  \/ /\ event' = [event EXCEPT ![call[r].job][call[r].key] =
                    IF @.status = "none" THEN [status |-> status, bundle |-> result] ELSE @]
     /\ UNCHANGED faults
  \/ /\ faults < MaxFaults
     /\ faults' = faults + 1
     /\ UNCHANGED event

-----------------------------------------------------------------------------
(* POST /api/orchestrator/jobs *)

\* createJob: a depeg alert alone makes evaluateRisk answer Critical; an id
\* job_<ms> already in use makes the insert throw and changes nothing.
CreateJob(j, user, isDepegAlert) ==
  /\ job[j].status = "absent"
  /\ job' = [job EXCEPT ![j] = [status |-> "queued",
                                risk |-> IF isDepegAlert THEN "Critical" ELSE "Low",
                                owner |-> user]]
  /\ UNCHANGED <<event, ledger, call, pc, seen, tries, bundle, answer, before, faults>>

-----------------------------------------------------------------------------
(* POST /api/orchestrator/execute/:jobId *)

\* A request arrives and calls executeJob or cancelJob, which await getJob.
Arrive(r) ==
  /\ Goto(r, "idle", IF call[r].op = "execute" THEN "getJob" ELSE "cancelRead")
  /\ before' = [before EXCEPT ![r] = {q \in Requests : pc[q] = "done"}]
  /\ UNCHANGED <<job, event, ledger, call, seen, tries, bundle, answer, faults>>

MayExecute(r) == JobOf(r).owner \in {Null, call[r].user}

ExecuteGetJob(r) ==
  /\ LET row == JobOf(r) IN
     /\ seen' = [seen EXCEPT ![r] = row.status]
     /\ \/ /\ row.status = "absent"
           /\ Reply(r, "getJob", "not found", FALSE, Null)
        \/ /\ row.status # "absent" /\ ~MayExecute(r)
           /\ Reply(r, "getJob", "forbidden", FALSE, Null)
        \/ /\ row.status # "absent" /\ MayExecute(r)
           /\ Goto(r, "getJob", "findEvent")
           /\ UNCHANGED answer
  /\ UNCHANGED <<job, event, ledger, call, tries, bundle, before, faults>>

\* findIdempotentEvent found an event: answer with it, whatever it says.
ExecuteReplay(r) ==
  /\ EventOf(r).status # "none"
  /\ Reply(r, "findEvent", "replay", EventOf(r).status \in {"accepted", "skipped"},
           EventOf(r).bundle)
  /\ UNCHANGED <<job, event, ledger, call, seen, tries, bundle, before, faults>>

\* Mutants: one of the three tests on the job row is missing.
ExecuteDecide_NoSkip(r) ==
  /\ EventOf(r).status = "none"
  /\ seen[r] # "cancelled"
  /\ Goto(r, "findEvent", IF JobOf(r).risk = "Critical" THEN "blockJob" ELSE "runAdapter")
  /\ UNCHANGED <<job, event, ledger, call, seen, tries, bundle, answer, before, faults>>
ExecuteDecide_RunCancelled(r) ==
  /\ EventOf(r).status = "none"
  /\ Goto(r, "findEvent", IF seen[r] = "executed" THEN "findLatest"
                          ELSE IF JobOf(r).risk = "Critical" THEN "blockJob" ELSE "runAdapter")
  /\ UNCHANGED <<job, event, ledger, call, seen, tries, bundle, answer, before, faults>>
ExecuteDecide_NoBlock(r) ==
  /\ EventOf(r).status = "none"
  /\ seen[r] # "cancelled"
  /\ Goto(r, "findEvent", IF seen[r] = "executed" THEN "findLatest" ELSE "runAdapter")
  /\ UNCHANGED <<job, event, ledger, call, seen, tries, bundle, answer, before, faults>>

\* It found none: the job row read before, not the one there now, decides.
ExecuteDecide(r) ==
  /\ EventOf(r).status = "none"
  /\ \/ /\ seen[r] = "executed"
        /\ Goto(r, "findEvent", "findLatest")
        /\ UNCHANGED answer
     \/ /\ seen[r] = "cancelled"
        /\ Reply(r, "findEvent", "job cancelled", FALSE, Null)
     \/ /\ seen[r] \notin {"executed", "cancelled"}
        /\ Goto(r, "findEvent",
                IF JobOf(r).risk = "Critical" THEN "blockJob" ELSE "runAdapter")
        /\ UNCHANGED answer
  /\ UNCHANGED <<job, event, ledger, call, seen, tries, bundle, before, faults>>

AcceptedBundles(j) == {event[j][k].bundle : k \in {x \in Keys : event[j][x].status = "accepted"}}

\* The job was executed: take the result of the latest accepted event.  The
\* events are ordered by a wall clock of one millisecond, read before the
\* adapter ran, so any of them may be the latest.
ExecuteFindLatest(r) ==
  /\ Goto(r, "findLatest", "skipEvent")
  /\ \E b \in IF AcceptedBundles(call[r].job) = {} THEN {Null} ELSE AcceptedBundles(call[r].job) :
       bundle' = [bundle EXCEPT ![r] = b]
  /\ UNCHANGED <<job, event, ledger, call, seen, tries, answer, before, faults>>

ExecuteSkip(r) ==
  /\ Reply(r, "skipEvent", "skip", TRUE, bundle[r])
  /\ InsertEvent(r, "skipped", bundle[r])
  /\ UNCHANGED <<job, ledger, call, seen, tries, bundle, before>>

ExecuteBlockJob(r) ==
  /\ Goto(r, "blockJob", "blockEvent")
  /\ SetStatus(call[r].job, "blocked")
  /\ UNCHANGED <<event, ledger, call, seen, tries, bundle, answer, before, faults>>

ExecuteBlockEvent(r) ==
  /\ Reply(r, "blockEvent", "blocked", FALSE, Null)
  /\ InsertEvent(r, "blocked", Null)
  /\ UNCHANGED <<job, ledger, call, seen, tries, bundle, before>>

\* Mutant: the status update is forgotten.
ExecuteAttemptOk_NotMarked(r) ==
  /\ Goto(r, "runAdapter", "acceptEvent")
  /\ bundle' = [bundle EXCEPT ![r] = r]
  /\ UNCHANGED <<job, event, ledger, call, seen, tries, answer, before, faults>>

\* runExecutionWithRetry: one attempt resolves with a bundle ...
ExecuteAttemptOk(r) ==
  /\ Goto(r, "runAdapter", "markExecuted")
  /\ bundle' = [bundle EXCEPT ![r] = r]
  /\ UNCHANGED <<job, event, ledger, call, seen, tries, answer, before, faults>>

\* Mutant: the count of attempts starts over.
ExecuteAttemptThrows_Forever(r) ==
  /\ Goto(r, "runAdapter", "runAdapter")
  /\ tries' = [tries EXCEPT ![r] = (@ + 1) % MaxAttempts]
  /\ UNCHANGED <<job, event, ledger, call, seen, bundle, answer, before, faults>>

\* ... or throws, and the next one starts after a pause, if one is left.
ExecuteAttemptThrows(r) ==
  /\ Goto(r, "runAdapter", IF tries[r] + 1 < MaxAttempts THEN "runAdapter" ELSE "failEvent")
  /\ tries[r] < MaxAttempts
  /\ tries' = [tries EXCEPT ![r] = @ + 1]
  /\ UNCHANGED <<job, event, ledger, call, seen, bundle, answer, before, faults>>

\* Mutant: a failed execution puts the job back to queued.
ExecuteFailEvent_Requeue(r) ==
  /\ Reply(r, "failEvent", "adapter failed", FALSE, Null)
  /\ InsertEvent(r, "failed", Null)
  /\ SetStatus(call[r].job, "queued")
  /\ UNCHANGED <<ledger, call, seen, tries, bundle, before>>

\* The job keeps its status; only the event says that the execution failed.
ExecuteFailEvent(r) ==
  /\ Reply(r, "failEvent", "adapter failed", FALSE, Null)
  /\ InsertEvent(r, "failed", Null)
  /\ UNCHANGED <<job, ledger, call, seen, tries, bundle, before>>

\* Mutant: the accepted event is forgotten.
ExecuteMarkExecuted_NoEvent(r) ==
  /\ Goto(r, "markExecuted", "recordRow")
  /\ SetStatus(call[r].job, "executed")
  /\ UNCHANGED <<event, ledger, call, seen, tries, bundle, answer, before, faults>>

\* The update has no condition on the status the row has by now.
ExecuteMarkExecuted(r) ==
  /\ Goto(r, "markExecuted", "acceptEvent")
  /\ SetStatus(call[r].job, "executed")
  /\ UNCHANGED <<event, ledger, call, seen, tries, bundle, answer, before, faults>>

\* Mutant: a deposit row is added although the request names a position.
ExecuteAcceptEvent_AlwaysRecord(r) ==
  /\ InsertEvent(r, "accepted", bundle[r])
  /\ Goto(r, "acceptEvent", "recordRow")
  /\ UNCHANGED <<job, ledger, call, seen, tries, bundle, answer, before>>

\* The event, then the route: a request that names a position of its own adds
\* no deposit row and is answered now.
ExecuteAcceptEvent(r) ==
  /\ InsertEvent(r, "accepted", bundle[r])
  /\ \/ /\ call[r].positionId
        /\ Reply(r, "acceptEvent", "accepted", TRUE, bundle[r])
     \/ /\ ~call[r].positionId
        /\ Goto(r, "acceptEvent", "recordRow")
        /\ UNCHANGED answer
  /\ UNCHANGED <<job, ledger, call, seen, tries, bundle, before>>

\* recordExecutionPositionIfNeeded: the route drops the error when the ledger
\* refuses the row, and answers ok all the same.
ExecuteRecordRow(r) ==
  /\ Reply(r, "recordRow", "accepted", TRUE, bundle[r])
  /\ \/ ledger' = ledger \cup {r} /\ UNCHANGED faults
     \/ faults < MaxFaults /\ faults' = faults + 1 /\ UNCHANGED ledger
  /\ UNCHANGED <<job, event, call, seen, tries, bundle, before>>

-----------------------------------------------------------------------------
(* POST /api/orchestrator/jobs/:jobId/cancel *)

MayCancel(r) == call[r].user \in SecurityUsers \cup {JobOf(r).owner}

CancelRead(r) ==
  /\ LET row == JobOf(r) IN
     /\ seen' = [seen EXCEPT ![r] = row.status]
     /\ \/ /\ row.status = "absent" \/ ~MayCancel(r)
           /\ Reply(r, "cancelRead", "not found", FALSE, Null)
        \/ /\ row.status = "executed" /\ MayCancel(r)
           /\ Reply(r, "cancelRead", "cancel refused", FALSE, Null)
        \/ /\ row.status \notin {"absent", "executed"} /\ MayCancel(r)
           /\ Goto(r, "cancelRead", "cancelWrite")
           /\ UNCHANGED answer
  /\ UNCHANGED <<job, event, ledger, call, tries, bundle, before, faults>>

CancelWrite(r) ==
  /\ Reply(r, "cancelWrite", "cancel done", TRUE, Null)
  /\ SetStatus(call[r].job, "cancelled")
  /\ UNCHANGED <<event, ledger, call, seen, tries, bundle, before, faults>>

-----------------------------------------------------------------------------
(* Faults *)

\* A database call rejects and the route answers with the error.
DbError(r) ==
  /\ pc[r] \in UncaughtPC
  /\ faults < MaxFaults
  /\ faults' = faults + 1
  /\ Reply(r, pc[r], "error", FALSE, Null)
  /\ UNCHANGED <<job, event, ledger, call, seen, tries, bundle, before>>

\* The process ends and is started again: the tables stay, every request in
\* flight is gone and nothing resumes it.
Crash ==
  /\ faults < MaxFaults
  /\ \E r \in Requests : pc[r] \in InFlight
  /\ faults' = faults + 1
  /\ pc' = [r \in Requests |-> IF pc[r] \in InFlight THEN "lost" ELSE pc[r]]
  /\ UNCHANGED <<job, event, ledger, call, seen, tries, bundle, answer, before>>

-----------------------------------------------------------------------------

ExecuteStep(r) ==
  \/ ExecuteGetJob(r) \/ ExecuteReplay(r) \/ ExecuteDecide(r)
  \/ ExecuteFindLatest(r) \/ ExecuteSkip(r)
  \/ ExecuteBlockJob(r) \/ ExecuteBlockEvent(r)
  \/ ExecuteAttemptOk(r) \/ ExecuteAttemptThrows(r) \/ ExecuteFailEvent(r)
  \/ ExecuteMarkExecuted(r) \/ ExecuteAcceptEvent(r) \/ ExecuteRecordRow(r)

CancelStep(r) == CancelRead(r) \/ CancelWrite(r)

Next ==
  \/ \E j \in Jobs, user \in Users, depeg \in BOOLEAN : CreateJob(j, user, depeg)
  \/ \E r \in Requests : Arrive(r) \/ ExecuteStep(r) \/ CancelStep(r) \/ DbError(r)
  \/ Crash

Spec == Init /\ [][Next]_vars

\* Every await settles: the event loop resumes a handler whose promise is
\* settled, and the adapters' calls have time limits of their own.
FairSpec == Spec /\ \A r \in Requests : WF_vars(ExecuteStep(r) \/ CancelStep(r))

-----------------------------------------------------------------------------
(* Properties *)

\* The request ran the adapter to a result: funds may have moved.
Ran(r) == bundle[r] = r

\* Only the owner of a job has it executed or gets a deposit row for it (a job
\* without an owner is anybody's): executeJob's ownership test holds for the
\* row that the later steps act on.
OnlyOwnerExecutes ==
  \A r \in Requests : Ran(r) \/ r \in ledger =>
    JobOf(r).owner \in {Null, call[r].user} /\ call[r].op = "execute"

\* A critical job never reaches the adapters, is never marked executed and has
\* no event that a replay would answer with ok, whatever raced with the block.
CriticalNeverExecutes ==
  \A j \in Jobs : job[j].risk = "Critical" =>
    /\ job[j].status # "executed"
    /\ \A k \in Keys : event[j][k].status \in {"none", "blocked"}
    /\ \A r \in Requests : call[r].job = j => ~Ran(r) /\ r \notin ledger

\* An accepted event names a run of the adapters made under that very job and
\* key, and its job is executed (or a racing cancel has overwritten that).
AcceptedIsBacked ==
  \A j \in Jobs, k \in Keys : event[j][k].status = "accepted" =>
    /\ \E r \in Requests : event[j][k].bundle = r /\ Ran(r) /\ call[r].job = j /\ call[r].key = k
    /\ job[j].status \in {"executed", "cancelled"}

\* Whatever result a client is told about, on the first answer, a replay or a
\* skip, is the result of an adapter run for the job it asked about.
AnswersNameRunsOfTheJob ==
  \A r \in Requests : answer[r].bundle # Null =>
    \E q \in Requests : answer[r].bundle = q /\ Ran(q) /\ call[q].job = call[r].job

\* Once somebody has been told that a job was executed or skipped as executed,
\* no request that arrives later runs the adapters for it again, under any key
\* and in spite of crashes, lost events and cancels.
SequentialRerunSkips ==
  \A q, r \in Requests :
    /\ q \in before[r] /\ call[q].job = call[r].job
    /\ answer[q].kind \in {"accepted", "skip"}
    => ~Ran(r)

\* A cancel that was acknowledged before a request arrives stops it: that the
\* cancelled status may be overwritten by an execution already under way does
\* not let a new one start.
AcknowledgedCancelHolds ==
  \A q, r \in Requests :
    /\ q \in before[r] /\ call[q].job = call[r].job
    /\ answer[q].kind = "cancel done"
    => ~Ran(r)

\* An answer recorded under a key is final: a request that arrives after an
\* answer for its job and key was given, and recorded, never runs the adapters.
\* With no fault every answer of these kinds is recorded before it is given.
RecordedKeyNeverReruns ==
  \A q, r \in Requests :
    /\ faults = 0 /\ q \in before[r]
    /\ call[q].job = call[r].job /\ call[q].key = call[r].key
    /\ answer[q].kind \in {"replay", "skip", "blocked", "adapter failed", "accepted"}
    => ~Ran(r)

\* The deposit ledger and the answers agree: a row belongs to a run of the
\* request that added it, which named no position and whose job is executed;
\* with no fault every such accepted answer has its row.
LedgerMatchesAnswers ==
  /\ \A r \in ledger :
       /\ Ran(r) /\ ~call[r].positionId /\ answer[r].kind = "accepted"
       /\ JobOf(r).status \in {"executed", "cancelled"}
  /\ faults = 0 =>
       \A r \in Requests : answer[r].kind = "accepted" /\ ~call[r].positionId => r \in ledger

\* Funds never move without a trace: with no fault, an answered request that
\* ran the adapters left an event under its key, though perhaps not its own.
EveryRunLeavesATrace ==
  \A r \in Requests : faults = 0 /\ Ran(r) /\ pc[r] = "done" => EventOf(r).status # "none"

\* The tables behave as JobLifecycle says, whatever the requests do.
Lifecycle == INSTANCE JobLifecycle WITH
  Owners   <- Users \cup {Null},
  status   <- [j \in Jobs |-> job[j].status],
  risk     <- [j \in Jobs |-> job[j].risk],
  owner    <- [j \in Jobs |-> job[j].owner],
  recorded <- [j \in Jobs |-> [k \in Keys |-> event[j][k].status]],
  funded   <- {call[r].job : r \in ledger}

ImplementsLifecycle == Lifecycle!Spec

\* Every request that arrives is answered, or lost in a crash.
EveryRequestSettles ==
  \A r \in Requests : pc[r] \in InFlight ~> pc[r] \in {"done", "lost"}

\* README.md: a repeated request with the same Idempotency-Key is answered
\* with the existing result.  Two ok answers to one user under one job and key
\* name the same result.
SameKeySameResult ==
  \A q, r \in Requests :
    /\ call[q].job = call[r].job /\ call[q].key = call[r].key
    /\ answer[q].ok /\ answer[r].ok /\ call[q].op = "execute" /\ call[r].op = "execute"
    => answer[q].bundle = answer[r].bundle

\* store.ts: "executed job cannot be cancelled".
ExecutedStaysExecuted ==
  [][\A j \in Jobs : job[j].status = "executed" => job'[j].status = "executed"]_vars
=============================================================================
