------------------------- MODULE JobExecutionProofs -------------------------
(***************************************************************************)
(* The invariants of JobExecution, and that it implements JobLifecycle,    *)
(* for all jobs, keys, users, requests and bounds.                         *)
(*                                                                         *)
(* The safety properties are not inductive: each needs to know what a      *)
(* suspended request may still do.  IInv says it: TableInv relates the     *)
(* rows of the tables to each other, RequestInv(r) relates where a request *)
(* is suspended, and what it holds there, to the tables.                   *)
(*                                                                         *)
(* A step belongs to one request.  Frame(r) says what it leaves alone and  *)
(* what it can only do to the tables in one direction; with it, the        *)
(* invariant of every other request is preserved by one argument for all   *)
(* actions, and each action is left with the request that takes the step.  *)
(***************************************************************************)
EXTENDS JobExecution, TLAPS

\* Statuses that are never left for "queued", and those that a job which may
\* run is never taken out of: a cancel and an execution overwrite each other.
Decided(j)  == job[j].status \in Settled
Executed(j) == job[j].risk = "Low" /\ job[j].status \in {"executed", "cancelled"}

\* From the decision to run the adapters to the answer.
RunPC   == {"runAdapter", "failEvent", "markExecuted", "acceptEvent", "recordRow"}
SkipPC  == {"findLatest", "skipEvent"}
BlockPC == {"blockJob", "blockEvent"}

IsRunFor(b, j) == b \in Requests /\ Ran(b) /\ call[b].job = j

\* The columns of a job row fit each other.
RowInv(j) ==
  /\ job[j].status = "absent" => job[j].risk = "Low" /\ job[j].owner = Null
  /\ job[j].status = "executed" => job[j].risk = "Low"
  /\ job[j].status = "blocked" => job[j].risk = "Critical"

\* What an event says about its job.
EventInv(j, k) ==
  /\ event[j][k].status # "none" => job[j].status # "absent"
  /\ event[j][k].status \in {"accepted", "skipped"} => Executed(j)
  /\ event[j][k].status \in {"accepted", "skipped", "failed"} => job[j].risk = "Low"
  /\ event[j][k].bundle # Null => IsRunFor(event[j][k].bundle, j)
  /\ event[j][k].status = "accepted" =>
       event[j][k].bundle # Null /\ call[event[j][k].bundle].key = k

TableInv == \A j \in Jobs : RowInv(j) /\ \A k \in Keys : EventInv(j, k)

\* The copy of the row that a request holds may be stale, but a job that was
\* decided when it was read is still decided.
SeenInv(r) ==
  /\ seen[r] # "absent" => JobOf(r).status # "absent"
  /\ seen[r] = "executed" => Executed(call[r].job)
  /\ seen[r] = "blocked" => JobOf(r).risk = "Critical"
  /\ pc[r] \in {"idle", "getJob", "cancelRead"} => seen[r] = "absent"

\* Where a request is suspended tells what has been checked and done for it.
StageInv(r) ==
  /\ pc[r] \in ExecutePC => call[r].op = "execute"
  /\ pc[r] \in ExecutePC \ {"getJob"} => MayExecute(r) /\ seen[r] # "absent"
  /\ pc[r] = "cancelWrite" => seen[r] # "absent"
  /\ pc[r] \in RunPC => JobOf(r).risk = "Low" /\ seen[r] = "queued"
  /\ pc[r] \in SkipPC => seen[r] = "executed"
  /\ pc[r] \in BlockPC => JobOf(r).risk = "Critical"
  /\ pc[r] \in {"markExecuted", "acceptEvent", "recordRow"} => Ran(r)
  /\ pc[r] \in {"acceptEvent", "recordRow"} => Executed(call[r].job)
  /\ pc[r] = "recordRow" => ~call[r].positionId

\* A request that ran the adapters was entitled to, on a job that allows it.
RanInv(r) ==
  Ran(r) =>
    /\ call[r].op = "execute" /\ MayExecute(r) /\ seen[r] = "queued"
    /\ JobOf(r).risk = "Low"
    /\ pc[r] \in {"markExecuted", "acceptEvent", "recordRow", "done", "lost"}

\* Results are passed on only within a job.
ResultInv(r) ==
  /\ bundle[r] # Null => IsRunFor(bundle[r], call[r].job)
  /\ answer[r].bundle # Null => IsRunFor(answer[r].bundle, call[r].job)

\* What an answer says about its job.
AnswerInv(r) ==
  /\ answer[r].kind # "none" => pc[r] = "done"
  /\ answer[r].kind = "accepted" => Ran(r) /\ Executed(call[r].job)
  /\ answer[r].kind = "skip" => Executed(call[r].job)
  /\ answer[r].kind = "cancel done" => Decided(call[r].job)

\* What it says, with no fault, about its event and its deposit row.
RecordedKinds == {"replay", "skip", "blocked", "adapter failed", "accepted"}

TraceInv(r) ==
  /\ r \in ledger => answer[r].kind = "accepted" /\ ~call[r].positionId
  /\ faults = 0 =>
       /\ answer[r].kind \in RecordedKinds => EventOf(r).status # "none"
       /\ Ran(r) /\ pc[r] \in {"recordRow", "done", "lost"} => EventOf(r).status # "none"
       /\ answer[r].kind = "accepted" /\ ~call[r].positionId => r \in ledger

\* What was answered before a request arrived keeps it from the adapters.
BeforeInv(q, r) ==
  q \in before[r] =>
    /\ pc[q] = "done" /\ pc[r] # "idle"
    /\ call[q].job = call[r].job /\ answer[q].kind \in {"accepted", "skip", "cancel done"}
         => seen[r] # "queued"
    /\ faults = 0 /\ call[q].job = call[r].job /\ call[q].key = call[r].key
         /\ answer[q].kind \in RecordedKinds
         => pc[r] \notin RunPC /\ ~Ran(r)

RequestInv(r) ==
  /\ SeenInv(r) /\ StageInv(r) /\ RanInv(r) /\ ResultInv(r) /\ AnswerInv(r) /\ TraceInv(r)
  /\ \A q \in Requests : BeforeInv(q, r)

IInv == TypeOK /\ TableInv /\ \A r \in Requests : RequestInv(r)

-----------------------------------------------------------------------------
(* Frames *)

\* Decisions are final, rows of existing jobs keep their risk and owner, events
\* and results are written once.
TablesGrow ==
  /\ call' = call
  /\ \A j \in Jobs :
       /\ job[j].status # "absent" =>
            job'[j].status # "absent" /\ job'[j].risk = job[j].risk /\ job'[j].owner = job[j].owner
       /\ Executed(j) => Executed(j)'
       /\ Decided(j) => Decided(j)'
       /\ \A k \in Keys : event[j][k].status # "none" => event'[j][k] = event[j][k]
  /\ \A q \in Requests : Ran(q) => Ran(q)'
  /\ ledger \subseteq ledger'
  /\ faults' = 0 => faults = 0

\* Only request r moves, and it was in flight or not there yet.
OnlyMoves(r) ==
  /\ pc[r] # "done"
  /\ ledger' \subseteq ledger \cup {r}
  /\ \A q \in Requests \ {r} :
       /\ pc'[q] = pc[q] /\ seen'[q] = seen[q] /\ bundle'[q] = bundle[q]
       /\ answer'[q] = answer[q] /\ before'[q] = before[q]

Frame(r) == TablesGrow /\ OnlyMoves(r)

\* A request that does not move, while no answer is withdrawn.
Unmoved(q) ==
  /\ pc'[q] = pc[q] /\ seen'[q] = seen[q] /\ bundle'[q] = bundle[q]
  /\ answer'[q] = answer[q] /\ before'[q] = before[q]
  /\ q \in ledger' <=> q \in ledger
  /\ \A p \in Requests : pc[p] = "done" => pc'[p] = "done" /\ answer'[p] = answer[p]

\* A step preserves the invariant of every request it does not move.
LEMMA OthersUndisturbed ==
  ASSUME IInv, TablesGrow, NEW q \in Requests, Unmoved(q)
  PROVE  RequestInv(q)'
<1>1. /\ call[q] \in Call /\ call[q].job \in Jobs /\ call[q].key \in Keys
      /\ q \in Requests /\ RequestInv(q) /\ TablesGrow /\ call' = call
  BY CallsAssumption DEF IInv, TypeOK, TablesGrow, Call
<1>2. /\ pc'[q] = pc[q] /\ seen'[q] = seen[q] /\ bundle'[q] = bundle[q]
      /\ answer'[q] = answer[q] /\ before'[q] = before[q]
  BY DEF Unmoved
<1>3. /\ Ran(q)' <=> Ran(q)
      /\ \A b, j : IsRunFor(b, j) => IsRunFor(b, j)'
  BY <1>1, <1>2 DEF TablesGrow, Ran, IsRunFor
<1>4. /\ Executed(call[q].job) => Executed(call[q].job)'
      /\ Decided(call[q].job) => Decided(call[q].job)'
      /\ JobOf(q).status # "absent" =>
           /\ JobOf(q)'.status # "absent"
           /\ JobOf(q)'.risk = JobOf(q).risk
           /\ JobOf(q)'.owner = JobOf(q).owner
      /\ JobOf(q)' = job'[call[q].job]
  BY <1>1 DEF TablesGrow, JobOf, Executed, Decided
<1>5. /\ EventOf(q).status # "none" => EventOf(q)' = EventOf(q)
      /\ faults' = 0 => faults = 0
      /\ q \in ledger' <=> q \in ledger
  BY <1>1 DEF TablesGrow, EventOf, Unmoved
<1>6. SeenInv(q)'
  BY <1>1, <1>2, <1>4 DEF RequestInv, SeenInv
<1>7. StageInv(q)'
  BY <1>1, <1>2, <1>3, <1>4
     DEF RequestInv, StageInv, SeenInv, MayExecute, ExecutePC, RunPC, SkipPC, BlockPC
<1>8. RanInv(q)'
  BY <1>1, <1>2, <1>3, <1>4 DEF RequestInv, RanInv, SeenInv, MayExecute
<1>9. ResultInv(q)'
  BY <1>1, <1>2, <1>3 DEF RequestInv, ResultInv
<1>10. AnswerInv(q)'
  BY <1>1, <1>2, <1>3, <1>4 DEF RequestInv, AnswerInv
<1>11. TraceInv(q)'
  BY <1>1, <1>2, <1>3, <1>5 DEF RequestInv, TraceInv
<1>12. ASSUME NEW p \in Requests PROVE BeforeInv(p, q)'
  <2>1. BeforeInv(p, q)
    BY <1>1 DEF RequestInv
  <2>2. p \in before[q] => pc'[p] = pc[p] /\ answer'[p] = answer[p]
    BY <2>1 DEF BeforeInv, Unmoved
  <2> QED
    BY <1>1, <1>2, <1>3, <1>5, <2>1, <2>2 DEF BeforeInv
<1> QED
  BY <1>6, <1>7, <1>8, <1>9, <1>10, <1>11, <1>12 DEF RequestInv

\* So a step of r is checked against the tables and r alone.
LEMMA StepOfOneRequest ==
  ASSUME IInv, NEW r \in Requests, TypeOK', Frame(r), TableInv', RequestInv(r)'
  PROVE  IInv'
<1>1. ASSUME NEW q \in Requests \ {r} PROVE RequestInv(q)'
  <2>1. TablesGrow /\ Unmoved(q)
    BY DEF Frame, TablesGrow, OnlyMoves, Unmoved
  <2> QED
    BY <2>1, OthersUndisturbed
<1> QED
  BY <1>1 DEF IInv

\* A step that writes neither table leaves the tables in order.
LEMMA TablesUntouched ==
  ASSUME IInv, TablesGrow, job' = job, event' = event
  PROVE  TableInv'
<1>1. \A b, j : IsRunFor(b, j) => IsRunFor(b, j)'
  BY DEF TablesGrow, IsRunFor
<1>2. ASSUME NEW j \in Jobs, NEW k \in Keys PROVE EventInv(j, k)'
  <2>1. EventInv(j, k) /\ event'[j][k] = event[j][k] /\ job'[j] = job[j] /\ call' = call
    BY DEF IInv, TableInv, TablesGrow
  <2> QED
    BY <1>1, <2>1 DEF EventInv, Executed
<1>3. ASSUME NEW j \in Jobs PROVE RowInv(j)'
  BY DEF IInv, TableInv, RowInv
<1> QED
  BY <1>2, <1>3 DEF TableInv

-----------------------------------------------------------------------------
(* What the helpers of the actions do *)

\* The invariant where a step of r looks at it.
LEMMA Here ==
  ASSUME IInv, NEW r \in Requests
  PROVE  /\ TypeOK /\ RequestInv(r)
         /\ call[r].job \in Jobs /\ call[r].key \in Keys /\ call[r].positionId \in BOOLEAN
         /\ RowInv(call[r].job) /\ EventInv(call[r].job, call[r].key)
         /\ JobOf(r) = job[call[r].job] /\ JobOf(r) \in Job
         /\ EventOf(r) = event[call[r].job][call[r].key] /\ EventOf(r) \in Event
  BY CallsAssumption DEF IInv, TableInv, TypeOK, Call, JobOf, EventOf

\* Goto moves one request, from the await named to the next one.
LEMMA GotoFacts ==
  ASSUME TypeOK, NEW r \in Requests, NEW from, NEW to \in {"idle", "done", "lost"} \cup InFlight,
         Goto(r, from, to)
  PROVE  /\ pc[r] = from /\ pc'[r] = to
         /\ \A q \in Requests \ {r} : pc'[q] = pc[q]
         /\ pc' \in [Requests -> {"idle", "done", "lost"} \cup InFlight]
  BY DEF TypeOK, Goto

\* Reply ends one request, with the answer given.
LEMMA ReplyFacts ==
  ASSUME TypeOK, NEW r \in Requests, NEW from, NEW kind, NEW ok, NEW result,
         [kind |-> kind, ok |-> ok, bundle |-> result] \in Answer,
         Reply(r, from, kind, ok, result)
  PROVE  /\ pc[r] = from /\ pc'[r] = "done"
         /\ answer'[r].kind = kind /\ answer'[r].bundle = result
         /\ \A q \in Requests \ {r} : pc'[q] = pc[q] /\ answer'[q] = answer[q]
         /\ pc' \in [Requests -> {"idle", "done", "lost"} \cup InFlight]
         /\ answer' \in [Requests -> Answer]
<1>1. Goto(r, from, "done")
  BY DEF Reply
<1>2. answer' = [answer EXCEPT ![r] = [kind |-> kind, ok |-> ok, bundle |-> result]]
  BY DEF Reply
<1>3. /\ answer'[r] = [kind |-> kind, ok |-> ok, bundle |-> result]
      /\ answer' \in [Requests -> Answer]
      /\ \A q \in Requests \ {r} : answer'[q] = answer[q]
  BY <1>2 DEF TypeOK
<1> QED
  BY <1>1, <1>3, GotoFacts

\* createExecutionEvent writes at most one event, and never over another; when
\* no fault has happened the key has an event afterwards.
LEMMA InsertFacts ==
  ASSUME IInv, NEW r \in Requests, NEW status, NEW result,
         [status |-> status, bundle |-> result] \in Event, status # "none",
         InsertEvent(r, status, result)
  PROVE  /\ event' \in [Jobs -> [Keys -> Event]]
         /\ faults' \in 0 .. MaxFaults
         /\ \A j \in Jobs, k \in Keys :
              \/ event'[j][k] = event[j][k]
              \/ /\ event[j][k].status = "none" /\ j = call[r].job /\ k = call[r].key
                 /\ event'[j][k].status = status /\ event'[j][k].bundle = result
         /\ faults' = 0 => faults = 0 /\ event'[call[r].job][call[r].key].status # "none"
<1>1. /\ TypeOK /\ call[r].job \in Jobs /\ call[r].key \in Keys
      /\ event[call[r].job][call[r].key] \in Event
  BY Here
<1>2. CASE /\ event' = [event EXCEPT ![call[r].job][call[r].key] =
                          IF @.status = "none" THEN [status |-> status, bundle |-> result] ELSE @]
           /\ faults' = faults
  <2>1. CASE event[call[r].job][call[r].key].status = "none"
    <3> DEFINE new == [status |-> status, bundle |-> result]
    <3>1. new \in Event /\ new.status = status /\ new.bundle = result
      OBVIOUS
    <3> HIDE DEF new
    <3>2. event' = [event EXCEPT ![call[r].job][call[r].key] = new]
      BY <1>2, <2>1 DEF new
    <3> QED
      BY <1>1, <1>2, <2>1, <3>1, <3>2 DEF TypeOK
  <2>2. CASE event[call[r].job][call[r].key].status # "none"
    <3>1. event' = event
      BY <1>1, <1>2, <2>2 DEF TypeOK
    <3> QED
      BY <1>1, <1>2, <2>2, <3>1 DEF TypeOK
  <2> QED
    BY <2>1, <2>2
<1>3. CASE faults < MaxFaults /\ faults' = faults + 1 /\ event' = event
  BY <1>1, <1>3, BoundsAssumption DEF TypeOK
<1> QED
  BY <1>2, <1>3 DEF InsertEvent

\* A status update changes nothing else in the row, and no other row.
LEMMA SetStatusFacts ==
  ASSUME TypeOK, NEW j \in Jobs, NEW status \in Statuses, SetStatus(j, status)
  PROVE  /\ job' \in [Jobs -> Job]
         /\ job'[j].status = status /\ job'[j].risk = job[j].risk /\ job'[j].owner = job[j].owner
         /\ \A i \in Jobs \ {j} : job'[i] = job[i]
  BY DEF SetStatus, TypeOK, Job

\* What a request keeps on the way from reading the job to the answer.
LEMMA MoverKeeps ==
  ASSUME IInv, NEW r \in Requests, Frame(r),
         seen'[r] = seen[r], before'[r] = before[r], bundle'[r] = bundle[r],
         pc'[r] \notin {"idle", "getJob", "cancelRead"},
         Ran(r) => pc'[r] \in {"markExecuted", "acceptEvent", "recordRow", "done", "lost"},
         pc'[r] \in RunPC => pc[r] \in RunPC
  PROVE  /\ SeenInv(r)' /\ RanInv(r)' /\ \A q \in Requests : BeforeInv(q, r)'
         /\ \A b : b # Null /\ IsRunFor(b, call[r].job) => IsRunFor(b, call[r].job)'
<1>1. RequestInv(r) /\ call[r].job \in Jobs /\ JobOf(r) = job[call[r].job] /\ TablesGrow /\ call' = call
  BY Here DEF Frame, TablesGrow
<1>2. /\ Ran(r)' <=> Ran(r)
      /\ \A b, j : IsRunFor(b, j) => IsRunFor(b, j)'
      /\ faults' = 0 => faults = 0
  BY <1>1 DEF TablesGrow, Ran, IsRunFor
<1>3. /\ Executed(call[r].job) => Executed(call[r].job)'
      /\ Decided(call[r].job) => Decided(call[r].job)'
      /\ JobOf(r).status # "absent" =>
           /\ JobOf(r)'.status # "absent"
           /\ JobOf(r)'.risk = JobOf(r).risk
           /\ JobOf(r)'.owner = JobOf(r).owner
  BY <1>1 DEF TablesGrow, JobOf, Executed, Decided
<1>4. SeenInv(r)'
  BY <1>1, <1>3 DEF RequestInv, SeenInv
<1>5. RanInv(r)'
  BY <1>1, <1>2, <1>3 DEF RequestInv, RanInv, SeenInv, MayExecute
<1>6. ASSUME NEW q \in Requests PROVE BeforeInv(q, r)'
  <2>1. BeforeInv(q, r)
    BY <1>1 DEF RequestInv
  <2>2. q \in before[r] => pc'[q] = pc[q] /\ answer'[q] = answer[q]
    BY <2>1 DEF BeforeInv, Frame, OnlyMoves
  <2> QED
    BY <1>1, <1>2, <2>1, <2>2 DEF BeforeInv
<1> QED
  BY <1>1, <1>2, <1>4, <1>5, <1>6

-----------------------------------------------------------------------------
(* The actions *)

\* A replay hands on the result of the event, which is one of its job.
LEMMA ExecuteReplayPreserves ==
  ASSUME IInv, NEW r \in Requests, ExecuteReplay(r)
  PROVE  IInv'
<1>1. /\ TypeOK /\ RequestInv(r) /\ call[r].job \in Jobs /\ EventOf(r) \in Event
      /\ EventInv(call[r].job, call[r].key)
      /\ EventOf(r) = event[call[r].job][call[r].key]
  BY Here
<1>2. /\ pc[r] = "findEvent" /\ pc'[r] = "done"
      /\ answer'[r].kind = "replay" /\ answer'[r].bundle = EventOf(r).bundle
      /\ \A q \in Requests \ {r} : pc'[q] = pc[q] /\ answer'[q] = answer[q]
      /\ pc' \in [Requests -> {"idle", "done", "lost"} \cup InFlight]
      /\ answer' \in [Requests -> Answer]
  <2>1. [kind |-> "replay", ok |-> EventOf(r).status \in {"accepted", "skipped"},
         bundle |-> EventOf(r).bundle] \in Answer
    BY <1>1 DEF Answer, Event
  <2> QED
    BY <1>1, <2>1, ReplyFacts DEF ExecuteReplay
<1>3. /\ EventOf(r).status # "none"
      /\ UNCHANGED <<job, event, ledger, call, seen, tries, bundle, before, faults>>
  BY DEF ExecuteReplay
<1>4. TypeOK'
  BY <1>1, <1>2, <1>3 DEF TypeOK
<1>5. Frame(r)
  BY <1>2, <1>3 DEF Frame, TablesGrow, OnlyMoves, Executed, Decided, Ran
<1>6. TableInv'
  BY <1>3, <1>5, TablesUntouched DEF Frame
<1>7. RequestInv(r)'
  <2>1. ~Ran(r) /\ r \notin ledger /\ bundle' = bundle
    BY <1>1, <1>2, <1>3 DEF RequestInv, RanInv, TraceInv, AnswerInv
  <2>2. /\ SeenInv(r)' /\ RanInv(r)' /\ \A q \in Requests : BeforeInv(q, r)'
        /\ \A b : b # Null /\ IsRunFor(b, call[r].job) => IsRunFor(b, call[r].job)'
    BY <1>2, <1>3, <1>5, <2>1, MoverKeeps DEF RunPC
  <2>3. StageInv(r)'
    BY <1>2 DEF StageInv, ExecutePC, RunPC, SkipPC, BlockPC
  <2>4. ResultInv(r)'
    BY <1>1, <1>2, <1>3, <2>2 DEF RequestInv, ResultInv, EventInv
  <2>5. AnswerInv(r)'
    BY <1>2 DEF AnswerInv
  <2>6. TraceInv(r)'
    BY <1>2, <1>3, <2>1 DEF TraceInv, EventOf, Ran
  <2> QED
    BY <2>2, <2>3, <2>4, <2>5, <2>6 DEF RequestInv
<1> QED
  BY <1>4, <1>5, <1>6, <1>7, StepOfOneRequest

\* Who has arrived has read nothing and run nothing.
LEMMA ArrivePreserves ==
  ASSUME IInv, NEW r \in Requests, Arrive(r)
  PROVE  IInv'
<1>1. TypeOK /\ RequestInv(r) /\ call[r].job \in Jobs
  BY Here
<1>2. /\ pc[r] = "idle" /\ pc'[r] \in {"getJob", "cancelRead"}
      /\ pc'[r] = "getJob" => call[r].op = "execute"
      /\ \A q \in Requests \ {r} : pc'[q] = pc[q]
      /\ pc' \in [Requests -> {"idle", "done", "lost"} \cup InFlight]
  <2>1. CASE call[r].op = "execute"
    BY <1>1, <2>1, GotoFacts DEF Arrive, InFlight, ExecutePC
  <2>2. CASE call[r].op # "execute"
    BY <1>1, <2>2, GotoFacts DEF Arrive, InFlight, CancelPC
  <2> QED
    BY <2>1, <2>2
<1>3. /\ before' = [before EXCEPT ![r] = {q \in Requests : pc[q] = "done"}]
      /\ UNCHANGED <<job, event, ledger, call, seen, tries, bundle, answer, faults>>
  BY DEF Arrive
<1>4. TypeOK'
  BY <1>1, <1>2, <1>3 DEF TypeOK
<1>5. Frame(r)
  BY <1>1, <1>2, <1>3 DEF Frame, TablesGrow, OnlyMoves, Executed, Decided, Ran, TypeOK
<1>6. TableInv'
  BY <1>3, <1>5, TablesUntouched DEF Frame
<1>7. RequestInv(r)'
  <2>1. /\ ~Ran(r) /\ seen[r] = "absent" /\ answer[r].kind = "none" /\ r \notin ledger
        /\ \A b, j : IsRunFor(b, j)' <=> IsRunFor(b, j)
    <3>1. answer[r] \in Answer
      BY <1>1 DEF TypeOK
    <3> QED
      BY <1>1, <1>2, <1>3, <3>1
         DEF RequestInv, RanInv, SeenInv, AnswerInv, TraceInv, IsRunFor, Ran
  <2>2. SeenInv(r)' /\ RanInv(r)'
    BY <1>3, <2>1 DEF SeenInv, RanInv, Ran
  <2>3. StageInv(r)'
    BY <1>2, <1>3 DEF StageInv, ExecutePC, RunPC, SkipPC, BlockPC
  <2>4. ResultInv(r)'
    BY <1>1, <1>3, <2>1 DEF RequestInv, ResultInv
  <2>5. AnswerInv(r)' /\ TraceInv(r)'
    BY <1>3, <2>1 DEF AnswerInv, TraceInv, RecordedKinds, Ran
  <2>6. ASSUME NEW q \in Requests PROVE BeforeInv(q, r)'
    <3>1. q \in before'[r] => pc[q] = "done"
      BY <1>1, <1>3 DEF TypeOK
    <3> QED
      BY <1>2, <1>3, <2>1, <3>1 DEF BeforeInv, RunPC, Ran
  <2> QED
    BY <2>2, <2>3, <2>4, <2>5, <2>6 DEF RequestInv
<1> QED
  BY <1>4, <1>5, <1>6, <1>7, StepOfOneRequest

\* Both handlers first read the job row, and keep its status.
LEMMA ReadingPreserves ==
  ASSUME IInv, NEW r \in Requests,
         pc[r] \in {"getJob", "cancelRead"},
         seen' = [seen EXCEPT ![r] = JobOf(r).status],
         pc' \in [Requests -> {"idle", "done", "lost"} \cup InFlight],
         answer' \in [Requests -> Answer],
         answer'[r].bundle \in {Null, answer[r].bundle},
         \A q \in Requests \ {r} : pc'[q] = pc[q] /\ answer'[q] = answer[q],
         \/ /\ pc'[r] = "done"
            /\ answer'[r].kind \in {"not found", "forbidden", "cancel refused"}
         \/ /\ pc[r] = "getJob" /\ pc'[r] = "findEvent" /\ answer'[r] = answer[r]
            /\ MayExecute(r) /\ JobOf(r).status # "absent"
         \/ /\ pc[r] = "cancelRead" /\ pc'[r] = "cancelWrite" /\ answer'[r] = answer[r]
            /\ JobOf(r).status # "absent",
         UNCHANGED <<job, event, ledger, call, tries, bundle, before, faults>>
  PROVE  IInv'
<1>1. /\ TypeOK /\ RequestInv(r) /\ call[r].job \in Jobs
      /\ JobOf(r) \in Job /\ JobOf(r) = job[call[r].job] /\ RowInv(call[r].job)
  BY Here
<1>2. /\ seen'[r] = JobOf(r).status
      /\ \A q \in Requests \ {r} : seen'[q] = seen[q]
      /\ seen' \in [Requests -> Statuses]
  BY <1>1 DEF TypeOK, Job
<1>3. TypeOK'
  BY <1>1, <1>2 DEF TypeOK
<1>4. Frame(r)
  BY <1>2 DEF Frame, TablesGrow, OnlyMoves, Executed, Decided, Ran
<1>5. TableInv'
  BY <1>4, TablesUntouched DEF Frame
<1>6. RequestInv(r)'
  <2>1. /\ ~Ran(r) /\ answer[r].kind = "none" /\ r \notin ledger
        /\ \A b, j : IsRunFor(b, j)' <=> IsRunFor(b, j)
        /\ JobOf(r)' = JobOf(r)
    <3>1. answer[r] \in Answer
      BY <1>1 DEF TypeOK
    <3> QED
      BY <1>1, <3>1 DEF RequestInv, RanInv, AnswerInv, TraceInv, IsRunFor, Ran, JobOf
  <2>2. SeenInv(r)' /\ RanInv(r)'
    BY <1>1, <1>2, <2>1 DEF SeenInv, RanInv, Ran, RowInv, Executed
  <2>3. StageInv(r)'
    BY <1>1, <1>2, <2>1
       DEF RequestInv, StageInv, MayExecute, ExecutePC, RunPC, SkipPC, BlockPC
  <2>4. ResultInv(r)'
    BY <1>1, <2>1 DEF RequestInv, ResultInv
  <2>5. AnswerInv(r)' /\ TraceInv(r)'
    BY <2>1 DEF AnswerInv, TraceInv, RecordedKinds, Ran
  <2>6. ASSUME NEW q \in Requests PROVE BeforeInv(q, r)'
    <3>1. BeforeInv(q, r) /\ AnswerInv(q)
      BY <1>1 DEF RequestInv, IInv
    <3>2. q \in before[r] => q # r /\ pc'[q] = "done" /\ answer'[q] = answer[q]
      BY <3>1 DEF BeforeInv
    <3>3. /\ call[q].job = call[r].job /\ answer[q].kind \in {"accepted", "skip", "cancel done"}
               => JobOf(r).status # "queued"
      BY <1>1, <3>1 DEF AnswerInv, Executed, Decided, Settled
    <3>4. pc'[r] \notin RunPC /\ pc'[r] # "idle" /\ ~Ran(r)'
      BY <2>1 DEF RunPC, Ran
    <3> QED
      BY <1>2, <3>1, <3>2, <3>3, <3>4 DEF BeforeInv
  <2> QED
    BY <2>2, <2>3, <2>4, <2>5, <2>6 DEF RequestInv
<1> QED
  BY <1>3, <1>4, <1>5, <1>6, StepOfOneRequest

\* executeJob reads the row: an answer, or on to the idempotency lookup.
LEMMA ExecuteGetJobPreserves ==
  ASSUME IInv, NEW r \in Requests, ExecuteGetJob(r)
  PROVE  IInv'
<1>1. TypeOK /\ RequestInv(r) /\ answer[r] \in Answer /\ Null \in Requests \cup {Null}
  BY Here DEF TypeOK
<1>2. \A kind \in {"not found", "forbidden"} : 
        [kind |-> kind, ok |-> FALSE, bundle |-> Null] \in Answer
  BY <1>1 DEF Answer
<1>3. CASE \E kind \in {"not found", "forbidden"} : Reply(r, "getJob", kind, FALSE, Null)
  <2>1. /\ pc[r] = "getJob" /\ pc'[r] = "done"
        /\ answer'[r].kind \in {"not found", "forbidden"} /\ answer'[r].bundle = Null
        /\ \A q \in Requests \ {r} : pc'[q] = pc[q] /\ answer'[q] = answer[q]
        /\ pc' \in [Requests -> {"idle", "done", "lost"} \cup InFlight]
        /\ answer' \in [Requests -> Answer]
    BY <1>1, <1>2, <1>3, ReplyFacts
  <2> QED
    BY <2>1, ReadingPreserves DEF ExecuteGetJob
<1>4. CASE /\ JobOf(r).status # "absent" /\ MayExecute(r)
           /\ Goto(r, "getJob", "findEvent") /\ UNCHANGED answer
  <2>1. /\ pc[r] = "getJob" /\ pc'[r] = "findEvent"
        /\ \A q \in Requests \ {r} : pc'[q] = pc[q] /\ answer'[q] = answer[q]
        /\ pc' \in [Requests -> {"idle", "done", "lost"} \cup InFlight]
        /\ answer' \in [Requests -> Answer]
    BY <1>1, <1>4, GotoFacts DEF InFlight, ExecutePC, TypeOK
  <2> QED
    BY <1>4, <2>1, ReadingPreserves DEF ExecuteGetJob
<1> QED
  BY <1>3, <1>4 DEF ExecuteGetJob

\* cancelJob reads the row: an answer, or on to the update.
LEMMA CancelReadPreserves ==
  ASSUME IInv, NEW r \in Requests, CancelRead(r)
  PROVE  IInv'
<1>1. TypeOK /\ RequestInv(r) /\ answer[r] \in Answer /\ Null \in Requests \cup {Null}
  BY Here DEF TypeOK
<1>2. \A kind \in {"not found", "cancel refused"} :
        [kind |-> kind, ok |-> FALSE, bundle |-> Null] \in Answer
  BY <1>1 DEF Answer
<1>3. CASE \E kind \in {"not found", "cancel refused"} : Reply(r, "cancelRead", kind, FALSE, Null)
  <2>1. /\ pc[r] = "cancelRead" /\ pc'[r] = "done"
        /\ answer'[r].kind \in {"not found", "cancel refused"} /\ answer'[r].bundle = Null
        /\ \A q \in Requests \ {r} : pc'[q] = pc[q] /\ answer'[q] = answer[q]
        /\ pc' \in [Requests -> {"idle", "done", "lost"} \cup InFlight]
        /\ answer' \in [Requests -> Answer]
    BY <1>1, <1>2, <1>3, ReplyFacts
  <2> QED
    BY <2>1, ReadingPreserves DEF CancelRead
<1>4. CASE /\ JobOf(r).status # "absent"
           /\ Goto(r, "cancelRead", "cancelWrite") /\ UNCHANGED answer
  <2>1. /\ pc[r] = "cancelRead" /\ pc'[r] = "cancelWrite"
        /\ \A q \in Requests \ {r} : pc'[q] = pc[q] /\ answer'[q] = answer[q]
        /\ pc' \in [Requests -> {"idle", "done", "lost"} \cup InFlight]
        /\ answer' \in [Requests -> Answer]
    BY <1>1, <1>4, GotoFacts DEF InFlight, CancelPC, TypeOK
  <2> QED
    BY <1>4, <2>1, ReadingPreserves DEF CancelRead
<1> QED
  BY <1>3, <1>4 DEF CancelRead

\* The job row read first decides; that it may be stale is what SeenInv is for.
LEMMA ExecuteDecidePreserves ==
  ASSUME IInv, NEW r \in Requests, ExecuteDecide(r)
  PROVE  IInv'
<1>1. /\ TypeOK /\ RequestInv(r) /\ call[r].job \in Jobs /\ call[r].key \in Keys
      /\ JobOf(r) \in Job /\ JobOf(r) = job[call[r].job]
      /\ EventOf(r) = event[call[r].job][call[r].key]
      /\ answer \in [Requests -> Answer] /\ answer[r] \in Answer /\ seen[r] \in Statuses
  BY Here DEF TypeOK
<1>2. /\ pc[r] = "findEvent"
      /\ \A q \in Requests \ {r} : pc'[q] = pc[q] /\ answer'[q] = answer[q]
      /\ pc' \in [Requests -> {"idle", "done", "lost"} \cup InFlight]
      /\ answer' \in [Requests -> Answer]
      /\ answer'[r].bundle \in {Null, answer[r].bundle}
      /\ \/ pc'[r] = "findLatest" /\ seen[r] = "executed" /\ answer'[r] = answer[r]
         \/ pc'[r] = "done" /\ answer'[r].kind = "job cancelled"
         \/ /\ pc'[r] = "blockJob" /\ JobOf(r).risk = "Critical" /\ answer'[r] = answer[r]
         \/ /\ pc'[r] = "runAdapter" /\ JobOf(r).risk # "Critical" /\ answer'[r] = answer[r]
            /\ seen[r] \notin {"executed", "cancelled"}
  <2>1. CASE seen[r] = "executed" /\ Goto(r, "findEvent", "findLatest") /\ UNCHANGED answer
    BY <1>1, <2>1, GotoFacts DEF InFlight, ExecutePC
  <2>2. CASE Reply(r, "findEvent", "job cancelled", FALSE, Null)
    <3>1. [kind |-> "job cancelled", ok |-> FALSE, bundle |-> Null] \in Answer
      BY DEF Answer
    <3> QED
      BY <1>1, <2>2, <3>1, ReplyFacts
  <2>3. CASE /\ JobOf(r).risk = "Critical" /\ answer' = answer
             /\ Goto(r, "findEvent", "blockJob")
    BY <1>1, <2>3, GotoFacts DEF InFlight, ExecutePC
  <2>4. CASE /\ seen[r] \notin {"executed", "cancelled"} /\ answer' = answer
             /\ JobOf(r).risk # "Critical" /\ Goto(r, "findEvent", "runAdapter")
    <3>1. /\ pc[r] = "findEvent" /\ pc'[r] = "runAdapter"
          /\ \A q \in Requests \ {r} : pc'[q] = pc[q]
          /\ pc' \in [Requests -> {"idle", "done", "lost"} \cup InFlight]
      BY <1>1, <2>4, GotoFacts DEF InFlight, ExecutePC
    <3> QED
      BY <1>1, <2>4, <3>1
  <2> QED
    BY <2>1, <2>2, <2>3, <2>4 DEF ExecuteDecide
<1>3. /\ EventOf(r).status = "none"
      /\ UNCHANGED <<job, event, ledger, call, seen, tries, bundle, before, faults>>
  BY DEF ExecuteDecide
<1>4. TypeOK'
  BY <1>1, <1>2, <1>3 DEF TypeOK
<1>5. Frame(r)
  BY <1>2, <1>3 DEF Frame, TablesGrow, OnlyMoves, Executed, Decided, Ran
<1>6. TableInv'
  BY <1>3, <1>5, TablesUntouched DEF Frame
<1>7. RequestInv(r)'
  <2>1. /\ ~Ran(r) /\ answer[r].kind = "none" /\ r \notin ledger
        /\ \A b, j : IsRunFor(b, j)' <=> IsRunFor(b, j)
        /\ JobOf(r)' = JobOf(r)
    BY <1>1, <1>2, <1>3 DEF RequestInv, RanInv, AnswerInv, TraceInv, IsRunFor, Ran, JobOf
  <2>2. SeenInv(r)' /\ RanInv(r)'
    BY <1>1, <1>2, <1>3, <2>1 DEF RequestInv, SeenInv, RanInv, Ran, Executed
  <2>3. StageInv(r)'
    <3>1. pc'[r] = "runAdapter" => seen[r] = "queued" /\ JobOf(r).risk = "Low"
      BY <1>1, <1>2 DEF RequestInv, StageInv, SeenInv, ExecutePC, Statuses, Settled, Job
    <3> QED
      BY <1>1, <1>2, <1>3, <2>1, <3>1
         DEF RequestInv, StageInv, MayExecute, ExecutePC, RunPC, SkipPC, BlockPC
  <2>4. ResultInv(r)'
    BY <1>1, <1>2, <1>3, <2>1 DEF RequestInv, ResultInv
  <2>5. AnswerInv(r)' /\ TraceInv(r)'
    BY <1>2, <1>3, <2>1 DEF AnswerInv, TraceInv, RecordedKinds, Ran
  <2>6. ASSUME NEW q \in Requests PROVE BeforeInv(q, r)'
    <3>1. BeforeInv(q, r) /\ TraceInv(q)
      BY <1>1 DEF RequestInv, IInv
    <3>2. q \in before[r] => q # r /\ pc'[q] = "done" /\ answer'[q] = answer[q]
      BY <1>2, <3>1 DEF BeforeInv
    <3>3. /\ faults = 0 /\ call[q].job = call[r].job /\ call[q].key = call[r].key
          => answer[q].kind \notin RecordedKinds
      BY <1>3, <3>1 DEF TraceInv, EventOf
    <3>4. pc'[r] # "idle" /\ ~Ran(r)'
      BY <1>2, <1>3, <2>1 DEF Ran
    <3> QED
      BY <1>3, <3>1, <3>2, <3>3, <3>4 DEF BeforeInv
  <2> QED
    BY <2>2, <2>3, <2>4, <2>5, <2>6 DEF RequestInv
<1> QED
  BY <1>4, <1>5, <1>6, <1>7, StepOfOneRequest

\* The result of an accepted event of the job is a run of another request.
LEMMA ExecuteFindLatestPreserves ==
  ASSUME IInv, NEW r \in Requests, ExecuteFindLatest(r)
  PROVE  IInv'
<1>1. TypeOK /\ RequestInv(r) /\ call[r].job \in Jobs
  BY Here
<1>2. /\ pc[r] = "findLatest" /\ pc'[r] = "skipEvent"
      /\ \A q \in Requests \ {r} : pc'[q] = pc[q]
      /\ pc' \in [Requests -> {"idle", "done", "lost"} \cup InFlight]
  BY <1>1, GotoFacts DEF ExecuteFindLatest, InFlight, ExecutePC
<1>3. UNCHANGED <<job, event, ledger, call, seen, tries, answer, before, faults>>
  BY DEF ExecuteFindLatest
<1>4. ~Ran(r)
  BY <1>1, <1>2 DEF RequestInv, RanInv
<1>5. PICK b : /\ b # Null => IsRunFor(b, call[r].job)
               /\ bundle' = [bundle EXCEPT ![r] = b]
  <2>1. PICK b \in IF AcceptedBundles(call[r].job) = {} THEN {Null} ELSE AcceptedBundles(call[r].job) :
          bundle' = [bundle EXCEPT ![r] = b]
    BY DEF ExecuteFindLatest
  <2>2. \A k \in Keys : EventInv(call[r].job, k)
    BY <1>1 DEF IInv, TableInv
  <2> QED
    BY <2>1, <2>2 DEF AcceptedBundles, EventInv
<1>6. /\ bundle'[r] = b /\ b # r /\ b \in Requests \cup {Null}
      /\ \A q \in Requests \ {r} : bundle'[q] = bundle[q]
      /\ bundle' \in [Requests -> Requests \cup {Null}]
  BY <1>1, <1>4, <1>5, NullAssumption DEF TypeOK, IsRunFor, Ran
<1>7. TypeOK'
  BY <1>1, <1>2, <1>3, <1>6 DEF TypeOK
<1>8. Frame(r)
  BY <1>2, <1>3, <1>4, <1>6 DEF Frame, TablesGrow, OnlyMoves, Executed, Decided, Ran
<1>9. TableInv'
  BY <1>3, <1>8, TablesUntouched DEF Frame
<1>10. RequestInv(r)'
  <2>1. /\ ~Ran(r)'
        /\ \A c, j : IsRunFor(c, j) => IsRunFor(c, j)'
        /\ JobOf(r)' = JobOf(r)
    BY <1>3, <1>6, <1>8 DEF Frame, TablesGrow, IsRunFor, Ran, JobOf
  <2>2. SeenInv(r)' /\ RanInv(r)'
    BY <1>1, <1>2, <1>3, <2>1 DEF RequestInv, SeenInv, RanInv, Executed
  <2>3. StageInv(r)'
    BY <1>1, <1>2, <1>3, <2>1
       DEF RequestInv, StageInv, MayExecute, ExecutePC, RunPC, SkipPC, BlockPC
  <2>4. ResultInv(r)'
    BY <1>1, <1>3, <1>5, <1>6, <2>1 DEF RequestInv, ResultInv
  <2>5. AnswerInv(r)'
    BY <1>1, <1>2, <1>3, <1>4 DEF RequestInv, AnswerInv
  <2>6. TraceInv(r)'
    BY <1>1, <1>2, <1>3, <2>1 DEF RequestInv, TraceInv, EventOf
  <2>7. ASSUME NEW q \in Requests PROVE BeforeInv(q, r)'
    <3>1. BeforeInv(q, r)
      BY <1>1 DEF RequestInv
    <3>2. q \in before[r] => pc'[q] = pc[q]
      BY <1>2, <3>1 DEF BeforeInv
    <3> QED
      BY <1>2, <1>3, <2>1, <3>1, <3>2 DEF BeforeInv, RunPC
  <2> QED
    BY <2>2, <2>3, <2>4, <2>5, <2>6, <2>7 DEF RequestInv
<1> QED
  BY <1>7, <1>8, <1>9, <1>10, StepOfOneRequest

\* An event that fits its job keeps the tables in order.
LEMMA InsertKeepsTables ==
  ASSUME IInv, NEW r \in Requests, NEW status, NEW result,
         [status |-> status, bundle |-> result] \in Event, status # "none",
         InsertEvent(r, status, result),
         UNCHANGED <<job, call, bundle>>,
         JobOf(r).status # "absent",
         status \in {"accepted", "skipped"} => Executed(call[r].job),
         status = "failed" => JobOf(r).risk = "Low",
         result # Null => IsRunFor(result, call[r].job),
         status = "accepted" => result = r
  PROVE  TableInv'
<1>1. /\ call[r].job \in Jobs /\ call[r].key \in Keys /\ JobOf(r) = job[call[r].job]
  BY Here
<1>2. \A b, j : IsRunFor(b, j)' <=> IsRunFor(b, j)
  BY DEF IsRunFor, Ran
<1>3. ASSUME NEW j \in Jobs, NEW k \in Keys PROVE EventInv(j, k)'
  <2>1. EventInv(j, k)
    BY DEF IInv, TableInv
  <2>2. CASE event'[j][k] = event[j][k]
    BY <1>2, <2>1, <2>2 DEF EventInv, Executed
  <2>3. CASE /\ j = call[r].job /\ k = call[r].key
             /\ event'[j][k].status = status /\ event'[j][k].bundle = result
    BY <1>1, <1>2, <2>3, NullAssumption DEF EventInv, Executed
  <2> QED
    BY <2>2, <2>3, InsertFacts
<1>4. ASSUME NEW j \in Jobs PROVE RowInv(j)'
  BY DEF IInv, TableInv, RowInv
<1> QED
  BY <1>3, <1>4 DEF TableInv

\* So does a status that fits the row, once the job is there.
LEMMA JobWriteKeepsTables ==
  ASSUME IInv, NEW i \in Jobs,
         job'[i].risk = job[i].risk,
         job[i].status # "absent", job'[i].status # "absent",
         job'[i].status = "executed" => job[i].risk = "Low",
         job'[i].status = "blocked" => job[i].risk = "Critical",
         Executed(i) => Executed(i)',
         \A j \in Jobs \ {i} : job'[j] = job[j],
         UNCHANGED <<event, call, bundle>>
  PROVE  TableInv'
<1>1. \A b, j : IsRunFor(b, j)' <=> IsRunFor(b, j)
  BY DEF IsRunFor, Ran
<1>2. ASSUME NEW j \in Jobs PROVE RowInv(j)'
  BY DEF IInv, TableInv, RowInv
<1>3. ASSUME NEW j \in Jobs, NEW k \in Keys PROVE EventInv(j, k)'
  <2>1. EventInv(j, k) /\ (Executed(j) => Executed(j)')
    BY DEF IInv, TableInv, Executed
  <2>2. job[j].status # "absent" => job'[j].status # "absent"
    OBVIOUS
  <2>3. job'[j].risk = job[j].risk
    OBVIOUS
  <2> QED
    BY <1>1, <2>1, <2>2, <2>3 DEF EventInv
<1> QED
  BY <1>2, <1>3 DEF TableInv

\* The skip is recorded for a job that has been executed.
LEMMA ExecuteSkipPreserves ==
  ASSUME IInv, NEW r \in Requests, ExecuteSkip(r)
  PROVE  IInv'
<1>1. /\ TypeOK /\ RequestInv(r) /\ call[r].job \in Jobs /\ call[r].key \in Keys
      /\ bundle[r] \in Requests \cup {Null}
  BY Here DEF TypeOK
<1>2. /\ pc[r] = "skipEvent" /\ pc'[r] = "done"
      /\ answer'[r].kind = "skip" /\ answer'[r].bundle = bundle[r]
      /\ \A q \in Requests \ {r} : pc'[q] = pc[q] /\ answer'[q] = answer[q]
      /\ pc' \in [Requests -> {"idle", "done", "lost"} \cup InFlight]
      /\ answer' \in [Requests -> Answer]
  <2>1. [kind |-> "skip", ok |-> TRUE, bundle |-> bundle[r]] \in Answer
    BY <1>1 DEF Answer
  <2> QED
    BY <1>1, <2>1, ReplyFacts DEF ExecuteSkip
<1>3. UNCHANGED <<job, ledger, call, seen, tries, bundle, before>>
  BY DEF ExecuteSkip
<1>4. /\ ~Ran(r) /\ r \notin ledger
      /\ Executed(call[r].job) /\ JobOf(r).status # "absent"
      /\ bundle[r] # Null => IsRunFor(bundle[r], call[r].job)
  BY <1>1, <1>2 DEF RequestInv, RanInv, TraceInv, AnswerInv, StageInv, SeenInv, SkipPC, ResultInv
<1>5. /\ event' \in [Jobs -> [Keys -> Event]] /\ faults' \in 0 .. MaxFaults
      /\ \A j \in Jobs, k \in Keys : event[j][k].status # "none" => event'[j][k] = event[j][k]
      /\ faults' = 0 => faults = 0 /\ event'[call[r].job][call[r].key].status # "none"
      /\ TableInv'
  <2>1. [status |-> "skipped", bundle |-> bundle[r]] \in Event /\ InsertEvent(r, "skipped", bundle[r])
    BY <1>1 DEF Event, ExecuteSkip
  <2> QED
    BY <1>3, <1>4, <2>1, InsertFacts, InsertKeepsTables
<1>6. TypeOK'
  BY <1>1, <1>2, <1>3, <1>5 DEF TypeOK
<1>7. Frame(r)
  BY <1>2, <1>3, <1>5 DEF Frame, TablesGrow, OnlyMoves, Executed, Decided, Ran
<1>8. RequestInv(r)'
  <2>1. /\ SeenInv(r)' /\ RanInv(r)' /\ \A q \in Requests : BeforeInv(q, r)'
        /\ \A b : b # Null /\ IsRunFor(b, call[r].job) => IsRunFor(b, call[r].job)'
    BY <1>2, <1>3, <1>4, <1>7, MoverKeeps DEF RunPC
  <2>2. StageInv(r)'
    BY <1>2 DEF StageInv, ExecutePC, RunPC, SkipPC, BlockPC
  <2>3. ResultInv(r)'
    BY <1>2, <1>3, <1>4, <2>1 DEF ResultInv
  <2>4. AnswerInv(r)'
    BY <1>2, <1>3, <1>4 DEF AnswerInv, Executed
  <2>5. TraceInv(r)'
    BY <1>2, <1>3, <1>4, <1>5 DEF TraceInv, EventOf, Ran
  <2> QED
    BY <2>1, <2>2, <2>3, <2>4, <2>5 DEF RequestInv
<1> QED
  BY <1>5, <1>6, <1>7, <1>8, StepOfOneRequest

\* Only critical jobs are blocked, so no executed one is.
LEMMA ExecuteBlockJobPreserves ==
  ASSUME IInv, NEW r \in Requests, ExecuteBlockJob(r)
  PROVE  IInv'
<1>1. /\ TypeOK /\ RequestInv(r) /\ call[r].job \in Jobs /\ JobOf(r) = job[call[r].job]
  BY Here
<1>2. /\ pc[r] = "blockJob" /\ pc'[r] = "blockEvent"
      /\ \A q \in Requests \ {r} : pc'[q] = pc[q]
      /\ pc' \in [Requests -> {"idle", "done", "lost"} \cup InFlight]
  BY <1>1, GotoFacts DEF ExecuteBlockJob, InFlight, ExecutePC
<1>3. UNCHANGED <<event, ledger, call, seen, tries, bundle, answer, before, faults>>
  BY DEF ExecuteBlockJob
<1>4. /\ job' \in [Jobs -> Job] /\ job'[call[r].job].status = "blocked"
      /\ job'[call[r].job].risk = JobOf(r).risk /\ job'[call[r].job].owner = JobOf(r).owner
      /\ \A i \in Jobs \ {call[r].job} : job'[i] = job[i]
  BY <1>1, SetStatusFacts DEF ExecuteBlockJob, Statuses, Settled
<1>5. ~Ran(r) /\ JobOf(r).risk = "Critical" /\ JobOf(r).status # "absent" /\ r \notin ledger
  BY <1>1, <1>2 DEF RequestInv, RanInv, StageInv, SeenInv, TraceInv, AnswerInv, BlockPC, ExecutePC
<1>6. TypeOK'
  BY <1>1, <1>2, <1>3, <1>4 DEF TypeOK
<1>7. Frame(r)
  <2>1. \A j \in Jobs : (Executed(j) => Executed(j)') /\ (Decided(j) => Decided(j)')
    BY <1>1, <1>4, <1>5 DEF Executed, Decided, Settled
  <2> QED
    BY <1>1, <1>2, <1>3, <1>4, <2>1 DEF Frame, TablesGrow, OnlyMoves, Ran
<1>8. TableInv'
  BY <1>1, <1>3, <1>4, <1>5, JobWriteKeepsTables DEF Executed
<1>9. RequestInv(r)'
  <2>1. /\ SeenInv(r)' /\ RanInv(r)' /\ \A q \in Requests : BeforeInv(q, r)'
        /\ \A b : b # Null /\ IsRunFor(b, call[r].job) => IsRunFor(b, call[r].job)'
    BY <1>2, <1>3, <1>5, <1>7, MoverKeeps DEF RunPC
  <2>2. StageInv(r)'
    BY <1>1, <1>2, <1>3, <1>4
       DEF RequestInv, StageInv, MayExecute, JobOf, ExecutePC, RunPC, SkipPC, BlockPC
  <2>3. ResultInv(r)'
    BY <1>1, <1>3, <2>1 DEF RequestInv, ResultInv
  <2>4. AnswerInv(r)' /\ TraceInv(r)'
    BY <1>1, <1>2, <1>3, <1>5 DEF RequestInv, AnswerInv, TraceInv, EventOf, Ran, RecordedKinds
  <2> QED
    BY <2>1, <2>2, <2>3, <2>4 DEF RequestInv
<1> QED
  BY <1>6, <1>7, <1>8, <1>9, StepOfOneRequest

\* The blocked event is recorded for a critical job.
LEMMA ExecuteBlockEventPreserves ==
  ASSUME IInv, NEW r \in Requests, ExecuteBlockEvent(r)
  PROVE  IInv'
<1>1. /\ TypeOK /\ RequestInv(r) /\ call[r].job \in Jobs /\ call[r].key \in Keys
      /\ JobOf(r) = job[call[r].job] /\ bundle[r] \in Requests \cup {Null}
  BY Here DEF TypeOK
<1>2. /\ pc[r] = "blockEvent" /\ pc'[r] = "done"
      /\ answer'[r].kind = "blocked" /\ answer'[r].bundle = Null
      /\ \A q \in Requests \ {r} : pc'[q] = pc[q] /\ answer'[q] = answer[q]
      /\ pc' \in [Requests -> {"idle", "done", "lost"} \cup InFlight]
      /\ answer' \in [Requests -> Answer]
  <2>1. [kind |-> "blocked", ok |-> FALSE, bundle |-> Null] \in Answer
    BY <1>1 DEF Answer
  <2> QED
    BY <1>1, <2>1, ReplyFacts DEF ExecuteBlockEvent
<1>3. UNCHANGED <<job, ledger, call, seen, tries, bundle, before>>
  BY DEF ExecuteBlockEvent
<1>4. ~Ran(r) /\ r \notin ledger /\ JobOf(r).status # "absent"
  BY <1>1, <1>2 DEF RequestInv, RanInv, TraceInv, AnswerInv, StageInv, SeenInv, BlockPC, ExecutePC
<1>5. /\ event' \in [Jobs -> [Keys -> Event]] /\ faults' \in 0 .. MaxFaults
      /\ \A j \in Jobs, k \in Keys : event[j][k].status # "none" => event'[j][k] = event[j][k]
      /\ faults' = 0 => faults = 0 /\ event'[call[r].job][call[r].key].status # "none"
      /\ TableInv'
  <2>1. [status |-> "blocked", bundle |-> Null] \in Event /\ InsertEvent(r, "blocked", Null)
    BY <1>1 DEF Event, ExecuteBlockEvent
  <2> QED
    BY <1>3, <1>4, <2>1, InsertFacts, InsertKeepsTables
<1>6. TypeOK'
  BY <1>1, <1>2, <1>3, <1>5 DEF TypeOK
<1>7. Frame(r)
  BY <1>2, <1>3, <1>5 DEF Frame, TablesGrow, OnlyMoves, Executed, Decided, Ran
<1>8. RequestInv(r)'
  <2>1. /\ SeenInv(r)' /\ RanInv(r)' /\ \A q \in Requests : BeforeInv(q, r)'
        /\ \A b : b # Null /\ IsRunFor(b, call[r].job) => IsRunFor(b, call[r].job)'
    BY <1>2, <1>3, <1>4, <1>7, MoverKeeps DEF RunPC
  <2>2. StageInv(r)'
    BY <1>2 DEF StageInv, ExecutePC, RunPC, SkipPC, BlockPC
  <2>3. ResultInv(r)'
    BY <1>1, <1>2, <1>3, <2>1 DEF RequestInv, ResultInv
  <2>4. AnswerInv(r)'
    BY <1>2 DEF AnswerInv
  <2>5. TraceInv(r)'
    BY <1>2, <1>3, <1>4, <1>5 DEF TraceInv, EventOf, Ran
  <2> QED
    BY <2>1, <2>2, <2>3, <2>4, <2>5 DEF RequestInv
<1> QED
  BY <1>5, <1>6, <1>7, <1>8, StepOfOneRequest

\* The failed event is recorded for a job that is not critical.
LEMMA ExecuteFailEventPreserves ==
  ASSUME IInv, NEW r \in Requests, ExecuteFailEvent(r)
  PROVE  IInv'
<1>1. /\ TypeOK /\ RequestInv(r) /\ call[r].job \in Jobs /\ call[r].key \in Keys
      /\ JobOf(r) = job[call[r].job] /\ bundle[r] \in Requests \cup {Null}
  BY Here DEF TypeOK
<1>2. /\ pc[r] = "failEvent" /\ pc'[r] = "done"
      /\ answer'[r].kind = "adapter failed" /\ answer'[r].bundle = Null
      /\ \A q \in Requests \ {r} : pc'[q] = pc[q] /\ answer'[q] = answer[q]
      /\ pc' \in [Requests -> {"idle", "done", "lost"} \cup InFlight]
      /\ answer' \in [Requests -> Answer]
  <2>1. [kind |-> "adapter failed", ok |-> FALSE, bundle |-> Null] \in Answer
    BY <1>1 DEF Answer
  <2> QED
    BY <1>1, <2>1, ReplyFacts DEF ExecuteFailEvent
<1>3. UNCHANGED <<job, ledger, call, seen, tries, bundle, before>>
  BY DEF ExecuteFailEvent
<1>4. ~Ran(r) /\ r \notin ledger /\ JobOf(r).status # "absent" /\ JobOf(r).risk = "Low"
  BY <1>1, <1>2 DEF RequestInv, RanInv, TraceInv, AnswerInv, StageInv, SeenInv, RunPC, ExecutePC
<1>5. /\ event' \in [Jobs -> [Keys -> Event]] /\ faults' \in 0 .. MaxFaults
      /\ \A j \in Jobs, k \in Keys : event[j][k].status # "none" => event'[j][k] = event[j][k]
      /\ faults' = 0 => faults = 0 /\ event'[call[r].job][call[r].key].status # "none"
      /\ TableInv'
  <2>1. [status |-> "failed", bundle |-> Null] \in Event /\ InsertEvent(r, "failed", Null)
    BY <1>1 DEF Event, ExecuteFailEvent
  <2> QED
    BY <1>3, <1>4, <2>1, InsertFacts, InsertKeepsTables
<1>6. TypeOK'
  BY <1>1, <1>2, <1>3, <1>5 DEF TypeOK
<1>7. Frame(r)
  BY <1>2, <1>3, <1>5 DEF Frame, TablesGrow, OnlyMoves, Executed, Decided, Ran
<1>8. RequestInv(r)'
  <2>1. /\ SeenInv(r)' /\ RanInv(r)' /\ \A q \in Requests : BeforeInv(q, r)'
        /\ \A b : b # Null /\ IsRunFor(b, call[r].job) => IsRunFor(b, call[r].job)'
    BY <1>2, <1>3, <1>4, <1>7, MoverKeeps DEF RunPC
  <2>2. StageInv(r)'
    BY <1>2 DEF StageInv, ExecutePC, RunPC, SkipPC, BlockPC
  <2>3. ResultInv(r)'
    BY <1>1, <1>2, <1>3, <2>1 DEF RequestInv, ResultInv
  <2>4. AnswerInv(r)'
    BY <1>2 DEF AnswerInv
  <2>5. TraceInv(r)'
    BY <1>2, <1>3, <1>4, <1>5 DEF TraceInv, EventOf, Ran
  <2> QED
    BY <2>1, <2>2, <2>3, <2>4, <2>5 DEF RequestInv
<1> QED
  BY <1>5, <1>6, <1>7, <1>8, StepOfOneRequest

\* The request becomes a run: it was entitled to, and nobody had settled its key.
LEMMA ExecuteAttemptOkPreserves ==
  ASSUME IInv, NEW r \in Requests, ExecuteAttemptOk(r)
  PROVE  IInv'
<1>1. /\ TypeOK /\ RequestInv(r) /\ call[r].job \in Jobs /\ call[r].key \in Keys
      /\ JobOf(r) = job[call[r].job] /\ bundle[r] \in Requests \cup {Null}
  BY Here DEF TypeOK
<1>2. /\ pc[r] = "runAdapter" /\ pc'[r] = "markExecuted"
      /\ \A q \in Requests \ {r} : pc'[q] = pc[q]
      /\ pc' \in [Requests -> {"idle", "done", "lost"} \cup InFlight]
  BY <1>1, GotoFacts DEF ExecuteAttemptOk, InFlight, ExecutePC
<1>3. UNCHANGED <<job, event, ledger, call, seen, tries, answer, before, faults>>
  BY DEF ExecuteAttemptOk
<1>4. /\ bundle'[r] = r
      /\ \A q \in Requests \ {r} : bundle'[q] = bundle[q]
      /\ bundle' \in [Requests -> Requests \cup {Null}]
  BY <1>1 DEF ExecuteAttemptOk, TypeOK
<1>5. TypeOK'
  BY <1>1, <1>2, <1>3, <1>4 DEF TypeOK
<1>6. Frame(r)
  BY <1>2, <1>3, <1>4 DEF Frame, TablesGrow, OnlyMoves, Executed, Decided, Ran
<1>7. TableInv'
  BY <1>3, <1>6, TablesUntouched DEF Frame
<1>8. RequestInv(r)'
  <2>1. /\ Ran(r)'
        /\ \A b, j : IsRunFor(b, j) => IsRunFor(b, j)'
        /\ IsRunFor(r, call[r].job)'
        /\ JobOf(r)' = JobOf(r)
    BY <1>3, <1>4, <1>6 DEF Frame, TablesGrow, IsRunFor, Ran, JobOf
  <2>2. SeenInv(r)'
    BY <1>1, <1>2, <1>3, <2>1 DEF RequestInv, SeenInv, Executed
  <2>3. RanInv(r)' /\ StageInv(r)'
    BY <1>1, <1>2, <1>3, <2>1
       DEF RequestInv, RanInv, StageInv, MayExecute, ExecutePC, RunPC, SkipPC, BlockPC
  <2>4. ResultInv(r)'
    BY <1>1, <1>3, <1>4, <2>1 DEF RequestInv, ResultInv
  <2>5. AnswerInv(r)' /\ TraceInv(r)'
    BY <1>1, <1>2, <1>3, <2>1 DEF RequestInv, AnswerInv, TraceInv, EventOf, RecordedKinds
  <2>6. ASSUME NEW q \in Requests PROVE BeforeInv(q, r)'
    <3>1. BeforeInv(q, r) /\ pc[r] \in RunPC
      BY <1>1, <1>2 DEF RequestInv, RunPC
    <3>2. q \in before[r] => pc'[q] = pc[q]
      BY <1>2, <3>1 DEF BeforeInv
    <3> QED
      BY <1>2, <1>3, <3>1, <3>2 DEF BeforeInv
  <2> QED
    BY <2>2, <2>3, <2>4, <2>5, <2>6 DEF RequestInv
<1> QED
  BY <1>5, <1>6, <1>7, <1>8, StepOfOneRequest

\* A failed attempt is not a run.
LEMMA ExecuteAttemptThrowsPreserves ==
  ASSUME IInv, NEW r \in Requests, ExecuteAttemptThrows(r)
  PROVE  IInv'
<1>1. /\ TypeOK /\ RequestInv(r) /\ call[r].job \in Jobs /\ call[r].key \in Keys
      /\ JobOf(r) = job[call[r].job] /\ bundle[r] \in Requests \cup {Null}
  BY Here DEF TypeOK
<1>2. /\ pc[r] = "runAdapter" /\ pc'[r] \in {"runAdapter", "failEvent"}
      /\ \A q \in Requests \ {r} : pc'[q] = pc[q]
      /\ pc' \in [Requests -> {"idle", "done", "lost"} \cup InFlight]
  <2>1. CASE Goto(r, "runAdapter", "runAdapter")
    BY <1>1, <2>1, GotoFacts DEF InFlight, ExecutePC
  <2>2. CASE Goto(r, "runAdapter", "failEvent")
    BY <1>1, <2>2, GotoFacts DEF InFlight, ExecutePC
  <2> QED
    BY <2>1, <2>2 DEF ExecuteAttemptThrows
<1>3. UNCHANGED <<job, event, ledger, call, seen, bundle, answer, before, faults>>
  BY DEF ExecuteAttemptThrows
<1>4. tries' \in [Requests -> 0 .. MaxAttempts]
  BY <1>1, BoundsAssumption DEF ExecuteAttemptThrows, TypeOK
<1>5. TypeOK'
  BY <1>1, <1>2, <1>3, <1>4 DEF TypeOK
<1>6. Frame(r)
  BY <1>2, <1>3 DEF Frame, TablesGrow, OnlyMoves, Executed, Decided, Ran
<1>7. TableInv'
  BY <1>3, <1>6, TablesUntouched DEF Frame
<1>8. RequestInv(r)'
  <2>1. ~Ran(r)
    BY <1>1, <1>2 DEF RequestInv, RanInv
  <2>2. /\ SeenInv(r)' /\ RanInv(r)' /\ \A q \in Requests : BeforeInv(q, r)'
        /\ \A b : b # Null /\ IsRunFor(b, call[r].job) => IsRunFor(b, call[r].job)'
    BY <1>2, <1>3, <1>6, <2>1, MoverKeeps DEF RunPC
  <2>3. StageInv(r)'
    BY <1>1, <1>2, <1>3
       DEF RequestInv, StageInv, MayExecute, JobOf, ExecutePC, RunPC, SkipPC, BlockPC
  <2>4. ResultInv(r)'
    BY <1>1, <1>3, <2>2 DEF RequestInv, ResultInv
  <2>5. AnswerInv(r)' /\ TraceInv(r)'
    BY <1>1, <1>2, <1>3, <2>1 DEF RequestInv, AnswerInv, TraceInv, EventOf, Ran
  <2> QED
    BY <2>2, <2>3, <2>4, <2>5 DEF RequestInv
<1> QED
  BY <1>5, <1>6, <1>7, <1>8, StepOfOneRequest

\* Executed from here on, or cancelled after it.
LEMMA ExecuteMarkExecutedPreserves ==
  ASSUME IInv, NEW r \in Requests, ExecuteMarkExecuted(r)
  PROVE  IInv'
<1>1. /\ TypeOK /\ RequestInv(r) /\ call[r].job \in Jobs /\ call[r].key \in Keys
      /\ JobOf(r) = job[call[r].job] /\ bundle[r] \in Requests \cup {Null}
  BY Here DEF TypeOK
<1>2. /\ pc[r] = "markExecuted" /\ pc'[r] = "acceptEvent"
      /\ \A q \in Requests \ {r} : pc'[q] = pc[q]
      /\ pc' \in [Requests -> {"idle", "done", "lost"} \cup InFlight]
  BY <1>1, GotoFacts DEF ExecuteMarkExecuted, InFlight, ExecutePC
<1>3. UNCHANGED <<event, ledger, call, seen, tries, bundle, answer, before, faults>>
  BY DEF ExecuteMarkExecuted
<1>4. /\ job' \in [Jobs -> Job] /\ job'[call[r].job].status = "executed"
      /\ job'[call[r].job].risk = JobOf(r).risk /\ job'[call[r].job].owner = JobOf(r).owner
      /\ \A i \in Jobs \ {call[r].job} : job'[i] = job[i]
  BY <1>1, SetStatusFacts DEF ExecuteMarkExecuted, Statuses, Settled
<1>5. Ran(r) /\ JobOf(r).risk = "Low" /\ JobOf(r).status # "absent"
  BY <1>1, <1>2 DEF RequestInv, StageInv, SeenInv, RunPC, ExecutePC
<1>6. TypeOK'
  BY <1>1, <1>2, <1>3, <1>4 DEF TypeOK
<1>7. Frame(r) /\ Executed(call[r].job)'
  <2>1. \A j \in Jobs : (Executed(j) => Executed(j)') /\ (Decided(j) => Decided(j)')
    BY <1>1, <1>4, <1>5 DEF Executed, Decided, Settled
  <2>2. Executed(call[r].job)'
    BY <1>3, <1>4, <1>5 DEF Executed
  <2> QED
    BY <1>1, <1>2, <1>3, <1>4, <2>1, <2>2 DEF Frame, TablesGrow, OnlyMoves, Ran
<1>8. TableInv'
  BY <1>1, <1>3, <1>4, <1>5, <1>7, JobWriteKeepsTables DEF Executed
<1>9. RequestInv(r)'
  <2>1. /\ SeenInv(r)' /\ RanInv(r)' /\ \A q \in Requests : BeforeInv(q, r)'
        /\ \A b : b # Null /\ IsRunFor(b, call[r].job) => IsRunFor(b, call[r].job)'
    BY <1>2, <1>3, <1>7, MoverKeeps DEF RunPC
  <2>2. StageInv(r)'
    BY <1>1, <1>2, <1>3, <1>4, <1>7
       DEF RequestInv, StageInv, MayExecute, JobOf, Ran, ExecutePC, RunPC, SkipPC, BlockPC
  <2>3. ResultInv(r)'
    BY <1>1, <1>3, <2>1 DEF RequestInv, ResultInv
  <2>4. AnswerInv(r)' /\ TraceInv(r)'
    BY <1>1, <1>2, <1>3 DEF RequestInv, AnswerInv, TraceInv, EventOf, Ran, RecordedKinds
  <2> QED
    BY <2>1, <2>2, <2>3, <2>4 DEF RequestInv
<1> QED
  BY <1>6, <1>7, <1>8, <1>9, StepOfOneRequest

\* A cancel decides the job, also one that has been executed since it was read.
LEMMA CancelWritePreserves ==
  ASSUME IInv, NEW r \in Requests, CancelWrite(r)
  PROVE  IInv'
<1>1. /\ TypeOK /\ RequestInv(r) /\ call[r].job \in Jobs /\ call[r].key \in Keys
      /\ JobOf(r) = job[call[r].job] /\ bundle[r] \in Requests \cup {Null}
  BY Here DEF TypeOK
<1>2. /\ pc[r] = "cancelWrite" /\ pc'[r] = "done"
      /\ answer'[r].kind = "cancel done" /\ answer'[r].bundle = Null
      /\ \A q \in Requests \ {r} : pc'[q] = pc[q] /\ answer'[q] = answer[q]
      /\ pc' \in [Requests -> {"idle", "done", "lost"} \cup InFlight]
      /\ answer' \in [Requests -> Answer]
  <2>1. [kind |-> "cancel done", ok |-> TRUE, bundle |-> Null] \in Answer
    BY DEF Answer
  <2> QED
    BY <1>1, <2>1, ReplyFacts DEF CancelWrite
<1>3. UNCHANGED <<event, ledger, call, seen, tries, bundle, before, faults>>
  BY DEF CancelWrite
<1>4. /\ job' \in [Jobs -> Job] /\ job'[call[r].job].status = "cancelled"
      /\ job'[call[r].job].risk = JobOf(r).risk /\ job'[call[r].job].owner = JobOf(r).owner
      /\ \A i \in Jobs \ {call[r].job} : job'[i] = job[i]
  BY <1>1, SetStatusFacts DEF CancelWrite, Statuses, Settled
<1>5. ~Ran(r) /\ JobOf(r).status # "absent" /\ r \notin ledger
  BY <1>1, <1>2 DEF RequestInv, RanInv, StageInv, SeenInv, TraceInv, AnswerInv
<1>6. TypeOK'
  BY <1>1, <1>2, <1>3, <1>4 DEF TypeOK
<1>7. Frame(r) /\ Decided(call[r].job)'
  <2>1. \A j \in Jobs : (Executed(j) => Executed(j)') /\ (Decided(j) => Decided(j)')
    BY <1>1, <1>4 DEF Executed, Decided, Settled
  <2>2. Decided(call[r].job)'
    BY <1>3, <1>4 DEF Decided, Settled
  <2> QED
    BY <1>1, <1>2, <1>3, <1>4, <2>1, <2>2 DEF Frame, TablesGrow, OnlyMoves, Ran
<1>8. TableInv'
  <2>1. Executed(call[r].job) => Executed(call[r].job)'
    BY <1>1, <1>7 DEF Frame, TablesGrow
  <2> QED
    BY <1>1, <1>3, <1>4, <1>5, <2>1, JobWriteKeepsTables
<1>9. RequestInv(r)'
  <2>1. /\ SeenInv(r)' /\ RanInv(r)' /\ \A q \in Requests : BeforeInv(q, r)'
        /\ \A b : b # Null /\ IsRunFor(b, call[r].job) => IsRunFor(b, call[r].job)'
    BY <1>2, <1>3, <1>5, <1>7, MoverKeeps DEF RunPC
  <2>2. StageInv(r)'
    BY <1>2 DEF StageInv, ExecutePC, RunPC, SkipPC, BlockPC
  <2>3. ResultInv(r)'
    BY <1>1, <1>2, <1>3, <2>1 DEF RequestInv, ResultInv
  <2>4. AnswerInv(r)'
    BY <1>2, <1>7 DEF AnswerInv
  <2>5. TraceInv(r)'
    BY <1>2, <1>3, <1>5 DEF TraceInv, RecordedKinds, Ran
  <2> QED
    BY <2>1, <2>2, <2>3, <2>4, <2>5 DEF RequestInv
<1> QED
  BY <1>6, <1>7, <1>8, <1>9, StepOfOneRequest

\* The accepted event names the run of this very request.
LEMMA ExecuteAcceptEventPreserves ==
  ASSUME IInv, NEW r \in Requests, ExecuteAcceptEvent(r)
  PROVE  IInv'
<1>1. /\ TypeOK /\ RequestInv(r) /\ call[r].job \in Jobs /\ call[r].key \in Keys
      /\ JobOf(r) = job[call[r].job] /\ bundle[r] \in Requests \cup {Null}
  BY Here DEF TypeOK
<1>2. /\ pc[r] = "acceptEvent" /\ pc'[r] \in {"done", "recordRow"}
      /\ pc'[r] = "done" => call[r].positionId /\ answer'[r].kind = "accepted"
      /\ pc'[r] = "recordRow" => ~call[r].positionId /\ answer'[r] = answer[r]
      /\ answer'[r].bundle \in {bundle[r], answer[r].bundle}
      /\ \A q \in Requests \ {r} : pc'[q] = pc[q] /\ answer'[q] = answer[q]
      /\ pc' \in [Requests -> {"idle", "done", "lost"} \cup InFlight]
      /\ answer' \in [Requests -> Answer]
  <2>1. CASE call[r].positionId /\ Reply(r, "acceptEvent", "accepted", TRUE, bundle[r])
    <3>1. [kind |-> "accepted", ok |-> TRUE, bundle |-> bundle[r]] \in Answer
      BY <1>1 DEF Answer
    <3> QED
      BY <1>1, <2>1, <3>1, ReplyFacts
  <2>2. CASE ~call[r].positionId /\ Goto(r, "acceptEvent", "recordRow") /\ UNCHANGED answer
    <3>1. answer \in [Requests -> Answer]
      BY <1>1 DEF TypeOK
    <3> QED
      BY <1>1, <2>2, <3>1, GotoFacts DEF InFlight, ExecutePC
  <2> QED
    BY <2>1, <2>2 DEF ExecuteAcceptEvent
<1>3. UNCHANGED <<job, ledger, call, seen, tries, bundle, before>>
  BY DEF ExecuteAcceptEvent
<1>4. /\ Ran(r) /\ bundle[r] = r /\ IsRunFor(r, call[r].job) /\ r \notin ledger
      /\ Executed(call[r].job) /\ JobOf(r).status # "absent"
      /\ answer[r].kind = "none"
  BY <1>1, <1>2 DEF RequestInv, StageInv, SeenInv, TraceInv, AnswerInv, Ran, IsRunFor, ExecutePC
<1>5. /\ event' \in [Jobs -> [Keys -> Event]] /\ faults' \in 0 .. MaxFaults
      /\ \A j \in Jobs, k \in Keys : event[j][k].status # "none" => event'[j][k] = event[j][k]
      /\ faults' = 0 => faults = 0 /\ event'[call[r].job][call[r].key].status # "none"
      /\ TableInv'
  <2>1. [status |-> "accepted", bundle |-> r] \in Event /\ InsertEvent(r, "accepted", r)
    BY <1>4 DEF Event, ExecuteAcceptEvent
  <2> QED
    BY <1>3, <1>4, <2>1, InsertFacts, InsertKeepsTables
<1>6. TypeOK'
  BY <1>1, <1>2, <1>3, <1>5 DEF TypeOK
<1>7. Frame(r)
  BY <1>2, <1>3, <1>5 DEF Frame, TablesGrow, OnlyMoves, Executed, Decided, Ran
<1>8. RequestInv(r)'
  <2>1. /\ SeenInv(r)' /\ RanInv(r)' /\ \A q \in Requests : BeforeInv(q, r)'
        /\ \A b : b # Null /\ IsRunFor(b, call[r].job) => IsRunFor(b, call[r].job)'
    BY <1>2, <1>3, <1>4, <1>7, MoverKeeps DEF RunPC
  <2>2. StageInv(r)'
    BY <1>1, <1>2, <1>3, <1>4
       DEF RequestInv, StageInv, MayExecute, JobOf, Ran, Executed, ExecutePC, RunPC, SkipPC, BlockPC
  <2>3. ResultInv(r)'
    BY <1>1, <1>2, <1>3, <1>4, <2>1 DEF RequestInv, ResultInv
  <2>4. AnswerInv(r)'
    BY <1>2, <1>3, <1>4 DEF AnswerInv, Executed, Ran
  <2>5. TraceInv(r)'
    BY <1>2, <1>3, <1>4, <1>5 DEF TraceInv, EventOf, Ran, RecordedKinds
  <2> QED
    BY <2>1, <2>2, <2>3, <2>4, <2>5 DEF RequestInv
<1> QED
  BY <1>5, <1>6, <1>7, <1>8, StepOfOneRequest

\* The deposit row is added with the answer, or lost to a fault.
LEMMA ExecuteRecordRowPreserves ==
  ASSUME IInv, NEW r \in Requests, ExecuteRecordRow(r)
  PROVE  IInv'
<1>1. /\ TypeOK /\ RequestInv(r) /\ call[r].job \in Jobs /\ call[r].key \in Keys
      /\ JobOf(r) = job[call[r].job] /\ bundle[r] \in Requests \cup {Null}
  BY Here DEF TypeOK
<1>2. /\ pc[r] = "recordRow" /\ pc'[r] = "done"
      /\ answer'[r].kind = "accepted" /\ answer'[r].bundle = bundle[r]
      /\ \A q \in Requests \ {r} : pc'[q] = pc[q] /\ answer'[q] = answer[q]
      /\ pc' \in [Requests -> {"idle", "done", "lost"} \cup InFlight]
      /\ answer' \in [Requests -> Answer]
  <2>1. [kind |-> "accepted", ok |-> TRUE, bundle |-> bundle[r]] \in Answer
    BY <1>1 DEF Answer
  <2> QED
    BY <1>1, <2>1, ReplyFacts DEF ExecuteRecordRow
<1>3. UNCHANGED <<job, event, call, seen, tries, bundle, before>>
  BY DEF ExecuteRecordRow
<1>4. /\ Ran(r) /\ bundle[r] = r /\ IsRunFor(r, call[r].job)
      /\ Executed(call[r].job) /\ ~call[r].positionId
  BY <1>1, <1>2 DEF RequestInv, StageInv, Ran, IsRunFor
<1>5. /\ ledger \subseteq ledger' /\ ledger' \subseteq ledger \cup {r}
      /\ faults' \in 0 .. MaxFaults
      /\ faults' = 0 => faults = 0 /\ r \in ledger'
  <2>1. CASE ledger' = ledger \cup {r} /\ UNCHANGED faults
    BY <1>1, <2>1 DEF TypeOK
  <2>2. CASE faults < MaxFaults /\ faults' = faults + 1 /\ UNCHANGED ledger
    BY <1>1, <2>2, BoundsAssumption DEF TypeOK
  <2> QED
    BY <2>1, <2>2 DEF ExecuteRecordRow
<1>6. TypeOK'
  BY <1>1, <1>2, <1>3, <1>5 DEF TypeOK
<1>7. Frame(r)
  BY <1>2, <1>3, <1>5 DEF Frame, TablesGrow, OnlyMoves, Executed, Decided, Ran
<1>8. TableInv'
  BY <1>3, <1>7, TablesUntouched DEF Frame
<1>9. RequestInv(r)'
  <2>1. /\ SeenInv(r)' /\ RanInv(r)' /\ \A q \in Requests : BeforeInv(q, r)'
        /\ \A b : b # Null /\ IsRunFor(b, call[r].job) => IsRunFor(b, call[r].job)'
    BY <1>2, <1>3, <1>7, MoverKeeps DEF RunPC
  <2>2. StageInv(r)'
    BY <1>2 DEF StageInv, ExecutePC, RunPC, SkipPC, BlockPC
  <2>3. ResultInv(r)'
    BY <1>1, <1>2, <1>3, <1>4, <2>1 DEF RequestInv, ResultInv
  <2>4. AnswerInv(r)'
    BY <1>2, <1>3, <1>4 DEF AnswerInv, Executed, Ran
  <2>5. TraceInv(r)'
    BY <1>1, <1>2, <1>3, <1>4, <1>5 DEF RequestInv, TraceInv, EventOf, Ran, RecordedKinds
  <2> QED
    BY <2>1, <2>2, <2>3, <2>4, <2>5 DEF RequestInv
<1> QED
  BY <1>6, <1>7, <1>8, <1>9, StepOfOneRequest

\* An error answer says nothing about the tables.
LEMMA DbErrorPreserves ==
  ASSUME IInv, NEW r \in Requests, DbError(r)
  PROVE  IInv'
<1>1. /\ TypeOK /\ RequestInv(r) /\ call[r].job \in Jobs /\ call[r].key \in Keys
      /\ JobOf(r) = job[call[r].job] /\ bundle[r] \in Requests \cup {Null}
  BY Here DEF TypeOK
<1>2. /\ pc[r] \in UncaughtPC /\ pc'[r] = "done"
      /\ answer'[r].kind = "error" /\ answer'[r].bundle = Null
      /\ \A q \in Requests \ {r} : pc'[q] = pc[q] /\ answer'[q] = answer[q]
      /\ pc' \in [Requests -> {"idle", "done", "lost"} \cup InFlight]
      /\ answer' \in [Requests -> Answer]
  <2>1. [kind |-> "error", ok |-> FALSE, bundle |-> Null] \in Answer
    BY DEF Answer
  <2>2. PICK from \in UncaughtPC : from = pc[r] /\ Reply(r, from, "error", FALSE, Null)
    BY DEF DbError
  <2> QED
    <3>1. /\ pc[r] = from /\ pc'[r] = "done"
          /\ answer'[r].kind = "error" /\ answer'[r].bundle = Null
          /\ \A q \in Requests \ {r} : pc'[q] = pc[q] /\ answer'[q] = answer[q]
          /\ pc' \in [Requests -> {"idle", "done", "lost"} \cup InFlight]
          /\ answer' \in [Requests -> Answer]
      BY <1>1, <2>1, <2>2 DEF Reply, Goto, TypeOK
    <3> QED
      BY <2>2, <3>1
<1>3. /\ UNCHANGED <<job, event, ledger, call, seen, tries, bundle, before>>
      /\ faults' \in 0 .. MaxFaults /\ faults' # 0
  BY <1>1, BoundsAssumption DEF DbError, TypeOK
<1>4. TypeOK'
  BY <1>1, <1>2, <1>3 DEF TypeOK
<1>5. Frame(r)
  BY <1>2, <1>3 DEF Frame, TablesGrow, OnlyMoves, Executed, Decided, Ran, UncaughtPC
<1>6. TableInv'
  BY <1>3, <1>5, TablesUntouched DEF Frame
<1>7. RequestInv(r)'
  <2>1. /\ SeenInv(r)' /\ RanInv(r)' /\ \A q \in Requests : BeforeInv(q, r)'
        /\ \A b : b # Null /\ IsRunFor(b, call[r].job) => IsRunFor(b, call[r].job)'
    BY <1>2, <1>3, <1>5, MoverKeeps DEF RunPC
  <2>2. StageInv(r)'
    BY <1>2 DEF StageInv, ExecutePC, RunPC, SkipPC, BlockPC
  <2>3. ResultInv(r)'
    BY <1>1, <1>2, <1>3, <2>1 DEF RequestInv, ResultInv
  <2>4. AnswerInv(r)'
    BY <1>2 DEF AnswerInv
  <2>5. TraceInv(r)'
    BY <1>1, <1>2, <1>3 DEF RequestInv, TraceInv, AnswerInv, UncaughtPC
  <2> QED
    BY <2>1, <2>2, <2>3, <2>4, <2>5 DEF RequestInv
<1> QED
  BY <1>4, <1>5, <1>6, <1>7, StepOfOneRequest

\* A new row fits, and no request knew of its job.
LEMMA CreateJobPreserves ==
  ASSUME IInv, NEW j \in Jobs, NEW user \in Users, NEW depeg \in BOOLEAN, CreateJob(j, user, depeg)
  PROVE  IInv'
<1>1. TypeOK /\ job[j].status = "absent" /\ RowInv(j)
  BY DEF IInv, TableInv, CreateJob
<1>2. /\ job' \in [Jobs -> Job] /\ job'[j].status = "queued"
      /\ \A i \in Jobs \ {j} : job'[i] = job[i]
  BY <1>1 DEF CreateJob, TypeOK, Job, Statuses
<1>3. UNCHANGED <<event, ledger, call, pc, seen, tries, bundle, answer, before, faults>>
  BY DEF CreateJob
<1>4. TypeOK'
  BY <1>1, <1>2, <1>3 DEF TypeOK
<1>5. TablesGrow
  BY <1>1, <1>2, <1>3 DEF TablesGrow, Executed, Decided, Settled, Ran
<1>6. TableInv'
  <2>1. \A b, i : IsRunFor(b, i)' <=> IsRunFor(b, i)
    BY <1>3 DEF IsRunFor, Ran
  <2>2. ASSUME NEW i \in Jobs PROVE RowInv(i)'
    BY <1>2 DEF IInv, TableInv, RowInv
  <2>3. ASSUME NEW i \in Jobs, NEW k \in Keys PROVE EventInv(i, k)'
    <3>1. EventInv(i, k) /\ (Executed(i) => Executed(i)')
      BY <1>5 DEF IInv, TableInv, TablesGrow
    <3>2. job[i].status # "absent" => job'[i].status # "absent" /\ job'[i].risk = job[i].risk
      BY <1>5 DEF TablesGrow
    <3> QED
      BY <1>3, <2>1, <3>1, <3>2 DEF EventInv
  <2> QED
    BY <2>2, <2>3 DEF TableInv
<1>7. ASSUME NEW q \in Requests PROVE RequestInv(q)'
  BY <1>3, <1>5, OthersUndisturbed DEF Unmoved
<1> QED
  BY <1>4, <1>6, <1>7 DEF IInv

\* A crash keeps the tables, and what they say about each request.
LEMMA CrashPreserves ==
  ASSUME IInv, Crash
  PROVE  IInv'
<1>1. TypeOK /\ UNCHANGED <<job, event, ledger, call, seen, tries, bundle, answer, before>>
  BY DEF IInv, Crash
<1>2. /\ \A q \in Requests : IF pc[q] \in InFlight THEN pc'[q] = "lost" ELSE pc'[q] = pc[q]
      /\ pc' \in [Requests -> {"idle", "done", "lost"} \cup InFlight]
      /\ faults' \in 0 .. MaxFaults /\ faults' # 0
  BY <1>1, BoundsAssumption DEF Crash, TypeOK
<1>3. TypeOK'
  BY <1>1, <1>2 DEF TypeOK
<1>4. TablesGrow
  BY <1>1, <1>2 DEF TablesGrow, Executed, Decided, Ran
<1>5. TableInv'
  BY <1>1, <1>4, TablesUntouched
<1>6. ASSUME NEW q \in Requests PROVE RequestInv(q)'
  <2>1. CASE pc[q] \notin InFlight
    BY <1>1, <1>2, <1>4, <2>1, OthersUndisturbed DEF Unmoved, InFlight, ExecutePC, CancelPC
  <2>2. CASE pc[q] \in InFlight
    <3>1. RequestInv(q) /\ pc'[q] = "lost" /\ pc[q] # "done" /\ pc[q] # "idle"
      BY <1>2, <2>2 DEF IInv, InFlight, ExecutePC, CancelPC
    <3>2. \A b, j : IsRunFor(b, j)' <=> IsRunFor(b, j)
      BY <1>1 DEF IsRunFor, Ran
    <3>3. SeenInv(q)' /\ RanInv(q)'
      BY <1>1, <3>1 DEF RequestInv, SeenInv, RanInv, JobOf, Executed, Ran, MayExecute
    <3>4. StageInv(q)'
      BY <3>1 DEF StageInv, ExecutePC, RunPC, SkipPC, BlockPC
    <3>5. ResultInv(q)'
      BY <1>1, <3>1, <3>2 DEF RequestInv, ResultInv
    <3>6. AnswerInv(q)' /\ TraceInv(q)'
      BY <1>1, <1>2, <3>1 DEF RequestInv, AnswerInv, TraceInv
    <3>7. ASSUME NEW p \in Requests PROVE BeforeInv(p, q)'
      <4>1. BeforeInv(p, q)
        BY <3>1 DEF RequestInv
      <4>2. pc[p] = "done" => pc'[p] = "done"
        BY <1>2 DEF InFlight, ExecutePC, CancelPC
      <4> QED
        BY <1>1, <1>2, <3>1, <4>1, <4>2 DEF BeforeInv
    <3> QED
      BY <3>3, <3>4, <3>5, <3>6, <3>7 DEF RequestInv
  <2> QED
    BY <2>1, <2>2
<1> QED
  BY <1>3, <1>5, <1>6 DEF IInv

-----------------------------------------------------------------------------
(* The invariant and what it implies *)

\* No request has arrived, and no event is there.
LEMMA InitEstablishes == Init => IInv
<1> SUFFICES ASSUME Init PROVE IInv
  OBVIOUS
<1>2. TypeOK
  <2>1. /\ AbsentJob \in Job /\ [AbsentJob EXCEPT !.status = "queued"] \in Job
        /\ NoEvent \in Event /\ NoAnswer \in Answer
    BY DEF AbsentJob, NoEvent, NoAnswer, Job, Event, Answer, Statuses, Settled
  <2> QED
    BY <2>1, BoundsAssumption DEF Init, TypeOK, Statuses
<1>3. /\ \A j \in Jobs : job[j].status \in {"absent", "queued"} /\ job[j].risk = "Low" /\ job[j].owner = Null
      /\ \A j \in Jobs, k \in Keys : event[j][k].status = "none" /\ event[j][k].bundle = Null
      /\ \A r \in Requests :
           /\ pc[r] = "idle" /\ seen[r] = "absent" /\ bundle[r] = Null
           /\ answer[r].kind = "none" /\ answer[r].bundle = Null
           /\ before[r] = {} /\ r \notin ledger /\ bundle[r] # r
  BY NullAssumption DEF Init, AbsentJob, NoEvent, NoAnswer
<1>4. TableInv
  <2>1. ASSUME NEW j \in Jobs PROVE RowInv(j)
    BY <1>3 DEF RowInv
  <2>2. ASSUME NEW j \in Jobs, NEW k \in Keys PROVE EventInv(j, k)
    <3>1. event[j][k].status = "none" /\ event[j][k].bundle = Null
      BY <1>3
    <3> QED
      BY <3>1 DEF EventInv
  <2> QED
    BY <2>1, <2>2 DEF TableInv
<1>5. ASSUME NEW r \in Requests PROVE RequestInv(r)
  <2>1. SeenInv(r) /\ StageInv(r) /\ RanInv(r)
    BY <1>3 DEF SeenInv, StageInv, RanInv, Ran, ExecutePC, RunPC, SkipPC, BlockPC
  <2>2. ResultInv(r) /\ AnswerInv(r) /\ TraceInv(r)
    BY <1>3 DEF ResultInv, AnswerInv, TraceInv, RecordedKinds, Ran
  <2>3. \A q \in Requests : BeforeInv(q, r)
    BY <1>3 DEF BeforeInv
  <2> QED
    BY <2>1, <2>2, <2>3 DEF RequestInv
<1> QED
  BY <1>2, <1>4, <1>5 DEF IInv

\* Every action preserves the invariant.
LEMMA NextPreserves == IInv /\ [Next]_vars => IInv'
<1> SUFFICES ASSUME IInv, [Next]_vars PROVE IInv'
  OBVIOUS
<1>2. CASE \E j \in Jobs, user \in Users, depeg \in BOOLEAN : CreateJob(j, user, depeg)
  BY <1>2, CreateJobPreserves
<1>3. CASE \E r \in Requests : Arrive(r)
  BY <1>3, ArrivePreserves
<1>4. ASSUME NEW r \in Requests, ExecuteStep(r) PROVE IInv'
  BY <1>4, ExecuteGetJobPreserves, ExecuteReplayPreserves, ExecuteDecidePreserves,
     ExecuteFindLatestPreserves, ExecuteSkipPreserves, ExecuteBlockJobPreserves,
     ExecuteBlockEventPreserves, ExecuteAttemptOkPreserves, ExecuteAttemptThrowsPreserves,
     ExecuteFailEventPreserves, ExecuteMarkExecutedPreserves, ExecuteAcceptEventPreserves,
     ExecuteRecordRowPreserves
     DEF ExecuteStep
<1>5. CASE \E r \in Requests : CancelStep(r) \/ DbError(r)
  BY <1>5, CancelReadPreserves, CancelWritePreserves, DbErrorPreserves DEF CancelStep
<1>6. CASE Crash
  BY <1>6, CrashPreserves
<1>7. CASE UNCHANGED vars
  <2>1. TypeOK' /\ TablesGrow /\ UNCHANGED vars
    BY <1>7 DEF IInv, TypeOK, TablesGrow, Executed, Decided, Ran, vars
  <2>2. TableInv'
    BY <2>1, TablesUntouched DEF vars
  <2>3. ASSUME NEW q \in Requests PROVE RequestInv(q)'
    BY <2>1, OthersUndisturbed DEF Unmoved, vars
  <2> QED
    BY <2>1, <2>2, <2>3 DEF IInv
<1> QED
  BY <1>2, <1>3, <1>4, <1>5, <1>6, <1>7 DEF Next

\* IInv is an inductive invariant of the store, and contains TypeOK.
THEOREM Invariance == Spec => []IInv
  BY InitEstablishes, NextPreserves, PTL DEF Spec

\* Every variable keeps its type: no request makes more than MaxAttempts
\* adapter attempts, every stored result names a request, every bound holds.
THEOREM TypeCorrectness == Spec => []TypeOK
<1>1. IInv => TypeOK
  BY DEF IInv
<1> QED
  BY <1>1, Invariance, PTL

\* Only the owner of a job, or anybody for a job without one, gets it executed
\* or gets a deposit row for it.
THEOREM OwnersOnly == Spec => []OnlyOwnerExecutes
<1>1. IInv => OnlyOwnerExecutes
  BY DEF IInv, RequestInv, RanInv, TraceInv, AnswerInv, MayExecute, OnlyOwnerExecutes
<1> QED
  BY <1>1, Invariance, PTL

\* A critical job is never executed, under any interleaving and any fault.
THEOREM CriticalSafety == Spec => []CriticalNeverExecutes
<1>1. ASSUME IInv PROVE CriticalNeverExecutes
  <2>1. ASSUME NEW j \in Jobs, job[j].risk = "Critical"
        PROVE  /\ job[j].status # "executed"
               /\ \A k \in Keys : event[j][k].status \in {"none", "blocked"}
    <3>1. event \in [Jobs -> [Keys -> Event]] /\ RowInv(j) /\ \A k \in Keys : EventInv(j, k)
      BY <1>1 DEF IInv, TableInv, TypeOK
    <3> QED
      BY <2>1, <3>1 DEF RowInv, EventInv, Event
  <2>2. ASSUME NEW r \in Requests, JobOf(r).risk = "Critical" PROVE ~Ran(r) /\ r \notin ledger
    BY <1>1, <2>2 DEF IInv, RequestInv, RanInv, TraceInv, AnswerInv
  <2> QED
    BY <2>1, <2>2 DEF CriticalNeverExecutes, JobOf
<1> QED
  BY <1>1, Invariance, PTL

\* An accepted event is backed by an adapter run under its own job and key, and
\* its job is executed unless a cancel has overwritten that.
THEOREM AcceptedEventsAreBacked == Spec => []AcceptedIsBacked
<1>1. ASSUME IInv PROVE AcceptedIsBacked
  BY <1>1 DEF IInv, TableInv, EventInv, IsRunFor, Executed, AcceptedIsBacked
<1> QED
  BY <1>1, Invariance, PTL

\* A client is only ever told results of the job it asked about.
THEOREM AnswersStayWithinAJob == Spec => []AnswersNameRunsOfTheJob
<1>1. ASSUME IInv PROVE AnswersNameRunsOfTheJob
  BY <1>1 DEF IInv, RequestInv, ResultInv, IsRunFor, AnswersNameRunsOfTheJob
<1> QED
  BY <1>1, Invariance, PTL

\* A job that somebody was told had run is not run again by later requests.
THEOREM RerunsSkip == Spec => []SequentialRerunSkips
<1>1. ASSUME IInv PROVE SequentialRerunSkips
  <2>1. ASSUME NEW q \in Requests, NEW r \in Requests,
               q \in before[r], call[q].job = call[r].job, answer[q].kind \in {"accepted", "skip"}
        PROVE  ~Ran(r)
    <3>1. RanInv(r) /\ BeforeInv(q, r)
      BY <1>1 DEF IInv, RequestInv
    <3>2. seen[r] # "queued"
      BY <2>1, <3>1 DEF BeforeInv
    <3> QED
      BY <3>1, <3>2 DEF RanInv
  <2> QED
    BY <2>1 DEF SequentialRerunSkips
<1> QED
  BY <1>1, Invariance, PTL

\* A job whose cancel was acknowledged is not run by later requests.
THEOREM CancelsHold == Spec => []AcknowledgedCancelHolds
<1>1. ASSUME IInv PROVE AcknowledgedCancelHolds
  <2>1. ASSUME NEW q \in Requests, NEW r \in Requests,
               q \in before[r], call[q].job = call[r].job, answer[q].kind \in {"cancel done"}
        PROVE  ~Ran(r)
    <3>1. RanInv(r) /\ BeforeInv(q, r)
      BY <1>1 DEF IInv, RequestInv
    <3>2. seen[r] # "queued"
      BY <2>1, <3>1 DEF BeforeInv
    <3> QED
      BY <3>1, <3>2 DEF RanInv
  <2> QED
    BY <2>1 DEF AcknowledgedCancelHolds
<1> QED
  BY <1>1, Invariance, PTL

\* Without faults a key that was answered never runs the adapters again.
THEOREM KeysAreFinal == Spec => []RecordedKeyNeverReruns
<1>1. ASSUME IInv PROVE RecordedKeyNeverReruns
  BY <1>1 DEF IInv, RequestInv, BeforeInv, RecordedKinds, RecordedKeyNeverReruns
<1> QED
  BY <1>1, Invariance, PTL

\* The deposit rows are those of the accepted answers that ask for one.
THEOREM LedgerAgrees == Spec => []LedgerMatchesAnswers
<1>1. ASSUME IInv PROVE LedgerMatchesAnswers
  <2>1. \A r \in Requests : /\ RequestInv(r) /\ JobOf(r) = job[call[r].job]
                            /\ ledger \subseteq Requests
    BY <1>1, Here DEF IInv, TypeOK
  <2> QED
    BY <1>1, <2>1 DEF RequestInv, AnswerInv, TraceInv, Executed, LedgerMatchesAnswers, IInv, TypeOK
<1> QED
  BY <1>1, Invariance, PTL

\* Without faults no adapter run goes unrecorded under its key.
THEOREM RunsLeaveTraces == Spec => []EveryRunLeavesATrace
<1>1. ASSUME IInv PROVE EveryRunLeavesATrace
  BY <1>1 DEF IInv, RequestInv, TraceInv, EveryRunLeavesATrace
<1> QED
  BY <1>1, Invariance, PTL

-----------------------------------------------------------------------------
(* The store implements JobLifecycle *)

\* Steps that write no table stutter.
LEMMA QuietStepsStutter ==
  ASSUME UNCHANGED <<job, event, ledger, call>>
  PROVE  UNCHANGED Lifecycle!lifecycleVars
  BY DEF Lifecycle!lifecycleVars

\* A status update is a Settle.
LEMMA SetStatusSettles ==
  ASSUME IInv, NEW j \in Jobs, NEW s \in {"cancelled", "blocked", "executed"}, SetStatus(j, s),
         UNCHANGED <<event, ledger, call>>,
         job[j].status # "absent",
         s = "blocked" => job[j].risk = "Critical",
         s = "executed" => job[j].risk = "Low"
  PROVE  Lifecycle!Next
<1>1. /\ job'[j].status = s
      /\ \A i \in Jobs : job'[i].risk = job[i].risk /\ job'[i].owner = job[i].owner
      /\ \A i \in Jobs \ {j} : job'[i].status = job[i].status
  <2>1. TypeOK /\ s \in Statuses
    BY DEF IInv, Statuses, Settled
  <2> QED
    BY <2>1, SetStatusFacts
<1>2. /\ [i \in Jobs |-> job'[i].status] = [[i \in Jobs |-> job[i].status] EXCEPT ![j] = s]
      /\ [i \in Jobs |-> job'[i].risk] = [i \in Jobs |-> job[i].risk]
      /\ [i \in Jobs |-> job'[i].owner] = [i \in Jobs |-> job[i].owner]
  BY <1>1
<1>3. Lifecycle!Settle(j, s)
  BY <1>2 DEF Lifecycle!Settle
<1> QED
  BY <1>3 DEF Lifecycle!Next

\* An event insert is a Record, or a stutter when the key is taken.
LEMMA InsertRecords ==
  ASSUME IInv, NEW r \in Requests, NEW result,
         NEW s \in {"accepted", "blocked", "skipped", "failed"},
         InsertEvent(r, s, result),
         [status |-> s, bundle |-> result] \in Event,
         UNCHANGED <<job, ledger, call>>,
         s \in {"accepted", "skipped"} => Executed(call[r].job),
         s = "failed" => JobOf(r).risk = "Low",
         s = "blocked" => JobOf(r).risk = "Critical"
  PROVE  Lifecycle!Next \/ UNCHANGED Lifecycle!lifecycleVars
<1>1. PICK j \in Jobs, k \in Keys : j = call[r].job /\ k = call[r].key /\ JobOf(r) = job[j]
  BY Here
<1>2. /\ \A i \in Jobs, x \in Keys :
           \/ event'[i][x] = event[i][x]
           \/ /\ event[i][x].status = "none" /\ i = j /\ x = k
              /\ event'[i][x].status = s
  BY <1>1, InsertFacts
<1>3. CASE \A i \in Jobs, x \in Keys : event'[i][x].status = event[i][x].status
  BY <1>3 DEF Lifecycle!lifecycleVars
<1>4. CASE event[j][k].status = "none" /\ event'[j][k].status = s
  <2>1. \A i \in Jobs, x \in Keys : i # j \/ x # k => event'[i][x].status = event[i][x].status
    BY <1>2
  <2>2. [i \in Jobs |-> [x \in Keys |-> event'[i][x].status]]
          = [[i \in Jobs |-> [x \in Keys |-> event[i][x].status]] EXCEPT ![j][k] = s]
    <3> DEFINE old == [i \in Jobs |-> [x \in Keys |-> event[i][x].status]]
               new == [i \in Jobs |-> [x \in Keys |-> event'[i][x].status]]
    <3>1. new[j] = [old[j] EXCEPT ![k] = s]
      BY <1>1, <1>4, <2>1
    <3>2. \A i \in Jobs \ {j} : new[i] = old[i]
      BY <2>1
    <3>3. new = [i \in Jobs |-> new[i]] /\ old = [i \in Jobs |-> old[i]]
      OBVIOUS
    <3> HIDE DEF old, new
    <3>4. new = [old EXCEPT ![j] = [old[j] EXCEPT ![k] = s]]
      BY <1>1, <3>1, <3>2, <3>3
    <3> QED
      BY <3>4 DEF old, new
  <2>3. Lifecycle!Record(j, k, s)
    BY <1>1, <1>4, <2>2 DEF Lifecycle!Record, Lifecycle!Executed, Executed
  <2> QED
    BY <2>3 DEF Lifecycle!Next
<1> QED
  BY <1>2, <1>3, <1>4

\* Each step of an execution is a stutter, or one step of the lifecycle.
LEMMA ExecuteStepImplements ==
  ASSUME IInv, NEW r \in Requests, ExecuteStep(r)
  PROVE  Lifecycle!Next \/ UNCHANGED Lifecycle!lifecycleVars
<1>1. /\ TypeOK /\ RequestInv(r) /\ call[r].job \in Jobs /\ JobOf(r) = job[call[r].job]
      /\ bundle[r] \in Requests \cup {Null}
  BY Here DEF TypeOK
<1>2. CASE \/ ExecuteGetJob(r) \/ ExecuteReplay(r) \/ ExecuteDecide(r) \/ ExecuteFindLatest(r)
           \/ ExecuteAttemptOk(r) \/ ExecuteAttemptThrows(r)
  <2>1. UNCHANGED <<job, event, ledger, call>>
    BY <1>2 DEF ExecuteGetJob, ExecuteReplay, ExecuteDecide, ExecuteFindLatest,
                ExecuteAttemptOk, ExecuteAttemptThrows
  <2> QED
    BY <2>1, QuietStepsStutter
<1>3. CASE ExecuteSkip(r)
  <2>1. /\ pc[r] = "skipEvent" /\ InsertEvent(r, "skipped", bundle[r])
        /\ UNCHANGED <<job, ledger, call>>
    BY <1>3 DEF ExecuteSkip, Reply, Goto
  <2>2. Executed(call[r].job) /\ [status |-> "skipped", bundle |-> bundle[r]] \in Event
    BY <1>1, <2>1 DEF RequestInv, StageInv, SeenInv, SkipPC, Event
  <2> QED
    BY <2>1, <2>2, InsertRecords
<1>4. CASE ExecuteBlockJob(r)
  <2>1. /\ pc[r] = "blockJob" /\ SetStatus(call[r].job, "blocked")
        /\ UNCHANGED <<event, ledger, call>>
    BY <1>4 DEF ExecuteBlockJob, Goto
  <2>2. JobOf(r).risk = "Critical" /\ JobOf(r).status # "absent"
    BY <1>1, <2>1 DEF RequestInv, StageInv, SeenInv, BlockPC, ExecutePC
  <2> QED
    BY <1>1, <2>1, <2>2, SetStatusSettles
<1>5. CASE ExecuteBlockEvent(r)
  <2>1. /\ pc[r] = "blockEvent" /\ InsertEvent(r, "blocked", Null)
        /\ UNCHANGED <<job, ledger, call>>
    BY <1>5 DEF ExecuteBlockEvent, Reply, Goto
  <2>2. JobOf(r).risk = "Critical" /\ [status |-> "blocked", bundle |-> Null] \in Event
    BY <1>1, <2>1 DEF RequestInv, StageInv, BlockPC, Event
  <2> QED
    BY <2>1, <2>2, InsertRecords
<1>6. CASE ExecuteFailEvent(r)
  <2>1. /\ pc[r] = "failEvent" /\ InsertEvent(r, "failed", Null)
        /\ UNCHANGED <<job, ledger, call>>
    BY <1>6 DEF ExecuteFailEvent, Reply, Goto
  <2>2. JobOf(r).risk = "Low" /\ [status |-> "failed", bundle |-> Null] \in Event
    BY <1>1, <2>1 DEF RequestInv, StageInv, RunPC, Event
  <2> QED
    BY <2>1, <2>2, InsertRecords
<1>7. CASE ExecuteMarkExecuted(r)
  <2>1. /\ pc[r] = "markExecuted" /\ SetStatus(call[r].job, "executed")
        /\ UNCHANGED <<event, ledger, call>>
    BY <1>7 DEF ExecuteMarkExecuted, Goto
  <2>2. JobOf(r).risk = "Low" /\ JobOf(r).status # "absent"
    BY <1>1, <2>1 DEF RequestInv, StageInv, SeenInv, RunPC, ExecutePC
  <2> QED
    BY <1>1, <2>1, <2>2, SetStatusSettles
<1>8. CASE ExecuteAcceptEvent(r)
  <2>1. /\ pc[r] = "acceptEvent" /\ InsertEvent(r, "accepted", bundle[r])
        /\ UNCHANGED <<job, ledger, call>>
    BY <1>8 DEF ExecuteAcceptEvent, Reply, Goto
  <2>2. Executed(call[r].job) /\ [status |-> "accepted", bundle |-> bundle[r]] \in Event
    BY <1>1, <2>1 DEF RequestInv, StageInv, Event
  <2> QED
    BY <2>1, <2>2, InsertRecords
<1>9. CASE ExecuteRecordRow(r)
  <2>1. /\ pc[r] = "recordRow" /\ UNCHANGED <<job, event, call>>
        /\ ledger' = ledger \cup {r} \/ ledger' = ledger
    BY <1>9 DEF ExecuteRecordRow, Reply, Goto
  <2>2. Executed(call[r].job)
    BY <1>1, <2>1 DEF RequestInv, StageInv
  <2>3. CASE ledger' = ledger \cup {r}
    <3>1. PICK j \in Jobs : j = call[r].job
      BY <1>1
    <3>2. {call'[q].job : q \in ledger'} = {call[q].job : q \in ledger} \cup {j}
      BY <2>1, <2>3, <3>1
    <3>3. Lifecycle!Fund(j)
      BY <2>1, <2>2, <3>1, <3>2 DEF Lifecycle!Fund, Lifecycle!Executed, Executed
    <3> QED
      BY <3>3 DEF Lifecycle!Next
  <2>4. CASE ledger' = ledger
    BY <2>1, <2>4, QuietStepsStutter
  <2> QED
    BY <2>1, <2>3, <2>4
<1> QED
  BY <1>2, <1>3, <1>4, <1>5, <1>6, <1>7, <1>8, <1>9 DEF ExecuteStep

\* Creating a job is a Create.
LEMMA CreateJobImplements ==
  ASSUME IInv, NEW j \in Jobs, NEW user \in Users, NEW depeg \in BOOLEAN, CreateJob(j, user, depeg)
  PROVE  Lifecycle!Next
<1>1. /\ job[j].status = "absent" /\ job \in [Jobs -> Job]
      /\ UNCHANGED <<event, ledger, call>>
  BY DEF IInv, TypeOK, CreateJob
<1>2. PICK level \in {"Low", "Critical"} :
        job' = [job EXCEPT ![j] = [status |-> "queued", risk |-> level, owner |-> user]]
  BY DEF CreateJob
<1>3. /\ [i \in Jobs |-> job'[i].status] = [[i \in Jobs |-> job[i].status] EXCEPT ![j] = "queued"]
      /\ [i \in Jobs |-> job'[i].risk] = [[i \in Jobs |-> job[i].risk] EXCEPT ![j] = level]
      /\ [i \in Jobs |-> job'[i].owner] = [[i \in Jobs |-> job[i].owner] EXCEPT ![j] = user]
  BY <1>1, <1>2
<1>4. Lifecycle!Create(j)
  <2>1. /\ level \in {"Low", "Critical"} /\ user \in Users \cup {Null}
        /\ [i \in Jobs |-> job[i].status][j] = "absent"
    BY <1>1
  <2>2. UNCHANGED <<[i \in Jobs |-> [x \in Keys |-> event[i][x].status]],
                    {call[r].job : r \in ledger}>>
    BY <1>1
  <2> QED
    BY <1>3, <2>1, <2>2 DEF Lifecycle!Create
<1> QED
  BY <1>4 DEF Lifecycle!Next

\* So is every step of the store.
LEMMA NextImplements ==
  ASSUME IInv, [Next]_vars
  PROVE  [Lifecycle!Next]_(Lifecycle!lifecycleVars)
<1>1. CASE \E j \in Jobs, user \in Users, depeg \in BOOLEAN : CreateJob(j, user, depeg)
  BY <1>1, CreateJobImplements
<1>2. ASSUME NEW r \in Requests, ExecuteStep(r)
      PROVE  Lifecycle!Next \/ UNCHANGED Lifecycle!lifecycleVars
  BY <1>2, ExecuteStepImplements
<1>3. ASSUME NEW r \in Requests, CancelWrite(r) PROVE Lifecycle!Next
  <2>1. /\ pc[r] = "cancelWrite" /\ SetStatus(call[r].job, "cancelled")
        /\ UNCHANGED <<event, ledger, call>>
    BY <1>3 DEF CancelWrite, Reply, Goto
  <2>2. RequestInv(r) /\ call[r].job \in Jobs /\ JobOf(r) = job[call[r].job]
    BY Here
  <2>3. JobOf(r).status # "absent"
    BY <2>1, <2>2 DEF RequestInv, StageInv, SeenInv
  <2> QED
    BY <2>1, <2>2, <2>3, SetStatusSettles
<1>4. CASE \/ \E r \in Requests : Arrive(r) \/ CancelRead(r) \/ DbError(r)
           \/ Crash \/ UNCHANGED vars
  <2>1. UNCHANGED <<job, event, ledger, call>>
    BY <1>4 DEF Arrive, CancelRead, DbError, Crash, vars
  <2> QED
    BY <2>1, QuietStepsStutter
<1> QED
  BY <1>1, <1>2, <1>3, <1>4 DEF Next, CancelStep

\* The tables start as the lifecycle does.
LEMMA InitImplements == Init => Lifecycle!Init
<1> SUFFICES ASSUME Init PROVE Lifecycle!Init
  OBVIOUS
<1>1. /\ \A j \in Jobs : job[j].status \in {"absent", "queued"} /\ job[j].risk = "Low" /\ job[j].owner = Null
      /\ \A j \in Jobs, k \in Keys : event[j][k].status = "none"
      /\ ledger = {}
  BY DEF Init, AbsentJob, NoEvent
<1>2. /\ [j \in Jobs |-> job[j].status] \in [Jobs -> {"absent", "queued"}]
      /\ [j \in Jobs |-> job[j].risk] = [j \in Jobs |-> "Low"]
      /\ [j \in Jobs |-> job[j].owner] \in [Jobs -> Users \cup {Null}]
      /\ [j \in Jobs |-> [k \in Keys |-> event[j][k].status]] = [j \in Jobs |-> [k \in Keys |-> "none"]]
      /\ {call[r].job : r \in ledger} = {}
  BY <1>1
<1> QED
  BY <1>2 DEF Lifecycle!Init

\* Whatever requests overlap, fail or are lost, the tables follow JobLifecycle.
THEOREM Refinement == Spec => ImplementsLifecycle
  BY InitImplements, NextImplements, Invariance, PTL
     DEF Spec, ImplementsLifecycle, Lifecycle!Spec

=============================================================================
