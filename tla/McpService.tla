----------------------------- MODULE McpService -----------------------------
(***************************************************************************)
(* The two services in front of the orchestrator: serve_stdio reads one    *)
(* JSON-RPC request per line, answers most of them itself and hands runs   *)
(* with an id to a pool; run_start and the daemon's create_run hand their  *)
(* run to a second pool and answer at once.  Both work on one store.       *)
(*                                                                         *)
(* A run is two steps here, its begin (state RECEIVED, request file, first *)
(* cancellation check) and its end; RunLifecycle has what is between.  A   *)
(* run is named by the line that started it, 0 is the daemon's.            *)
(***************************************************************************)
EXTENDS Naturals, Sequences, FiniteSets

CONSTANTS
  MaxLines,      \* bound on the lines the client writes
  MaxAsked,      \* bound on the cancellations and resumes the daemon is asked for
  Workers,       \* max_workers of serve_stdio
  AsyncWorkers,  \* max_workers of _ASYNC_RUN_WORKERS and _DAEMON_WORKERS
  DaemonThreads  \* threads that handle the daemon's requests

ASSUME McpAssumption ==
  /\ MaxLines \in Nat /\ MaxAsked \in Nat /\ Workers \in Nat \ {0}
  /\ AsyncWorkers \in Nat \ {0} /\ DaemonThreads \in Nat \ {0}

Lines == 1..MaxLines
Runs  == 0..MaxLines

VARIABLES
  request,   \* line -> what the client wrote, in order (history of stdin)
  unread,    \* number of the next line the reader will see
  closed,    \* the client closed its end
  reader,    \* the thread in the for loop: loop, busy, draining or exited
  queue,     \* requests submitted to the workers and not taken
  waiting,   \* runs submitted to an asynchronous pool and not taken
  jobs,      \* runs being executed: [by, line, run, phase]
  replies,   \* line -> responses written for it
  state,     \* latest_state of a run, "none" before it has one
  cancelled, \* runs with a row in cancellations
  stored,    \* runs with a run_request.json
  early,     \* runs cancelled before they began and not resumed since (history)
  asked      \* cancellations and resumes the daemon was asked for

serviceVars == <<request, unread, closed, reader, queue, waiting, jobs, replies, state,
                 cancelled, stored, early, asked>>

(* id: a value, null, or no member of that name; null is like no member    *)
(* except for a run.  "other" is a method that changes nothing, also one   *)
(* nobody knows, "invalid" a line that is no JSON or no object.            *)
Ops == {"run", "run_start", "cancel", "resume", "other"}
Bad == {"blank", "invalid"}

_is_run_request(q) == q.op \in {"run", "run_start"}

Requests == {q \in [op : Ops, id : {"value", "null", "absent"}, run : Runs] :
               q.id = "null" => _is_run_request(q)}
              \cup [op : Bad, id : {"absent"}, run : {0}]

Terminal == {"delivered", "failed", "cancelled"}

Answer(line) == replies' = [replies EXCEPT ![line] = @ + 1]

(* handle_json_rpc answers nothing when the id is null or missing. *)
Reply(line) ==
  IF request[line].id = "value" THEN Answer(line) ELSE UNCHANGED replies

NoReply == UNCHANGED replies

(* Who works for a line of the input. *)
Served == {"reader", "worker"}

Count(by) == Cardinality({j \in jobs : j.by \in by})
-----------------------------------------------------------------------------
ServiceInit ==
  /\ request = <<>>
  /\ unread = 1
  /\ closed = FALSE
  /\ reader = "loop"
  /\ queue = <<>>
  /\ waiting = <<>>
  /\ jobs = {}
  /\ replies = [line \in Lines |-> 0]
  /\ state = [r \in Runs |-> "none"]
  /\ cancelled = {}
  /\ stored = {}
  /\ early = {}
  /\ asked = 0

(* The client names a run it has heard of.  A run and the daemon's request *)
(* make a new one, whose name the client does not choose.                  *)
Known(r) == \/ state[r] # "none" \/ \E i \in DOMAIN waiting : waiting[i] = r
            \/ \E j \in jobs : j.run = r
ClientWrite(q) ==
  /\ ~closed /\ Len(request) < MaxLines
  /\ q.op \in {"cancel", "resume"} => Known(q.run)
  /\ q.op \notin {"cancel", "resume"} => q.run = 0
  /\ request' = Append(request, q)
  /\ UNCHANGED <<unread, closed, reader, queue, waiting, jobs, replies, state,
                 cancelled, stored, early, asked>>

ClientClose ==
  /\ ~closed
  /\ closed' = TRUE
  /\ UNCHANGED <<request, unread, reader, queue, waiting, jobs, replies, state,
                 cancelled, stored, early, asked>>

(* request_cancel: a terminal run is left alone; a run that has no state   *)
(* yet is cancelled all the same.                                          *)
Cancel(r) ==
  IF state[r] \in Terminal
  THEN UNCHANGED <<state, cancelled, early>>
  ELSE /\ cancelled' = cancelled \cup {r}
       /\ state' = [state EXCEPT ![r] = "cancelled"]
       /\ early' = IF r \in stored THEN early ELSE early \cup {r}

(* A resume that does not ask for the request file. *)
ResumableUnstored(r) == state[r] # "delivered"

(* Orchestrator.resume up to the failure boundary. *)
Resumable(r) == state[r] # "delivered" /\ r \in stored
ResumeStart(r) ==
  /\ cancelled' = cancelled \ {r}
  /\ state' = [state EXCEPT ![r] = "received"]
  /\ early' = IF r \in stored THEN early \ {r} ELSE early

Job(by, line, r, phase) == [by |-> by, line |-> line, run |-> r, phase |-> phase]

Reading == reader = "loop" /\ unread <= Len(request)
Consumed == unread' = unread + 1 /\ UNCHANGED <<request, closed>>

(* Blank lines are skipped; what is no JSON object is answered with a null *)
(* id, for a message nobody can match to a request.                        *)
ReadBad ==
  /\ Reading /\ request[unread].op \in Bad
  /\ IF request[unread].op = "blank" THEN NoReply ELSE Answer(unread)
  /\ Consumed
  /\ UNCHANGED <<reader, queue, waiting, jobs, state, cancelled, stored, early, asked>>

(* A run with an id member, null too, goes to the workers. *)
ReadRun ==
  /\ Reading /\ _is_run_request(request[unread]) /\ request[unread].id # "absent"
  /\ queue' = Append(queue, unread)
  /\ Consumed
  /\ UNCHANGED <<reader, waiting, jobs, replies, state, cancelled, stored, early, asked>>

(* Every other request is handled by the reader itself.  A run without an  *)
(* id and a resume keep it until the run has ended.                        *)
ReadInline ==
  LET q == request[unread] IN
  /\ Reading /\ q.op \in Ops
  /\ ~ (_is_run_request(q) /\ q.id # "absent")
  /\ Consumed
  /\ CASE q.op = "cancel" ->
            Cancel(q.run) /\ Reply(unread) /\ UNCHANGED <<reader, jobs, waiting>>
       [] q.op = "resume" /\ Resumable(q.run) ->
            /\ ResumeStart(q.run)
            /\ jobs' = jobs \cup {Job("reader", unread, q.run, "check")}
            /\ reader' = "busy"
            /\ NoReply /\ UNCHANGED waiting
       [] q.op = "run" ->
            /\ jobs' = jobs \cup {Job("reader", unread, unread, "begin")}
            /\ reader' = "busy"
            /\ NoReply /\ UNCHANGED <<waiting, state, cancelled, early>>
       [] q.op = "run_start" ->
            /\ waiting' = Append(waiting, unread)
            /\ NoReply /\ UNCHANGED <<reader, jobs, state, cancelled, early>>
       [] OTHER ->
            Reply(unread) /\ UNCHANGED <<reader, jobs, waiting, state, cancelled, early>>
  /\ UNCHANGED <<queue, stored, asked>>

(* A worker takes the next request: it executes a run itself, and submits  *)
(* the run of run_start and answers.                                       *)
WorkerTake ==
  /\ queue # <<>> /\ Count({"worker"}) < Workers
  /\ LET line == Head(queue) IN
     IF request[line].op = "run"
     THEN /\ jobs' = jobs \cup {Job("worker", line, line, "begin")}
          /\ UNCHANGED <<waiting, replies>>
     ELSE /\ waiting' = Append(waiting, line)
          /\ Reply(line) /\ UNCHANGED jobs
  /\ queue' = Tail(queue)
  /\ UNCHANGED <<request, unread, closed, reader, state, cancelled, stored, early, asked>>

(* create_run, cancel_run and resume_run: requests of another process,     *)
(* each handled in a thread of its own.  A resume that is refused changes  *)
(* nothing; a resumed run keeps its thread until it has ended.             *)
DaemonCreate ==
  /\ ~Known(0) /\ 0 \notin stored
  /\ waiting' = Append(waiting, 0)
  /\ UNCHANGED <<request, unread, closed, reader, queue, jobs, replies, state,
                 cancelled, stored, early, asked>>

AskDaemon == asked < MaxAsked /\ asked' = asked + 1

DaemonCancel(r) ==
  /\ Known(r)
  /\ Cancel(r)
  /\ AskDaemon
  /\ UNCHANGED <<request, unread, closed, reader, queue, waiting, jobs, replies, stored>>

DaemonResume(r) ==
  /\ Known(r) /\ Resumable(r)
  /\ Count({"daemon"}) < DaemonThreads
  /\ ResumeStart(r)
  /\ \E thread \in 1..DaemonThreads :
       /\ \A j \in jobs : j.by = "daemon" => j.line # thread
       /\ jobs' = jobs \cup {Job("daemon", thread, r, "check")}
  /\ AskDaemon
  /\ UNCHANGED <<request, unread, closed, reader, queue, waiting, replies, stored>>

PoolTakeOneLess ==
  /\ waiting # <<>> /\ Count({"pool"}) < AsyncWorkers - 1
  /\ jobs' = jobs \cup {Job("pool", 0, Head(waiting), "begin")}
  /\ waiting' = Tail(waiting)
  /\ UNCHANGED <<request, unread, closed, reader, queue, replies, state, cancelled, stored, early, asked>>

PoolTake ==
  /\ waiting # <<>> /\ Count({"pool"}) < AsyncWorkers
  /\ jobs' = jobs \cup {Job("pool", 0, Head(waiting), "begin")}
  /\ waiting' = Tail(waiting)
  /\ UNCHANGED <<request, unread, closed, reader, queue, replies, state, cancelled, stored, early, asked>>

(* run: state RECEIVED and the request file, then the failure boundary     *)
(* asks for a cancellation before anything else.                           *)
Begin(j) ==
  /\ j.phase = "begin"
  /\ state' = [state EXCEPT ![j.run] = "received"]
  /\ stored' = stored \cup {j.run}
  /\ jobs' = (jobs \ {j}) \cup {[j EXCEPT !.phase = "check"]}
  /\ UNCHANGED <<request, unread, closed, reader, queue, waiting, replies, cancelled, early, asked>>

ReleaseKeepingReader(j) ==
  /\ jobs' = jobs \ {j}
  /\ IF j.by \in Served THEN Reply(j.line) ELSE NoReply
  /\ UNCHANGED <<request, unread, closed, reader, queue, waiting, cancelled, stored, early, asked>>

(* The caller of the orchestrator goes on: it answers, and the reader      *)
(* reads again.                                                            *)
Release(j) ==
  /\ jobs' = jobs \ {j}
  /\ IF j.by \in Served THEN Reply(j.line) ELSE NoReply
  /\ reader' = IF j.by = "reader" THEN "loop" ELSE reader
  /\ UNCHANGED <<request, unread, closed, queue, waiting, cancelled, stored, early, asked>>

Check(j) ==
  /\ j.phase = "check"
  /\ IF j.run \in cancelled
     THEN Release(j) /\ state' = [state EXCEPT ![j.run] = "cancelled"]
     ELSE /\ jobs' = (jobs \ {j}) \cup {[j EXCEPT !.phase = "work"]}
          /\ UNCHANGED <<request, unread, closed, reader, queue, waiting, replies,
                         state, cancelled, stored, early, asked>>

Finish(j) ==
  /\ j.phase = "work"
  /\ \E s \in Terminal : /\ s = "cancelled" => j.run \in cancelled
                         /\ state' = [state EXCEPT ![j.run] = s]
  /\ Release(j)

(* End of input: leaving the with block waits for the workers, the         *)
(* interpreter for the asynchronous pool.                                  *)
EndOfInput ==
  /\ reader = "loop" /\ closed /\ unread > Len(request)
  /\ reader' = "draining"
  /\ UNCHANGED <<request, unread, closed, queue, waiting, jobs, replies, state,
                 cancelled, stored, early, asked>>

ExitAtOnce ==
  /\ reader = "draining"
  /\ reader' = "exited"
  /\ UNCHANGED <<request, unread, closed, queue, waiting, jobs, replies, state,
                 cancelled, stored, early, asked>>

Exit ==
  /\ reader = "draining"
  /\ queue = <<>> /\ Count({"worker"}) = 0
  /\ reader' = "exited"
  /\ UNCHANGED <<request, unread, closed, queue, waiting, jobs, replies, state,
                 cancelled, stored, early, asked>>

Reader == ReadBad \/ ReadRun \/ ReadInline \/ EndOfInput \/ Exit
Serve  == Reader \/ WorkerTake \/ PoolTake
Work == \E j \in jobs : Begin(j) \/ Check(j) \/ Finish(j)
Client == ClientClose \/ \E q \in Requests : ClientWrite(q)
Daemon == DaemonCreate \/ \E r \in Runs : DaemonCancel(r) \/ DaemonResume(r)

ServiceNext == Serve \/ Work \/ Client \/ Daemon

ServiceSpec == ServiceInit /\ [][ServiceNext]_serviceVars

(* The threads of each kind and the reader are scheduled, and what one of  *)
(* them executes comes to an end (RunLifecycle); a client need not write,  *)
(* close, cancel or resume.                                                *)
FairSpec ==
  /\ ServiceSpec
  /\ WF_serviceVars(Reader) /\ WF_serviceVars(PoolTake) /\ WF_serviceVars(WorkerTake)
  /\ \A by \in {"reader", "worker", "pool", "daemon"} :
       WF_serviceVars(\E j \in jobs : j.by = by /\ (Begin(j) \/ Check(j) \/ Finish(j)))
-----------------------------------------------------------------------------
ServiceTypeOK ==
  /\ request \in Seq(Requests) /\ Len(request) <= MaxLines
  /\ unread \in 1..(MaxLines + 1)
  /\ closed \in BOOLEAN
  /\ reader \in {"loop", "busy", "draining", "exited"}
  /\ queue \in Seq(Lines) /\ waiting \in Seq(Runs)
  /\ \A j \in jobs : j \in [by : {"reader", "worker", "pool", "daemon"}, line : Nat,
                            run : Runs, phase : {"begin", "check", "work"}]
  /\ replies \in [Lines -> Nat]
  /\ state \in [Runs -> {"none", "received"} \cup Terminal]
  /\ cancelled \subseteq Runs /\ stored \subseteq Runs /\ early \subseteq Runs /\ asked \in 0..MaxAsked
  /\ (reader = "busy") = (Count({"reader"}) = 1) /\ Count({"reader"}) <= 1
  /\ Count({"worker"}) <= Workers /\ Count({"pool"}) <= AsyncWorkers
  /\ Count({"daemon"}) <= DaemonThreads

Expected(line) == request[line].id = "value" \/ request[line].op \in Bad \ {"blank"}

(* A request is never answered twice and a notification never, whichever   *)
(* thread ends up handling it; after the loop has ended nothing is owed.   *)
AnsweredOnce ==
  \A line \in DOMAIN request :
    /\ replies[line] <= IF Expected(line) THEN 1 ELSE 0
    /\ reader = "exited" /\ Expected(line) => replies[line] = 1

(* A run cancelled before it began does no work and ends neither delivered *)
(* nor failed, whichever threads begin, cancel and resume it meanwhile; it *)
(* is worked on only when somebody resumes it after it has begun.          *)
EarlyCancelSticks ==
  \A r \in early :
    /\ state[r] \in {"received", "cancelled"}
    /\ \A j \in jobs : j.run = r => j.phase # "work"

(* Whatever blocks the reader or fills the pools ends: each request is     *)
(* answered, and each accepted run comes to a terminal state.              *)
RequestsAnswered ==
  \A line \in Lines :
    (line \in DOMAIN request /\ Expected(line)) ~> replies[line] = 1

AcceptedRunsEnd ==
  \A r \in Runs : (\E i \in DOMAIN waiting : waiting[i] = r) ~> state[r] \in Terminal
=============================================================================
