----------------------------- MODULE WorkQueues -----------------------------
(***************************************************************************)
(* The threads inside the enclave (Enclave/Enclave.cpp): the responder,     *)
(* which runs enclave_message_pass for one request of the front end after   *)
(* the other, and the worker threads, each with a queue of jobs, a mutex    *)
(* and a condition variable of its own. What a worker does to the hash      *)
(* table while it serves a job is module EnclaveStore.                      *)
(***************************************************************************)
EXTENDS Integers, Sequences, FiniteSets

CONSTANTS Clients,      (* the client threads                                *)
          NumThreads,   (* arg.num_threads                                   *)
          Kinds,        (* what clients send: "typed" is GET, SET or APP,    *)
                        (* "quit" begins with that word, "untyped" is the rest *)
          Early         (* may a client be as fast as the starting workers?  *)

ASSUME QueuesAssumption ==
  /\ IsFiniteSet(Clients) /\ Clients # {}
  /\ NumThreads \in Nat \ {0}
  /\ Kinds \subseteq {"typed", "quit", "untyped"}
  /\ Early \in BOOLEAN

Workers == 0 .. (NumThreads - 1)

VARIABLES num,          (* worker threads that have taken their number       *)
          queue,        (* the job queue of every worker                     *)
          mutex,        (* who holds queue_mutex[w]; "raw" is not initialised *)
          wpc,          (* where worker w stands; "wait" is in cond_wait     *)
          cur_job,      (* the job it took from its queue                    *)
          rpc,          (* where the responder stands in message_pass        *)
          new_job,      (* the job it is about to push                       *)
          target,       (* the thread_id or i it pushes to                   *)
          exit_count,   (* EXIT requests so far                              *)
          client        (* each client: ready, waiting for a reply, or gone  *)

wvars == << num, wpc, cur_job >>
rvars == << rpc, new_job, target, exit_count >>
vars  == << num, queue, mutex, wpc, cur_job, rpc, new_job, target, exit_count, client >>

NoJob   == [kind |-> "none"]
QuitJob == [kind |-> "quit"]   \* the server's own, with client_sock -1

Jobs == [kind : Kinds, client : Clients, worker : Workers] \cup {QuitJob}

Init ==
  /\ num = 0
  /\ queue = [w \in Workers |-> << >>]
  /\ mutex = [w \in Workers |-> "raw"]
  /\ wpc = [w \in Workers |-> "start"]
  /\ cur_job = [w \in Workers |-> NoJob]
  /\ rpc = "idle"
  /\ new_job = NoJob
  /\ target = 0
  /\ exit_count = 0
  /\ client = [c \in Clients |-> "ready"]

\* message_return: the reply reaches the client that waits for it.
message_return(c, then) == client' = [client EXCEPT ![c] = then]

-----------------------------------------------------------------------------
(* A worker thread: enclave_worker_thread. *)

\* Under global_mutex: take a number, initialise the mutex and the condition.
Start(w) ==
  /\ wpc[w] = "start"
  /\ w = num
  /\ num' = num + 1
  /\ mutex' = [mutex EXCEPT ![w] = "free"]
  /\ wpc' = [wpc EXCEPT ![w] = "lock"]
  /\ UNCHANGED << queue, cur_job, rvars, client >>

\* The first lock, and the lock cond_wait takes again before it returns.
Lock(w) ==
  /\ wpc[w] = "lock"
  /\ mutex[w] = "free"
  /\ mutex' = [mutex EXCEPT ![w] = "worker"]
  /\ wpc' = [wpc EXCEPT ![w] = "loop"]
  /\ UNCHANGED << num, queue, cur_job, rvars, client >>

\* Mutant: the worker decides to wait without looking at the queue.
FindEmpty_Unconditional(w) ==
  /\ wpc[w] = "loop"
  /\ wpc' = [wpc EXCEPT ![w] = "empty"]
  /\ UNCHANGED << num, queue, mutex, cur_job, rvars, client >>

\* queue[thread_id].size() == 0, with the mutex held.
FindEmpty(w) ==
  /\ wpc[w] = "loop"
  /\ queue[w] = << >>
  /\ wpc' = [wpc EXCEPT ![w] = "empty"]
  /\ UNCHANGED << num, queue, mutex, cur_job, rvars, client >>

\* cond_wait releases the mutex and waits, in one step.
Wait(w) ==
  /\ wpc[w] = "empty"
  /\ mutex' = [mutex EXCEPT ![w] = "free"]
  /\ wpc' = [wpc EXCEPT ![w] = "wait"]
  /\ UNCHANGED << num, queue, cur_job, rvars, client >>

\* The first job is read, not popped, and the mutex released.
Take(w) ==
  /\ wpc[w] = "loop"
  /\ queue[w] # << >>
  /\ cur_job' = [cur_job EXCEPT ![w] = Head(queue[w])]
  /\ mutex' = [mutex EXCEPT ![w] = "free"]
  /\ wpc' = [wpc EXCEPT ![w] = "dispatch"]
  /\ UNCHANGED << num, queue, rvars, client >>

\* GET, SET or APP: the operation, then the reply goes out.
Serve(w) ==
  /\ wpc[w] = "dispatch"
  /\ cur_job[w].kind = "typed"
  /\ message_return(cur_job[w].client, "ready")
  /\ wpc' = [wpc EXCEPT ![w] = "relock"]
  /\ UNCHANGED << num, queue, mutex, cur_job, rvars >>

\* Mutant: the job is freed but not popped.
Pop_Forgotten(w) ==
  /\ wpc[w] = "relock"
  /\ mutex[w] = "free"
  /\ mutex' = [mutex EXCEPT ![w] = "worker"]
  /\ wpc' = [wpc EXCEPT ![w] = "loop"]
  /\ UNCHANGED << num, queue, cur_job, rvars, client >>

\* After the reply: lock, pop the job, free it, and loop with the mutex held.
Pop(w) ==
  /\ wpc[w] = "relock"
  /\ mutex[w] = "free"
  /\ mutex' = [mutex EXCEPT ![w] = "worker"]
  /\ queue' = [queue EXCEPT ![w] = Tail(@)]
  /\ cur_job' = [cur_job EXCEPT ![w] = NoJob]
  /\ wpc' = [wpc EXCEPT ![w] = "loop"]
  /\ UNCHANGED << num, rvars, client >>

\* quit, from the server or from a client: pop under the mutex, and no reply. cur_job
\* still tells the job the worker ended with.
Quit(w) ==
  /\ wpc[w] = "dispatch"
  /\ cur_job[w].kind = "quit"
  /\ mutex[w] = "free"
  /\ queue' = [queue EXCEPT ![w] = Tail(@)]
  /\ wpc' = [wpc EXCEPT ![w] = "quit"]
  /\ UNCHANGED << num, mutex, cur_job, rvars, client >>

\* Mutex and condition are destroyed; the destruction of a mutex in use fails.
Destroy(w) ==
  /\ wpc[w] = "quit"
  /\ mutex' = [mutex EXCEPT ![w] = IF @ = "free" THEN "destroyed" ELSE @]
  /\ wpc' = [wpc EXCEPT ![w] = "done"]
  /\ UNCHANGED << num, queue, cur_job, rvars, client >>

\* "Untyped request": the loop is left, the job stays queued and unanswered.
Untyped(w) ==
  /\ wpc[w] = "dispatch"
  /\ cur_job[w].kind = "untyped"
  /\ wpc' = [wpc EXCEPT ![w] = "dead"]
  /\ UNCHANGED << num, queue, mutex, cur_job, rvars, client >>

-----------------------------------------------------------------------------
(* The responder: enclave_message_pass. *)

\* The front end reads a request of c and hands it over. It does not wait for the
\* worker threads it created: only clients started late enough find them all ready.
Called(c) ==
  /\ rpc = "idle"
  /\ Early \/ num = NumThreads
  /\ client[c] = "ready"

\* Mutants of the test exit_count == num_clients: before the increment, one early.
AllExited_BeforeIncrement(n, num_clients) == n = num_clients
AllExited_OneEarly(n, num_clients) == n + 2 = num_clients

\* exit_count == num_clients after the increment of the count n.
AllExited(n, num_clients) == n + 1 = num_clients

\* EXIT: reply, count, and when every client has exited push quit to all.
PassExit(c, num_clients) ==
  /\ Called(c)
  /\ message_return(c, "gone")
  /\ exit_count' = exit_count + 1
  /\ IF AllExited(exit_count, num_clients)
       THEN rpc' = "lock" /\ new_job' = QuitJob /\ target' = 0
       ELSE UNCHANGED << rpc, new_job, target >>
  /\ UNCHANGED << wvars, queue, mutex >>

\* LOADDONE: replied to by the responder itself. The load client goes and a run
\* client takes its place.
PassLoadDone(c) ==
  /\ Called(c)
  /\ message_return(c, "ready")
  /\ UNCHANGED << wvars, rvars, queue, mutex >>

\* Any other request, also one that begins with quit, is copied into a job for the
\* worker of its key's bucket.
PassRequest(c, j) ==
  /\ Called(c)
  /\ client' = [client EXCEPT ![c] = "waiting"]
  /\ new_job' = j
  /\ target' = j.worker
  /\ rpc' = "lock"
  /\ UNCHANGED << wvars, queue, mutex, exit_count >>

\* A mutex that was never initialised, or that is destroyed, keeps nobody out.
LockQueue ==
  /\ rpc = "lock"
  /\ mutex[target] \in {"free", "raw", "destroyed"}
  /\ mutex' = [mutex EXCEPT ![target] = IF @ = "free" THEN "responder" ELSE @]
  /\ rpc' = "push"
  /\ UNCHANGED << wvars, queue, new_job, target, exit_count, client >>

\* Mutant: the job is put at the front.
Push_Front ==
  /\ rpc = "push"
  /\ queue' = [queue EXCEPT ![target] = << new_job >> \o @]
  /\ rpc' = "signal"
  /\ UNCHANGED << wvars, mutex, new_job, target, exit_count, client >>

Push ==
  /\ rpc = "push"
  /\ queue' = [queue EXCEPT ![target] = Append(@, new_job)]
  /\ rpc' = "signal"
  /\ UNCHANGED << wvars, mutex, new_job, target, exit_count, client >>

\* Mutant: no signal after a push.
Signal_Missing ==
  /\ rpc = "signal"
  /\ rpc' = "unlock"
  /\ UNCHANGED << wvars, queue, mutex, new_job, target, exit_count, client >>

\* cond_signal wakes the worker if it waits, and is lost if it does not.
Signal ==
  /\ rpc = "signal"
  /\ wpc' = IF wpc[target] = "wait" THEN [wpc EXCEPT ![target] = "lock"] ELSE wpc
  /\ rpc' = "unlock"
  /\ UNCHANGED << num, cur_job, queue, mutex, new_job, target, exit_count, client >>

\* i < arg_enclave.num_threads after i++.
MoreWorkers(i) == i + 1 < NumThreads

\* After quit to one worker comes quit to the next; else the call returns. Only
\* the owner of a mutex can unlock it.
Unlock ==
  /\ rpc = "unlock"
  /\ mutex' = [mutex EXCEPT ![target] = IF @ = "responder" THEN "free" ELSE @]
  /\ IF new_job = QuitJob /\ MoreWorkers(target)
       THEN target' = target + 1 /\ rpc' = "lock" /\ UNCHANGED new_job
       ELSE target' = 0 /\ rpc' = "idle" /\ new_job' = NoJob
  /\ UNCHANGED << wvars, queue, exit_count, client >>

-----------------------------------------------------------------------------
WorkerStep(w) ==
  \/ Start(w)
  \/ Lock(w)
  \/ FindEmpty(w)
  \/ Wait(w)
  \/ Take(w)
  \/ Serve(w)
  \/ Pop(w)
  \/ Quit(w)
  \/ Destroy(w)
  \/ Untyped(w)

ResponderStep == LockQueue \/ Push \/ Signal \/ Unlock

Request(c) ==
  \/ PassExit(c, Cardinality(Clients))
  \/ PassLoadDone(c)
  \/ \E k \in Kinds, w \in Workers :
       PassRequest(c, [kind |-> k, client |-> c, worker |-> w])

Next ==
  \/ \E w \in Workers : WorkerStep(w)
  \/ ResponderStep
  \/ \E c \in Clients : Request(c)

Spec == Init /\ [][Next]_vars

(***************************************************************************)
(* Every thread runs on a core or is scheduled by the operating system      *)
(* again and again. Nothing is assumed of the clients.                      *)
(***************************************************************************)
FairSpec ==
  /\ Spec
  /\ \A w \in Workers : WF_vars(WorkerStep(w))
  /\ WF_vars(ResponderStep)

-----------------------------------------------------------------------------
(* Properties. *)

TypeOK ==
  /\ num \in 0 .. NumThreads
  /\ queue \in [Workers -> Seq(Jobs)]
  /\ mutex \in [Workers -> {"raw", "free", "worker", "responder", "destroyed"}]
  /\ wpc \in [Workers -> {"start", "lock", "loop", "empty", "wait", "dispatch", "relock", "quit", "done", "dead"}]
  /\ cur_job \in [Workers -> Jobs \cup {NoJob}]
  /\ rpc \in {"idle", "lock", "push", "signal", "unlock"}
  /\ new_job \in Jobs \cup {NoJob}
  /\ target \in Workers
  /\ exit_count \in 0 .. Cardinality(Clients)
  /\ client \in [Clients -> {"ready", "waiting", "gone"}]

\* The condition variable loses no wake-up: a worker that sleeps in
\* sgx_thread_cond_wait with a job in its queue is about to be signalled.
NoLostWakeup ==
  \A w \in Workers :
    wpc[w] = "wait" /\ queue[w] # << >> => rpc = "signal" /\ target = w

\* The job a worker pops and frees is the one it read with front() and answered,
\* though the mutex was released in between and the responder kept pushing.
PopsTheServedJob ==
  \A w \in Workers :
    wpc[w] \in {"dispatch", "relock"} => queue[w] # << >> /\ Head(queue[w]) = cur_job[w]

\* The i-th job in the queue of w is a request that has not been answered yet.
Unanswered(w, i) ==
  queue[w][i] # QuitJob /\ ~(i = 1 /\ wpc[w] = "relock")

\* The quit of a client has ended worker w.
EndedBy(w, c) ==
  wpc[w] \in {"quit", "done"} /\ cur_job[w] # QuitJob /\ cur_job[w].client = c

\* Where the unanswered jobs of client c are: in a queue, or gone with a worker that
\* took c's quit for its own, place 0.
JobsOf(c) ==
  (UNION { { << w, i >> : i \in { k \in DOMAIN queue[w] :
               Unanswered(w, k) /\ queue[w][k].client = c } } : w \in Workers })
    \cup { << w, 0 >> : w \in { v \in Workers : EndedBy(v, c) } }

Passing(c) == rpc \in {"lock", "push"} /\ new_job # QuitJob /\ new_job.client = c

\* A client waits exactly while one job of its own, and no more, is on its way
\* through message_pass or a queue, or has ended the worker that took it: no request
\* is lost, or answered twice.
OneJobPerWaitingClient ==
  \A c \in Clients :
    /\ client[c] = "waiting" <=> Passing(c) \/ JobsOf(c) # {}
    /\ Passing(c) => JobsOf(c) = {}
    /\ \A x, y \in JobsOf(c) : x = y

\* The quit of the server is the last job a worker gets: message_pass pushes nothing
\* to a worker that this quit has ended, whose mutex and condition are destroyed, and
\* no job is left behind. (A client's quit is not: its worker may be pushed to.)
NoJobAfterQuit ==
  \A w \in Workers : wpc[w] \in {"quit", "done"} /\ cur_job[w] = QuitJob =>
    /\ queue[w] = << >>
    /\ ~(rpc # "idle" /\ target = w)

\* A client has ended worker w: by an untyped request, which is still in the queue, or
\* by a quit, which is not.
Stopped(w) == wpc[w] = "dead" \/ (wpc[w] = "done" /\ cur_job[w] # QuitJob)

\* Every request is answered in the end, or it has ended its worker, or it sits in the
\* queue of a worker that another request has ended: worker loop, queue and condition
\* variable make progress together, and the damage of such a request stays with one
\* worker.
RequestsAnswered ==
  \A c \in Clients : client[c] = "waiting" ~>
    \/ client[c] # "waiting"
    \/ \E w \in Workers : Stopped(w) /\ \E x \in JobsOf(c) : x[1] = w

\* The mutex and the condition variable that message_pass uses have been initialised.
LocksInitialised ==
  rpc \in {"push", "signal", "unlock"} => target < num

\* When every client has sent EXIT, every worker thread ends, so that the joins in
\* main return.
WorkersQuit ==
  (\A c \in Clients : client[c] = "gone") ~> (\A w \in Workers : wpc[w] = "done")

=============================================================================
