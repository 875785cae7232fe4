------------------------------- MODULE Launch -------------------------------
(***************************************************************************)
(* From the command lines to the requests: the server is started with its   *)
(* options (main in App/App.cpp, enclave_init_values in Enclave.cpp), then  *)
(* a client program (client_load.c or client_run.c, which differ in names,  *)
(* in the trace file and in the last message) with its own. The client      *)
(* splits its trace over its threads; they meet at a barrier, connect and   *)
(* send their parts. Each option is given at most once, in any order.       *)
(***************************************************************************)
EXTENDS Integers, Sequences, FiniteSets

CONSTANTS DefaultArg,     (* configuration_init of the server, scaled down   *)
          DefaultClient,  (* configuration_init of a client, scaled down     *)
          ServerValues,   (* the values tried for every option of the server *)
          ClientValues,   (* and for every option of the client              *)
          TraceLines      (* lines of the trace file                         *)

\* A client is told numbers. A request with a key and a value of the default sizes fits
\* the default buffer, and the sizes that -v picks for the buffer leave 38 bytes for the
\* key.
ASSUME LaunchAssumption ==
  /\ DefaultClient \in [num_threads : Nat, inst_size : Nat, max_key_size : Nat,
                        max_val_size : Nat, max_buf_size : Nat]
  /\ DOMAIN ClientValues \subseteq {"k", "v", "b", "t", "n"}
  /\ \A o \in DOMAIN ClientValues : ClientValues[o] \subseteq Nat
  /\ TraceLines \in Nat
  /\ DefaultClient.max_key_size <= 38
  /\ DefaultClient.max_key_size + DefaultClient.max_val_size + 10 <= DefaultClient.max_buf_size

VARIABLES arg,        (* the server's options                                *)
          sopts,      (* those that are still to come                        *)
          spc,        (* getopt, ready; exited, crashed (a signal), overrun  *)
                      (* (an index past the end of an array)                 *)
          carg,       (* the client's options                                *)
          copts,      (* those that are still to come                        *)
          cpc,        (* getopt, split, threads, done; exited, aborted,      *)
                      (* killed (SIGPIPE), crashed or overrun                *)
          set_count, thread_id, inst,   (* of file_to_memory                 *)
          tpc,        (* where each client thread stands                     *)
          sent        (* how many lines it has sent                          *)

svars == << arg, sopts, spc >>
cvars == << carg, copts, cpc, set_count, thread_id, inst, tpc, sent >>
vars  == << arg, sopts, spc, carg, copts, cpc, set_count, thread_id, inst, tpc, sent >>

Sizes == INSTANCE Layout WITH BucketSize   <- arg.bucket_size,
                              TreeRootSize <- arg.tree_root_size,
                              NumThreads   <- arg.num_threads

Init ==
  /\ arg = DefaultArg /\ sopts = DOMAIN ServerValues /\ spc = "getopt"
  /\ carg = DefaultClient /\ copts = DOMAIN ClientValues /\ cpc = "getopt"
  /\ set_count = 0 /\ thread_id = 0
  /\ inst = << >> /\ tpc = << >> /\ sent = << >>

-----------------------------------------------------------------------------
(* The server. *)

ServerField == [t |-> "num_threads", s |-> "bucket_size", r |-> "tree_root_size"]

ServerOption(o, n) ==
  /\ spc = "getopt" /\ o \in sopts
  /\ arg' = [arg EXCEPT ![ServerField[o]] = n]
  /\ sopts' = sopts \ {o}
  /\ UNCHANGED << spc, cvars >>

\* -h and unknown options, or an enclave that cannot be loaded.
ServerGivesUp ==
  /\ spc = "getopt"
  /\ spc' = "exited"
  /\ UNCHANGED << arg, sopts, cvars >>

\* ht_create has returned NULL, or the ratio divides by zero.
InitFaults == arg.bucket_size < 1 \/ arg.tree_root_size = 0

ServerStart ==
  /\ spc = "getopt"
  /\ spc' = IF InitFaults THEN "crashed" ELSE "ready"
  /\ UNCHANGED << arg, sopts, cvars >>

\* What becomes of the server when it is sent a request for a key of bucket h: the
\* request is queued to its worker, which looks up the root of the bucket. A
\* quotient of 0, or a division by 0 threads, divides by zero.
Serve(h) ==
  IF arg.bucket_size < arg.num_threads \/ arg.num_threads = 0 THEN "crashed"
  ELSE IF Sizes!thread_id(h) \notin Sizes!Workers             THEN "overrun"
  ELSE IF Sizes!ratio_root_per_buckets = 0                    THEN "crashed"
  ELSE IF Sizes!root_index(h) \notin Sizes!Roots              THEN "overrun"
  ELSE "ready"

-----------------------------------------------------------------------------
(* The client's options. *)

Room(c) == c.max_key_size + c.max_val_size + 10

BufSize(val, key) ==
  CASE val = 16  -> 64
    [] val = 128 -> 192
    [] val = 512 -> 576
    [] OTHER     -> key + val + 10

WithOption(o, n) ==
  CASE o = "k" -> [carg EXCEPT !.max_key_size = n]
    [] o = "v" -> [carg EXCEPT !.max_val_size = n, !.max_buf_size = BufSize(n, carg.max_key_size)]
    [] o = "b" -> [carg EXCEPT !.max_buf_size = n]
    [] o = "t" -> [carg EXCEPT !.num_threads = n]
    [] o = "n" -> [carg EXCEPT !.inst_size = n]

\* Mutant: -b without its assertion.
ClientOption_Unasserted(o, n) ==
  /\ spc # "getopt" /\ cpc = "getopt" /\ o \in copts
  /\ carg' = WithOption(o, n)
  /\ copts' = copts \ {o}
  /\ UNCHANGED << svars, cpc, set_count, thread_id, inst, tpc, sent >>

\* The client is run after the server; -b asserts that a request fits the buffer.
ClientOption(o, n) ==
  /\ spc # "getopt" /\ cpc = "getopt" /\ o \in copts
  /\ carg' = WithOption(o, n)
  /\ copts' = copts \ {o}
  /\ cpc' = IF o = "b" /\ n < Room(carg) THEN "aborted" ELSE "getopt"
  /\ UNCHANGED << svars, set_count, thread_id, inst, tpc, sent >>

ClientThreads == 0 .. (carg.num_threads - 1)

ClientStart ==
  /\ spc # "getopt" /\ cpc = "getopt"
  /\ cpc' = "split"
  /\ inst' = [i \in ClientThreads |-> << >>]
  /\ UNCHANGED << svars, carg, copts, set_count, thread_id, tpc, sent >>

-----------------------------------------------------------------------------
(* file_to_memory: line set_count of the trace goes to thread thread_id. *)

\* Lines per thread, 0 also where the division faults.
PerThread == IF carg.num_threads = 0 THEN 0 ELSE carg.inst_size \div carg.num_threads

\* Mutant: the first line already moves on to thread 1.
NextThread_FirstToo == IF set_count % PerThread = 0 THEN thread_id + 1 ELSE thread_id

NextThread ==
  IF set_count % PerThread = 0 /\ set_count # 0 THEN thread_id + 1 ELSE thread_id

SplitFaults ==
  /\ cpc = "split" /\ set_count < carg.inst_size /\ PerThread = 0
  /\ cpc' = "crashed"
  /\ UNCHANGED << svars, carg, copts, set_count, thread_id, inst, tpc, sent >>

SplitLine ==
  /\ cpc = "split" /\ set_count < carg.inst_size /\ PerThread # 0
  /\ thread_id' = NextThread
  /\ IF set_count = TraceLines
       THEN cpc' = "exited" /\ UNCHANGED << set_count, inst >>
       ELSE IF NextThread \notin ClientThreads
       THEN cpc' = "overrun" /\ UNCHANGED << set_count, inst >>
       ELSE /\ inst' = [inst EXCEPT ![NextThread] = Append(@, set_count)]
            /\ set_count' = set_count + 1
            /\ UNCHANGED cpc
  /\ UNCHANGED << svars, carg, copts, tpc, sent >>

CreateThreads ==
  /\ cpc = "split" /\ set_count >= carg.inst_size
  /\ cpc' = "threads"
  /\ tpc' = [i \in ClientThreads |-> "start"]
  /\ sent' = [i \in ClientThreads |-> 0]
  /\ UNCHANGED << svars, carg, copts, set_count, thread_id, inst >>

-----------------------------------------------------------------------------
(* The client's threads: client_worker. *)

At(i, from, to) ==
  /\ cpc = "threads" /\ i \in ClientThreads /\ tpc[i] = from
  /\ tpc' = [tpc EXCEPT ![i] = to]
  /\ UNCHANGED << carg, copts, set_count, thread_id, inst >>

Arrive(i) == At(i, "start", "barrier") /\ UNCHANGED << svars, cpc, sent >>

\* Mutant: the barrier waits for one more than the threads there are.
AllArrived_OneMore == Cardinality({j \in ClientThreads : tpc[j] # "start"}) = carg.num_threads + 1

\* pthread_barrier_init(&barrier, NULL, arg.num_threads).
AllArrived == Cardinality({j \in ClientThreads : tpc[j] # "start"}) = carg.num_threads

PassBarrier(i) == At(i, "barrier", "connect") /\ AllArrived /\ UNCHANGED << svars, cpc, sent >>

\* connect fails when there is no server; exit(0) ends all threads of the client.
Connect(i) ==
  /\ At(i, "connect", "send")
  /\ cpc' = IF spc = "ready" THEN cpc ELSE "exited"
  /\ UNCHANGED << svars, sent >>

\* Write a line and read the reply. Without a server both fail: errors are only
\* reported and the loop goes on, unless SIGPIPE ends the client.
Request(i) ==
  /\ spc # "overrun"
  /\ At(i, "send", "send") /\ sent[i] < PerThread
  /\ sent' = [sent EXCEPT ![i] = @ + 1]
  /\ IF spc = "ready"
       THEN (\E h \in Sizes!Buckets : spc' = Serve(h)) /\ UNCHANGED cpc
       ELSE UNCHANGED spc /\ cpc' \in {cpc, "killed"}
  /\ UNCHANGED << arg, sopts >>

\* Mutant: the loop ends one line early.
Finish_OneShort(i) == At(i, "send", "over") /\ sent[i] + 1 >= PerThread /\ UNCHANGED << svars, cpc, sent >>

\* LOADDONE or EXIT, its reply, and the end of the thread.
Finish(i) == At(i, "send", "over") /\ sent[i] = PerThread /\ UNCHANGED << svars, cpc, sent >>

JoinThreads ==
  /\ cpc = "threads" /\ \A i \in ClientThreads : tpc[i] = "over"
  /\ cpc' = "done"
  /\ UNCHANGED << svars, carg, copts, set_count, thread_id, inst, tpc, sent >>

Next ==
  \/ \E o \in DOMAIN ServerValues : \E n \in ServerValues[o] : ServerOption(o, n)
  \/ ServerGivesUp \/ ServerStart
  \/ \E o \in DOMAIN ClientValues : \E n \in ClientValues[o] : ClientOption(o, n)
  \/ ClientStart \/ SplitFaults \/ SplitLine \/ CreateThreads
  \/ \E i \in ClientThreads :
       Arrive(i) \/ PassBarrier(i) \/ Connect(i) \/ Request(i) \/ Finish(i)
  \/ JoinThreads

Spec == Init /\ [][Next]_vars

\* Some program that can go on does.
FairSpec == Spec /\ WF_vars(Next)

-----------------------------------------------------------------------------
\* The threads together send every line of the trace once, each its lines in the
\* order of the trace.
EveryLineOnce ==
  cpc = "done" =>
    /\ \A i \in ClientThreads : \A j, k \in 1 .. sent[i] : j < k => inst[i][j] < inst[i][k]
    /\ \A l \in 0 .. (carg.inst_size - 1) :
         Cardinality({p \in ClientThreads \X (1 .. carg.inst_size) :
                        p[2] <= sent[p[1]] /\ inst[p[1]][p[2]] = l}) = 1

\* Splitting the trace fails only for a number of operations the threads do not divide.
EvenSplitsWork ==
  cpc \in {"crashed", "overrun"} =>
    carg.num_threads = 0 \/ carg.inst_size % carg.num_threads # 0

\* A server whose sizes divide starts and has a worker and a root for any bucket,
\* and no two of its workers share a root.
DividingSizesServe ==
  Sizes!SizesDivide => Sizes!LayoutOK /\ spc \notin {"crashed", "overrun"}

\* The client ends, whatever the sizes: the barrier lets all its threads through
\* and a server that is gone keeps none of them waiting. What an access past the
\* server's queues leads to is left open.
ClientEnds == <>(cpc \in {"done", "exited", "aborted", "killed", "crashed", "overrun"} \/ spc = "overrun")

\* With keys of the default size, a client that starts has room in its buffer for a
\* request, whatever -v and -b it was given and in whichever order. (-k does not
\* look at the buffer: a larger key may leave too little room.)
BufferHoldsRequest ==
  cpc \notin {"getopt", "aborted"} /\ carg.max_key_size = DefaultClient.max_key_size
    => carg.max_buf_size >= Room(carg)

=============================================================================
