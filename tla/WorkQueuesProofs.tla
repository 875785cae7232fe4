-------------------------- MODULE WorkQueuesProofs --------------------------
(***************************************************************************)
(* Proofs about WorkQueues, for every number of clients and worker threads, *)
(* when no request comes before the workers are ready.                      *)
(***************************************************************************)
EXTENDS QueueInvariant, FiniteSetTheorems, TLAPS

-----------------------------------------------------------------------------
(* Facts about jobs, queues and numbers. *)

\* A job is the server's quit or a request with a kind, a client and a worker.
LEMMA JobFields ==
  ASSUME NEW j \in Jobs
  PROVE  /\ j # QuitJob => j.client \in Clients /\ j.worker \in Workers
         /\ j.kind = "quit" \/ j.kind \in {"typed", "untyped"}
         /\ j # NoJob
<1>0. QuitJob.kind = "quit" /\ NoJob.kind = "none"
  BY DEF QuitJob, NoJob
<1>1. CASE j = QuitJob
  BY <1>0, <1>1
<1>2. CASE j \in [kind : Kinds, client : Clients, worker : Workers]
  <2>1. j.kind \in Kinds /\ j.client \in Clients /\ j.worker \in Workers
    BY <1>2
  <2>2. j.kind \in {"typed", "quit", "untyped"}
    BY <2>1, QueuesAssumption
  <2> QED BY <1>0, <2>1, <2>2
<1> QED BY <1>1, <1>2 DEF Jobs

\* The job made of a request names its client and is not the server's quit.
LEMMA RequestJob ==
  ASSUME NEW k \in Kinds, NEW c \in Clients, NEW w \in Workers
  PROVE  /\ [kind |-> k, client |-> c, worker |-> w] \in Jobs
         /\ [kind |-> k, client |-> c, worker |-> w] # QuitJob
<1> DEFINE j == [kind |-> k, client |-> c, worker |-> w]
<1>1. DOMAIN j = {"kind", "client", "worker"} /\ DOMAIN QuitJob = {"kind"}
  BY DEF QuitJob
<1>2. "client" \in DOMAIN j /\ "client" \notin DOMAIN QuitJob
  BY <1>1
<1>3. j # QuitJob
  BY <1>2
<1> QED BY <1>3 DEF Jobs

\* The numbers the workers take from num are natural numbers below NumThreads.
LEMMA WorkerNumbers ==
  ASSUME NEW w \in Workers
  PROVE  w \in Nat /\ w < NumThreads /\ NumThreads \in Nat
BY QueuesAssumption DEF Workers

\* The queue of a worker is a sequence of jobs.
LEMMA QueueFacts ==
  ASSUME NEW q \in Seq(Jobs)
  PROVE  /\ Len(q) \in Nat
         /\ DOMAIN q = 1 .. Len(q)
         /\ \A i \in DOMAIN q : q[i] \in Jobs
         /\ q # << >> => Len(q) > 0 /\ 1 \in DOMAIN q /\ Head(q) = q[1] /\ Head(q) \in Jobs
         /\ Len(q) > 0 => q # << >>
OBVIOUS

\* What pop() leaves of a queue: the jobs behind the first, one place further on.
LEMMA TailFacts ==
  ASSUME NEW q \in Seq(Jobs), q # << >>
  PROVE  /\ Tail(q) \in Seq(Jobs)
         /\ Len(Tail(q)) = Len(q) - 1
         /\ \A i \in DOMAIN Tail(q) : i \in Nat /\ i >= 1 /\ i + 1 \in DOMAIN q /\ Tail(q)[i] = q[i + 1]
         /\ \A i \in DOMAIN q : i # 1 => i - 1 \in DOMAIN Tail(q) /\ Tail(q)[i - 1] = q[i]
OBVIOUS

\* What push() makes of a queue: the old jobs in their places, then the new one.
LEMMA AppendFacts ==
  ASSUME NEW q \in Seq(Jobs), NEW j \in Jobs
  PROVE  /\ Append(q, j) \in Seq(Jobs)
         /\ Append(q, j) # << >>
         /\ Len(Append(q, j)) = Len(q) + 1
         /\ DOMAIN Append(q, j) = DOMAIN q \cup {Len(q) + 1}
         /\ Len(q) + 1 \notin DOMAIN q
         /\ \A i \in DOMAIN q : Append(q, j)[i] = q[i]
         /\ Append(q, j)[Len(q) + 1] = j
         /\ q # << >> => Head(Append(q, j)) = Head(q)
<1>1. /\ Append(q, j) \in Seq(Jobs)
      /\ Len(Append(q, j)) = Len(q) + 1
      /\ \A i \in DOMAIN q : Append(q, j)[i] = q[i]
      /\ Append(q, j)[Len(q) + 1] = j
  OBVIOUS
<1>2. Append(q, j) # << >> /\ Len(q) + 1 \notin DOMAIN q
  <2>1. Len(q) \in Nat /\ DOMAIN q = 1 .. Len(q) /\ Len(<< >>) = 0
    OBVIOUS
  <2> QED BY <1>1, <2>1
<1>3. DOMAIN Append(q, j) = DOMAIN q \cup {Len(q) + 1}
  <2>1. DOMAIN q = 1 .. Len(q) /\ DOMAIN Append(q, j) = 1 .. (Len(q) + 1) /\ Len(q) \in Nat
    BY <1>1
  <2> QED BY <2>1
<1>4. ASSUME q # << >> PROVE Head(Append(q, j)) = Head(q)
  <2>1. Head(q) = q[1] /\ 1 \in DOMAIN q
    BY <1>4, QueueFacts
  <2>2. Head(Append(q, j)) = Append(q, j)[1]
    BY <1>1, <1>2, QueueFacts
  <2> QED BY <2>1, <2>2, <1>1
<1> QED BY <1>1, <1>2, <1>3, <1>4

-----------------------------------------------------------------------------
(* OneJobPerWaitingClient, said of the queues. *)

JobAt(w, i, c) == Unanswered(w, i) /\ queue[w][i].client = c

Tracked ==
  /\ \A c \in Clients : Passing(c) => client[c] = "waiting"
  /\ \A c \in Clients, w \in Workers : \A i \in DOMAIN queue[w] :
       JobAt(w, i, c) => client[c] = "waiting" /\ ~Passing(c)
  /\ \A c \in Clients : client[c] = "waiting" =>
       \/ Passing(c)
       \/ \E w \in Workers : \E i \in DOMAIN queue[w] : JobAt(w, i, c)
       \/ \E w \in Workers : EndedBy(w, c)
  /\ \A c \in Clients, w, v \in Workers :
       \A i \in DOMAIN queue[w], k \in DOMAIN queue[v] :
         JobAt(w, i, c) /\ JobAt(v, k, c) => w = v /\ i = k
  /\ \A c \in Clients, w \in Workers : EndedBy(w, c) =>
       /\ client[c] = "waiting" /\ ~Passing(c)
       /\ \A v \in Workers : \A i \in DOMAIN queue[v] : ~JobAt(v, i, c)
       /\ \A v \in Workers : EndedBy(v, c) => v = w

\* JobsOf, the set of a client's unanswered jobs, in terms of places in the queues.
LEMMA JobsOfIs ==
  ASSUME NEW c
  PROVE  /\ \A w \in Workers : \A i \in DOMAIN queue[w] :
              JobAt(w, i, c) => << w, i >> \in JobsOf(c)
         /\ \A w \in Workers : EndedBy(w, c) => << w, 0 >> \in JobsOf(c)
         /\ \A x \in JobsOf(c) :
              \/ \E w \in Workers : \E i \in DOMAIN queue[w] : JobAt(w, i, c) /\ x = << w, i >>
              \/ \E w \in Workers : EndedBy(w, c) /\ x = << w, 0 >>
<1> DEFINE At(w) == { k \in DOMAIN queue[w] : Unanswered(w, k) /\ queue[w][k].client = c }
<1> DEFINE Pairs(w) == { << w, i >> : i \in At(w) }
<1> DEFINE Ends == { v \in Workers : EndedBy(v, c) }
<1> DEFINE Zeros == { << w, 0 >> : w \in Ends }
<1>0. JobsOf(c) = (UNION { Pairs(w) : w \in Workers }) \cup Zeros
  BY Zenon DEF JobsOf
<1>2. \A w \in Workers : \A i \in DOMAIN queue[w] : JobAt(w, i, c) <=> i \in At(w)
  BY DEF JobAt
<1>3. \A w \in Workers : At(w) \subseteq DOMAIN queue[w]
  OBVIOUS
<1>e. \A w : w \in Ends <=> w \in Workers /\ EndedBy(w, c)
  OBVIOUS
<1> HIDE DEF At, Ends
<1>4. \A w \in Workers : \A x : x \in Pairs(w) <=> \E i \in At(w) : x = << w, i >>
  OBVIOUS
<1>z. \A x : x \in Zeros <=> \E w \in Ends : x = << w, 0 >>
  OBVIOUS
<1> HIDE DEF Pairs, Zeros
<1> DEFINE All == UNION { Pairs(w) : w \in Workers }
<1>1. JobsOf(c) = All \cup Zeros
  BY <1>0
<1>u. \A x : x \in All <=> \E w \in Workers : x \in Pairs(w)
  OBVIOUS
<1> HIDE DEF All
<1>5. \A x : x \in JobsOf(c) <=> x \in Zeros \/ \E w \in Workers : x \in Pairs(w)
  BY <1>1, <1>u
<1>6. ASSUME NEW w \in Workers, NEW i \in DOMAIN queue[w], JobAt(w, i, c)
      PROVE  << w, i >> \in JobsOf(c)
  <2>1. << w, i >> \in Pairs(w)
    BY <1>2, <1>4, <1>6, Zenon
  <2> QED BY <1>5, <2>1, Zenon
<1>7. ASSUME NEW x, NEW w \in Workers, x \in Pairs(w)
      PROVE  \E i \in DOMAIN queue[w] : JobAt(w, i, c) /\ x = << w, i >>
  <2>2. PICK i \in At(w) : x = << w, i >>
    BY <1>4, <1>7, Zenon
  <2>3. i \in DOMAIN queue[w] /\ JobAt(w, i, c)
    BY <1>2, <1>3, Zenon
  <2> QED BY <2>2, <2>3, Zenon
<1>8. ASSUME NEW w \in Workers, EndedBy(w, c) PROVE << w, 0 >> \in JobsOf(c)
  <2>1. << w, 0 >> \in Zeros
    BY <1>8, <1>e, <1>z, Zenon
  <2> QED BY <1>5, <2>1, Zenon
<1>9. ASSUME NEW x \in Zeros PROVE \E w \in Workers : EndedBy(w, c) /\ x = << w, 0 >>
  BY <1>e, <1>z, Zenon
<1>10. ASSUME NEW x \in JobsOf(c)
       PROVE  \/ \E w \in Workers : \E i \in DOMAIN queue[w] : JobAt(w, i, c) /\ x = << w, i >>
              \/ \E w \in Workers : EndedBy(w, c) /\ x = << w, 0 >>
  <2>1. CASE x \in Zeros
    BY <1>9, <2>1, Zenon
  <2>2. CASE \E w \in Workers : x \in Pairs(w)
    <3>1. PICK w \in Workers : x \in Pairs(w)
      BY <2>2
    <3>2. \E i \in DOMAIN queue[w] : JobAt(w, i, c) /\ x = << w, i >>
      BY <1>7, <3>1
    <3> QED BY <3>2
  <2> QED BY <1>5, <2>1, <2>2, Zenon
<1> QED BY <1>6, <1>8, <1>10, Zenon

\* No job of a queue is at place 0.
LEMMA NotPlaceZero ==
  ASSUME TypeOK, NEW w \in Workers, NEW i \in DOMAIN queue[w]
  PROVE  i # 0
<1>1. queue[w] \in Seq(Jobs)
  BY DEF TypeOK
<1> QED BY <1>1

\* Pairs are equal when their places are.
LEMMA SamePair ==
  ASSUME NEW w, NEW v, NEW i, NEW k, << w, i >> = << v, k >>
  PROVE  w = v /\ i = k
OBVIOUS

\* The tracking of requests can be stated without sets of places.
LEMMA TrackedIs == TypeOK => (OneJobPerWaitingClient <=> Tracked)
<1> SUFFICES ASSUME TypeOK PROVE OneJobPerWaitingClient <=> Tracked
  OBVIOUS
<1>1. ASSUME OneJobPerWaitingClient PROVE Tracked
  <2>1. ASSUME NEW c \in Clients, NEW w \in Workers, NEW v \in Workers,
               NEW i \in DOMAIN queue[w], NEW k \in DOMAIN queue[v],
               JobAt(w, i, c), JobAt(v, k, c)
        PROVE  w = v /\ i = k
    <3>1. << w, i >> \in JobsOf(c) /\ << v, k >> \in JobsOf(c)
      BY <2>1, JobsOfIs, Zenon
    <3>2. << w, i >> = << v, k >>
      BY <1>1, <3>1, Zenon DEF OneJobPerWaitingClient
    <3> QED BY <3>2, SamePair, Zenon
  <2>2. ASSUME NEW c \in Clients, NEW w \in Workers, NEW i \in DOMAIN queue[w], JobAt(w, i, c)
        PROVE  client[c] = "waiting" /\ ~Passing(c)
    <3>1. << w, i >> \in JobsOf(c)
      BY <2>2, JobsOfIs, Zenon
    <3> QED BY <1>1, <3>1, Zenon DEF OneJobPerWaitingClient
  <2>3. ASSUME NEW c \in Clients, client[c] = "waiting", ~Passing(c)
        PROVE  \/ \E w \in Workers : \E i \in DOMAIN queue[w] : JobAt(w, i, c)
               \/ \E w \in Workers : EndedBy(w, c)
    <3>1. JobsOf(c) # {}
      BY <1>1, <2>3, Zenon DEF OneJobPerWaitingClient
    <3>2. PICK x : x \in JobsOf(c)
      BY <3>1, Zenon
    <3> QED BY <3>2, JobsOfIs, Zenon
  <2>4. \A c \in Clients : Passing(c) => client[c] = "waiting"
    BY <1>1, Zenon DEF OneJobPerWaitingClient
  <2>5. ASSUME NEW c \in Clients, NEW w \in Workers, EndedBy(w, c)
        PROVE  /\ client[c] = "waiting" /\ ~Passing(c)
               /\ \A v \in Workers : \A i \in DOMAIN queue[v] : ~JobAt(v, i, c)
               /\ \A v \in Workers : EndedBy(v, c) => v = w
    <3>1. << w, 0 >> \in JobsOf(c)
      BY <2>5, JobsOfIs, Zenon
    <3>2. client[c] = "waiting" /\ ~Passing(c)
      BY <1>1, <3>1, Zenon DEF OneJobPerWaitingClient
    <3>3. ASSUME NEW v \in Workers, NEW i \in DOMAIN queue[v], JobAt(v, i, c) PROVE FALSE
      <4>1. << v, i >> \in JobsOf(c)
        BY <3>3, JobsOfIs, Zenon
      <4>2. << v, i >> = << w, 0 >>
        BY <1>1, <3>1, <4>1, Zenon DEF OneJobPerWaitingClient
      <4> QED BY <4>2, SamePair, NotPlaceZero, Zenon
    <3>4. ASSUME NEW v \in Workers, EndedBy(v, c) PROVE v = w
      <4>1. << v, 0 >> \in JobsOf(c)
        BY <3>4, JobsOfIs, Zenon
      <4>2. << v, 0 >> = << w, 0 >>
        BY <1>1, <3>1, <4>1, Zenon DEF OneJobPerWaitingClient
      <4> QED BY <4>2, SamePair, Zenon
    <3> QED BY <3>2, <3>3, <3>4, Zenon
  <2> QED BY <2>1, <2>2, <2>3, <2>4, <2>5, Zenon DEF Tracked
<1>2. ASSUME Tracked PROVE OneJobPerWaitingClient
  <2> SUFFICES ASSUME NEW c \in Clients
               PROVE  /\ client[c] = "waiting" <=> Passing(c) \/ JobsOf(c) # {}
                      /\ Passing(c) => JobsOf(c) = {}
                      /\ \A x, y \in JobsOf(c) : x = y
    BY Zenon DEF OneJobPerWaitingClient
  <2>1. ASSUME client[c] = "waiting" PROVE Passing(c) \/ JobsOf(c) # {}
    BY <1>2, <2>1, JobsOfIs, Zenon DEF Tracked
  <2>2. ASSUME NEW x \in JobsOf(c) PROVE client[c] = "waiting" /\ ~Passing(c)
    BY <1>2, <2>2, JobsOfIs, Zenon DEF Tracked
  <2>3. Passing(c) => client[c] = "waiting"
    BY <1>2, Zenon DEF Tracked
  <2>4. ASSUME NEW x \in JobsOf(c), NEW y \in JobsOf(c) PROVE x = y
    <3>1. CASE \E w \in Workers : EndedBy(w, c)
      <4>1. PICK w \in Workers : EndedBy(w, c)
        BY <3>1
      <4>2. \A v \in Workers : \A i \in DOMAIN queue[v] : ~JobAt(v, i, c)
        BY <1>2, <4>1, Zenon DEF Tracked
      <4>3. \A v \in Workers : EndedBy(v, c) => v = w
        BY <1>2, <4>1, Zenon DEF Tracked
      <4>4. \A z \in JobsOf(c) : z = << w, 0 >>
        BY <4>2, <4>3, JobsOfIs, Zenon
      <4> QED BY <4>4, Zenon
    <3>2. CASE ~\E w \in Workers : EndedBy(w, c)
      <4>1. PICK w \in Workers : \E i \in DOMAIN queue[w] : JobAt(w, i, c) /\ x = << w, i >>
        BY <3>2, JobsOfIs, Zenon
      <4>2. PICK i \in DOMAIN queue[w] : JobAt(w, i, c) /\ x = << w, i >>
        BY <4>1
      <4>3. PICK v \in Workers : \E k \in DOMAIN queue[v] : JobAt(v, k, c) /\ y = << v, k >>
        BY <3>2, JobsOfIs, Zenon
      <4>4. PICK k \in DOMAIN queue[v] : JobAt(v, k, c) /\ y = << v, k >>
        BY <4>3
      <4>5. w = v /\ i = k
        BY <1>2, <4>2, <4>4, Zenon DEF Tracked
      <4> QED BY <4>2, <4>4, <4>5
    <3> QED BY <3>1, <3>2
  <2> QED BY <2>1, <2>2, <2>3, <2>4, Zenon
<1> QED BY <1>1, <1>2

\* Two unanswered jobs of one client are one and the same.
LEMMA OnlyJob ==
  ASSUME Tracked, NEW c \in Clients, NEW w \in Workers, NEW v \in Workers,
         NEW i \in DOMAIN queue[w], NEW k \in DOMAIN queue[v],
         JobAt(w, i, c), JobAt(v, k, c)
  PROVE  w = v /\ i = k
BY Zenon DEF Tracked

\* The same restatement, in the next state.
LEMMA TrackedNext == TypeOK' => (OneJobPerWaitingClient' <=> Tracked')
BY TrackedIs, PTL

\* A request passed on, or an exit: no job was being passed, and the client whose job
\* is passed now, if there is one, starts to wait.
LEMMA TrackedCall ==
  ASSUME Tracked, queue' = queue, wpc' = wpc, cur_job' = cur_job,
         \A v \in Workers : \A i \in DOMAIN queue[v] : \A d \in Clients : JobAt(v, i, d)' <=> JobAt(v, i, d),
         \A d \in Clients : /\ ~Passing(d)
                            /\ Passing(d)' => client[d] # "waiting"
                            /\ client'[d] = "waiting" <=> client[d] = "waiting" \/ Passing(d)'
  PROVE  Tracked'
<1>0. \A w : \A c : EndedBy(w, c)' <=> EndedBy(w, c)
  BY Zenon DEF EndedBy
<1>1. \A c \in Clients : Passing(c)' => client'[c] = "waiting"
  BY Zenon
<1>2. ASSUME NEW c \in Clients, NEW w \in Workers, NEW i \in DOMAIN queue[w], JobAt(w, i, c)'
      PROVE  client'[c] = "waiting" /\ ~Passing(c)'
  <2>1. JobAt(w, i, c)
    BY <1>2, Zenon
  <2>2. client[c] = "waiting"
    BY <2>1, Zenon DEF Tracked
  <2> QED BY <2>2, Zenon
<1>3. ASSUME NEW c \in Clients, client'[c] = "waiting", ~Passing(c)'
      PROVE  \/ \E w \in Workers : \E i \in DOMAIN queue[w] : JobAt(w, i, c)'
             \/ \E w \in Workers : EndedBy(w, c)'
  <2>1. \/ \E w \in Workers : \E i \in DOMAIN queue[w] : JobAt(w, i, c)
        \/ \E w \in Workers : EndedBy(w, c)
    BY <1>3, Zenon DEF Tracked
  <2> QED BY <1>0, <2>1, Zenon
<1>4. ASSUME NEW c \in Clients, NEW w \in Workers, NEW v \in Workers,
             NEW i \in DOMAIN queue[w], NEW k \in DOMAIN queue[v], JobAt(w, i, c)', JobAt(v, k, c)'
      PROVE  w = v /\ i = k
  <2>1. JobAt(w, i, c) /\ JobAt(v, k, c)
    BY <1>4, Zenon
  <2> QED BY <2>1, Zenon DEF Tracked
<1>5. ASSUME NEW c \in Clients, NEW w \in Workers, EndedBy(w, c)'
      PROVE  /\ client'[c] = "waiting" /\ ~Passing(c)'
             /\ \A v \in Workers : \A i \in DOMAIN queue[v] : ~JobAt(v, i, c)'
             /\ \A v \in Workers : EndedBy(v, c)' => v = w
  <2>1. EndedBy(w, c)
    BY <1>0, <1>5, Zenon
  <2>2. client[c] = "waiting"
    BY <2>1, Zenon DEF Tracked
  <2>3. \A v \in Workers : \A i \in DOMAIN queue[v] : ~JobAt(v, i, c)
    BY <2>1, Zenon DEF Tracked
  <2>4. \A v \in Workers : EndedBy(v, c) => v = w
    BY <2>1, Zenon DEF Tracked
  <2> QED BY <1>0, <2>2, <2>3, <2>4, Zenon
<1> QED BY <1>1, <1>2, <1>3, <1>4, <1>5, Zenon DEF Tracked

\* A step in which worker v neither ends nor forgets what ended it.
SameEnd(v) ==
  /\ wpc'[v] \in {"quit", "done"} <=> wpc[v] \in {"quit", "done"}
  /\ wpc[v] \in {"quit", "done"} => cur_job'[v] = cur_job[v]

\* Whom it has ended for stays the same.
LEMMA SameEnds ==
  ASSUME NEW v, SameEnd(v)
  PROVE  /\ \A c : EndedBy(v, c)' <=> EndedBy(v, c)
         /\ TookQuit(v)' <=> TookQuit(v)
BY Zenon DEF SameEnd, EndedBy, TookQuit

\* A step that leaves the queues, the clients and the job being passed alone, and
\* answers nobody.
LEMMA TrackedSame ==
  ASSUME Tracked, queue' = queue, client' = client,
         \A c \in Clients : Passing(c)' <=> Passing(c),
         \A v \in Workers : wpc'[v] = "relock" <=> wpc[v] = "relock",
         \A v \in Workers : SameEnd(v)
  PROVE  Tracked'
<1>1. \A v \in Workers : \A i \in DOMAIN queue[v] : \A c : JobAt(v, i, c)' <=> JobAt(v, i, c)
  BY Zenon DEF JobAt, Unanswered
<1>2. \A c \in Clients : (client'[c] = "waiting" <=> client[c] = "waiting")
  OBVIOUS
<1>3. \A v \in Workers : \A c : EndedBy(v, c)' <=> EndedBy(v, c)
  BY SameEnds, Zenon
<1> QED BY <1>1, <1>2, <1>3 DEF Tracked

\* The order of quit is kept by a step that changes nothing it speaks of.
LEMMA QuitOrderSame ==
  ASSUME QuitOrder, queue' = queue, client' = client,
         rpc' = rpc, new_job' = new_job, target' = target,
         \A v \in Workers : TookQuit(v)' => TookQuit(v)
  PROVE  QuitOrder'
<1>1. \A v \in Workers : (HasQuit(v)' <=> HasQuit(v)) /\ (NotYetQuit(v)' <=> NotYetQuit(v))
  BY Zenon DEF HasQuit, NotYetQuit
<1> QED BY <1>1, Zenon DEF QuitOrder

\* Nothing comes to a worker after the server's quit when no worker takes it, no queue
\* of one that did changes, and message_pass stays where it was or returns.
LEMMA NoJobSame ==
  ASSUME NoJobAfterQuit,
         \A v \in Workers : TookQuit(v)' => TookQuit(v) /\ queue'[v] = queue[v],
         rpc' # "idle" => rpc # "idle" /\ target' = target
  PROVE  NoJobAfterQuit'
<1>1. \A v \in Workers : TookQuit(v) => queue[v] = << >> /\ ~(rpc # "idle" /\ target = v)
  BY Zenon DEF NoJobAfterQuit, TookQuit
<1>2. \A v \in Workers : TookQuit(v)' => queue'[v] = << >> /\ ~(rpc' # "idle" /\ target' = v)
  BY <1>1, Zenon
<1> QED BY <1>2, Zenon DEF NoJobAfterQuit, TookQuit

-----------------------------------------------------------------------------
(* The steps of a worker. *)

Quiet(w) == Start(w) \/ Lock(w) \/ FindEmpty(w) \/ Wait(w) \/ Take(w) \/ Destroy(w) \/ Untyped(w)

\* What the quiet steps of a worker have in common.
LEMMA QuietFrame ==
  ASSUME TypeOK, NEW w \in Workers, Quiet(w)
  PROVE  /\ UNCHANGED << queue, client, rpc, new_job, target, exit_count >>
         /\ \A v \in Workers : v # w => wpc'[v] = wpc[v] /\ mutex'[v] = mutex[v] /\ cur_job'[v] = cur_job[v]
         /\ \A v \in Workers : wpc'[v] = "relock" <=> wpc[v] = "relock"
         /\ \A v \in Workers : SameEnd(v)
BY DEF Quiet, Start, Lock, FindEmpty, Wait, Take, Destroy, Untyped, TypeOK, rvars, SameEnd

\* A worker step that neither answers nor pops keeps the invariant.
LEMMA QuietStep ==
  ASSUME QInv, NEW w \in Workers, Quiet(w)
  PROVE  QInv'
<1> USE DEF QInv
<1>0. w \in Nat /\ w < NumThreads /\ NumThreads \in Nat
  BY WorkerNumbers
<1>1. TypeOK'
  <2>1. queue[w] \in Seq(Jobs)
    BY DEF TypeOK
  <2>2. Take(w) => Head(queue[w]) \in Jobs
    BY <2>1, QueueFacts DEF Take
  <2>3. CASE Start(w)
    BY <1>0, <2>3 DEF Start, TypeOK, rvars
  <2>4. CASE Lock(w) \/ FindEmpty(w) \/ Wait(w) \/ Untyped(w)
    BY <2>4, Zenon DEF Lock, FindEmpty, Wait, Untyped, TypeOK, rvars
  <2>5. CASE Take(w)
    BY <2>2, <2>5 DEF Take, TypeOK, rvars
  <2>6. CASE Destroy(w)
    BY <2>6 DEF Destroy, TypeOK, rvars
  <2> QED BY <2>3, <2>4, <2>5, <2>6 DEF Quiet
<1>2. MutexOwners'
  BY <1>0, WorkerNumbers DEF Quiet, Start, Lock, FindEmpty, Wait, Take, Destroy, Untyped, TypeOK, MutexOwners, rvars, Holding
<1>3. Started'
  BY <1>0 DEF Quiet, Start, Lock, FindEmpty, Wait, Take, Destroy, Untyped, Started, rvars, TypeOK
<1>4. QueueViews'
  BY DEF Quiet, Start, Lock, FindEmpty, Wait, Take, Destroy, Untyped, QueueViews, rvars, TypeOK
<1>s. \A v \in Workers : TookQuit(v)' <=> TookQuit(v)
  BY QuietFrame, SameEnds, Zenon
<1>5. QuitOrder' /\ NoJobAfterQuit'
  BY <1>s, QuietFrame, QuitOrderSame, NoJobSame
<1>6. ExitsCounted'
  BY QuietFrame DEF ExitsCounted
<1>7. Tracked'
  <2>1. \A c \in Clients : Passing(c)' <=> Passing(c)
    BY QuietFrame DEF Passing
  <2> QED BY <2>1, QuietFrame, TrackedSame, TrackedIs
<1> QED BY <1>1, <1>2, <1>3, <1>4, <1>5, <1>6, <1>7, TrackedNext

\* The count of EXITs stays right when no client goes.
LEMMA GoneSame ==
  ASSUME ExitsCounted, exit_count' = exit_count,
         \A c \in Clients : client'[c] = "gone" <=> client[c] = "gone"
  PROVE  ExitsCounted'
BY Zenon DEF ExitsCounted

\* The job that worker w has read is the first of its queue, and an unanswered one.
LEMMA ServedJob ==
  ASSUME QInv, NEW w \in Workers, wpc[w] = "dispatch", cur_job[w].kind = "typed"
  PROVE  /\ 1 \in DOMAIN queue[w] /\ queue[w][1] = cur_job[w] /\ queue[w] \in Seq(Jobs)
         /\ cur_job[w] \in Jobs /\ cur_job[w].client \in Clients
         /\ JobAt(w, 1, cur_job[w].client)
         /\ client[cur_job[w].client] = "waiting"
<1>1. queue[w] \in Seq(Jobs) /\ queue[w] # << >> /\ Head(queue[w]) = cur_job[w]
  BY DEF QInv, TypeOK, QueueViews
<1>2. 1 \in DOMAIN queue[w] /\ queue[w][1] = cur_job[w] /\ cur_job[w] \in Jobs
  BY <1>1, QueueFacts
<1>q. QuitJob.kind = "quit"
  BY DEF QuitJob
<1>3. cur_job[w].client \in Clients /\ cur_job[w] # QuitJob
  BY <1>2, <1>q, JobFields
<1>4. JobAt(w, 1, cur_job[w].client)
  BY <1>2, <1>3 DEF JobAt, Unanswered
<1>5. client[cur_job[w].client] = "waiting"
  BY <1>2, <1>3, <1>4, TrackedIs, Zenon DEF QInv, Tracked
<1> QED BY <1>1, <1>2, <1>3, <1>4, <1>5

\* Answering a request (the operation and message_return) keeps the invariant.
LEMMA ServeStep ==
  ASSUME QInv, NEW w \in Workers, Serve(w)
  PROVE  QInv'
<1> DEFINE d == cur_job[w].client
<1>0. /\ wpc[w] = "dispatch" /\ cur_job[w].kind = "typed"
      /\ wpc' = [wpc EXCEPT ![w] = "relock"]
      /\ client' = [client EXCEPT ![d] = "ready"]
      /\ UNCHANGED << num, queue, mutex, cur_job, rpc, new_job, target, exit_count >>
  BY DEF Serve, message_return, rvars
<1>1. /\ 1 \in DOMAIN queue[w] /\ queue[w][1] = cur_job[w] /\ queue[w] \in Seq(Jobs)
      /\ cur_job[w] \in Jobs /\ d \in Clients
      /\ JobAt(w, 1, d)
      /\ client[d] = "waiting"
  BY <1>0, ServedJob, Zenon
<1>2. \A v \in Workers : wpc'[v] = IF v = w THEN "relock" ELSE wpc[v]
  BY <1>0 DEF QInv, TypeOK
<1>3. \A c \in Clients : client'[c] = IF c = d THEN "ready" ELSE client[c]
  BY <1>0 DEF QInv, TypeOK
<1>4. TypeOK'
  BY <1>0, <1>1 DEF QInv, TypeOK
<1>5. MutexOwners' /\ Started'
  BY <1>0, <1>2 DEF QInv, MutexOwners, Started
<1>6. QueueViews'
  BY <1>0, <1>2 DEF QInv, QueueViews
<1>e. \A v \in Workers : SameEnd(v)
  BY <1>0, <1>2 DEF SameEnd
<1>n. NoJobAfterQuit'
  BY <1>0, <1>e, SameEnds, NoJobSame, Zenon DEF QInv
<1>7. QuitOrder'
  <2>1. \A v \in Workers : (HasQuit(v)' <=> HasQuit(v)) /\ (NotYetQuit(v)' <=> NotYetQuit(v))
    BY <1>0, Zenon DEF HasQuit, NotYetQuit
  <2>2. \A v \in Workers : TookQuit(v)' => TookQuit(v)
    BY <1>e, SameEnds, Zenon
  <2>3. ~(\A c \in Clients : client[c] = "gone")
    BY <1>1
  <2>4. rpc # "idle" /\ new_job # QuitJob => client'[new_job.client] # "gone"
    BY <1>3, JobFields DEF QInv, QuitOrder
  <2> QED BY <1>0, <2>1, <2>2, <2>3, <2>4, Zenon DEF QInv, QuitOrder
<1>8. ExitsCounted'
  BY <1>0, <1>1, <1>3, GoneSame DEF QInv
<1>9. Tracked'
  <2>6. Tracked
    BY TrackedIs DEF QInv
  <2>1. \A v \in Workers : \A i \in DOMAIN queue[v] : \A c \in Clients :
          JobAt(v, i, c)' <=> JobAt(v, i, c) /\ ~(v = w /\ i = 1)
    BY <1>0, <1>2 DEF JobAt, Unanswered
  <2>2. \A v \in Workers : \A i \in DOMAIN queue[v] :
          JobAt(v, i, d) => v = w /\ i = 1
    BY <1>1, <2>6, OnlyJob, Zenon
  <2>3. \A c \in Clients : JobAt(w, 1, c) => c = d
    BY <1>1 DEF JobAt
  <2>4. \A c \in Clients : Passing(c)' <=> Passing(c)
    BY <1>0 DEF Passing
  <2>5. ~Passing(d)
    BY <1>1, <2>6, Zenon DEF Tracked
  <2>7. \A v \in Workers : \A c : EndedBy(v, c)' <=> EndedBy(v, c)
    BY <1>e, SameEnds, Zenon
  <2>8. \A v \in Workers : ~EndedBy(v, d)
    BY <1>1, <2>6, Zenon DEF Tracked
  <2> QED BY <1>0, <1>1, <1>3, <2>1, <2>2, <2>3, <2>4, <2>5, <2>6, <2>7, <2>8 DEF Tracked
<1> QED BY <1>4, <1>5, <1>6, <1>7, <1>n, <1>8, <1>9, TrackedNext DEF QInv

\* What happens to the queue of w, and to the other workers, when w pops a job.
Popped(w, next) ==
  /\ queue' = [queue EXCEPT ![w] = Tail(@)]
  /\ \A v \in Workers : v # w => cur_job'[v] = cur_job[v]
  /\ wpc' = [wpc EXCEPT ![w] = next]
  /\ UNCHANGED << num, client, rpc, new_job, target, exit_count >>

\* After a pop the worker's queue is the rest of it, and the others are as before.
LEMMA PoppedQueues ==
  ASSUME QInv, NEW w \in Workers, NEW next, Popped(w, next), queue[w] # << >>
  PROVE  /\ queue' \in [Workers -> Seq(Jobs)]
         /\ queue'[w] = Tail(queue[w])
         /\ \A v \in Workers : v # w => queue'[v] = queue[v] /\ wpc'[v] = wpc[v] /\ cur_job'[v] = cur_job[v]
         /\ wpc'[w] = next
         /\ \A i \in DOMAIN queue'[w] :
              i \in Nat /\ i >= 1 /\ i + 1 \in DOMAIN queue[w] /\ queue'[w][i] = queue[w][i + 1]
         /\ \A i \in DOMAIN queue[w] : i # 1 =>
              i - 1 \in DOMAIN queue'[w] /\ queue'[w][i - 1] = queue[w][i]
         /\ Len(queue'[w]) = Len(queue[w]) - 1 /\ Len(queue[w]) \in Nat
         /\ DOMAIN queue[w] = 1 .. Len(queue[w])
         /\ \A v \in Workers : HasQuit(v)' => HasQuit(v)
<1>1. queue[w] \in Seq(Jobs) /\ queue \in [Workers -> Seq(Jobs)]
  BY DEF QInv, TypeOK
<1>2. queue'[w] = Tail(queue[w]) /\ \A v \in Workers : v # w => queue'[v] = queue[v] /\ wpc'[v] = wpc[v] /\ cur_job'[v] = cur_job[v]
  BY <1>1 DEF Popped, QInv, TypeOK
<1>3. wpc'[w] = next
  BY DEF Popped, QInv, TypeOK
<1>4. queue' \in [Workers -> Seq(Jobs)]
  <2>1. Tail(queue[w]) \in Seq(Jobs)
    BY <1>1, TailFacts
  <2> QED BY <1>1, <2>1 DEF Popped
<1>5. /\ \A i \in DOMAIN queue'[w] :
           i \in Nat /\ i >= 1 /\ i + 1 \in DOMAIN queue[w] /\ queue'[w][i] = queue[w][i + 1]
      /\ \A i \in DOMAIN queue[w] : i # 1 =>
           i - 1 \in DOMAIN queue'[w] /\ queue'[w][i - 1] = queue[w][i]
      /\ Len(queue'[w]) = Len(queue[w]) - 1
  BY <1>1, <1>2, TailFacts
<1>6. ASSUME NEW v \in Workers, HasQuit(v)' PROVE HasQuit(v)
  <2>1. CASE v # w
    BY <1>2, <1>6, <2>1 DEF HasQuit
  <2>2. CASE v = w
    <3>1. PICK i \in DOMAIN queue'[w] : queue'[w][i] = QuitJob
      BY <1>6, <2>2 DEF HasQuit
    <3>2. i + 1 \in DOMAIN queue[w] /\ queue[w][i + 1] = QuitJob
      BY <1>5, <3>1
    <3> QED BY <2>2, <3>2 DEF HasQuit
  <2> QED BY <2>1, <2>2
<1>7. Len(queue[w]) \in Nat /\ DOMAIN queue[w] = 1 .. Len(queue[w])
  BY <1>1
<1> QED BY <1>2, <1>3, <1>4, <1>5, <1>6, <1>7

\* Only the quit of a client may leave the queue unanswered, and then it is known as the
\* job that ended the worker.
PassesOn(w) ==
  \A v \in Workers, c \in Clients :
    EndedBy(v, c)' <=> EndedBy(v, c) \/ (v = w /\ JobAt(w, 1, c))

\* Such a pop loses no unanswered job.
LEMMA PoppedTracked ==
  ASSUME QInv, NEW w \in Workers, NEW next, Popped(w, next), queue[w] # << >>,
         next # "relock", PassesOn(w)
  PROVE  Tracked'
<1>1. Tracked
  BY TrackedIs, Zenon DEF QInv
<1>2. \A v \in Workers : v # w =>
        queue'[v] = queue[v] /\ \A i \in DOMAIN queue[v] : \A c \in Clients : JobAt(v, i, c)' <=> JobAt(v, i, c)
  BY PoppedQueues DEF JobAt, Unanswered
<1>3. ASSUME NEW i \in DOMAIN queue'[w], NEW c \in Clients
      PROVE  i \in Nat /\ i >= 1 /\ i + 1 \in DOMAIN queue[w] /\ (JobAt(w, i, c)' <=> JobAt(w, i + 1, c))
  <2>1. i \in Nat /\ i >= 1 /\ i + 1 \in DOMAIN queue[w] /\ queue'[w][i] = queue[w][i + 1] /\ wpc'[w] = next
    BY PoppedQueues
  <2>2. i + 1 # 1
    BY <2>1
  <2> QED BY <2>1, <2>2 DEF JobAt, Unanswered
<1>4. ASSUME NEW i \in DOMAIN queue[w], NEW c \in Clients, JobAt(w, i, c), i # 1
      PROVE  i - 1 \in DOMAIN queue'[w] /\ JobAt(w, i - 1, c)'
  <2>2. i - 1 \in DOMAIN queue'[w] /\ i \in Nat
    BY <1>4, PoppedQueues
  <2>3. (i - 1) + 1 = i
    BY <2>2
  <2> QED BY <1>3, <1>4, <2>2, <2>3
<1>5. \A c \in Clients : (Passing(c)' <=> Passing(c)) /\ client'[c] = client[c]
  BY DEF Popped, Passing
<1>6. ASSUME NEW c \in Clients, NEW v \in Workers, NEW i \in DOMAIN queue'[v], JobAt(v, i, c)'
      PROVE  \E k \in DOMAIN queue[v] : JobAt(v, k, c) /\ (v = w => k = i + 1 /\ i \in Nat /\ i >= 1) /\ (v # w => k = i)
  BY <1>2, <1>3, <1>6
<1>7. ASSUME NEW c \in Clients, NEW v \in Workers, NEW i \in DOMAIN queue[v], JobAt(v, i, c)
      PROVE  (\E k \in DOMAIN queue'[v] : JobAt(v, k, c)') \/ EndedBy(v, c)'
  BY <1>2, <1>4, <1>7 DEF PassesOn
<1>8. ASSUME NEW c \in Clients, NEW u \in Workers, NEW v \in Workers,
             NEW i \in DOMAIN queue'[u], NEW k \in DOMAIN queue'[v],
             JobAt(u, i, c)', JobAt(v, k, c)'
      PROVE  u = v /\ i = k
  <2>1. PICK i2 \in DOMAIN queue[u] : JobAt(u, i2, c) /\ (u = w => i2 = i + 1 /\ i \in Nat /\ i >= 1) /\ (u # w => i2 = i)
    BY <1>6, <1>8, Zenon
  <2>2. PICK k2 \in DOMAIN queue[v] : JobAt(v, k2, c) /\ (v = w => k2 = k + 1 /\ k \in Nat /\ k >= 1) /\ (v # w => k2 = k)
    BY <1>6, <1>8, Zenon
  <2>3. u = v /\ i2 = k2
    BY <1>1, <2>1, <2>2, OnlyJob, Zenon
  <2> QED BY <2>1, <2>2, <2>3
<1>9. \A c \in Clients, v \in Workers : \A i \in DOMAIN queue'[v] :
        JobAt(v, i, c)' => client'[c] = "waiting" /\ ~Passing(c)'
  BY <1>1, <1>5, <1>6, Zenon DEF Tracked
<1>10. ASSUME NEW c \in Clients, client'[c] = "waiting"
       PROVE  \/ Passing(c)'
              \/ \E v \in Workers : \E i \in DOMAIN queue'[v] : JobAt(v, i, c)'
              \/ \E v \in Workers : EndedBy(v, c)'
  <2>1. \/ Passing(c)
        \/ \E v \in Workers : \E i \in DOMAIN queue[v] : JobAt(v, i, c)
        \/ \E v \in Workers : EndedBy(v, c)
    BY <1>1, <1>5, <1>10, Zenon DEF Tracked
  <2>2. \A v \in Workers : EndedBy(v, c) => EndedBy(v, c)'
    BY Zenon DEF PassesOn
  <2> QED BY <1>5, <1>7, <2>1, <2>2, Zenon
<1>11. \A c \in Clients : Passing(c)' => client'[c] = "waiting"
  BY <1>1, <1>5, Zenon DEF Tracked
<1>12. ASSUME NEW c \in Clients, NEW u \in Workers, EndedBy(u, c)'
       PROVE  /\ client'[c] = "waiting" /\ ~Passing(c)'
              /\ \A v \in Workers : \A i \in DOMAIN queue'[v] : ~JobAt(v, i, c)'
              /\ \A v \in Workers : EndedBy(v, c)' => v = u
  <2>0. 1 \in DOMAIN queue[w]
    BY QueueFacts DEF QInv, TypeOK
  <2>1. CASE EndedBy(u, c)
    <3>1. client[c] = "waiting" /\ ~Passing(c)
      BY <1>1, <2>1, Zenon DEF Tracked
    <3>2. \A v \in Workers : \A i \in DOMAIN queue[v] : ~JobAt(v, i, c)
      BY <1>1, <2>1, Zenon DEF Tracked
    <3>3. \A v \in Workers : EndedBy(v, c) => v = u
      BY <1>1, <2>1, Zenon DEF Tracked
    <3>4. \A v \in Workers : EndedBy(v, c)' => v = u
      BY <2>0, <3>2, <3>3, Zenon DEF PassesOn
    <3>5. \A v \in Workers : \A i \in DOMAIN queue'[v] : ~JobAt(v, i, c)'
      BY <1>6, <3>2, Zenon
    <3> QED BY <1>5, <3>1, <3>4, <3>5, Zenon
  <2>2. CASE u = w /\ JobAt(w, 1, c)
    <3>1. client[c] = "waiting" /\ ~Passing(c)
      BY <1>1, <2>0, <2>2, Zenon DEF Tracked
    <3>2. ASSUME NEW v \in Workers, NEW i \in DOMAIN queue'[v], JobAt(v, i, c)' PROVE FALSE
      <4>1. PICK k \in DOMAIN queue[v] : JobAt(v, k, c) /\ (v = w => k = i + 1 /\ i \in Nat /\ i >= 1) /\ (v # w => k = i)
        BY <1>6, <3>2, Zenon
      <4>2. v = w /\ k = 1
        BY <1>1, <2>0, <2>2, <4>1, OnlyJob, Zenon
      <4> QED BY <4>1, <4>2
    <3>3. \A v \in Workers : ~EndedBy(v, c)
      BY <1>1, <2>0, <2>2, Zenon DEF Tracked
    <3>4. \A v \in Workers : EndedBy(v, c)' => v = u
      BY <2>2, <3>3, Zenon DEF PassesOn
    <3> QED BY <1>5, <3>1, <3>2, <3>4, Zenon
  <2> QED BY <1>12, <2>1, <2>2, Zenon DEF PassesOn
<1> QED BY <1>8, <1>9, <1>10, <1>11, <1>12, Zenon DEF Tracked

\* Popping the job just answered keeps the invariant.
LEMMA PopStep ==
  ASSUME QInv, NEW w \in Workers, Pop(w)
  PROVE  QInv'
<1>0. /\ wpc[w] = "relock" /\ mutex[w] = "free" /\ mutex' = [mutex EXCEPT ![w] = "worker"]
      /\ cur_job' = [cur_job EXCEPT ![w] = NoJob]
      /\ Popped(w, "loop")
  BY DEF Pop, Popped, rvars, QInv, TypeOK
<1>1. /\ queue[w] # << >> /\ Head(queue[w]) = cur_job[w] /\ cur_job[w].kind = "typed"
  BY <1>0 DEF QInv, QueueViews
<1>2. /\ queue' \in [Workers -> Seq(Jobs)]
      /\ \A v \in Workers : v # w => queue'[v] = queue[v] /\ wpc'[v] = wpc[v] /\ cur_job'[v] = cur_job[v]
      /\ wpc'[w] = "loop"
      /\ \A i \in DOMAIN queue'[w] :
           i \in Nat /\ i >= 1 /\ i + 1 \in DOMAIN queue[w] /\ queue'[w][i] = queue[w][i + 1]
      /\ Len(queue'[w]) = Len(queue[w]) - 1 /\ Len(queue[w]) \in Nat
      /\ \A v \in Workers : HasQuit(v)' => HasQuit(v)
  BY <1>0, <1>1, PoppedQueues
<1>3. TypeOK'
  BY <1>0, <1>2 DEF QInv, TypeOK, Popped
<1>4. MutexOwners' /\ Started'
  BY <1>0, <1>2 DEF QInv, TypeOK, MutexOwners, Started, Popped, Holding
<1>5. QueueViews'
  BY <1>0, <1>2 DEF QInv, QueueViews, Popped
<1>e. \A v \in Workers : SameEnd(v)
  BY <1>0, <1>2 DEF SameEnd
<1>s. \A v \in Workers : TookQuit(v)' <=> TookQuit(v)
  BY <1>e, SameEnds, Zenon
<1>n. NoJobAfterQuit'
  <2>1. ~TookQuit(w)
    BY <1>0 DEF TookQuit
  <2>2. \A v \in Workers : TookQuit(v)' => TookQuit(v) /\ queue'[v] = queue[v]
    BY <1>2, <1>s, <2>1, Zenon
  <2>3. NoJobAfterQuit /\ rpc' = rpc /\ target' = target
    BY <1>0 DEF QInv, Popped
  <2> QED BY <2>2, <2>3, NoJobSame, Zenon
<1>6. QuitOrder'
  <2>0. \A v \in Workers : \A n \in DOMAIN queue[v] : queue[v][n] = QuitJob => n = Len(queue[v])
    BY Zenon DEF QInv, QuitOrder
  <2>1. ASSUME NEW i \in DOMAIN queue'[w], queue'[w][i] = QuitJob PROVE i = Len(queue'[w])
    <3>1. i + 1 = Len(queue[w])
      BY <1>2, <2>0, <2>1, Zenon
    <3> QED BY <1>2, <3>1
  <2>2. \A v \in Workers : NotYetQuit(v)' <=> NotYetQuit(v)
    BY <1>0 DEF Popped, NotYetQuit
  <2>4. UNCHANGED << client, rpc, new_job, target >>
    BY <1>0 DEF Popped
  <2>5. \A v \in Workers : \A i \in DOMAIN queue'[v] : queue'[v][i] = QuitJob => i = Len(queue'[v])
    BY <1>2, <2>0, <2>1, Zenon
  <2> QED BY <1>2, <1>s, <2>2, <2>4, <2>5, Zenon DEF QInv, QuitOrder
<1>7. ExitsCounted'
  BY <1>0, GoneSame DEF QInv, Popped
<1>8. Tracked'
  <2>1. \A c : ~JobAt(w, 1, c)
    BY <1>0 DEF JobAt, Unanswered
  <2>2. PassesOn(w)
    BY <1>e, <2>1, SameEnds, Zenon DEF PassesOn
  <2> QED BY <1>0, <1>1, <2>2, PoppedTracked
<1> QED BY <1>3, <1>4, <1>5, <1>6, <1>n, <1>7, <1>8, TrackedNext DEF QInv

\* Leaving the loop on quit, the server's or a client's, keeps the invariant.
LEMMA QuitStep ==
  ASSUME QInv, NEW w \in Workers, Quit(w)
  PROVE  QInv'
<1>0. /\ wpc[w] = "dispatch" /\ cur_job[w].kind = "quit"
      /\ mutex[w] = "free" /\ mutex' = mutex /\ cur_job' = cur_job
      /\ Popped(w, "quit")
  BY DEF Quit, Popped, rvars
<1>1. /\ queue[w] # << >> /\ Head(queue[w]) = cur_job[w] /\ queue[w] \in Seq(Jobs)
  BY <1>0 DEF QInv, QueueViews, TypeOK
<1>2. /\ queue' \in [Workers -> Seq(Jobs)]
      /\ queue'[w] = Tail(queue[w])
      /\ \A v \in Workers : v # w => queue'[v] = queue[v] /\ wpc'[v] = wpc[v] /\ cur_job'[v] = cur_job[v]
      /\ wpc'[w] = "quit"
      /\ \A i \in DOMAIN queue'[w] :
           i \in Nat /\ i >= 1 /\ i + 1 \in DOMAIN queue[w] /\ queue'[w][i] = queue[w][i + 1]
      /\ Len(queue'[w]) = Len(queue[w]) - 1 /\ Len(queue[w]) \in Nat
      /\ \A v \in Workers : HasQuit(v)' => HasQuit(v)
  BY <1>0, <1>1, PoppedQueues
<1>3. 1 \in DOMAIN queue[w] /\ queue[w][1] = cur_job[w]
  BY <1>1, QueueFacts
<1>u. UNCHANGED << client, rpc, new_job, target >>
  BY <1>0 DEF Popped
<1>4. ASSUME cur_job[w] = QuitJob
      PROVE  /\ HasQuit(w) /\ queue'[w] = << >>
             /\ ~(rpc # "idle" /\ target = w)
  <2>1. HasQuit(w)
    BY <1>3, <1>4, Zenon DEF HasQuit
  <2>2. 1 = Len(queue[w])
    BY <1>3, <1>4, Zenon DEF QInv, QuitOrder
  <2>3. queue'[w] = << >>
    BY <1>1, <1>2, <2>2
  <2>4. \A c \in Clients : client[c] = "gone"
    BY <2>1, Zenon DEF QInv, QuitOrder
  <2>5. ASSUME rpc # "idle", target = w PROVE FALSE
    <3>1. new_job = QuitJob
      BY <2>4, <2>5, JobFields, Zenon DEF QInv, QuitOrder
    <3>2. ~NotYetQuit(w)
      BY <2>1, <2>5, <3>1, Zenon DEF QInv, QuitOrder
    <3>3. w >= w
      BY WorkerNumbers
    <3>4. rpc \in Holding
      BY <2>5, <3>2, <3>3 DEF NotYetQuit, QInv, TypeOK, Holding
    <3> QED BY <1>0, <2>5, <3>4 DEF QInv, MutexOwners
  <2> QED BY <2>1, <2>3, <2>5
<1>5. \A v \in Workers : TookQuit(v)' => TookQuit(v) \/ (v = w /\ cur_job[w] = QuitJob)
  BY <1>0, <1>2 DEF TookQuit
<1>6. NoJobAfterQuit'
  <2>1. ASSUME NEW v \in Workers, TookQuit(v)'
        PROVE  queue'[v] = << >> /\ ~(rpc' # "idle" /\ target' = v)
    <3>1. CASE v = w
      <4>1. ~TookQuit(w)
        BY <1>0 DEF TookQuit
      <4> QED BY <1>4, <1>5, <1>u, <2>1, <3>1, <4>1
    <3>2. CASE v # w
      <4>1. TookQuit(v)
        BY <1>5, <2>1, <3>2, Zenon
      <4>2. queue[v] = << >> /\ ~(rpc # "idle" /\ target = v)
        BY <4>1, Zenon DEF QInv, NoJobAfterQuit, TookQuit
      <4> QED BY <1>2, <1>u, <3>2, <4>2
    <3> QED BY <3>1, <3>2
  <2> QED BY <2>1, Zenon DEF NoJobAfterQuit, TookQuit
<1>7. TypeOK'
  BY <1>0, <1>2 DEF QInv, TypeOK, Popped
<1>8. MutexOwners' /\ Started'
  BY <1>0, <1>2 DEF QInv, TypeOK, MutexOwners, Started, Popped, Holding
<1>9. QueueViews'
  BY <1>0, <1>2 DEF QInv, QueueViews, Popped
<1>10. QuitOrder'
  <2>0. \A v \in Workers : \A n \in DOMAIN queue[v] : queue[v][n] = QuitJob => n = Len(queue[v])
    BY Zenon DEF QInv, QuitOrder
  <2>1. ASSUME NEW i \in DOMAIN queue'[w], queue'[w][i] = QuitJob PROVE i = Len(queue'[w])
    <3>1. i + 1 = Len(queue[w])
      BY <1>2, <2>0, <2>1, Zenon
    <3> QED BY <1>2, <3>1
  <2>2. \A v \in Workers : NotYetQuit(v)' <=> NotYetQuit(v)
    BY <1>u DEF NotYetQuit
  <2>3. \A v \in Workers : \A i \in DOMAIN queue'[v] : queue'[v][i] = QuitJob => i = Len(queue'[v])
    BY <1>2, <2>0, <2>1, Zenon
  <2>4. \A v \in Workers : TookQuit(v)' => TookQuit(v) \/ HasQuit(v)
    BY <1>4, <1>5, Zenon
  <2> QED BY <1>2, <1>u, <2>2, <2>3, <2>4, Zenon DEF QInv, QuitOrder
<1>11. ExitsCounted'
  BY <1>0, GoneSame DEF QInv, Popped
<1>12. Tracked'
  <2>1. \A c : /\ ~EndedBy(w, c)
               /\ EndedBy(w, c)' <=> (cur_job[w] # QuitJob /\ cur_job[w].client = c)
               /\ JobAt(w, 1, c) <=> (cur_job[w] # QuitJob /\ cur_job[w].client = c)
    BY <1>0, <1>2, <1>3 DEF EndedBy, JobAt, Unanswered
  <2>2. \A v \in Workers : v # w => \A c : EndedBy(v, c)' <=> EndedBy(v, c)
    BY <1>2, Zenon DEF EndedBy
  <2>3. PassesOn(w)
    BY <2>1, <2>2, Zenon DEF PassesOn
  <2> QED BY <1>0, <1>1, <2>3, PoppedTracked
<1> QED BY <1>6, <1>7, <1>8, <1>9, <1>10, <1>11, <1>12, TrackedNext DEF QInv

-----------------------------------------------------------------------------
(* The steps of the responder. *)

\* The clients that have gone, and that they are all when the count says so.
LEMMA OneMoreGone ==
  ASSUME ExitsCounted, client \in [Clients -> {"ready", "waiting", "gone"}],
         NEW c \in Clients, client[c] # "gone",
         client' = [client EXCEPT ![c] = "gone"], exit_count' = exit_count + 1
  PROVE  /\ ExitsCounted'
         /\ exit_count' \in 0 .. Cardinality(Clients)
         /\ exit_count' = Cardinality(Clients) => \A d \in Clients : client'[d] = "gone"
<1> DEFINE G == {d \in Clients : client[d] = "gone"}
<1> DEFINE G2 == {d \in Clients : client'[d] = "gone"}
<1>1. G2 = G \cup {c} /\ c \notin G /\ G \subseteq Clients /\ G2 \subseteq Clients
  OBVIOUS
<1>2. IsFiniteSet(Clients) /\ IsFiniteSet(G)
  BY <1>1, QueuesAssumption, FS_Subset
<1>3. Cardinality(G2) = Cardinality(G) + 1
  BY <1>1, <1>2, FS_AddElement
<1>4. exit_count = Cardinality(G) /\ exit_count' = Cardinality(G2)
  BY <1>3 DEF ExitsCounted
<1>5. /\ Cardinality(Clients) \in Nat /\ Cardinality(G) \in Nat
      /\ Cardinality(G2) <= Cardinality(Clients)
      /\ Cardinality(Clients) = Cardinality(G2) => Clients = G2
  BY <1>1, <1>2, FS_Subset, FS_CardinalityType
<1>6. ExitsCounted'
  BY <1>4 DEF ExitsCounted
<1>7. exit_count' \in 0 .. Cardinality(Clients)
  BY <1>3, <1>4, <1>5
<1>8. exit_count' = Cardinality(Clients) => \A d \in Clients : client'[d] = "gone"
  BY <1>4, <1>5
<1> QED BY <1>6, <1>7, <1>8

\* A client that calls has no job anywhere.
LEMMA CallerHasNoJob ==
  ASSUME QInv, NEW c \in Clients, Called(c), ~Early
  PROVE  /\ rpc = "idle" /\ num = NumThreads /\ client[c] = "ready"
         /\ ~Passing(c)
         /\ \A w \in Workers : \A i \in DOMAIN queue[w] : ~JobAt(w, i, c)
         /\ \A w \in Workers : ~HasQuit(w) /\ ~TookQuit(w)
<1>1. rpc = "idle" /\ num = NumThreads /\ client[c] = "ready"
  BY DEF Called
<1>2. ~Passing(c)
  BY <1>1 DEF Passing
<1>3. \A w \in Workers : \A i \in DOMAIN queue[w] : ~JobAt(w, i, c)
  BY <1>1, TrackedIs DEF QInv, Tracked
<1>4. \A w \in Workers : ~HasQuit(w) /\ ~TookQuit(w)
  BY <1>1 DEF QInv, QuitOrder
<1> QED BY <1>1, <1>2, <1>3, <1>4

\* EXIT in message_pass keeps the invariant.
LEMMA PassExitStep ==
  ASSUME QInv, NEW c \in Clients, PassExit(c, Cardinality(Clients)), ~Early
  PROVE  QInv'
<1>0. /\ Called(c)
      /\ client' = [client EXCEPT ![c] = "gone"]
      /\ exit_count' = exit_count + 1
      /\ UNCHANGED << num, wpc, cur_job, queue, mutex >>
      /\ \/ /\ exit_count' = Cardinality(Clients)
            /\ rpc' = "lock" /\ new_job' = QuitJob /\ target' = 0
         \/ UNCHANGED << rpc, new_job, target >>
  BY DEF PassExit, message_return, AllExited, wvars
<1>1. /\ rpc = "idle" /\ num = NumThreads /\ client[c] = "ready"
      /\ ~Passing(c)
      /\ \A w \in Workers : \A i \in DOMAIN queue[w] : ~JobAt(w, i, c)
      /\ \A w \in Workers : ~HasQuit(w) /\ ~TookQuit(w)
  BY <1>0, CallerHasNoJob
<1>2. /\ ExitsCounted'
      /\ exit_count' \in 0 .. Cardinality(Clients)
      /\ exit_count' = Cardinality(Clients) => \A d \in Clients : client'[d] = "gone"
  BY <1>0, <1>1, OneMoreGone, Zenon DEF QInv, TypeOK
<1>3. 0 \in Workers
  BY QueuesAssumption DEF Workers
<1>4. QuitJob \in Jobs
  BY DEF Jobs
<1>e. \A v \in Workers : TookQuit(v)' <=> TookQuit(v)
  BY <1>0 DEF TookQuit
<1>n. NoJobAfterQuit'
  <2>1. \A v \in Workers : ~TookQuit(v)'
    BY <1>1, <1>e, Zenon
  <2> QED BY <2>1, Zenon DEF NoJobAfterQuit, TookQuit
<1>5. TypeOK'
  BY <1>0, <1>2, <1>3, <1>4 DEF QInv, TypeOK
<1>6. MutexOwners' /\ Started'
  BY <1>0, <1>1 DEF QInv, MutexOwners, Started, Holding
<1>7. QueueViews'
  BY <1>0, <1>1 DEF QInv, QueueViews
<1>8. QuitOrder'
  <2>1. \A w \in Workers : HasQuit(w)' <=> HasQuit(w)
    BY <1>0 DEF HasQuit
  <2>2. CASE exit_count' = Cardinality(Clients) /\ rpc' = "lock" /\ new_job' = QuitJob /\ target' = 0
    BY <1>0, <1>1, <1>2, <1>4, <1>e, <2>1, <2>2 DEF QInv, QuitOrder
  <2>3. CASE UNCHANGED << rpc, new_job, target >>
    BY <1>0, <1>1, <1>e, <2>1, <2>3 DEF QInv, QuitOrder
  <2> QED BY <1>0, <2>2, <2>3
<1>9. Tracked'
  <2>1. \A d \in Clients : client'[d] = IF d = c THEN "gone" ELSE client[d]
    BY <1>0 DEF QInv, TypeOK
  <2>2. \A d \in Clients : ~Passing(d) /\ ~Passing(d)'
    BY <1>0, <1>1, <1>4 DEF Passing
  <2>3. \A v \in Workers : \A i \in DOMAIN queue[v] : \A d \in Clients : JobAt(v, i, d)' <=> JobAt(v, i, d)
    BY <1>0 DEF JobAt, Unanswered
  <2>4. Tracked
    BY TrackedIs DEF QInv
  <2>5. client[c] # "waiting"
    BY <1>1
  <2>6. queue' = queue /\ wpc' = wpc /\ cur_job' = cur_job
    BY <1>0
  <2> QED BY <2>1, <2>2, <2>3, <2>4, <2>5, <2>6, TrackedCall, Zenon
<1> QED BY <1>2, <1>5, <1>6, <1>7, <1>8, <1>n, <1>9, TrackedNext DEF QInv

\* The reply to LOADDONE finds the client ready and leaves it so.
LEMMA PassLoadDoneStep ==
  ASSUME QInv, NEW c \in Clients, PassLoadDone(c)
  PROVE  QInv'
<1>1. UNCHANGED vars
  BY DEF PassLoadDone, Called, message_return, wvars, rvars, vars, QInv, TypeOK
<1>2. TypeOK' /\ MutexOwners' /\ Started' /\ QueueViews'
  BY <1>1 DEF vars, QInv, TypeOK, MutexOwners, Started, QueueViews
<1>e. \A v \in Workers : SameEnd(v) /\ (TookQuit(v)' <=> TookQuit(v))
  BY <1>1 DEF vars, SameEnd, TookQuit
<1>3. QuitOrder' /\ NoJobAfterQuit'
  BY <1>1, <1>e, QuitOrderSame, NoJobSame DEF vars, QInv
<1>4. ExitsCounted'
  BY <1>1 DEF vars, QInv, ExitsCounted
<1>5. Tracked'
  <2>1. \A d \in Clients : Passing(d)' <=> Passing(d)
    BY <1>1 DEF vars, Passing
  <2> QED BY <1>1, <1>e, <2>1, TrackedSame, TrackedIs DEF vars, QInv
<1> QED BY <1>2, <1>3, <1>4, <1>5, TrackedNext DEF QInv

\* Turning a request into a job keeps the invariant.
LEMMA PassRequestStep ==
  ASSUME QInv, NEW c \in Clients, ~Early,
         NEW k \in Kinds, NEW w \in Workers,
         PassRequest(c, [kind |-> k, client |-> c, worker |-> w])
  PROVE  QInv'
<1> DEFINE j == [kind |-> k, client |-> c, worker |-> w]
<1>0. /\ Called(c)
      /\ client' = [client EXCEPT ![c] = "waiting"]
      /\ new_job' = j /\ target' = w /\ rpc' = "lock"
      /\ UNCHANGED << num, wpc, cur_job, queue, mutex, exit_count >>
  BY DEF PassRequest, wvars
<1>e. \A v \in Workers : TookQuit(v)' <=> TookQuit(v)
  BY <1>0 DEF TookQuit
<1>1. /\ rpc = "idle" /\ num = NumThreads /\ client[c] = "ready"
      /\ ~Passing(c)
      /\ \A v \in Workers : \A i \in DOMAIN queue[v] : ~JobAt(v, i, c)
      /\ \A v \in Workers : ~HasQuit(v) /\ ~TookQuit(v)
  BY <1>0, CallerHasNoJob
<1>2. j \in Jobs /\ j # QuitJob /\ j.client = c
  BY RequestJob
<1> HIDE DEF j
<1>n. NoJobAfterQuit'
  <2>1. \A v \in Workers : ~TookQuit(v)'
    BY <1>1, <1>e, Zenon
  <2> QED BY <2>1, Zenon DEF NoJobAfterQuit, TookQuit
<1>3. \A d \in Clients : client'[d] = IF d = c THEN "waiting" ELSE client[d]
  BY <1>0 DEF QInv, TypeOK
<1>4. TypeOK'
  BY <1>0, <1>2 DEF QInv, TypeOK
<1>5. MutexOwners' /\ Started'
  BY <1>0, <1>1 DEF QInv, MutexOwners, Started, Holding
<1>6. QueueViews'
  BY <1>0, <1>1 DEF QInv, QueueViews
<1>7. QuitOrder'
  <2>1. \A v \in Workers : HasQuit(v)' <=> HasQuit(v)
    BY <1>0 DEF HasQuit
  <2>2. QuitOrder
    BY Zenon DEF QInv
  <2>3. \A d \in Clients : client'[d] = "gone" <=> client[d] = "gone"
    BY <1>1, <1>3
  <2>4. new_job' = j /\ rpc = "idle" /\ rpc' = "lock" /\ queue' = queue /\ wpc' = wpc
    BY <1>0, <1>1
  <2> QED BY <1>2, <1>3, <1>e, <2>1, <2>2, <2>3, <2>4 DEF QuitOrder
<1>8. ExitsCounted'
  <2>1. ExitsCounted
    BY Zenon DEF QInv
  <2> QED BY <1>0, <1>1, <1>3, <2>1, GoneSame
<1>9. Tracked'
  <2>1. \A d \in Clients : ~Passing(d) /\ (Passing(d)' <=> d = c)
    BY <1>0, <1>1, <1>2 DEF Passing
  <2>2. \A v \in Workers : \A i \in DOMAIN queue[v] : \A d \in Clients : JobAt(v, i, d)' <=> JobAt(v, i, d)
    BY <1>0 DEF JobAt, Unanswered
  <2>3. Tracked
    BY TrackedIs DEF QInv
  <2>4. client[c] # "waiting" /\ queue' = queue /\ wpc' = wpc /\ cur_job' = cur_job
    BY <1>0, <1>1
  <2> QED BY <1>3, <2>1, <2>2, <2>3, <2>4, TrackedCall, Zenon
<1> QED BY <1>4, <1>5, <1>6, <1>7, <1>n, <1>8, <1>9, TrackedNext DEF QInv

\* Taking the mutex, signalling and releasing it: the queues stay as they are.
LEMMA LockQueueStep ==
  ASSUME QInv, LockQueue
  PROVE  QInv'
<1>0. /\ rpc = "lock" /\ rpc' = "push"
      /\ mutex[target] \in {"free", "raw", "destroyed"}
      /\ mutex' = [mutex EXCEPT ![target] = IF @ = "free" THEN "responder" ELSE @]
      /\ UNCHANGED << num, wpc, cur_job, queue, new_job, target, exit_count, client >>
  BY DEF LockQueue, wvars
<1>1. target \in Workers /\ target < NumThreads /\ num = NumThreads /\ target \in Nat /\ NumThreads \in Nat
  BY <1>0, WorkerNumbers DEF QInv, TypeOK, Started
<1>2. mutex[target] \in {"free", "destroyed"}
  <2>1. mutex[target] = "raw" => target >= num
    BY <1>1 DEF QInv, MutexOwners
  <2> QED BY <1>0, <1>1, <2>1
<1>3. TypeOK'
  BY <1>0 DEF QInv, TypeOK
<1>4. MutexOwners' /\ Started'
  BY <1>0, <1>1, <1>2 DEF QInv, TypeOK, MutexOwners, Started, Holding
<1>5. QueueViews'
  BY <1>0 DEF QInv, QueueViews
<1>e. \A v \in Workers : SameEnd(v) /\ (TookQuit(v)' <=> TookQuit(v))
  BY <1>0 DEF SameEnd, TookQuit
<1>n. NoJobAfterQuit'
  BY <1>0, <1>e, NoJobSame DEF QInv
<1>6. QuitOrder'
  <2>1. \A v \in Workers : (HasQuit(v)' <=> HasQuit(v)) /\ (NotYetQuit(v)' <=> NotYetQuit(v))
    BY <1>0 DEF HasQuit, NotYetQuit
  <2> QED BY <1>0, <1>e, <2>1 DEF QInv, QuitOrder
<1>7. ExitsCounted'
  BY <1>0, GoneSame DEF QInv
<1>8. Tracked'
  <2>1. \A d \in Clients : Passing(d)' <=> Passing(d)
    BY <1>0 DEF Passing
  <2> QED BY <1>0, <1>e, <2>1, TrackedSame, TrackedIs DEF QInv
<1> QED BY <1>3, <1>4, <1>5, <1>6, <1>n, <1>7, <1>8, TrackedNext DEF QInv

\* cond_signal keeps the invariant.
LEMMA SignalStep ==
  ASSUME QInv, Signal
  PROVE  QInv'
<1>0. /\ rpc = "signal" /\ rpc' = "unlock"
      /\ wpc' = IF wpc[target] = "wait" THEN [wpc EXCEPT ![target] = "lock"] ELSE wpc
      /\ UNCHANGED << num, mutex, cur_job, queue, new_job, target, exit_count, client >>
  BY DEF Signal
<1>1. target \in Workers
  BY DEF QInv, TypeOK
<1>2. \A v \in Workers : wpc'[v] = IF v = target /\ wpc[v] = "wait" THEN "lock" ELSE wpc[v]
  BY <1>0, <1>1 DEF QInv, TypeOK
<1>3. TypeOK'
  BY <1>0 DEF QInv, TypeOK
<1>4. MutexOwners' /\ Started'
  BY <1>0, <1>2 DEF QInv, MutexOwners, Started, Holding
<1>5. QueueViews'
  BY <1>0, <1>2 DEF QInv, QueueViews
<1>e. \A v \in Workers : SameEnd(v) /\ (TookQuit(v)' <=> TookQuit(v))
  BY <1>0, <1>2 DEF SameEnd, TookQuit
<1>n. NoJobAfterQuit'
  BY <1>0, <1>e, NoJobSame DEF QInv
<1>6. QuitOrder'
  <2>1. \A v \in Workers : (HasQuit(v)' <=> HasQuit(v)) /\ (NotYetQuit(v)' <=> NotYetQuit(v))
    BY <1>0 DEF HasQuit, NotYetQuit
  <2> QED BY <1>0, <1>e, <2>1 DEF QInv, QuitOrder
<1>7. ExitsCounted'
  BY <1>0, GoneSame DEF QInv
<1>8. Tracked'
  <2>1. \A d \in Clients : Passing(d)' <=> Passing(d)
    BY <1>0 DEF Passing
  <2> QED BY <1>0, <1>2, <1>e, <2>1, TrackedSame, TrackedIs DEF QInv
<1> QED BY <1>3, <1>4, <1>5, <1>6, <1>n, <1>7, <1>8, TrackedNext DEF QInv

\* Unlocking the queue, and going on with quit to the next worker, keeps it.
LEMMA UnlockStep ==
  ASSUME QInv, Unlock
  PROVE  QInv'
<1>0. /\ rpc = "unlock"
      /\ mutex' = [mutex EXCEPT ![target] = IF @ = "responder" THEN "free" ELSE @]
      /\ \/ /\ new_job = QuitJob /\ target + 1 < NumThreads
            /\ target' = target + 1 /\ rpc' = "lock" /\ new_job' = new_job
         \/ target' = 0 /\ rpc' = "idle" /\ new_job' = NoJob
      /\ UNCHANGED << num, wpc, cur_job, queue, exit_count, client >>
  BY DEF Unlock, MoreWorkers, wvars
<1>1. target \in Workers /\ target \in Nat /\ NumThreads \in Nat /\ 0 \in Workers
  BY WorkerNumbers, QueuesAssumption DEF QInv, TypeOK, Workers
<1>2. TypeOK'
  <2>1. target' \in Workers
    BY <1>0, <1>1 DEF Workers
  <2> QED BY <1>0, <2>1 DEF QInv, TypeOK
<1>3. MutexOwners' /\ Started'
  <2>1. \A v \in Workers : mutex'[v] = IF v = target /\ mutex[v] = "responder" THEN "free" ELSE mutex[v]
    BY <1>0, <1>1 DEF QInv, TypeOK
  <2>2. mutex[target] \in {"responder", "destroyed"} /\ \A v \in Workers : v # target => mutex[v] # "responder"
    BY <1>0, <1>1 DEF QInv, MutexOwners, Holding
  <2>3. rpc' \notin Holding
    BY <1>0 DEF Holding
  <2> QED BY <1>0, <1>1, <2>1, <2>2, <2>3 DEF QInv, MutexOwners, Started
<1>4. QueueViews'
  BY <1>0 DEF QInv, QueueViews
<1>e. \A v \in Workers : SameEnd(v) /\ (TookQuit(v)' <=> TookQuit(v))
  BY <1>0 DEF SameEnd, TookQuit
<1>n. NoJobAfterQuit'
  <2>0. \A v \in Workers : TookQuit(v) => queue[v] = << >> /\ ~(rpc # "idle" /\ target = v)
    BY Zenon DEF QInv, NoJobAfterQuit, TookQuit
  <2>1. ASSUME NEW v \in Workers, TookQuit(v)'
        PROVE  queue'[v] = << >> /\ ~(rpc' # "idle" /\ target' = v)
    <3>1. TookQuit(v)
      BY <1>e, <2>1, Zenon
    <3>2. ASSUME rpc' # "idle", target' = v PROVE FALSE
      <4>1. new_job = QuitJob /\ v = target + 1
        BY <1>0, <3>2
      <4>2. NotYetQuit(v)
        BY <1>0, <1>1, <4>1 DEF NotYetQuit
      <4> QED BY <1>0, <3>1, <4>1, <4>2 DEF QInv, QuitOrder
    <3>3. queue'[v] = << >>
      BY <1>0, <2>0, <3>1
    <3> QED BY <3>2, <3>3, Zenon
  <2> QED BY <2>1, Zenon DEF NoJobAfterQuit, TookQuit
<1>5. QuitOrder'
  <2>1. \A v \in Workers : HasQuit(v)' <=> HasQuit(v)
    BY <1>0 DEF HasQuit
  <2>2. CASE new_job = QuitJob /\ target' = target + 1 /\ rpc' = "lock" /\ new_job' = new_job
    <3>1. \A v \in Workers : NotYetQuit(v)' => NotYetQuit(v)
      BY <1>0, <1>1, <2>2, WorkerNumbers DEF NotYetQuit
    <3> QED BY <1>0, <1>e, <2>1, <2>2, <3>1 DEF QInv, QuitOrder
  <2>3. CASE target' = 0 /\ rpc' = "idle" /\ new_job' = NoJob
    BY <1>0, <1>e, <2>1, <2>3 DEF QInv, QuitOrder
  <2> QED BY <1>0, <2>2, <2>3
<1>6. ExitsCounted'
  BY <1>0, GoneSame DEF QInv
<1>7. Tracked'
  <2>2. \A d \in Clients : Passing(d)' <=> Passing(d)
    BY <1>0 DEF Passing
  <2> QED BY <1>0, <1>e, <2>2, TrackedSame, TrackedIs DEF QInv
<1> QED BY <1>2, <1>3, <1>4, <1>5, <1>n, <1>6, <1>7, TrackedNext DEF QInv

\* Pushing the job keeps the invariant.
LEMMA PushStep ==
  ASSUME QInv, Push
  PROVE  QInv'
<1>t. PICK t \in Workers : t = target
  BY DEF QInv, TypeOK
<1>0. /\ rpc = "push" /\ rpc' = "signal"
      /\ t = target /\ t = target' /\ queue' = [queue EXCEPT ![t] = Append(@, new_job)]
      /\ UNCHANGED << num, mutex, wpc, cur_job, new_job, target, exit_count, client >>
  BY <1>t DEF Push, wvars
<1>1. t \in Workers /\ new_job \in Jobs /\ queue[t] \in Seq(Jobs) /\ t \in Nat
  BY <1>0, WorkerNumbers DEF QInv, TypeOK, QuitOrder
<1>2. wpc[t] \notin {"loop", "empty", "start"}
  BY <1>0, <1>1 DEF QInv, MutexOwners, Holding
<1>3. /\ queue' \in [Workers -> Seq(Jobs)]
      /\ \A v \in Workers : v # t => queue'[v] = queue[v]
      /\ queue'[t] # << >>
      /\ Len(queue'[t]) = Len(queue[t]) + 1
      /\ DOMAIN queue'[t] = DOMAIN queue[t] \cup {Len(queue[t]) + 1}
      /\ Len(queue[t]) + 1 \notin DOMAIN queue[t]
      /\ \A i \in DOMAIN queue[t] : queue'[t][i] = queue[t][i]
      /\ queue'[t][Len(queue[t]) + 1] = new_job
      /\ queue[t] # << >> => Head(queue'[t]) = Head(queue[t])
  <2>1. Append(queue[t], new_job) \in Seq(Jobs)
    BY <1>1, AppendFacts
  <2>2. queue'[t] = Append(queue[t], new_job) /\ \A v \in Workers : v # t => queue'[v] = queue[v]
    BY <1>0, <1>1 DEF QInv, TypeOK
  <2>3. queue' \in [Workers -> Seq(Jobs)]
    BY <1>0, <1>1, <2>1 DEF QInv, TypeOK
  <2> DEFINE q == Append(queue[t], new_job)
  <2>4. /\ q # << >> /\ Len(q) = Len(queue[t]) + 1
        /\ DOMAIN q = DOMAIN queue[t] \cup {Len(queue[t]) + 1}
        /\ Len(queue[t]) + 1 \notin DOMAIN queue[t]
        /\ \A i \in DOMAIN queue[t] : q[i] = queue[t][i]
        /\ q[Len(queue[t]) + 1] = new_job
        /\ queue[t] # << >> => Head(q) = Head(queue[t])
    BY <1>1, AppendFacts, Zenon
  <2>5. queue'[t] = q
    BY <2>2
  <2> HIDE DEF q
  <2> QED BY <2>2, <2>3, <2>4, <2>5, Zenon
<1>last. PICK last \in Nat : last = Len(queue[t]) + 1
  BY <1>1, QueueFacts
<1>4. TypeOK'
  BY <1>0, <1>3 DEF QInv, TypeOK
<1>5. MutexOwners' /\ Started'
  BY <1>0 DEF QInv, MutexOwners, Started, Holding
<1>e. \A v \in Workers : SameEnd(v) /\ (TookQuit(v)' <=> TookQuit(v)) /\ \A c : EndedBy(v, c)' <=> EndedBy(v, c)
  BY <1>0 DEF SameEnd, TookQuit, EndedBy
<1>n. NoJobAfterQuit'
  <2>1. ~TookQuit(t)
    BY <1>0, <1>1 DEF QInv, NoJobAfterQuit, TookQuit
  <2>2. \A v \in Workers : TookQuit(v)' => TookQuit(v) /\ queue'[v] = queue[v]
    BY <1>3, <1>e, <2>1, Zenon
  <2>3. NoJobAfterQuit /\ rpc # "idle" /\ target' = target
    BY <1>0 DEF QInv
  <2> QED BY <2>2, <2>3, NoJobSame, Zenon
<1>6. QueueViews'
  BY <1>0, <1>2, <1>3 DEF QInv, QueueViews
<1>7. ~HasQuit(t)
  <2>1. CASE new_job = QuitJob
    <3>1. NotYetQuit(t)
      BY <1>0, <1>1 DEF NotYetQuit
    <3> QED BY <1>0, <1>1, <2>1, <3>1, Zenon DEF QInv, QuitOrder
  <2>2. CASE new_job # QuitJob
    <3>1. client[new_job.client] # "gone" /\ new_job.client \in Clients
      BY <1>0, <1>1, <2>2, JobFields DEF QInv, QuitOrder
    <3> QED BY <1>1, <3>1, Zenon DEF QInv, QuitOrder
  <2> QED BY <2>1, <2>2
<1>8. QuitOrder'
  <2>1. ASSUME NEW v \in Workers, NEW i \in DOMAIN queue'[v], queue'[v][i] = QuitJob
        PROVE  i = Len(queue'[v])
    <3>1. CASE v = t
      <4>1. i \notin DOMAIN queue[t]
        BY <1>3, <1>7, <2>1, <3>1 DEF HasQuit
      <4>2. i = last /\ Len(queue'[t]) = last
        BY <1>3, <1>last, <3>1, <4>1
      <4> QED BY <3>1, <4>2
    <3>2. CASE v # t
      BY <1>3, <2>1, <3>2, Zenon DEF QInv, QuitOrder
    <3> QED BY <3>1, <3>2
  <2>2. \A v \in Workers : NotYetQuit(v)' => NotYetQuit(v) /\ v # t
    BY <1>0, <1>1, WorkerNumbers DEF NotYetQuit
  <2>3. \A v \in Workers : v # t => (HasQuit(v)' <=> HasQuit(v))
    BY <1>3 DEF HasQuit
  <2>4. HasQuit(t)' => new_job = QuitJob
    <3>1. ASSUME NEW i \in DOMAIN queue'[t], queue'[t][i] = QuitJob PROVE new_job = QuitJob
      BY <1>3, <1>7, <3>1 DEF HasQuit
    <3> QED BY <3>1 DEF HasQuit
  <2>5. (\E v \in Workers : HasQuit(v)' \/ TookQuit(v)') =>
          (rpc # "idle" /\ new_job = QuitJob) \/ \E v \in Workers : HasQuit(v) \/ TookQuit(v)
    BY <1>0, <1>e, <2>3, <2>4
  <2>6. ASSUME new_job = QuitJob, NEW v \in Workers, NotYetQuit(v)'
        PROVE  ~HasQuit(v)' /\ ~TookQuit(v)'
    <3>1. NotYetQuit(v) /\ v # t
      BY <2>2, <2>6
    <3> QED BY <1>0, <1>e, <2>3, <2>6, <3>1 DEF QInv, QuitOrder
  <2>7. (new_job = QuitJob \/ \E v \in Workers : HasQuit(v)' \/ TookQuit(v)') =>
          \A c \in Clients : client[c] = "gone"
    BY <1>0, <2>5 DEF QInv, QuitOrder
  <2> QED BY <1>0, <1>1, <2>1, <2>6, <2>7 DEF QInv, QuitOrder
<1>9. ExitsCounted'
  BY <1>0, GoneSame DEF QInv
<1>10. Tracked'
  <2>1. Tracked
    BY TrackedIs DEF QInv
  <2>2. \A c \in Clients : ~Passing(c)' /\ (Passing(c) <=> new_job # QuitJob /\ new_job.client = c)
    BY <1>0 DEF Passing
  <2>3. \A v \in Workers : \A i \in DOMAIN queue[v] : \A c \in Clients :
          i \in DOMAIN queue'[v] /\ (JobAt(v, i, c)' <=> JobAt(v, i, c))
    BY <1>0, <1>3 DEF JobAt, Unanswered
  <2>4. ASSUME NEW v \in Workers, NEW i \in DOMAIN queue'[v], i \notin DOMAIN queue[v]
        PROVE  v = t /\ i = last
    BY <1>3, <1>last, <2>4
  <2>5. wpc[t] = "relock" => last # 1
    <3>1. wpc[t] = "relock" => queue[t] # << >>
      BY <1>1 DEF QInv, QueueViews
    <3> QED BY <1>1, <1>last, <3>1, QueueFacts
  <2>6. \A c \in Clients : last \in DOMAIN queue'[t] /\ (JobAt(t, last, c)' <=> Passing(c))
    BY <1>0, <1>3, <1>last, <2>2, <2>5, Zenon DEF JobAt, Unanswered
  <2>7. ASSUME NEW c \in Clients, NEW v \in Workers, NEW i \in DOMAIN queue'[v], JobAt(v, i, c)'
        PROVE  \/ i \in DOMAIN queue[v] /\ JobAt(v, i, c)
               \/ v = t /\ i = last /\ Passing(c)
    <3>1. CASE i \in DOMAIN queue[v]
      BY <2>3, <2>7, <3>1
    <3>2. CASE i \notin DOMAIN queue[v]
      <4>1. v = t /\ i = last
        BY <2>4, <3>2
      <4>2. JobAt(t, last, c)'
        BY <2>7, <4>1
      <4> QED BY <2>6, <4>1, <4>2
    <3> QED BY <3>1, <3>2
  <2>8. ASSUME NEW c \in Clients, NEW u \in Workers, NEW v \in Workers,
               NEW i \in DOMAIN queue'[u], NEW k \in DOMAIN queue'[v],
               JobAt(u, i, c)', JobAt(v, k, c)'
        PROVE  u = v /\ i = k
    <3>1. CASE Passing(c)
      <4>1. \A x \in Workers : \A y \in DOMAIN queue[x] : ~JobAt(x, y, c)
        BY <2>1, <3>1, Zenon DEF Tracked
      <4> QED BY <2>7, <2>8, <4>1
    <3>2. CASE ~Passing(c)
      <4>1. i \in DOMAIN queue[u] /\ JobAt(u, i, c) /\ k \in DOMAIN queue[v] /\ JobAt(v, k, c)
        BY <2>7, <2>8, <3>2
      <4> QED BY <2>1, <4>1, OnlyJob, Zenon
    <3> QED BY <3>1, <3>2
  <2>9. ASSUME NEW c \in Clients, client'[c] = "waiting"
        PROVE  \/ \E v \in Workers : \E i \in DOMAIN queue'[v] : JobAt(v, i, c)'
               \/ \E v \in Workers : EndedBy(v, c)'
    <3>1. \/ Passing(c)
          \/ \E v \in Workers : \E i \in DOMAIN queue[v] : JobAt(v, i, c)
          \/ \E v \in Workers : EndedBy(v, c)
      BY <1>0, <2>1, <2>9 DEF Tracked
    <3> QED BY <1>1, <1>e, <2>3, <2>6, <3>1, Zenon
  <2>10. \A c \in Clients, v \in Workers : \A i \in DOMAIN queue'[v] :
           JobAt(v, i, c)' => client'[c] = "waiting" /\ ~Passing(c)'
    BY <1>0, <2>1, <2>2, <2>7 DEF Tracked
  <2>11. ASSUME NEW c \in Clients, NEW w \in Workers, EndedBy(w, c)'
         PROVE  /\ client'[c] = "waiting" /\ ~Passing(c)'
                /\ \A v \in Workers : \A i \in DOMAIN queue'[v] : ~JobAt(v, i, c)'
                /\ \A v \in Workers : EndedBy(v, c)' => v = w
    <3>1. EndedBy(w, c)
      BY <1>e, <2>11, Zenon
    <3>2. client[c] = "waiting" /\ ~Passing(c)
      BY <2>1, <3>1, Zenon DEF Tracked
    <3>3. \A v \in Workers : \A i \in DOMAIN queue[v] : ~JobAt(v, i, c)
      BY <2>1, <3>1, Zenon DEF Tracked
    <3>4. \A v \in Workers : EndedBy(v, c) => v = w
      BY <2>1, <3>1, Zenon DEF Tracked
    <3>5. \A v \in Workers : \A i \in DOMAIN queue'[v] : ~JobAt(v, i, c)'
      BY <2>7, <3>2, <3>3, Zenon
    <3>6. client' = client
      BY <1>0
    <3> QED BY <1>e, <2>2, <3>2, <3>4, <3>5, <3>6, Zenon
  <2> QED BY <2>2, <2>8, <2>9, <2>10, <2>11, Zenon DEF Tracked
<1> QED BY <1>4, <1>5, <1>6, <1>8, <1>n, <1>9, <1>10, TrackedNext DEF QInv

-----------------------------------------------------------------------------
(* The theorems. *)

\* The threads start in the invariant.
LEMMA QInvInit == Init => QInv
<1> SUFFICES ASSUME Init PROVE QInv
  OBVIOUS
<1>1. Cardinality(Clients) \in Nat
  BY QueuesAssumption, FS_CardinalityType
<1>2. 0 \in Workers /\ NumThreads \in Nat
  BY QueuesAssumption DEF Workers
<1>3. \A w \in Workers : queue[w] = << >> /\ DOMAIN queue[w] = {} /\ wpc[w] = "start" /\ mutex[w] = "raw"
  BY DEF Init
<1>4. TypeOK
  BY <1>1, <1>2 DEF Init, TypeOK
<1>5. MutexOwners /\ Started /\ QueueViews
  BY <1>3, WorkerNumbers DEF Init, MutexOwners, Started, QueueViews, Holding
<1>6. QuitOrder /\ NoJobAfterQuit
  BY <1>3 DEF Init, QuitOrder, HasQuit, TookQuit, NoJobAfterQuit
<1>7. ExitsCounted
  <2>1. {c \in Clients : client[c] = "gone"} = {}
    BY DEF Init
  <2> QED BY <2>1, FS_EmptySet, Zenon DEF ExitsCounted, Init
<1>8. Tracked
  BY <1>3 DEF Init, Tracked, Passing, EndedBy
<1> QED BY <1>4, <1>5, <1>6, <1>7, <1>8, TrackedIs DEF QInv

\* Every step of the enclave's threads keeps the invariant.
LEMMA QInvNext ==
  ASSUME ~Early, QInv, [Next]_vars
  PROVE  QInv'
<1>1. ASSUME NEW w \in Workers, WorkerStep(w) PROVE QInv'
  <2>1. CASE Quiet(w)
    BY <2>1, QuietStep
  <2>2. CASE Serve(w)
    BY <2>2, ServeStep
  <2>3. CASE Pop(w)
    BY <2>3, PopStep
  <2>4. CASE Quit(w)
    BY <2>4, QuitStep
  <2> QED BY <1>1, <2>1, <2>2, <2>3, <2>4 DEF WorkerStep, Quiet
<1>2. CASE ResponderStep
  BY <1>2, LockQueueStep, PushStep, SignalStep, UnlockStep DEF ResponderStep
<1>3. ASSUME NEW c \in Clients, Request(c) PROVE QInv'
  <2>1. CASE PassExit(c, Cardinality(Clients))
    BY <2>1, PassExitStep
  <2>2. CASE PassLoadDone(c)
    BY <2>2, PassLoadDoneStep
  <2>3. CASE \E k \in Kinds, w \in Workers :
               PassRequest(c, [kind |-> k, client |-> c, worker |-> w])
    BY <2>3, PassRequestStep
  <2> QED BY <1>3, <2>1, <2>2, <2>3 DEF Request
<1>4. CASE UNCHANGED vars
  <2>1. TypeOK' /\ MutexOwners' /\ Started' /\ QueueViews'
    BY <1>4 DEF vars, QInv, TypeOK, MutexOwners, Started, QueueViews
  <2>e. \A v \in Workers : SameEnd(v) /\ (TookQuit(v)' <=> TookQuit(v))
    BY <1>4 DEF vars, SameEnd, TookQuit
  <2>2. QuitOrder' /\ NoJobAfterQuit'
    BY <1>4, <2>e, QuitOrderSame, NoJobSame DEF vars, QInv
  <2>3. ExitsCounted'
    BY <1>4 DEF vars, QInv, ExitsCounted
  <2>4. Tracked'
    <3>1. \A d \in Clients : Passing(d)' <=> Passing(d)
      BY <1>4 DEF vars, Passing
    <3> QED BY <1>4, <2>e, <3>1, TrackedSame, TrackedIs DEF vars, QInv
  <2> QED BY <2>1, <2>2, <2>3, <2>4, TrackedNext DEF QInv
<1> QED BY <1>1, <1>2, <1>3, <1>4 DEF Next

\* The invariant of the job queues holds always.
LEMMA QInvAlways ==
  ASSUME ~Early
  PROVE  Spec => []QInv
<1>1. QInv /\ [Next]_vars => QInv'
  BY QInvNext
<1> QED BY <1>1, QInvInit, PTL DEF Spec

\* The threads of the enclave keep their types.
THEOREM QueuesTyped ==
  ASSUME ~Early
  PROVE  Spec => []TypeOK
<1>1. QInv => TypeOK
  BY DEF QInv
<1> QED BY <1>1, QInvAlways, PTL

\* No wake-up is lost between the test of queue[thread_id].size() and cond_wait: for
\* any number of clients and workers, a worker sleeps on a job only until the signal.
THEOREM NoWakeupIsLost ==
  ASSUME ~Early
  PROVE  Spec => []NoLostWakeup
<1>1. QInv => NoLostWakeup
  BY DEF QInv, QueueViews, NoLostWakeup
<1> QED BY <1>1, QInvAlways, PTL

\* A worker pops and frees the job it read and answered.
THEOREM ServedJobIsPopped ==
  ASSUME ~Early
  PROVE  Spec => []PopsTheServedJob
<1>1. QInv => PopsTheServedJob
  BY DEF QInv, QueueViews, PopsTheServedJob
<1> QED BY <1>1, QInvAlways, PTL

\* Between message_pass, the queues and the workers no request is lost, duplicated
\* or answered twice.
THEOREM RequestsAreTracked ==
  ASSUME ~Early
  PROVE  Spec => []OneJobPerWaitingClient
<1>1. QInv => OneJobPerWaitingClient
  BY DEF QInv
<1> QED BY <1>1, QInvAlways, PTL

\* No job is pushed to a worker that the server's quit has ended, whose mutex is
\* destroyed, and none is left in its queue.
THEOREM QuitIsLast ==
  ASSUME ~Early
  PROVE  Spec => []NoJobAfterQuit
<1>1. QInv => NoJobAfterQuit
  BY DEF QInv
<1> QED BY <1>1, QInvAlways, PTL

=============================================================================
