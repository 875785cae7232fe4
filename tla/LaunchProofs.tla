---------------------------- MODULE LaunchProofs ----------------------------
(***************************************************************************)
(* The start of the programs, for any options. The sizes of the server are  *)
(* checked once, by the theorem on the layout that LayoutProofs proves for   *)
(* all sizes. For the client, the inductive invariant says how far the trace *)
(* has been split: set_count lines, dealt out PerThread at a time.           *)
(***************************************************************************)
EXTENDS Launch, FiniteSetTheorems, TLAPS

Fit == INSTANCE LayoutProofs WITH BucketSize   <- arg.bucket_size,
                                  TreeRootSize <- arg.tree_root_size,
                                  NumThreads   <- arg.num_threads

-----------------------------------------------------------------------------
(* The server. *)

\* What DividingSizesFit says of the sizes the server was given.
LEMMA SizesFit == Sizes!SizesDivide => Sizes!LayoutOK
<1>1. Sizes!SizesDivide => Fit!SizesDivide
  BY DEF Sizes!SizesDivide, Fit!SizesDivide
<1>2. Fit!LayoutOK => Sizes!LayoutOK
  BY Zenon DEF Sizes!LayoutOK, Sizes!Buckets, Sizes!Roots, Sizes!Workers, Sizes!thread_id,
     Sizes!ratio_root_per_buckets, Sizes!root_index, Sizes!start_index,
     Fit!LayoutOK, Fit!Buckets, Fit!Roots, Fit!Workers, Fit!thread_id,
     Fit!ratio_root_per_buckets, Fit!root_index, Fit!start_index
<1> QED BY <1>1, <1>2, Fit!DividingSizesFit

\* Sizes that divide give every request a worker and a root.
LEMMA ServesAll ==
  ASSUME Sizes!SizesDivide, NEW h \in Sizes!Buckets
  PROVE  Serve(h) = "ready"
<1>1. Sizes!LayoutOK
  BY SizesFit
<1>2. /\ Sizes!thread_id(h) \in Sizes!Workers /\ Sizes!root_index(h) \in Sizes!Roots
      /\ Sizes!ratio_root_per_buckets # 0
  BY <1>1, Zenon DEF Sizes!LayoutOK
<1>3. arg.bucket_size \in Nat \ {0} /\ arg.num_threads \in Nat \ {0}
  BY DEF Sizes!SizesDivide
<1>4. arg.bucket_size \div arg.num_threads \in Nat \ {0}
  BY <1>1, Zenon DEF Sizes!LayoutOK
<1>5. ~(arg.bucket_size < arg.num_threads)
  BY <1>3, <1>4
<1> QED BY <1>2, <1>3, <1>5 DEF Serve

\* The inductive invariant of the server.
ServerInv == Sizes!SizesDivide => spc \notin {"crashed", "overrun"}

LEMMA ServerNext ==
  ASSUME ServerInv, [Next]_vars PROVE ServerInv'
<1>1. CASE spc = "getopt" /\ spc' = "getopt"
  BY <1>1 DEF ServerInv
<1>2. CASE UNCHANGED << arg, spc >>
  BY <1>2 DEF ServerInv, Sizes!SizesDivide
<1>3. CASE ServerGivesUp
  BY <1>3 DEF ServerInv, ServerGivesUp
<1>4. CASE ServerStart
  <2>1. arg' = arg /\ spc' = IF InitFaults THEN "crashed" ELSE "ready"
    BY <1>4 DEF ServerStart
  <2>2. Sizes!SizesDivide => ~InitFaults
    BY DEF Sizes!SizesDivide, InitFaults
  <2> QED BY <2>1, <2>2 DEF ServerInv, Sizes!SizesDivide
<1>5. ASSUME NEW i, Request(i) PROVE ServerInv'
  <2>1. arg' = arg /\ (spc' = spc \/ \E h \in Sizes!Buckets : spc' = Serve(h))
    BY <1>5, Zenon DEF Request
  <2>2. CASE spc' = spc
    BY <2>1, <2>2 DEF ServerInv, Sizes!SizesDivide
  <2>3. CASE \E h \in Sizes!Buckets : spc' = Serve(h)
    <3>1. Sizes!SizesDivide => spc' = "ready"
      BY <2>3, ServesAll
    <3> QED BY <2>1, <3>1 DEF ServerInv, Sizes!SizesDivide
  <2> QED BY <2>1, <2>2, <2>3
<1>6. \/ spc = "getopt" /\ spc' = "getopt"
      \/ UNCHANGED << arg, spc >>
      \/ ServerGivesUp \/ ServerStart
      \/ \E i \in ClientThreads : Request(i)
  BY DEF Next, vars, ServerOption, ClientOption, ClientStart, SplitFaults, SplitLine, CreateThreads,
     At, Arrive, PassBarrier, Connect, Finish, JoinThreads, svars, cvars
<1> QED BY <1>1, <1>2, <1>3, <1>4, <1>5, <1>6

\* A server whose sizes divide starts, and no request makes it divide by zero or leave
\* an array: main, enclave_init_values and the indices of message_pass and the workers.
THEOREM DividingSizesAreServed == Spec => []DividingSizesServe
<1>1. Init => ServerInv
  BY DEF Init, ServerInv
<1>2. ServerInv /\ [Next]_vars => ServerInv'
  BY ServerNext
<1>3. ServerInv => DividingSizesServe
  BY SizesFit DEF ServerInv, DividingSizesServe
<1> QED BY <1>1, <1>2, <1>3, PTL DEF Spec

-----------------------------------------------------------------------------
(* The client's options. *)

Client == [num_threads : Nat, inst_size : Nat, max_key_size : Nat, max_val_size : Nat,
           max_buf_size : Nat]

\* The options read so far leave room for a request, or -k has changed the key size.
BufferInv ==
  /\ carg \in Client
  /\ "k" \in copts => carg.max_key_size = DefaultClient.max_key_size
  /\ cpc # "aborted" /\ carg.max_key_size = DefaultClient.max_key_size
       => carg.max_buf_size >= Room(carg)

\* What the options do to the configuration.
LEMMA OptionFacts ==
  ASSUME carg \in Client, NEW o \in {"k", "v", "b", "t", "n"}, NEW n \in Nat
  PROVE  /\ WithOption(o, n) \in Client
         /\ o # "k" => WithOption(o, n).max_key_size = carg.max_key_size
         /\ o = "k" => WithOption(o, n) = [carg EXCEPT !.max_key_size = n]
         /\ o = "v" => /\ WithOption(o, n).max_val_size = n
                       /\ WithOption(o, n).max_buf_size = BufSize(n, carg.max_key_size)
         /\ o = "b" => WithOption(o, n) = [carg EXCEPT !.max_buf_size = n]
         /\ o \in {"t", "n"} => /\ WithOption(o, n).max_val_size = carg.max_val_size
                                /\ WithOption(o, n).max_buf_size = carg.max_buf_size
<1>1. BufSize(n, carg.max_key_size) \in Nat
  BY DEF BufSize, Client
<1> QED BY <1>1, Zenon DEF WithOption, Client

LEMMA BufSizeFits ==
  ASSUME NEW v \in Nat, NEW k \in Nat, k <= 38
  PROVE  BufSize(v, k) >= k + v + 10
BY DEF BufSize

LEMMA OptionStep ==
  ASSUME BufferInv, NEW o \in DOMAIN ClientValues, NEW n \in ClientValues[o], ClientOption(o, n)
  PROVE  BufferInv'
<1>1. o \in {"k", "v", "b", "t", "n"} /\ n \in Nat
  BY LaunchAssumption
<1>2. carg \in Client /\ carg' = WithOption(o, n)
  BY DEF BufferInv, ClientOption
<1>3. /\ copts' = copts \ {o} /\ o \in copts /\ cpc = "getopt"
      /\ cpc' = IF o = "b" /\ n < Room(carg) THEN "aborted" ELSE "getopt"
  BY DEF ClientOption
<1>4. carg' \in Client
  BY <1>1, <1>2, OptionFacts
<1>5. "k" \in copts' => carg'.max_key_size = DefaultClient.max_key_size
  BY <1>1, <1>2, <1>3, OptionFacts DEF BufferInv
<1>6. SUFFICES ASSUME cpc' # "aborted", carg'.max_key_size = DefaultClient.max_key_size
               PROVE  carg'.max_buf_size >= Room(carg')
  BY <1>4, <1>5, Zenon DEF BufferInv, Room
<1>7. carg.max_key_size = DefaultClient.max_key_size
  BY <1>1, <1>2, <1>3, <1>6, OptionFacts DEF BufferInv
<1>8. carg.max_buf_size >= Room(carg)
  BY <1>3, <1>7 DEF BufferInv
<1>9. CASE o = "k"
  BY <1>1, <1>2, <1>6, <1>7, <1>8, <1>9, OptionFacts DEF Client, Room
<1>10. CASE o = "v"
  <2>1. /\ carg'.max_val_size = n /\ carg'.max_buf_size = BufSize(n, carg.max_key_size)
        /\ carg'.max_key_size = carg.max_key_size
    BY <1>1, <1>2, <1>10, OptionFacts
  <2>2. carg.max_key_size \in Nat /\ carg.max_key_size <= 38
    BY <1>2, <1>7, LaunchAssumption DEF Client
  <2> QED BY <1>1, <2>1, <2>2, BufSizeFits DEF Room
<1>11. CASE o = "b"
  BY <1>1, <1>2, <1>3, <1>6, <1>11, OptionFacts DEF Client, Room
<1>12. CASE o \in {"t", "n"}
  BY <1>1, <1>2, <1>7, <1>8, <1>12, OptionFacts DEF Client, Room
<1> QED BY <1>1, <1>9, <1>10, <1>11, <1>12

LEMMA BufferNext ==
  ASSUME BufferInv, [Next]_vars PROVE BufferInv'
<1>1. CASE UNCHANGED << carg, copts >> /\ (cpc = "aborted" => cpc' = "aborted")
  BY <1>1 DEF BufferInv, Room
<1>2. \/ \E o \in DOMAIN ClientValues : \E n \in ClientValues[o] : ClientOption(o, n)
      \/ UNCHANGED << carg, copts >> /\ (cpc = "aborted" => cpc' = "aborted")
  BY DEF Next, vars, ServerOption, ServerGivesUp, ServerStart, ClientStart, SplitFaults, SplitLine,
     CreateThreads, At, Arrive, PassBarrier, Connect, Request, Finish, JoinThreads, svars, cvars
<1> QED BY <1>1, <1>2, OptionStep

\* A client with keys of the default size has room for a request in its buffer, whatever
\* -v and -b said and in whichever order: the switch over the options in main of
\* client_load.c and client_run.c.
THEOREM BufferSuffices == Spec => []BufferHoldsRequest
<1>1. Init => BufferInv
  BY LaunchAssumption DEF Init, BufferInv, Client, Room
<1>2. BufferInv /\ [Next]_vars => BufferInv'
  BY BufferNext
<1>3. BufferInv => BufferHoldsRequest
  BY DEF BufferInv, BufferHoldsRequest
<1> QED BY <1>1, <1>2, <1>3, PTL DEF Spec

-----------------------------------------------------------------------------
(* Division. *)

LEMMA Division ==
  ASSUME NEW n \in Nat, NEW d \in Nat \ {0}
  PROVE  /\ n \div d \in Nat /\ n % d \in Nat /\ n % d < d
         /\ n = d * (n \div d) + (n % d)
<1> DEFINE p == n \div d
           s == n % d
<1>1. p \in Int /\ s \in 0 .. (d - 1) /\ n = d * p + s
  OBVIOUS
<1>2. n < d * (n + 1)
  <2>1. d * (n + 1) = d * n + d /\ n <= d * n
    OBVIOUS
  <2> QED BY <2>1
<1>3. p \in 0 .. ((n + 1) - 1)
  BY <1>2, Fit!QuotientBelow
<1>4. p \in Nat
  BY <1>3
<1> QED BY <1>1, <1>4

\* The next number has the same quotient, or the next one when it is a multiple.
LEMMA DivisionNext ==
  ASSUME NEW k \in Nat, NEW d \in Nat \ {0}
  PROVE  /\ (k % d) + 1 = d => (k + 1) \div d = k \div d + 1 /\ (k + 1) % d = 0
         /\ (k % d) + 1 # d => (k + 1) \div d = k \div d /\ (k + 1) % d = (k % d) + 1
<1> DEFINE a == k \div d
           b == k % d
           p == (k + 1) \div d
           r == (k + 1) % d
<1>1. a \in Nat /\ b \in Nat /\ b < d /\ k = d * a + b
  BY Division
<1>2. p \in Nat /\ r \in Nat /\ r < d /\ k + 1 = d * p + r
  BY Division
<1>3. CASE b + 1 = d
  <2>1. d * (a + 1) = d * a + d
    BY <1>1
  <2>2. k + 1 = d * (a + 1) + 0
    BY <1>1, <1>3, <2>1
  <2>3. p = a + 1
    <3> DEFINE q == a + 1
               z == 0
               n == k + 1
    <3>1. q \in Nat /\ z < d /\ z \in Nat /\ n \in Nat /\ n = d * q + z
      BY <1>1, <2>2
    <3> HIDE DEF q, z, n
    <3>2. n \div d = q
      BY <3>1, Fit!QuotientIs
    <3> QED BY <3>2 DEF n, q
  <2> HIDE DEF a, b, p, r
  <2>4. r = 0
    BY <1>1, <1>2, <2>2, <2>3
  <2> QED BY <1>3, <2>3, <2>4 DEF a, b, p, r
<1>4. CASE b + 1 # d
  <2>1. k + 1 = d * a + (b + 1) /\ b + 1 < d /\ b + 1 \in Nat
    BY <1>1, <1>4
  <2>2. p = a
    <3>1. a \in Nat /\ k + 1 \in Nat
      BY <1>1
    <3> HIDE DEF a, b
    <3> QED BY <2>1, <3>1, Fit!QuotientIs
  <2> HIDE DEF a, b, p, r
  <2>3. r = b + 1
    BY <1>1, <1>2, <2>1, <2>2
  <2> QED BY <1>4, <2>2, <2>3 DEF a, b, p, r
<1> QED BY <1>3, <1>4 DEF b

\* The thread a line goes to, from the one the line before it went to.
LEMMA NextQuotient ==
  ASSUME NEW k \in Nat \ {0}, NEW d \in Nat \ {0}
  PROVE  k \div d = IF k % d = 0 THEN (k - 1) \div d + 1 ELSE (k - 1) \div d
<1>1. PICK j \in Nat : k = j + 1
  <2>1. k - 1 \in Nat /\ k = (k - 1) + 1
    OBVIOUS
  <2> QED BY <2>1
<1>2. j = k - 1
  BY <1>1
<1>3. j % d \in Nat
  BY Division
<1>4. /\ (j % d) + 1 = d => k \div d = j \div d + 1 /\ k % d = 0
      /\ (j % d) + 1 # d => k \div d = j \div d /\ k % d = (j % d) + 1
  BY <1>1, DivisionNext, Zenon
<1>5. k % d = 0 => (j % d) + 1 = d
  BY <1>3, <1>4
<1> QED BY <1>2, <1>4, <1>5

-----------------------------------------------------------------------------
(* The trace and the threads. *)

\* How many of the first k lines thread i is given, d at a time.
Part(i, k, d) == IF i < k \div d THEN d ELSE IF i = k \div d THEN k % d ELSE 0

\* The lines of thread i so far are the ones from i * d on, in order.
Dealt(k, d) ==
  \A i \in ClientThreads :
    /\ Len(inst[i]) = Part(i, k, d)
    /\ \A j \in 1 .. Len(inst[i]) : inst[i][j] = i * d + (j - 1)

\* set_count lines have been dealt out, and thread_id got the last of them.
SplitSoFar ==
  /\ set_count \in Nat /\ set_count <= carg.inst_size
  /\ inst \in [ClientThreads -> Seq(Nat)]
  /\ PerThread = 0 => set_count = 0 /\ \A i \in ClientThreads : inst[i] = << >>
  /\ PerThread # 0 =>
       /\ thread_id = IF set_count = 0 THEN 0 ELSE (set_count - 1) \div PerThread
       /\ set_count <= carg.num_threads * PerThread
       /\ Dealt(set_count, PerThread)

\* The threads have all the lines, PerThread each.
SplitEvenly ==
  /\ inst \in [ClientThreads -> Seq(Nat)]
  /\ carg.inst_size = carg.num_threads * PerThread
  /\ \A i \in ClientThreads :
       /\ Len(inst[i]) = PerThread
       /\ \A j \in 1 .. PerThread : inst[i][j] = i * PerThread + (j - 1)

ThreadsInv ==
  /\ tpc \in [ClientThreads -> {"start", "barrier", "connect", "send", "over"}]
  /\ sent \in [ClientThreads -> Nat]
  /\ \A i \in ClientThreads : tpc[i] = "over" => sent[i] = PerThread
  /\ cpc = "done" => \A i \in ClientThreads : tpc[i] = "over"

\* The inductive invariant of the client.
SplitInv ==
  /\ carg \in Client
  /\ cpc = "getopt" => set_count = 0 /\ thread_id = 0
  /\ cpc = "split" => SplitSoFar
  /\ cpc \in {"threads", "done"} => SplitEvenly /\ ThreadsInv
  /\ EvenSplitsWork

LEMMA PerThreadFacts ==
  ASSUME carg \in Client
  PROVE  /\ PerThread \in Nat /\ carg.num_threads \in Nat /\ carg.inst_size \in Nat
         /\ PerThread # 0 => carg.num_threads # 0
         /\ carg.num_threads # 0 =>
              carg.inst_size = carg.num_threads * PerThread + (carg.inst_size % carg.num_threads)
         /\ carg.num_threads # 0 => carg.inst_size % carg.num_threads \in Nat
<1>1. carg.num_threads \in Nat /\ carg.inst_size \in Nat
  BY DEF Client
<1>2. CASE carg.num_threads = 0
  BY <1>1, <1>2 DEF PerThread
<1>3. CASE carg.num_threads # 0
  BY <1>1, <1>3, Division, Zenon DEF PerThread
<1> QED BY <1>2, <1>3

\* Nothing has been dealt out yet.
LEMMA DealtNone ==
  ASSUME NEW d \in Nat \ {0}, \A i \in ClientThreads : inst[i] = << >>
  PROVE  Dealt(0, d)
<1>1. 0 \div d = 0 /\ 0 % d = 0
  <2>1. 0 = d * (0 \div d) + (0 % d) /\ 0 \div d \in Nat /\ 0 % d \in Nat
    BY Division
  <2> DEFINE p == 0 \div d
             s == 0 % d
  <2>2. 0 = d * p + s /\ p \in Nat /\ s \in Nat
    BY <2>1
  <2> HIDE DEF p, s
  <2>3. p <= d * p
    BY <2>2
  <2> QED BY <2>2, <2>3 DEF p, s
<1>2. \A i \in ClientThreads : Part(i, 0, d) = 0 /\ Len(inst[i]) = 0
  <2> SUFFICES ASSUME NEW i \in ClientThreads PROVE Part(i, 0, d) = 0 /\ Len(inst[i]) = 0
    OBVIOUS
  <2>1. i \in Int /\ 0 <= i
    BY DEF ClientThreads
  <2> QED BY <1>1, <2>1 DEF Part
<1>3. \A i \in ClientThreads : 1 .. Len(inst[i]) = {}
  BY <1>2
<1> QED BY <1>2, <1>3, Zenon DEF Dealt

LEMMA DealtNoneNext ==
  (\A d \in Nat \ {0} : (\A i \in ClientThreads : inst[i] = << >>) => Dealt(0, d))'
<1>1. \A d \in Nat \ {0} : (\A i \in ClientThreads : inst[i] = << >>) => Dealt(0, d)
  BY DealtNone
<1> QED BY <1>1, PTL

\* All has been dealt out.
LEMMA DealtAll ==
  ASSUME carg \in Client, NEW d \in Nat \ {0}, Dealt(carg.num_threads * d, d)
  PROVE  \A i \in ClientThreads : /\ Len(inst[i]) = d
                                  /\ \A j \in 1 .. d : inst[i][j] = i * d + (j - 1)
<1> DEFINE n == carg.num_threads
           k == n * d
<1>1. n \in Nat
  BY DEF Client
<1>2. k \div d = n
  <2> DEFINE z == 0
  <2>1. k = d * n + z /\ z \in Nat /\ z < d /\ k \in Nat
    BY <1>1
  <2> HIDE DEF z, k, n
  <2> QED BY <1>1, <2>1, Fit!QuotientIs
<1>3. \A i \in ClientThreads : i < n
  BY <1>1 DEF ClientThreads
<1> HIDE DEF k, n
<1>4. \A i \in ClientThreads : Part(i, k, d) = d
  BY <1>2, <1>3, Zenon DEF Part
<1>5. Dealt(k, d)
  BY DEF k, n
<1> QED BY <1>4, <1>5, Zenon DEF Dealt

\* Line k goes to thread k \div d.
LEMMA DealtNext ==
  ASSUME inst \in [ClientThreads -> Seq(Nat)], NEW d \in Nat \ {0}, NEW k \in Nat,
         Dealt(k, d), k \div d \in ClientThreads, UNCHANGED carg,
         inst' = [inst EXCEPT ![k \div d] = Append(@, k)]
  PROVE  Dealt(k + 1, d)' /\ inst' \in [ClientThreads' -> Seq(Nat)]
<1> DEFINE a == k \div d
           b == k % d
<1>1. a \in Nat /\ b \in Nat /\ b < d /\ k = d * a + b
  BY Division, Zenon
<1>2. /\ b + 1 = d => (k + 1) \div d = a + 1 /\ (k + 1) % d = 0
      /\ b + 1 # d => (k + 1) \div d = a /\ (k + 1) % d = b + 1
  BY DivisionNext, Zenon
<1>3. a \in ClientThreads /\ inst' = [inst EXCEPT ![a] = Append(@, k)]
  OBVIOUS
<1>4. ClientThreads' = ClientThreads
  BY DEF ClientThreads
<1>5. \A i \in ClientThreads : inst'[i] = IF i = a THEN Append(inst[a], k) ELSE inst[i]
  BY <1>3
<1>6. \A i \in ClientThreads : inst[i] \in Seq(Nat) /\ i \in Int
  BY DEF ClientThreads
<1>7. /\ Len(inst[a]) = b
      /\ \A j \in 1 .. Len(inst[a]) : inst[a][j] = a * d + (j - 1)
  <2>1. Part(a, k, d) = b
    BY <1>1 DEF Part
  <2> HIDE DEF a, b
  <2> QED BY <1>3, <2>1, Zenon DEF Dealt
<1>8. \A i \in ClientThreads :
         i # a => Part(i, k + 1, d) = Part(i, k, d)
  <2> SUFFICES ASSUME NEW i \in ClientThreads, i # a PROVE Part(i, k + 1, d) = Part(i, k, d)
    OBVIOUS
  <2>1. i \in Int
    BY <1>6
  <2>2. Part(i, k, d) = IF i < a THEN d ELSE 0
    BY Zenon DEF Part
  <2>3. Part(i, k + 1, d) = IF i < (k + 1) \div d THEN d
                            ELSE IF i = (k + 1) \div d THEN (k + 1) % d ELSE 0
    BY DEF Part
  <2> HIDE DEF a, b
  <2>4. CASE b + 1 = d
    BY <1>1, <1>2, <2>1, <2>2, <2>3, <2>4
  <2>5. CASE b + 1 # d
    BY <1>1, <1>2, <2>1, <2>2, <2>3, <2>5
  <2> QED BY <2>4, <2>5
<1>9. Part(a, k + 1, d) = b + 1
  <2>1. Part(a, k + 1, d) = IF a < (k + 1) \div d THEN d
                            ELSE IF a = (k + 1) \div d THEN (k + 1) % d ELSE 0
    BY DEF Part
  <2> HIDE DEF a, b
  <2> QED BY <1>1, <1>2, <2>1
<1> HIDE DEF a, b
<1>10. Len(inst'[a]) = b + 1 /\ \A j \in 1 .. Len(inst'[a]) : inst'[a][j] = a * d + (j - 1)
  <2>1. inst'[a] = Append(inst[a], k) /\ inst[a] \in Seq(Nat)
    BY <1>3, <1>5, <1>6
  <2>2. Len(inst'[a]) = b + 1
    BY <1>7, <2>1
  <2>3. ASSUME NEW j \in 1 .. (b + 1) PROVE inst'[a][j] = a * d + (j - 1)
    <3>1. CASE j = b + 1
      <4>1. inst'[a][j] = k
        BY <1>7, <2>1, <3>1
      <4>2. k = a * d + b /\ j - 1 = b
        BY <1>1, <3>1
      <4> QED BY <4>1, <4>2, Zenon
    <3>2. CASE j # b + 1
      <4>1. j \in 1 .. Len(inst[a])
        BY <1>1, <1>7, <3>2
      <4>2. inst'[a][j] = inst[a][j]
        BY <2>1, <4>1
      <4> QED BY <1>7, <4>1, <4>2, Zenon
    <3> QED BY <3>1, <3>2, Zenon
  <2> QED BY <2>2, <2>3, Zenon
<1>11. ASSUME NEW i \in ClientThreads
       PROVE  /\ Len(inst'[i]) = Part(i, k + 1, d)
              /\ \A j \in 1 .. Len(inst'[i]) : inst'[i][j] = i * d + (j - 1)
  <2>1. CASE i = a
    BY <1>9, <1>10, <2>1, Zenon
  <2>2. CASE i # a
    <3>1. inst'[i] = inst[i] /\ Part(i, k + 1, d) = Part(i, k, d)
      BY <1>5, <1>8, <2>2, Zenon
    <3> QED BY <3>1, Zenon DEF Dealt
  <2> QED BY <2>1, <2>2
<1>12. Dealt(k + 1, d)'
  BY <1>4, <1>11, Zenon DEF Dealt, Part
<1>13. inst' \in [ClientThreads -> Seq(Nat)]
  <2>1. Append(inst[a], k) \in Seq(Nat)
    BY <1>3, <1>6
  <2> QED BY <1>3, <2>1
<1> QED BY <1>4, <1>12, <1>13

\* The thread that the next line goes to.
LEMMA NextThreadIs ==
  ASSUME SplitInv, cpc = "split", PerThread # 0
  PROVE  NextThread = set_count \div PerThread
<1>1. set_count \in Nat /\ PerThread \in Nat \ {0}
  BY PerThreadFacts DEF SplitInv, SplitSoFar
<1>2. thread_id = IF set_count = 0 THEN 0 ELSE (set_count - 1) \div PerThread
  BY DEF SplitInv, SplitSoFar
<1>3. CASE set_count = 0
  <2>1. 0 \div PerThread = 0
    <3> DEFINE p == 0 \div PerThread
               s == 0 % PerThread
    <3>1. 0 = PerThread * p + s /\ p \in Nat /\ s \in Nat
      BY <1>1, Division
    <3> HIDE DEF p, s
    <3>2. p <= PerThread * p
      BY <1>1, <3>1
    <3> QED BY <1>1, <3>1, <3>2 DEF p
  <2> QED BY <1>2, <1>3, <2>1 DEF NextThread
<1>4. CASE set_count # 0
  <2>1. set_count \in Nat \ {0}
    BY <1>1, <1>4
  <2>2. set_count \div PerThread = IF set_count % PerThread = 0 THEN (set_count - 1) \div PerThread + 1
                                   ELSE (set_count - 1) \div PerThread
    BY <1>1, <2>1, NextQuotient, Zenon
  <2> QED BY <1>2, <1>4, <2>2, Zenon DEF NextThread
<1> QED BY <1>3, <1>4

\* One line more.
LEMMA SplitLineStep ==
  ASSUME SplitInv, SplitLine PROVE SplitInv'
<1> DEFINE k == set_count
           d == PerThread
           n == carg.num_threads
<1>1. cpc = "split" /\ k < carg.inst_size /\ d # 0 /\ carg' = carg /\ thread_id' = NextThread
  BY DEF SplitLine
<1>2. carg \in Client /\ SplitSoFar
  BY <1>1 DEF SplitInv
<1>3. d \in Nat \ {0} /\ k \in Nat /\ n \in Nat \ {0} /\ carg.inst_size \in Nat
  BY <1>1, <1>2, PerThreadFacts DEF SplitSoFar
<1>4. NextThread = k \div d
  BY <1>1, NextThreadIs
<1>5. PerThread' = PerThread
  BY <1>1 DEF PerThread
<1>6. CASE cpc' = "exited"
  BY <1>1, <1>2, <1>6 DEF SplitInv, EvenSplitsWork
<1>7. CASE cpc' = "overrun" /\ NextThread \notin ClientThreads
  <2>1. SUFFICES ASSUME carg.inst_size % n = 0 PROVE FALSE
    BY <1>1, <1>2, <1>7 DEF SplitInv, EvenSplitsWork
  <2>2. carg.inst_size = n * d + (carg.inst_size % n)
    BY <1>2, <1>3, PerThreadFacts
  <2>3. k < d * n
    <3> HIDE DEF k, d, n
    <3> QED BY <1>1, <1>3, <2>1, <2>2
  <2>4. k \div d \in 0 .. (n - 1)
    <3> HIDE DEF k, d, n
    <3> QED BY <1>3, <2>3, Fit!QuotientBelow, Zenon
  <2> QED BY <1>4, <1>7, <2>4 DEF ClientThreads
<1>8. CASE /\ cpc' = cpc /\ NextThread \in ClientThreads
           /\ inst' = [inst EXCEPT ![NextThread] = Append(@, k)]
           /\ set_count' = k + 1
  <2>1. inst \in [ClientThreads -> Seq(Nat)] /\ Dealt(k, d)
    BY <1>1, <1>2 DEF SplitSoFar
  <2>2. k \div d \in ClientThreads /\ inst' = [inst EXCEPT ![k \div d] = Append(@, k)]
    BY <1>4, <1>8
  <2>3. Dealt(set_count, PerThread)' /\ inst' \in [ClientThreads' -> Seq(Nat)]
    <3>1. PICK q \in Nat, e \in Nat \ {0} : q = k /\ e = d
      BY <1>3
    <3>2. Dealt(q, e) /\ q \div e \in ClientThreads /\ inst' = [inst EXCEPT ![q \div e] = Append(@, q)]
      BY <2>1, <2>2, <3>1
    <3>3. Dealt(q + 1, e)' /\ inst' \in [ClientThreads' -> Seq(Nat)]
      BY <1>1, <2>1, <3>2, DealtNext, Zenon
    <3>4. set_count' = q + 1 /\ PerThread' = e
      BY <1>5, <1>8, <3>1
    <3>5. Dealt(set_count, PerThread)'
      BY <3>3, <3>4, Zenon DEF Dealt
    <3> QED BY <3>3, <3>5
  <2>4. k + 1 <= n * d
    <3> DEFINE a == k \div d
               b == k % d
    <3>1. a \in Nat /\ b \in Nat /\ b < d /\ k = d * a + b
      BY <1>3, Division
    <3>2. a \in 0 .. (n - 1)
      BY <2>2 DEF ClientThreads
    <3> HIDE DEF a, b, k, d, n
    <3>3. d * (a + 1) <= d * n
      BY <1>3, <3>1, <3>2
    <3>4. d * (a + 1) = d * a + d /\ d * n = n * d
      BY <1>3, <3>1
    <3> QED BY <1>3, <3>1, <3>3, <3>4
  <2>5. k + 1 <= carg.inst_size /\ k + 1 \in Nat /\ k + 1 # 0 /\ (k + 1) - 1 = k
    BY <1>1, <1>3
  <2>6. SplitSoFar'
    <3>1. set_count' \in Nat /\ set_count' <= carg'.inst_size /\ set_count' <= carg'.num_threads * PerThread'
      BY <1>1, <1>5, <1>8, <2>4, <2>5
    <3>2. thread_id' = IF set_count' = 0 THEN 0 ELSE (set_count' - 1) \div PerThread'
      <4>1. thread_id' = k \div PerThread' /\ set_count' # 0 /\ set_count' - 1 = k
        BY <1>1, <1>4, <1>5, <1>8, <2>5
      <4> QED BY <4>1
    <3> QED BY <1>1, <1>5, <2>3, <3>1, <3>2, Zenon DEF SplitSoFar
  <2> QED BY <1>1, <1>2, <1>8, <2>6 DEF SplitInv, EvenSplitsWork
<1> QED BY <1>6, <1>7, <1>8 DEF SplitLine

\* The threads start only when the trace was split evenly.
LEMMA CreateThreadsStep ==
  ASSUME SplitInv, CreateThreads PROVE SplitInv'
<1> DEFINE d == PerThread
           n == carg.num_threads
<1>1. cpc = "split" /\ set_count >= carg.inst_size /\ cpc' = "threads" /\ UNCHANGED << carg, inst >>
  BY DEF CreateThreads
<1>2. carg \in Client /\ SplitSoFar
  BY <1>1 DEF SplitInv
<1>3. d \in Nat /\ n \in Nat /\ carg.inst_size \in Nat /\ set_count = carg.inst_size
  BY <1>1, <1>2, PerThreadFacts DEF SplitSoFar
<1>4. PerThread' = PerThread /\ ClientThreads' = ClientThreads
  BY <1>1 DEF PerThread, ClientThreads
<1>5. ThreadsInv'
  <2>1. tpc' = [i \in ClientThreads |-> "start"] /\ sent' = [i \in ClientThreads |-> 0]
    BY DEF CreateThreads
  <2> QED BY <1>1, <1>4, <2>1 DEF ThreadsInv
<1>6. SplitEvenly
  <2>1. inst \in [ClientThreads -> Seq(Nat)]
    BY <1>2 DEF SplitSoFar
  <2>2. CASE d = 0
    <3>1. carg.inst_size = 0 /\ n * d = 0
      BY <1>2, <1>3, <2>2 DEF SplitSoFar
    <3>2. \A i \in ClientThreads : Len(inst[i]) = 0
      BY <1>2, <2>2 DEF SplitSoFar
    <3>3. 1 .. d = {}
      BY <2>2
    <3> QED BY <2>1, <2>2, <3>1, <3>2, <3>3 DEF SplitEvenly
  <2>3. CASE d # 0
    <3>1. carg.inst_size <= n * d /\ Dealt(carg.inst_size, d)
      BY <1>2, <1>3, <2>3 DEF SplitSoFar
    <3>2. n # 0 /\ carg.inst_size = n * d + (carg.inst_size % n) /\ (carg.inst_size % n) \in Nat
      BY <1>2, <2>3, PerThreadFacts
    <3>3. carg.inst_size = n * d
      <4> HIDE DEF n, d
      <4> QED BY <1>3, <3>1, <3>2
    <3>4. \A i \in ClientThreads : /\ Len(inst[i]) = d
                                   /\ \A j \in 1 .. d : inst[i][j] = i * d + (j - 1)
      BY <1>2, <1>3, <2>3, <3>1, <3>3, DealtAll, Zenon
    <3> QED BY <2>1, <3>3, <3>4, Zenon DEF SplitEvenly
  <2> QED BY <2>2, <2>3
<1>7. SplitEvenly'
  BY <1>1, <1>4, <1>6, Zenon DEF SplitEvenly
<1> QED BY <1>1, <1>2, <1>5, <1>7 DEF SplitInv, EvenSplitsWork

LEMMA SplitNext ==
  ASSUME SplitInv, [Next]_vars PROVE SplitInv'
<1>1. CASE UNCHANGED << carg, cpc, set_count, thread_id, inst, tpc, sent >>
  <2>1. PerThread' = PerThread /\ ClientThreads' = ClientThreads
    BY <1>1 DEF PerThread, ClientThreads
  <2>2. (SplitSoFar => SplitSoFar') /\ (SplitEvenly => SplitEvenly')
    BY <1>1, <2>1, Zenon DEF SplitSoFar, SplitEvenly, Dealt
  <2>3. ThreadsInv => ThreadsInv'
    BY <1>1, <2>1, Zenon DEF ThreadsInv
  <2> QED BY <1>1, <2>2, <2>3 DEF SplitInv, EvenSplitsWork
<1>2. ASSUME NEW o \in DOMAIN ClientValues, NEW n \in ClientValues[o], ClientOption(o, n)
      PROVE  SplitInv'
  <2>1. o \in {"k", "v", "b", "t", "n"} /\ n \in Nat
    BY LaunchAssumption
  <2>2. /\ carg' = WithOption(o, n) /\ cpc = "getopt" /\ cpc' \in {"aborted", "getopt"}
        /\ UNCHANGED << set_count, thread_id >>
    BY <1>2 DEF ClientOption
  <2>3. carg' \in Client
    BY <2>1, <2>2, OptionFacts DEF SplitInv
  <2> QED BY <2>2, <2>3 DEF SplitInv, EvenSplitsWork
<1>3. CASE ClientStart
  <2>1. /\ cpc = "getopt" /\ cpc' = "split" /\ UNCHANGED << carg, set_count, thread_id >>
        /\ inst' = [i \in ClientThreads |-> << >>]
    BY <1>3 DEF ClientStart
  <2>2. PerThread' = PerThread /\ ClientThreads' = ClientThreads
    BY <2>1 DEF PerThread, ClientThreads
  <2>3. set_count = 0 /\ thread_id = 0 /\ carg \in Client
    BY <2>1 DEF SplitInv
  <2>4. PerThread \in Nat /\ carg.num_threads \in Nat /\ carg.inst_size \in Nat
    BY <2>3, PerThreadFacts
  <2>5. (\A i \in ClientThreads : inst[i] = << >>)'
    BY <2>1, <2>2
  <2>6. inst' \in [ClientThreads' -> Seq(Nat)]
    BY <2>1, <2>2
  <2>7. PerThread # 0 => Dealt(set_count, PerThread)'
    <3> SUFFICES ASSUME PerThread # 0 PROVE Dealt(set_count, PerThread)'
      OBVIOUS
    <3>1. PICK d \in Nat \ {0} : d = PerThread
      BY <2>4
    <3>2. Dealt(0, d)'
      BY <2>5, DealtNoneNext, Zenon
    <3>3. set_count' = 0 /\ PerThread' = d
      BY <2>1, <2>2, <2>3, <3>1
    <3> QED BY <3>2, <3>3, Zenon DEF Dealt
  <2>8. 0 <= carg.num_threads * PerThread
    BY <2>4
  <2>9. SplitSoFar'
    BY <2>1, <2>2, <2>3, <2>4, <2>5, <2>6, <2>7, <2>8 DEF SplitSoFar
  <2> QED BY <2>1, <2>3, <2>9 DEF SplitInv, EvenSplitsWork
<1>4. CASE SplitFaults
  <2>1. /\ cpc = "split" /\ set_count < carg.inst_size /\ PerThread = 0 /\ cpc' = "crashed"
        /\ carg' = carg
    BY <1>4 DEF SplitFaults
  <2>2. carg \in Client /\ set_count \in Nat
    BY <2>1 DEF SplitInv, SplitSoFar
  <2>3. carg.num_threads # 0 => carg.inst_size = carg.num_threads * 0 + (carg.inst_size % carg.num_threads)
    BY <2>1, <2>2, PerThreadFacts
  <2>4. carg.num_threads = 0 \/ carg.inst_size % carg.num_threads # 0
    <3>1. carg.num_threads \in Nat /\ carg.inst_size \in Nat /\ carg.inst_size # 0
      BY <2>1, <2>2, PerThreadFacts
    <3> QED BY <2>3, <3>1
  <2> QED BY <2>1, <2>2, <2>4 DEF SplitInv, EvenSplitsWork
<1>5. ASSUME NEW i \in ClientThreads,
             Arrive(i) \/ PassBarrier(i) \/ Connect(i) \/ Request(i) \/ Finish(i)
      PROVE  SplitInv'
  <2>1. cpc = "threads" /\ UNCHANGED << carg, set_count, thread_id, inst >>
    BY <1>5 DEF Arrive, PassBarrier, Connect, Request, Finish, At
  <2>2. PerThread' = PerThread /\ ClientThreads' = ClientThreads
    BY <2>1 DEF PerThread, ClientThreads
  <2>3. carg \in Client /\ SplitEvenly /\ ThreadsInv
    BY <2>1 DEF SplitInv
  <2>4. SplitEvenly'
    BY <2>1, <2>2, <2>3, Zenon DEF SplitEvenly
  <2>5. cpc' \in {"threads", "exited", "killed"}
    BY <1>5, <2>1 DEF Arrive, PassBarrier, Connect, Request, Finish
  <2>6. \/ \E to \in {"barrier", "connect", "send"} :
             tpc' = [tpc EXCEPT ![i] = to] /\ sent' \in {sent, [sent EXCEPT ![i] = @ + 1]}
        \/ tpc' = [tpc EXCEPT ![i] = "over"] /\ sent' = sent /\ sent[i] = PerThread
    BY <1>5 DEF Arrive, PassBarrier, Connect, Request, Finish, At
  <2>7. tpc[i] # "over"
    BY <1>5 DEF Arrive, PassBarrier, Connect, Request, Finish, At
  <2>8. ThreadsInv'
    <3>1. CASE \E to \in {"barrier", "connect", "send"} :
                 tpc' = [tpc EXCEPT ![i] = to] /\ sent' \in {sent, [sent EXCEPT ![i] = @ + 1]}
      BY <2>2, <2>3, <2>5, <3>1 DEF ThreadsInv
    <3>2. CASE tpc' = [tpc EXCEPT ![i] = "over"] /\ sent' = sent /\ sent[i] = PerThread
      BY <2>2, <2>3, <2>5, <3>2 DEF ThreadsInv
    <3> QED BY <2>6, <3>1, <3>2
  <2> QED BY <2>1, <2>3, <2>4, <2>5, <2>8 DEF SplitInv, EvenSplitsWork
<1>6. CASE JoinThreads
  <2>1. /\ cpc = "threads" /\ cpc' = "done" /\ UNCHANGED << carg, inst, tpc, sent >>
        /\ \A i \in ClientThreads : tpc[i] = "over"
    BY <1>6 DEF JoinThreads
  <2>2. PerThread' = PerThread /\ ClientThreads' = ClientThreads
    BY <2>1 DEF PerThread, ClientThreads
  <2>3. SplitEvenly' /\ ThreadsInv'
    BY <2>1, <2>2 DEF SplitInv, SplitEvenly, ThreadsInv
  <2> QED BY <2>1, <2>3 DEF SplitInv, EvenSplitsWork
<1>7. \/ UNCHANGED << carg, cpc, set_count, thread_id, inst, tpc, sent >>
      \/ \E o \in DOMAIN ClientValues : \E n \in ClientValues[o] : ClientOption(o, n)
      \/ ClientStart \/ SplitFaults \/ SplitLine \/ CreateThreads
      \/ \E i \in ClientThreads :
           Arrive(i) \/ PassBarrier(i) \/ Connect(i) \/ Request(i) \/ Finish(i)
      \/ JoinThreads
  BY DEF Next, vars, cvars, ServerOption, ServerGivesUp, ServerStart
<1> QED BY <1>1, <1>2, <1>3, <1>4, <1>5, <1>6, <1>7, SplitLineStep, CreateThreadsStep, Zenon

LEMMA SplitInvariant == Spec => []SplitInv
<1>1. Init => SplitInv
  BY LaunchAssumption DEF Init, SplitInv, Client, EvenSplitsWork
<1>2. SplitInv /\ [Next]_vars => SplitInv'
  BY SplitNext
<1> QED BY <1>1, <1>2, PTL DEF Spec

\* The client's file_to_memory divides by zero, or hands a line to a thread that is
\* not there, only when the threads do not divide the operations.
THEOREM EvenSplitsAreWorked == Spec => []EvenSplitsWork
<1>1. SplitInv => EvenSplitsWork
  BY DEF SplitInv
<1> QED BY <1>1, SplitInvariant, PTL

\* No other place of n threads with d lines each holds line l.
OnlyPlace(l, d, n, q, r) ==
  \A i \in 0 .. (n - 1) : \A j \in 1 .. d : i * d + (j - 1) = l => i = q /\ j = r

LEMMA OnePlace ==
  ASSUME NEW d \in Nat \ {0}, NEW n \in Nat, NEW l \in 0 .. (n * d - 1)
  PROVE  /\ l \div d \in 0 .. (n - 1) /\ (l % d) + 1 \in 1 .. d
         /\ (l \div d) * d + (((l % d) + 1) - 1) = l
         /\ OnlyPlace(l, d, n, l \div d, (l % d) + 1)
<1> DEFINE q == l \div d
           r == l % d
<1>1. n * d \in Nat /\ l \in Nat /\ l < n * d
  OBVIOUS
<1>2. q \in Nat /\ r \in Nat /\ r < d /\ l = d * q + r
  BY <1>1, Division
<1>3. ASSUME NEW i \in 0 .. (n - 1), NEW j \in 1 .. d, i * d + (j - 1) = l PROVE q = i
  <2> DEFINE s == j - 1
  <2>1. i \in Nat /\ s \in Nat /\ s < d /\ l = d * i + s
    BY <1>3
  <2> HIDE DEF s
  <2> QED BY <1>1, <2>1, Fit!QuotientIs
<1> HIDE DEF q, r
<1>4. q < n
  <2> SUFFICES ASSUME n <= q PROVE FALSE
    BY <1>2
  <2>1. d * n <= d * q
    BY <1>2
  <2> QED BY <1>1, <1>2, <2>1
<1>5. ASSUME NEW i \in 0 .. (n - 1), NEW j \in 1 .. d, i * d + (j - 1) = l PROVE j = r + 1
  BY <1>2, <1>3, <1>5
<1>6. q * d + ((r + 1) - 1) = l
  BY <1>2
<1>7. q \in 0 .. (n - 1) /\ r + 1 \in 1 .. d
  BY <1>2, <1>4
<1>8. OnlyPlace(l, d, n, q, r + 1)
  BY <1>3, <1>5 DEF OnlyPlace
<1> QED BY <1>6, <1>7, <1>8 DEF q, r

LEMMA LinesOnce ==
  ASSUME SplitInv PROVE EveryLineOnce
<1> SUFFICES ASSUME cpc = "done" PROVE EveryLineOnce
  BY DEF EveryLineOnce
<1> DEFINE d == PerThread
           n == carg.num_threads
           Places(l) == {p \in ClientThreads \X (1 .. carg.inst_size) :
                           p[2] <= sent[p[1]] /\ inst[p[1]][p[2]] = l}
<1>1. carg \in Client /\ SplitEvenly /\ ThreadsInv
  BY DEF SplitInv
<1>2. d \in Nat /\ n \in Nat /\ carg.inst_size = n * d /\ ClientThreads = 0 .. (n - 1)
  BY <1>1, PerThreadFacts DEF SplitEvenly, ClientThreads
<1>3. \A i \in ClientThreads : sent[i] = d
  BY <1>1 DEF ThreadsInv
<1>4. \A i \in ClientThreads : \A j \in 1 .. d : inst[i][j] = i * d + (j - 1)
  BY <1>1 DEF SplitEvenly
<1> HIDE DEF d, n
<1>5. ASSUME NEW i \in ClientThreads, NEW j \in 1 .. sent[i], NEW k \in 1 .. sent[i], j < k
      PROVE  inst[i][j] < inst[i][k]
  <2>1. inst[i][j] = i * d + (j - 1) /\ inst[i][k] = i * d + (k - 1)
    BY <1>3, <1>4, <1>5
  <2>2. i \in Int /\ j \in Int /\ k \in Int /\ i * d \in Int
    BY <1>2, <1>3, <1>5
  <2> QED BY <1>5, <2>1, <2>2
<1>6. ASSUME NEW l \in 0 .. (carg.inst_size - 1)
      PROVE  Cardinality(Places(l)) = 1
  <2>1. d # 0
    BY <1>2, <1>6
  <2>2. l \in 0 .. (n * d - 1)
    BY <1>2, <1>6
  <2> DEFINE q == l \div d
             r == (l % d) + 1
  <2>3. d \in Nat \ {0} /\ n \in Nat
    BY <1>2, <2>1
  <2>4. d <= n * d
    <3>1. n # 0
      BY <2>2, <2>3
    <3> QED BY <2>3, <3>1
  <2>5. q \in 0 .. (n - 1) /\ r \in 1 .. d /\ q * d + (r - 1) = l
    BY <2>2, <2>3, OnePlace, Zenon
  <2>6. OnlyPlace(l, d, n, q, r)
    BY <2>2, <2>3, OnePlace, Zenon
  <2> HIDE DEF q, r
  <2>7. << q, r >> \in Places(l)
    <3>1. r \in 1 .. carg.inst_size /\ r <= d
      BY <1>2, <2>4, <2>5
    <3>2. inst[q][r] = l /\ sent[q] = d
      BY <1>2, <1>3, <1>4, <2>5, Zenon
    <3> QED BY <1>2, <2>5, <3>1, <3>2
  <2>8. ASSUME NEW p \in Places(l) PROVE p = << q, r >>
    <3>1. PICK i \in ClientThreads, j \in 1 .. carg.inst_size : p = << i, j >>
      OBVIOUS
    <3>2. j <= sent[i] /\ inst[i][j] = l
      BY <3>1
    <3>3. j \in 1 .. d
      BY <1>2, <1>3, <3>1, <3>2
    <3>4. i * d + (j - 1) = l
      BY <1>4, <3>2, <3>3
    <3> QED BY <1>2, <2>6, <3>1, <3>3, <3>4, Zenon DEF OnlyPlace
  <2> HIDE DEF Places
  <2>9. Places(l) = {<< q, r >>}
    BY <2>7, <2>8, Zenon
  <2> QED BY <2>9, FS_Singleton, Zenon
<1> QED BY <1>5, <1>6 DEF EveryLineOnce

\* When the client's threads have all ended, every line that file_to_memory read was
\* sent by exactly one of them, and each sent its own in the order of the trace.
THEOREM EveryLineSentOnce == Spec => []EveryLineOnce
<1>1. SplitInv => EveryLineOnce
  BY LinesOnce
<1> QED BY <1>1, SplitInvariant, PTL

=============================================================================
