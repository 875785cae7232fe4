--------------------------- MODULE QueueInvariant ---------------------------
(***************************************************************************)
(* The inductive invariant of WorkQueues for clients that find the workers  *)
(* ready (Early = FALSE): who holds which mutex at which place of the code, *)
(* what a worker knows of its queue there, and how far quit has spread.     *)
(***************************************************************************)
EXTENDS WorkQueues

Holding == {"push", "signal", "unlock"}

\* A mutex is held by the thread whose place in the code says so, and by no other. The
\* responder goes on without the mutex where a client's quit has had it destroyed.
MutexOwners ==
  \A w \in Workers :
    /\ mutex[w] = "worker" <=> wpc[w] \in {"loop", "empty"}
    /\ mutex[w] = "responder" => rpc \in Holding /\ target = w
    /\ rpc \in Holding /\ target = w => mutex[w] \in {"responder", "destroyed"}
    /\ mutex[w] = "raw" <=> wpc[w] = "start"
    /\ mutex[w] = "destroyed" => wpc[w] = "done"
    /\ wpc[w] = "start" <=> w >= num

\* A request is passed only after every worker has started.
Started ==
  rpc # "idle" => num = NumThreads

\* What a worker knows: the job it reads is at the front until it pops it, and an
\* empty queue stays empty until it sleeps, or a signal is under way.
QueueViews ==
  \A w \in Workers :
    /\ wpc[w] \in {"dispatch", "relock"} => queue[w] # << >> /\ Head(queue[w]) = cur_job[w]
    /\ wpc[w] = "relock" => cur_job[w].kind = "typed"
    /\ wpc[w] = "empty" => queue[w] = << >>
    /\ wpc[w] = "wait" /\ queue[w] # << >> => rpc = "signal" /\ target = w

HasQuit(w) == \E i \in DOMAIN queue[w] : queue[w][i] = QuitJob

\* The server's quit has ended worker w.
TookQuit(w) == wpc[w] \in {"quit", "done"} /\ cur_job[w] = QuitJob

\* message_pass has not come to worker w with quit yet.
NotYetQuit(w) ==
  \/ rpc \in {"lock", "push"} /\ w >= target
  \/ rpc \in {"signal", "unlock"} /\ w > target

\* The server's quit is the last job of a queue, comes when every client has gone, and
\* reaches the workers one after the other.
QuitOrder ==
  /\ \A w \in Workers : \A i \in DOMAIN queue[w] :
       queue[w][i] = QuitJob => i = Len(queue[w])
  /\ rpc # "idle" /\ new_job = QuitJob =>
       \A w \in Workers : NotYetQuit(w) => ~HasQuit(w) /\ ~TookQuit(w)
  /\ (rpc # "idle" /\ new_job = QuitJob)
       \/ (\E w \in Workers : HasQuit(w) \/ TookQuit(w))
     => \A c \in Clients : client[c] = "gone"
  /\ rpc # "idle" => new_job \in Jobs
  /\ rpc # "idle" /\ new_job # QuitJob => client[new_job.client] # "gone"

\* exit_count counts the clients that have gone.
ExitsCounted ==
  exit_count = Cardinality({c \in Clients : client[c] = "gone"})

QInv ==
  /\ TypeOK
  /\ MutexOwners
  /\ Started
  /\ QueueViews
  /\ QuitOrder
  /\ ExitsCounted
  /\ NoJobAfterQuit
  /\ OneJobPerWaitingClient

=============================================================================
