------------------------------- MODULE Server -------------------------------
(***************************************************************************)
(* The whole server at work: the select loop of the front end (main in      *)
(* App/App.cpp), the client threads of client_load and client_run on the    *)
(* other end of its sockets, and the enclave's threads (module WorkQueues). *)
(* The HotCall between front end and enclave is the procedure call that     *)
(* module HotCall implements.                                               *)
(***************************************************************************)
EXTENDS Integers, Sequences, FiniteSets

CONSTANTS Starts,        (* ways to start client_load and client_run: pairs  *)
                         (* of the threads of the one and of the other       *)
          NumThreads,    (* worker threads of the server                     *)
          Requests,      (* requests in the part of the trace of a thread    *)
          MaxBroken      (* at most so many connections break                *)

Clients == UNION { s[1] \cup s[2] : s \in Starts }

ASSUME ServerAssumption ==
  /\ \A s \in Starts : s[1] \cap s[2] = {}
  /\ IsFiniteSet(Clients)
  /\ Requests \in Nat
  /\ MaxBroken \in Nat

\* The variables of WorkQueues.
VARIABLES num, queue, mutex, wpc, cur_job, rpc, new_job, target, exit_count, client

\* The client side.
VARIABLES load, run, (* the threads of client_load and of client_run         *)
          todo,      (* requests a client has not sent yet                   *)
          conn,      (* its connection: off, backlog, open, closed by the    *)
                     (* server, or failed: closed after a failing read       *)
          fd,        (* the server's descriptor of it, 0 if none             *)
          sent,      (* the message the server has not read, if any          *)
          broken     (* the clients whose connection has broken              *)

\* The front end.
VARIABLES mpc,       (* select, scan, call, join, ended; exited is exit(0)   *)
          master,    (* the descriptors to select on                         *)
          readfds,   (* the ready ones the scan has not come to              *)
          cur,       (* the client whose request is being handled            *)
          buf,       (* the kind of message in ecallParams.buf               *)
          num_connection, num_clients, run_phase,
          times      (* the time stamps start1, mid1, end1, oldest first     *)

Enclave == INSTANCE WorkQueues WITH Kinds <- {"typed"}, Early <- TRUE

evars == << num, queue, mutex, wpc, cur_job, rpc, new_job, target, exit_count, client >>
cvars == << load, run, todo, conn, fd, sent, broken >>
mvars == << mpc, master, readfds, cur, buf, num_connection, num_clients, run_phase, times >>
vars  == << num, queue, mutex, wpc, cur_job, rpc, new_job, target, exit_count, client,
            load, run, todo, conn, fd, sent, broken, mpc, master, readfds, cur, buf, num_connection,
            num_clients, run_phase, times >>

server_sockfd == 0   \* opened before any connection, so the lowest descriptor

NoClient == "none"

Init ==
  /\ Enclave!Init
  /\ \E s \in Starts : load = s[1] /\ run = s[2]
  /\ todo = [c \in Clients |-> Requests]
  /\ conn = [c \in Clients |-> "off"]
  /\ fd = [c \in Clients |-> 0]
  /\ sent = [c \in Clients |-> ""]
  /\ broken = {}
  /\ mpc = "select"
  /\ master = {server_sockfd}
  /\ readfds = {}
  /\ cur = NoClient
  /\ buf = ""
  /\ num_connection = 0 /\ num_clients = 0 /\ run_phase = FALSE
  /\ times = << >>

-----------------------------------------------------------------------------
(* A client thread: client_worker of client_load.c and client_run.c. *)

Last(c) == IF c \in load THEN "LOADDONE" ELSE "EXIT"

\* The last message of c has been read and answered, and c is through.
Over(c) == todo[c] < 0 /\ sent[c] = "" /\ client[c] # "waiting"

\* The workers are up by the time somebody starts a client, and client_run is
\* started when client_load has ended. The barrier is before connect: some threads
\* may be through their trace before others are connected.
Connect(c) ==
  /\ c \in load \cup run
  /\ conn[c] = "off"
  /\ mpc # "exited"
  /\ num = NumThreads
  /\ c \in run => \A l \in load : Over(l)
  /\ conn' = [conn EXCEPT ![c] = "backlog"]
  /\ UNCHANGED << evars, load, run, todo, fd, sent, broken, mvars >>

\* Write the next request of the trace, or after the trace the last message. The
\* next one is written when the reply to this one has been read.
Send(c) ==
  /\ conn[c] \in {"backlog", "open"} /\ c \notin broken
  /\ sent[c] = "" /\ client[c] = "ready" /\ todo[c] >= 0
  /\ sent' = [sent EXCEPT ![c] = IF todo[c] > 0 THEN "request" ELSE Last(c)]
  /\ todo' = [todo EXCEPT ![c] = @ - 1]
  /\ UNCHANGED << evars, load, run, conn, fd, broken, mvars >>

\* The connection breaks, whatever c is waiting for. A reply to c is still written, to
\* nobody.
Break(c) ==
  /\ Cardinality(broken) < MaxBroken
  /\ conn[c] \in {"backlog", "open"}
  /\ broken' = broken \cup {c}
  /\ UNCHANGED << evars, load, run, todo, conn, fd, sent, mvars >>

-----------------------------------------------------------------------------
(* The front end. *)

Ready ==
  { server_sockfd : c \in { d \in Clients : conn[d] = "backlog" } }
    \cup { fd[c] : c \in { d \in Clients : conn[d] = "open" /\ (sent[d] # "" \/ d \in broken) } }

\* select fails when the set has a descriptor that was closed.
Open == {server_sockfd} \cup { fd[c] : c \in { d \in Clients : conn[d] = "open" } }

SelectFails ==
  /\ mpc = "select"
  /\ ~(master \subseteq Open)
  /\ mpc' = "exited"
  /\ UNCHANGED << evars, cvars, master, readfds, cur, buf, num_connection, num_clients,
                  run_phase, times >>

Select ==
  /\ mpc = "select"
  /\ master \subseteq Open
  /\ Ready \cap master # {}
  /\ readfds' = Ready \cap master
  /\ mpc' = "scan"
  /\ UNCHANGED << evars, cvars, master, cur, buf, num_connection, num_clients, run_phase, times >>

\* The loop over the descriptors comes to i next.
ScansAt(i) == mpc = "scan" /\ i \in readfds /\ \A f \in readfds : i <= f

Stamp(t, s) == Append(SelectSeq(s, LAMBDA x : x # t), t)

\* Mutant: as many connections as before count as more.
MoreClients_AsMany == num_connection + 1 >= num_clients

\* num_connection > num_clients, after the increment.
MoreClients == num_connection + 1 > num_clients

RunStarts == run_phase /\ num_connection = 0

\* The lowest free descriptor is the new connection's.
Accept(c) ==
  /\ ScansAt(server_sockfd)
  /\ conn[c] = "backlog"
  /\ LET low == CHOOSE f \in 1 .. Cardinality(Clients) :
                 f \notin Open /\ \A g \in 1 .. (f - 1) : g \in Open
         mid == IF RunStarts THEN Stamp("mid1", times) ELSE times
     IN /\ fd' = [fd EXCEPT ![c] = low]
        /\ master' = master \cup {low}
        /\ times' = IF MoreClients THEN Stamp("start1", mid) ELSE mid
  /\ num_connection' = num_connection + 1
  /\ num_clients' = IF MoreClients THEN num_connection + 1 ELSE num_clients
  /\ readfds' = readfds \ {server_sockfd}
  /\ conn' = [conn EXCEPT ![c] = "open"]
  /\ UNCHANGED << evars, load, run, todo, sent, broken, mpc, cur, buf, run_phase >>

\* read finds the end of file: the connection is closed, and left in master; the scan
\* ends.
ReadFails(c) ==
  /\ conn[c] = "open" /\ ScansAt(fd[c])
  /\ sent[c] = "" /\ c \in broken
  /\ buf' = ""
  /\ conn' = [conn EXCEPT ![c] = "failed"]
  /\ readfds' = {}
  /\ UNCHANGED << evars, load, run, todo, fd, sent, broken, mpc, master, cur, num_connection, num_clients, run_phase, times >>

\* A message is read and handed to message_pass, which HotCall_requestCall waits for.
Read(c) ==
  /\ conn[c] = "open" /\ ScansAt(fd[c])
  /\ sent[c] # ""
  /\ buf' = sent[c]
  /\ sent' = [sent EXCEPT ![c] = ""]
  /\ cur' = c
  /\ mpc' = "call"
  /\ readfds' = readfds \ {fd[c]}
  /\ CASE sent[c] = "EXIT" -> Enclave!PassExit(c, num_clients)
       [] sent[c] = "LOADDONE" -> Enclave!PassLoadDone(c)
       [] OTHER -> \E w \in Enclave!Workers :
            Enclave!PassRequest(c, [kind |-> "typed", client |-> c, worker |-> w])
  /\ UNCHANGED << load, run, todo, conn, fd, broken, master, num_connection, num_clients, run_phase, times >>

\* Mutant: the descriptor of a client that has loaded stays in master.
Keep_Loaded == IF buf = "LOADDONE" THEN master ELSE master \ {fd[cur]}

\* FD_CLR
Keep == master \ {fd[cur]}

Left == num_connection - 1

\* The call has returned: a client that said LOADDONE or EXIT is disconnected, and
\* EXIT ends the scan.
Called ==
  /\ mpc = "call" /\ rpc = "idle"
  /\ mpc' = "scan"
  /\ cur' = NoClient
  /\ IF buf = "request"
       THEN UNCHANGED << conn, master, num_connection, run_phase, readfds >>
       ELSE /\ conn' = [conn EXCEPT ![cur] = "closed"]
            /\ master' = Keep
            /\ num_connection' = Left
            /\ run_phase' = (run_phase \/ buf = "LOADDONE")
            /\ readfds' = IF buf = "EXIT" THEN {} ELSE readfds
  /\ UNCHANGED << evars, load, run, todo, fd, sent, broken, buf, num_clients, times >>

\* The scan is over; the loop ends after an EXIT that left no connection.
EndScan ==
  /\ mpc = "scan" /\ readfds = {}
  /\ mpc' = IF buf = "EXIT" /\ num_connection = 0 THEN "join" ELSE "select"
  /\ UNCHANGED << evars, cvars, master, readfds, cur, buf, num_connection, num_clients,
                  run_phase, times >>

\* StopResponder ends the responder, and the worker threads are joined.
Join ==
  /\ mpc = "join"
  /\ \A w \in Enclave!Workers : wpc[w] \in {"done", "dead"}
  /\ mpc' = "ended"
  /\ times' = Stamp("end1", times)
  /\ UNCHANGED << evars, cvars, master, readfds, cur, buf, num_connection, num_clients, run_phase >>

-----------------------------------------------------------------------------
EnclaveStep ==
  /\ mpc # "exited"
  /\ \/ \E w \in Enclave!Workers : Enclave!WorkerStep(w)
     \/ Enclave!ResponderStep
  /\ UNCHANGED << cvars, mvars >>

MainStep ==
  \/ SelectFails
  \/ Select
  \/ \E c \in Clients : Accept(c) \/ ReadFails(c) \/ Read(c)
  \/ Called
  \/ EndScan
  \/ Join

ClientStep(c) == Connect(c) \/ Send(c)

Next ==
  \/ EnclaveStep
  \/ MainStep
  \/ \E c \in Clients : ClientStep(c) \/ Break(c)

Spec == Init /\ [][Next]_vars

\* Every thread, of the server and of the clients, is scheduled again and again.
FairSpec ==
  /\ Spec
  /\ \A w \in Enclave!Workers : WF_vars(Enclave!WorkerStep(w) /\ EnclaveStep)
  /\ WF_vars(Enclave!ResponderStep /\ EnclaveStep)
  /\ WF_vars(MainStep)
  /\ \A c \in Clients : WF_vars(ClientStep(c))

-----------------------------------------------------------------------------
(* Properties. *)

\* quit is on its way to the workers, or has ended one.
QuitTold ==
  \/ new_job = Enclave!QuitJob
  \/ \E w \in Enclave!Workers :
       \/ \E i \in DOMAIN queue[w] : queue[w][i] = Enclave!QuitJob
       \/ wpc[w] \in {"quit", "done"}

RunGone == \A c \in run : client[c] = "gone"

AllOpen(S) == \A c \in S : conn[c] = "open"


\* The one case in which they are told too early: num_clients, the most connections
\* there were at once, is less than the number of run clients.
QuitInTime == QuitTold => RunGone \/ num_clients < Cardinality(run)

\* When the server goes to select, master holds the open descriptors and those that a
\* failing read has closed, and num_connection counts them all: a client whose
\* connection broke is never counted down.
ConnectionsCounted ==
  mpc = "select" =>
    /\ master = Open \cup { fd[c] : c \in { d \in Clients : conn[d] = "failed" } }
    /\ num_connection = Cardinality(master) - 1

\* The times written to result.txt are those of the phases: once all clients that load
\* have been connected together, and no more of them run, start1 is taken when loading
\* begins, mid1 when the run begins, and end1 last. (More connections at once in the run
\* take start1 again, after mid1, and the time for loading is negative.)
TimesInOrder ==
  [](AllOpen(load) /\ Cardinality(run) <= Cardinality(load) =>
       [](mpc = "ended" => times = << "start1", "mid1", "end1" >>))

\* The server ends: when all run clients have been connected together, and no more
\* clients loaded, every one is served, the workers get quit and the joins return. Only
\* a broken connection makes select fail and the server exit in midstream, and none
\* leaves it hanging.
ServerEnds ==
  AllOpen(run) /\ Cardinality(load) <= Cardinality(run) ~>
    mpc = "ended" \/ (mpc = "exited" /\ broken # {})

\* "Client request is END": out of its loop the server joins its threads and ends. The
\* code does not see to it (run server_fewer).
ClientRequestIsEnd == mpc = "join" ~> mpc = "ended"

=============================================================================
