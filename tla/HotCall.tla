------------------------------ MODULE HotCall -------------------------------
(***************************************************************************)
(* The call from the untrusted front end into the enclave without an        *)
(* enclave transition (Common/hot_calls.h): requesters put a call into one  *)
(* shared record, the responder thread polls it. A spin lock (spinlock.c)   *)
(* guards the record; a critical section is one step, from the step that    *)
(* takes the lock to the one that reads, writes and unlocks.                *)
(***************************************************************************)
EXTENDS Integers

CONSTANTS Requesters,   (* threads that call: the front end has one          *)
          Responder,    (* the thread in HotCall_waitForCall                 *)
          CallIDs,      (* callID of a request                               *)
          NumEntries,   (* callTable->numEntries                             *)
          Data,         (* contents of the parameter block of a call         *)
          MaxRetries,   (* MAX_RETRIES                                       *)
          None

ASSUME HotCallAssumption ==
  /\ Responder \notin Requesters
  /\ CallIDs \subseteq Nat
  /\ NumEntries \in Nat
  /\ MaxRetries \in Nat
  /\ None \notin Data

Threads == Requesters \cup {Responder}

VARIABLES spinlock,     (* 0 or 1                                            *)
          lk,           (* each thread: "out", "spin"ning, or "in" the lock  *)
          at,           (* which critical section a thread is at             *)
          numRetries,   (* of the current request                            *)
          busy, isDone, runFunction, keepPolling,   (* fields of the HotCall *)
          hot,          (* its callID and data: whose parameters to use      *)
          local,        (* the responder's copies of these two               *)
          params,       (* the parameter block of every requester            *)
          (* observations *)
          effect,       (* what the callback ran with in the latest call     *)
          refused       (* the latest call returned -1                       *)

lvars == << spinlock, lk >>
hvars == << busy, isDone, runFunction, keepPolling, hot >>
vars  == << spinlock, lk, at, numRetries, busy, isDone, runFunction, keepPolling,
            hot, local, params, effect, refused >>

\* HOTCALL_INITIALIZER: no call has been made, so hot and local name no requester.
Init ==
  /\ spinlock = 0
  /\ lk = [t \in Threads |-> "out"]
  /\ at = [t \in Threads |-> IF t = Responder THEN "poll" ELSE "idle"]
  /\ numRetries = [r \in Requesters |-> 0]
  /\ busy = FALSE /\ isDone = FALSE /\ runFunction = FALSE /\ keepPolling = TRUE
  /\ hot = << 0, None >>
  /\ local = << 0, None >>
  /\ params \in [Requesters -> CallIDs \X Data]
  /\ effect = [r \in Requesters |-> None]
  /\ refused = [r \in Requesters |-> FALSE]

-----------------------------------------------------------------------------
(* sgx_spin_lock and sgx_spin_unlock. *)

\* The thread stands before a critical section.
Wants(t) == at[t] \in {"request", "wait", "stop", "poll", "done"}

\* Mutant: the exchange and the test of its result are not one instruction.
Exchange_NotAtomic(t) ==
  /\ Wants(t) /\ lk[t] = "out"
  /\ \/ spinlock' = 1 /\ lk' = [lk EXCEPT ![t] = "in"]
     \/ spinlock' = spinlock /\ lk' = [lk EXCEPT ![t] = "spin"]
  /\ UNCHANGED << at, numRetries, hvars, local, params, effect, refused >>

\* lock xchg: the lock is 1 afterwards, and taken if it was 0.
Exchange(t) ==
  /\ Wants(t) /\ lk[t] = "out"
  /\ spinlock' = 1
  /\ lk' = [lk EXCEPT ![t] = IF spinlock = 0 THEN "in" ELSE "spin"]
  /\ UNCHANGED << at, numRetries, hvars, local, params, effect, refused >>

\* while (*lock) is left when the lock is seen free.
Spin(t) ==
  /\ lk[t] = "spin" /\ spinlock = 0
  /\ lk' = [lk EXCEPT ![t] = "out"]
  /\ UNCHANGED << spinlock, at, numRetries, hvars, local, params, effect, refused >>

\* The end of a critical section, which leads to the section or place "next".
Unlock(t, next) ==
  /\ spinlock' = 0
  /\ lk' = [lk EXCEPT ![t] = "out"]
  /\ at' = [at EXCEPT ![t] = next]

In(t, section) == at[t] = section /\ lk[t] = "in"

-----------------------------------------------------------------------------
(* A requester: HotCall_requestCall and StopResponder. *)

\* The caller fills its parameter block and calls.
Call(r, id, d) ==
  /\ at[r] = "idle"
  /\ params' = [params EXCEPT ![r] = << id, d >>]
  /\ effect' = [effect EXCEPT ![r] = None]
  /\ refused' = [refused EXCEPT ![r] = FALSE]
  /\ numRetries' = [numRetries EXCEPT ![r] = 0]
  /\ at' = [at EXCEPT ![r] = "request"]
  /\ UNCHANGED << lvars, hvars, local >>

\* Mutant: isDone keeps the value of the call before.
Request_StaleDone(r) ==
  /\ In(r, "request") /\ ~busy
  /\ busy' = TRUE /\ runFunction' = TRUE
  /\ hot' = << params[r][1], r >>
  /\ Unlock(r, "wait")
  /\ UNCHANGED << numRetries, isDone, keepPolling, local, params, effect, refused >>

\* The record is free: take it.
Request(r) ==
  /\ In(r, "request") /\ ~busy
  /\ busy' = TRUE /\ isDone' = FALSE /\ runFunction' = TRUE
  /\ hot' = << params[r][1], r >>
  /\ Unlock(r, "wait")
  /\ UNCHANGED << numRetries, keepPolling, local, params, effect, refused >>

\* numRetries > MAX_RETRIES after the increment of the count n.
GivesUp(n) == n + 1 > MaxRetries

\* The record is busy: try again, or give up with -1.
Retry(r) ==
  /\ In(r, "request") /\ busy
  /\ numRetries' = [numRetries EXCEPT ![r] = @ + 1]
  /\ IF GivesUp(numRetries[r])
       THEN Unlock(r, "idle") /\ refused' = [refused EXCEPT ![r] = TRUE]
       ELSE Unlock(r, "request") /\ UNCHANGED refused
  /\ UNCHANGED << hvars, local, params, effect >>

\* Mutant: the record is released by whoever waits, done or not.
Wait_Impatient(r) ==
  /\ In(r, "wait")
  /\ busy' = FALSE
  /\ Unlock(r, "idle")
  /\ UNCHANGED << numRetries, isDone, runFunction, keepPolling, hot, local, params, effect, refused >>

\* Mutant: a call that returns leaves the record busy.
Wait_KeepsBusy(r) ==
  /\ In(r, "wait")
  /\ IF isDone THEN Unlock(r, "idle") ELSE Unlock(r, "wait")
  /\ UNCHANGED << numRetries, hvars, local, params, effect, refused >>

\* Wait for isDone; the call then returns numRetries.
Wait(r) ==
  /\ In(r, "wait")
  /\ IF isDone THEN busy' = FALSE /\ Unlock(r, "idle")
               ELSE UNCHANGED busy /\ Unlock(r, "wait")
  /\ UNCHANGED << numRetries, isDone, runFunction, keepPolling, hot, local, params, effect, refused >>

CallStop(r) ==
  /\ at[r] = "idle"
  /\ at' = [at EXCEPT ![r] = "stop"]
  /\ UNCHANGED << lvars, numRetries, hvars, local, params, effect, refused >>

\* Mutant: StopResponder returns with the lock held.
Stop_NoUnlock(r) ==
  /\ In(r, "stop")
  /\ keepPolling' = FALSE
  /\ at' = [at EXCEPT ![r] = "stopped"]
  /\ UNCHANGED << lvars, numRetries, busy, isDone, runFunction, hot, local, params, effect, refused >>

\* StopResponder; the caller makes no call after it.
Stop(r) ==
  /\ In(r, "stop")
  /\ keepPolling' = FALSE
  /\ Unlock(r, "stopped")
  /\ UNCHANGED << numRetries, busy, isDone, runFunction, hot, local, params, effect, refused >>

-----------------------------------------------------------------------------
(* The responder: HotCall_waitForCall. *)

\* Leave when told to, copy a call that waits, or poll again.
Poll ==
  /\ In(Responder, "poll")
  /\ IF ~keepPolling
       THEN Unlock(Responder, "ended") /\ UNCHANGED local
       ELSE IF runFunction
              THEN Unlock(Responder, "call") /\ local' = hot
              ELSE Unlock(Responder, "poll") /\ UNCHANGED local
  /\ UNCHANGED << numRetries, hvars, params, effect, refused >>

\* The callback, with no lock held: it reads the caller's parameter block.
Callback ==
  /\ at[Responder] = "call"
  /\ effect' = IF local[1] < NumEntries
                 THEN [effect EXCEPT ![local[2]] = params[local[2]][2]] ELSE effect
  /\ at' = [at EXCEPT ![Responder] = "done"]
  /\ UNCHANGED << lvars, numRetries, hvars, local, params, refused >>

\* Mutant: runFunction is left set.
Done_RunsAgain ==
  /\ In(Responder, "done")
  /\ isDone' = TRUE
  /\ Unlock(Responder, "poll")
  /\ UNCHANGED << numRetries, busy, runFunction, keepPolling, hot, local, params, effect, refused >>

\* Mutant: nobody is told that the call is done.
Done_Untold ==
  /\ In(Responder, "done")
  /\ runFunction' = FALSE
  /\ Unlock(Responder, "poll")
  /\ UNCHANGED << numRetries, busy, isDone, keepPolling, hot, local, params, effect, refused >>

Done ==
  /\ In(Responder, "done")
  /\ isDone' = TRUE /\ runFunction' = FALSE
  /\ Unlock(Responder, "poll")
  /\ UNCHANGED << numRetries, busy, keepPolling, hot, local, params, effect, refused >>

-----------------------------------------------------------------------------
\* The steps a thread takes by itself, once it has called.
Step(t) ==
  \/ Exchange(t)
  \/ Spin(t)
  \/ t = Responder /\ (Poll \/ Callback \/ Done)
  \/ t \in Requesters /\ (Request(t) \/ Retry(t) \/ Wait(t) \/ Stop(t))

Next ==
  \/ \E t \in Threads : Step(t)
  \/ \E r \in Requesters :
       CallStop(r) \/ \E id \in CallIDs, d \in Data : Call(r, id, d)

Spec == Init /\ [][Next]_vars

(***************************************************************************)
(* The threads run, and the spin lock starves none of them for ever: one    *)
(* that keeps finding the lock free at times takes it at last. The lock has *)
(* no queue that guarantees it; the pauses with the lock free between two   *)
(* polls make it so in practice.                                            *)
(***************************************************************************)
FairSpec ==
  /\ Spec
  /\ \A t \in Threads :
       /\ WF_vars(Step(t))
       /\ SF_vars(Spin(t))
       /\ SF_vars(Exchange(t) /\ spinlock = 0)

-----------------------------------------------------------------------------
(* Properties. *)

TypeOK ==
  /\ spinlock \in {0, 1}
  /\ lk \in [Threads -> {"out", "spin", "in"}]
  /\ at \in [Threads -> {"poll", "call", "done", "ended"}
                           \cup {"idle", "request", "wait", "stop", "stopped"}]
  /\ at[Responder] \in {"poll", "call", "done", "ended"}
  /\ \A r \in Requesters : at[r] \in {"idle", "request", "wait", "stop", "stopped"}
  /\ numRetries \in [Requesters -> 0 .. MaxRetries + 1]
  /\ busy \in BOOLEAN /\ isDone \in BOOLEAN
  /\ runFunction \in BOOLEAN /\ keepPolling \in BOOLEAN
  /\ hot \in (CallIDs \cup {0}) \X (Requesters \cup {None})
  /\ local \in (CallIDs \cup {0}) \X (Requesters \cup {None})
  /\ params \in [Requesters -> CallIDs \X Data]
  /\ effect \in [Requesters -> Data \cup {None}]
  /\ refused \in [Requesters -> BOOLEAN]

\* sgx_spin_lock keeps the threads apart: no two are between lock and unlock.
MutualExclusion ==
  \A s, t \in Threads : lk[s] = "in" /\ lk[t] = "in" => s = t

\* While the callback runs, without the lock, the thread whose parameter block it
\* reads is waiting in HotCall_requestCall: it cannot refill the block meanwhile.
CallerWaits ==
  at[Responder] \in {"call", "done"} =>
    local[2] \in Requesters /\ at[local[2]] = "wait"

\* A call returns -1 only while the record is taken by another thread's call. The
\* front end, the only requester of the server, ignores the result: it may.
RefusedOnlyWhenBusy ==
  [][\A r \in Requesters : refused'[r] /\ ~refused[r] =>
       \E q \in Requesters \ {r} : at[q] = "wait"]_vars

\* Where a requester is in its call: the callback ran when the responder left it.
phase == [r \in Requesters |->
  CASE at[r] = "request" -> "called"
    [] at[r] = "wait" -> IF isDone \/ at[Responder] = "done" THEN "ran" ELSE "called"
    [] OTHER -> "idle"]

Abstract == INSTANCE SyncCall WITH phase <- phase

\* A HotCall is a procedure call: the callback runs once per accepted call, with its
\* parameters, between call and return, and never for a refused one.
ImplementsSyncCall == Abstract!Spec

\* The flags of the record tell how far its one accepted call is: whose it is, and
\* whether the callback is still to run, runs or has run.
RecordTellsCall ==
  /\ busy <=> \E r \in Requesters : at[r] = "wait"
  /\ \A q, r \in Requesters : at[q] = "wait" /\ at[r] = "wait" => q = r
  /\ runFunction => busy
  /\ \A r \in Requesters :
       /\ at[r] = "wait" => hot = << params[r][1], r >> /\ (isDone <=> ~runFunction)
       /\ at[r] = "request" => numRetries[r] <= MaxRetries /\ effect[r] = None
       /\ at[r] = "wait" /\ ~isDone /\ at[Responder] # "done" => effect[r] = None
  /\ at[Responder] \in {"call", "done"} => runFunction /\ local = hot

\* A call returns, with the callback's result or refused, unless another thread has
\* stopped the responder: the front end, the only requester of the server, is safe.
CallsReturn ==
  \A r \in Requesters : at[r] \in {"request", "wait"} ~>
    at[r] = "idle" \/ \E q \in Requesters \ {r} : at[q] \in {"stop", "stopped"}

\* After StopResponder the responder thread ends, so that the join in main returns.
ResponderEnds ==
  \A r \in Requesters : at[r] = "stop" ~> at[Responder] = "ended"

=============================================================================
