--------------------------- MODULE HotCallProofs ----------------------------
(***************************************************************************)
(* The HotCall channel for any number of requesters, calls and parameters.  *)
(* The inductive invariant is: the types, who may be in the lock, and       *)
(* RecordTellsCall. The safety properties follow from it, and every step is *)
(* a step of a procedure call or leaves the procedure call as it is.        *)
(***************************************************************************)
EXTENDS HotCall, TLAPS

LockInv ==
  /\ \A t \in Threads : lk[t] = "in" => spinlock = 1
  /\ MutualExclusion

HInv == TypeOK /\ LockInv /\ RecordTellsCall

\* The responder is not one of its callers.
LEMMA ThreadNames ==
  /\ Responder \in Threads /\ Responder \notin Requesters
  /\ \A r \in Requesters : r \in Threads /\ r # Responder
  /\ MaxRetries \in Nat /\ NumEntries \in Nat
BY HotCallAssumption DEF Threads

\* The channel starts in the invariant.
LEMMA HInvInit == Init => HInv
<1> SUFFICES ASSUME Init PROVE HInv
  OBVIOUS
<1>2. \A r \in Requesters : at[r] = "idle"
  BY ThreadNames, Zenon DEF Init
<1>3. at[Responder] = "poll" /\ \A t \in Threads : lk[t] = "out"
  BY ThreadNames DEF Init
<1>1. TypeOK
  <2>1. at \in [Threads -> {"poll", "call", "done", "ended"}
                             \cup {"idle", "request", "wait", "stop", "stopped"}]
    BY DEF Init
  <2>2. << 0, None >> \in (CallIDs \cup {0}) \X (Requesters \cup {None})
    OBVIOUS
  <2>3. numRetries \in [Requesters -> 0 .. MaxRetries + 1]
    BY ThreadNames DEF Init
  <2>4. lk \in [Threads -> {"out", "spin", "in"}] /\ spinlock \in {0, 1}
    BY DEF Init
  <2>5. effect \in [Requesters -> Data \cup {None}] /\ refused \in [Requesters -> BOOLEAN]
    BY DEF Init
  <2> QED BY <1>2, <1>3, <2>1, <2>2, <2>3, <2>4, <2>5, Zenon DEF Init, TypeOK
<1> QED BY <1>1, <1>2, <1>3, Zenon DEF HInv, LockInv, RecordTellsCall, MutualExclusion, Init

-----------------------------------------------------------------------------
(* The lock. *)

\* sgx_spin_lock lets a thread in only when nobody is.
LEMMA ExchangeLock ==
  ASSUME HInv, NEW t \in Threads, Exchange(t)
  PROVE  LockInv' /\ spinlock' \in {0, 1} /\ lk' \in [Threads -> {"out", "spin", "in"}]
BY DEF HInv, TypeOK, LockInv, MutualExclusion, Exchange

\* A thread that leaves the inner loop is not in.
LEMMA SpinLock ==
  ASSUME HInv, NEW t \in Threads, Spin(t)
  PROVE  LockInv' /\ spinlock' \in {0, 1} /\ lk' \in [Threads -> {"out", "spin", "in"}]
BY DEF HInv, TypeOK, LockInv, MutualExclusion, Spin

\* The thread that unlocks was the only one in.
LEMMA UnlockLock ==
  ASSUME HInv, NEW t \in Threads, NEW next, lk[t] = "in", Unlock(t, next)
  PROVE  LockInv' /\ spinlock' \in {0, 1} /\ lk' \in [Threads -> {"out", "spin", "in"}]
BY DEF HInv, TypeOK, LockInv, MutualExclusion, Unlock

\* A step without lock or unlock.
LEMMA SameLock ==
  ASSUME HInv, UNCHANGED lvars
  PROVE  LockInv' /\ spinlock' \in {0, 1} /\ lk' \in [Threads -> {"out", "spin", "in"}]
BY DEF HInv, TypeOK, LockInv, MutualExclusion, lvars

-----------------------------------------------------------------------------
(* The steps. *)

\* Taking the lock or waiting for it changes nothing else.
LEMMA AcquireStep ==
  ASSUME HInv, NEW t \in Threads, Exchange(t) \/ Spin(t)
  PROVE  HInv'
<1>1. LockInv' /\ spinlock' \in {0, 1} /\ lk' \in [Threads -> {"out", "spin", "in"}]
  BY ExchangeLock, SpinLock
<1>2. UNCHANGED << at, numRetries, hvars, local, params, effect, refused >>
  BY DEF Exchange, Spin
<1>3. TypeOK'
  BY <1>1, <1>2 DEF HInv, TypeOK, hvars
<1>4. RecordTellsCall'
  BY <1>2 DEF HInv, RecordTellsCall, hvars
<1> QED BY <1>1, <1>3, <1>4 DEF HInv

\* A new call starts with a parameter block of its own and has run nothing yet.
LEMMA CallStep ==
  ASSUME HInv, NEW r \in Requesters, NEW id \in CallIDs, NEW d \in Data, Call(r, id, d)
  PROVE  HInv'
<1>1. LockInv' /\ spinlock' \in {0, 1} /\ lk' \in [Threads -> {"out", "spin", "in"}]
  BY SameLock DEF Call
<1>2. at'[r] = "request" /\ at[r] = "idle" /\ \A t \in Threads : t # r => at'[t] = at[t]
  BY ThreadNames DEF Call, HInv, TypeOK
<1>3. /\ params' \in [Requesters -> CallIDs \X Data]
      /\ effect' \in [Requesters -> Data \cup {None}]
      /\ refused' \in [Requesters -> BOOLEAN]
      /\ numRetries' \in [Requesters -> 0 .. MaxRetries + 1]
  BY ThreadNames DEF Call, HInv, TypeOK
<1>4. numRetries'[r] = 0 /\ effect'[r] = None
      /\ \A q \in Requesters : q # r =>
           numRetries'[q] = numRetries[q] /\ effect'[q] = effect[q] /\ params'[q] = params[q]
  BY DEF Call, HInv, TypeOK
<1>5. TypeOK'
  BY <1>1, <1>2, <1>3, ThreadNames, Zenon DEF Call, HInv, TypeOK, hvars
<1>6. RecordTellsCall'
  BY <1>2, <1>4, ThreadNames DEF Call, HInv, RecordTellsCall, hvars
<1> QED BY <1>1, <1>5, <1>6 DEF HInv

\* The record is taken when nobody's call is in it.
LEMMA RequestStep ==
  ASSUME HInv, NEW r \in Requesters, Request(r)
  PROVE  HInv'
<1>1. LockInv' /\ spinlock' \in {0, 1} /\ lk' \in [Threads -> {"out", "spin", "in"}]
  BY UnlockLock, ThreadNames DEF Request, In
<1>2. at'[r] = "wait" /\ at[r] = "request" /\ \A t \in Threads : t # r => at'[t] = at[t]
  BY ThreadNames DEF Request, Unlock, In, HInv, TypeOK
<1>3. \A q \in Requesters : at[q] # "wait"
  BY DEF Request, HInv, RecordTellsCall
<1>4. at[Responder] \notin {"call", "done"}
  BY DEF Request, HInv, RecordTellsCall
<1>5. hot' \in (CallIDs \cup {0}) \X (Requesters \cup {None})
  BY DEF Request, HInv, TypeOK
<1>6. at' \in [Threads -> {"poll", "call", "done", "ended"}
                            \cup {"idle", "request", "wait", "stop", "stopped"}]
  BY Zenon DEF Request, Unlock, HInv, TypeOK
<1>7. TypeOK'
  BY <1>1, <1>2, <1>5, <1>6, ThreadNames, Zenon DEF Request, HInv, TypeOK
<1>8. RecordTellsCall'
  BY <1>2, <1>3, <1>4, ThreadNames DEF Request, HInv, RecordTellsCall
<1> QED BY <1>1, <1>7, <1>8 DEF HInv

\* A requester that finds the record busy counts, and leaves the record alone.
LEMMA RetryStep ==
  ASSUME HInv, NEW r \in Requesters, Retry(r)
  PROVE  HInv'
<1>1. PICK next \in {"idle", "request"} :
        /\ Unlock(r, next)
        /\ next = "request" => numRetries[r] + 1 <= MaxRetries
  <2>1. numRetries[r] \in Int /\ MaxRetries \in Int
    BY ThreadNames DEF HInv, TypeOK
  <2> QED BY <2>1 DEF Retry, GivesUp
<1>2. LockInv' /\ spinlock' \in {0, 1} /\ lk' \in [Threads -> {"out", "spin", "in"}]
  BY <1>1, UnlockLock, ThreadNames DEF Retry, In
<1>3. at'[r] = next /\ at[r] = "request" /\ \A t \in Threads : t # r => at'[t] = at[t]
  BY <1>1, ThreadNames DEF Retry, Unlock, In, HInv, TypeOK
<1>4. at' \in [Threads -> {"poll", "call", "done", "ended"}
                            \cup {"idle", "request", "wait", "stop", "stopped"}]
  BY <1>1, Zenon DEF Unlock, HInv, TypeOK
<1>5. /\ numRetries' \in [Requesters -> 0 .. MaxRetries + 1]
      /\ numRetries'[r] = numRetries[r] + 1
      /\ \A q \in Requesters : q # r => numRetries'[q] = numRetries[q]
  <2>1. numRetries[r] \in 0 .. MaxRetries
    BY <1>3, ThreadNames DEF HInv, TypeOK, RecordTellsCall
  <2> QED BY <2>1, ThreadNames DEF Retry, HInv, TypeOK
<1>6. refused' \in [Requesters -> BOOLEAN]
  BY Zenon DEF Retry, HInv, TypeOK
<1>7. TypeOK'
  BY <1>2, <1>3, <1>4, <1>5, <1>6, ThreadNames DEF Retry, HInv, TypeOK, hvars
<1>8. RecordTellsCall'
  BY <1>1, <1>3, <1>5, ThreadNames DEF Retry, HInv, RecordTellsCall, hvars
<1> QED BY <1>2, <1>7, <1>8 DEF HInv

\* A requester that waits frees the record when its call is done.
LEMMA WaitStep ==
  ASSUME HInv, NEW r \in Requesters, Wait(r)
  PROVE  HInv'
<1>1. PICK next \in {"idle", "wait"} :
        Unlock(r, next) /\ (next = "idle" <=> isDone) /\ busy' = (next = "wait")
  BY Zenon DEF Wait, In, HInv, TypeOK, RecordTellsCall
<1>2. LockInv' /\ spinlock' \in {0, 1} /\ lk' \in [Threads -> {"out", "spin", "in"}]
  BY <1>1, UnlockLock, ThreadNames DEF Wait, In
<1>3. at'[r] = next /\ at[r] = "wait" /\ \A t \in Threads : t # r => at'[t] = at[t]
  BY <1>1, ThreadNames DEF Wait, Unlock, In, HInv, TypeOK
<1>4. at' \in [Threads -> {"poll", "call", "done", "ended"}
                            \cup {"idle", "request", "wait", "stop", "stopped"}]
  BY <1>1, Zenon DEF Unlock, HInv, TypeOK
<1>5. TypeOK'
  BY <1>1, <1>2, <1>3, <1>4, ThreadNames DEF Wait, HInv, TypeOK
<1>6. RecordTellsCall'
  <2>1. \A q \in Requesters : q # r => at'[q] = at[q] /\ at[q] # "wait"
    BY <1>3, ThreadNames DEF HInv, RecordTellsCall
  <2> QED BY <1>1, <1>3, <2>1, ThreadNames DEF Wait, HInv, RecordTellsCall
<1> QED BY <1>2, <1>5, <1>6 DEF HInv

\* StopResponder leaves the calls alone.
LEMMA StopStep ==
  ASSUME HInv, NEW r \in Requesters, CallStop(r) \/ Stop(r)
  PROVE  HInv'
<1>1. LockInv' /\ spinlock' \in {0, 1} /\ lk' \in [Threads -> {"out", "spin", "in"}]
  BY UnlockLock, SameLock, ThreadNames DEF CallStop, Stop, In
<1>2. /\ at[r] \in {"idle", "stop"} /\ at'[r] \in {"stop", "stopped"}
      /\ \A t \in Threads : t # r => at'[t] = at[t]
  BY ThreadNames DEF CallStop, Stop, Unlock, In, HInv, TypeOK
<1>3. at' \in [Threads -> {"poll", "call", "done", "ended"}
                            \cup {"idle", "request", "wait", "stop", "stopped"}]
  BY DEF CallStop, Stop, Unlock, HInv, TypeOK
<1>4. /\ UNCHANGED << numRetries, busy, isDone, runFunction, hot, local, params, effect, refused >>
      /\ keepPolling' \in BOOLEAN
  BY Zenon DEF CallStop, Stop, hvars, HInv, TypeOK
<1>5. TypeOK'
  BY <1>1, <1>2, <1>3, <1>4, ThreadNames DEF HInv, TypeOK
<1>6. RecordTellsCall'
  <2>1. RecordTellsCall
    BY DEF HInv
  <2> QED BY <1>2, <1>4, <2>1, ThreadNames DEF RecordTellsCall
<1> QED BY <1>1, <1>5, <1>6 DEF HInv

\* The responder polls, and takes a copy of the call it finds.
LEMMA PollStep ==
  ASSUME HInv, Poll
  PROVE  HInv'
<1>1. PICK next \in {"poll", "call", "ended"} :
        /\ Unlock(Responder, next)
        /\ next = "call" => runFunction /\ local' = hot
        /\ next # "call" => local' = local
  BY DEF Poll, HInv, TypeOK
<1>2. LockInv' /\ spinlock' \in {0, 1} /\ lk' \in [Threads -> {"out", "spin", "in"}]
  BY <1>1, UnlockLock, ThreadNames DEF Poll, In
<1>3. /\ at'[Responder] = next /\ at[Responder] = "poll"
      /\ \A r \in Requesters : at'[r] = at[r]
  BY <1>1, ThreadNames DEF Poll, Unlock, In, HInv, TypeOK
<1>4. at' \in [Threads -> {"poll", "call", "done", "ended"}
                            \cup {"idle", "request", "wait", "stop", "stopped"}]
  BY <1>1, Zenon DEF Unlock, HInv, TypeOK
<1>5. TypeOK'
  BY <1>1, <1>2, <1>3, <1>4, ThreadNames DEF Poll, HInv, TypeOK, hvars
<1>6. RecordTellsCall'
  BY <1>1, <1>3, ThreadNames DEF Poll, HInv, RecordTellsCall, hvars
<1> QED BY <1>2, <1>5, <1>6 DEF HInv

\* The caller of the call that the responder has copied waits, with its parameters.
LEMMA CallerOf ==
  ASSUME HInv, at[Responder] \in {"call", "done"}
  PROVE  \E r \in Requesters :
           /\ at[r] = "wait" /\ local = << params[r][1], r >> /\ ~isDone
           /\ \A q \in Requesters : at[q] = "wait" => q = r
BY DEF HInv, RecordTellsCall

\* The callback gives its effect to the caller that waits.
LEMMA CallbackStep ==
  ASSUME HInv, Callback
  PROVE  HInv'
<1>1. LockInv' /\ spinlock' \in {0, 1} /\ lk' \in [Threads -> {"out", "spin", "in"}]
  BY SameLock DEF Callback
<1>2. /\ at'[Responder] = "done" /\ at[Responder] = "call"
      /\ \A r \in Requesters : at'[r] = at[r]
  BY ThreadNames DEF Callback, HInv, TypeOK
<1>3. at' \in [Threads -> {"poll", "call", "done", "ended"}
                            \cup {"idle", "request", "wait", "stop", "stopped"}]
  BY Zenon DEF Callback, HInv, TypeOK
<1>4. PICK r \in Requesters :
        /\ at[r] = "wait" /\ local = << params[r][1], r >>
        /\ \A q \in Requesters : at[q] = "wait" => q = r
  BY <1>2, CallerOf
<1>5. params[r][2] \in Data /\ local[2] = r
  BY <1>4 DEF HInv, TypeOK
<1>6. /\ effect' \in [Requesters -> Data \cup {None}]
      /\ \A q \in Requesters : q # r => effect'[q] = effect[q]
  BY <1>5 DEF Callback, HInv, TypeOK
<1>7. TypeOK'
  BY <1>1, <1>2, <1>3, <1>6 DEF Callback, HInv, TypeOK, hvars
<1>8. RecordTellsCall'
  BY <1>2, <1>4, <1>6 DEF Callback, HInv, RecordTellsCall, hvars
<1> QED BY <1>1, <1>7, <1>8 DEF HInv

\* The responder tells that the call is done and looks for the next.
LEMMA DoneStep ==
  ASSUME HInv, Done
  PROVE  HInv'
<1>1. LockInv' /\ spinlock' \in {0, 1} /\ lk' \in [Threads -> {"out", "spin", "in"}]
  BY UnlockLock, ThreadNames DEF Done, In
<1>2. /\ at'[Responder] = "poll" /\ at[Responder] = "done"
      /\ \A r \in Requesters : at'[r] = at[r]
  BY ThreadNames DEF Done, Unlock, In, HInv, TypeOK
<1>3. at' \in [Threads -> {"poll", "call", "done", "ended"}
                            \cup {"idle", "request", "wait", "stop", "stopped"}]
  BY Zenon DEF Done, Unlock, HInv, TypeOK
<1>4. TypeOK'
  BY <1>1, <1>2, <1>3, Zenon DEF Done, HInv, TypeOK
<1>5. RecordTellsCall'
  BY <1>2 DEF Done, HInv, RecordTellsCall
<1> QED BY <1>1, <1>4, <1>5 DEF HInv

\* Every step of the channel keeps the invariant.
LEMMA HInvNext ==
  ASSUME HInv, [Next]_vars
  PROVE  HInv'
<1>1. ASSUME NEW t \in Threads, Step(t) PROVE HInv'
  <2>1. CASE Exchange(t) \/ Spin(t)
    BY <2>1, AcquireStep
  <2>2. CASE t = Responder /\ (Poll \/ Callback \/ Done)
    BY <2>2, PollStep, CallbackStep, DoneStep
  <2>3. CASE t \in Requesters /\ (Request(t) \/ Retry(t) \/ Wait(t) \/ Stop(t))
    BY <2>3, RequestStep, RetryStep, WaitStep, StopStep
  <2> QED BY <1>1, <2>1, <2>2, <2>3 DEF Step
<1>2. ASSUME NEW r \in Requesters, CallStop(r) PROVE HInv'
  BY <1>2, StopStep
<1>3. ASSUME NEW r \in Requesters, NEW id \in CallIDs, NEW d \in Data, Call(r, id, d) PROVE HInv'
  BY <1>3, CallStep
<1>4. CASE UNCHANGED vars
  <2>1. TypeOK'
    BY <1>4 DEF vars, HInv, TypeOK
  <2>2. RecordTellsCall'
    BY <1>4 DEF vars, HInv, RecordTellsCall
  <2> QED BY <1>4, <2>1, <2>2, SameLock DEF vars, lvars, HInv
<1> QED BY <1>1, <1>2, <1>3, <1>4 DEF Next

\* The invariant of the channel holds always.
LEMMA HInvAlways == Spec => []HInv
<1>1. HInv /\ [Next]_vars => HInv'
  BY HInvNext
<1> QED BY <1>1, HInvInit, PTL DEF Spec

-----------------------------------------------------------------------------
(* The theorems. *)

\* The fields of the HotCall, the lock and the threads keep their types.
THEOREM HotCallTyped == Spec => []TypeOK
<1>1. HInv => TypeOK
  BY DEF HInv
<1> QED BY <1>1, HInvAlways, PTL

\* sgx_spin_lock and sgx_spin_unlock keep any number of threads apart.
THEOREM SpinLockExcludes == Spec => []MutualExclusion
<1>1. HInv => MutualExclusion
  BY DEF HInv, LockInv
<1> QED BY <1>1, HInvAlways, PTL

\* The flags of the record always tell how far its call is.
THEOREM RecordIsTrue == Spec => []RecordTellsCall
<1>1. HInv => RecordTellsCall
  BY DEF HInv
<1> QED BY <1>1, HInvAlways, PTL

\* The callback reads a parameter block whose owner waits.
THEOREM ParametersAreStable == Spec => []CallerWaits
<1>1. ASSUME HInv PROVE CallerWaits
  BY <1>1, CallerOf DEF CallerWaits
<1> QED BY <1>1, HInvAlways, PTL

\* A call is refused only while another thread's is in the record.
THEOREM RefusalIsJustified == Spec => RefusedOnlyWhenBusy
<1> DEFINE Justified == \A r \in Requesters : refused'[r] /\ ~refused[r] =>
                          \E q \in Requesters \ {r} : at[q] = "wait"
<1>1. ASSUME HInv, [Next]_vars PROVE [Justified]_vars
  <2> SUFFICES ASSUME NEW r \in Requesters, refused'[r], ~refused[r]
               PROVE  \E q \in Requesters \ {r} : at[q] = "wait"
    OBVIOUS
  <2>1. Retry(r)
    <3>0. refused \in [Requesters -> BOOLEAN] /\ ~UNCHANGED refused
      BY <1>1 DEF HInv, TypeOK
    <3>1. \A t \in Threads : ~Exchange(t) /\ ~Spin(t) /\ ~Poll /\ ~Callback /\ ~Done
      BY <3>0 DEF Exchange, Spin, Poll, Callback, Done
    <3>2. \A t \in Requesters : ~Request(t) /\ ~Wait(t) /\ ~Stop(t) /\ ~CallStop(t)
      BY <3>0 DEF Request, Wait, Stop, CallStop
    <3>3. ASSUME NEW t \in Requesters, NEW id \in CallIDs, NEW d \in Data, Call(t, id, d)
          PROVE  FALSE
      <4>1. refused' = [refused EXCEPT ![t] = FALSE]
        BY <3>3 DEF Call
      <4> QED BY <3>0, <4>1
    <3>4. ~UNCHANGED vars
      BY <3>0 DEF vars
    <3>5. PICK t \in Requesters : Retry(t)
      BY <1>1, <3>1, <3>2, <3>3, <3>4, Zenon DEF Next, Step
    <3>6. refused' = [refused EXCEPT ![t] = TRUE]
      BY <3>0, <3>5 DEF Retry
    <3> QED BY <3>0, <3>5, <3>6
  <2>2. at[r] = "request" /\ busy
    BY <2>1 DEF Retry, In
  <2> QED BY <1>1, <2>2 DEF HInv, RecordTellsCall
<1> QED BY <1>1, HInvAlways, PTL DEF Spec, RefusedOnlyWhenBusy

-----------------------------------------------------------------------------
(* The channel implements a procedure call. *)

\* Where a requester is in its call, now and after a step.
LEMMA PhaseIs ==
  ASSUME NEW r \in Requesters
  PROVE  /\ at[r] = "request" => phase[r] = "called"
         /\ at[r] = "wait" => phase[r] = IF isDone \/ at[Responder] = "done" THEN "ran" ELSE "called"
         /\ at[r] \notin {"request", "wait"} => phase[r] = "idle"
         /\ at'[r] = "request" => phase'[r] = "called"
         /\ at'[r] = "wait" => phase'[r] = IF isDone' \/ at'[Responder] = "done" THEN "ran" ELSE "called"
         /\ at'[r] \notin {"request", "wait"} => phase'[r] = "idle"
BY DEF phase

\* To change the phase of one requester is to give it the new one and keep the others.
LEMMA PhaseExcept ==
  ASSUME NEW r \in Requesters, NEW x, phase'[r] = x,
         \A q \in Requesters : q # r => phase'[q] = phase[q]
  PROVE  phase' = [phase EXCEPT ![r] = x]
<1>1. /\ phase = [q \in Requesters |-> phase[q]]
      /\ phase' = [q \in Requesters |-> phase'[q]]
  BY DEF phase
<1> HIDE DEF phase
<1> QED BY <1>1

\* To change the phase of nobody is to keep them all.
LEMMA PhaseKept ==
  ASSUME \A q \in Requesters : phase'[q] = phase[q]
  PROVE  phase' = phase
<1>1. /\ phase = [q \in Requesters |-> phase[q]]
      /\ phase' = [q \in Requesters |-> phase'[q]]
  BY DEF phase
<1> QED BY <1>1

\* The step that fills the parameter block is the call.
LEMMA CallIsCall ==
  ASSUME HInv, NEW r \in Requesters, NEW id \in CallIDs, NEW d \in Data, Call(r, id, d)
  PROVE  Abstract!Call(r, id, d)
<1>1. at'[r] = "request" /\ at[r] = "idle" /\ \A t \in Threads : t # r => at'[t] = at[t]
  BY ThreadNames DEF Call, HInv, TypeOK
<1>2. phase[r] = "idle" /\ phase'[r] = "called"
  BY <1>1, PhaseIs
<1>3. \A q \in Requesters : q # r => phase'[q] = phase[q]
  BY <1>1, ThreadNames DEF phase, Call, hvars
<1>4. phase' = [phase EXCEPT ![r] = "called"]
  BY <1>2, <1>3, PhaseExcept
<1> QED BY <1>2, <1>4 DEF Abstract!Call, Call

\* The callback is the run of the procedure.
LEMMA CallbackIsRun ==
  ASSUME HInv, Callback
  PROVE  \E r \in Requesters : Abstract!Run(r)
<1>1. /\ at'[Responder] = "done" /\ at[Responder] = "call"
      /\ \A q \in Requesters : at'[q] = at[q]
  BY ThreadNames DEF Callback, HInv, TypeOK
<1>2. PICK r \in Requesters :
        /\ at[r] = "wait" /\ local = << params[r][1], r >> /\ ~isDone
        /\ \A q \in Requesters : at[q] = "wait" => q = r
  BY <1>1, CallerOf
<1>3. phase[r] = "called" /\ phase'[r] = "ran"
  BY <1>1, <1>2, PhaseIs
<1>4. \A q \in Requesters : q # r => phase'[q] = phase[q]
  BY <1>1, <1>2 DEF phase
<1>5. phase' = [phase EXCEPT ![r] = "ran"]
  BY <1>3, <1>4, PhaseExcept
<1>6. effect[r] = None /\ effect = [effect EXCEPT ![r] = effect[r]]
  BY <1>1, <1>2 DEF HInv, RecordTellsCall, TypeOK
<1>7. effect' = [effect EXCEPT ![r] = IF params[r][1] < NumEntries THEN params[r][2] ELSE None]
  BY <1>2, <1>6, Zenon DEF Callback
<1>8. params' = params
  BY DEF Callback
<1>9. Abstract!Run(r)
  BY <1>3, <1>5, <1>7, <1>8 DEF Abstract!Run
<1> QED BY <1>9

\* A requester that finds its call done returns from it; else it goes on waiting.
LEMMA WaitIsReturn ==
  ASSUME HInv, NEW r \in Requesters, Wait(r)
  PROVE  Abstract!Return(r) \/ UNCHANGED Abstract!vars
<1>1. /\ at[r] = "wait" /\ at'[r] = IF isDone THEN "idle" ELSE "wait"
      /\ \A t \in Threads : t # r => at'[t] = at[t]
  BY ThreadNames DEF Wait, Unlock, In, HInv, TypeOK
<1>2. UNCHANGED << isDone, params, effect >>
  BY DEF Wait
<1>3. \A q \in Requesters : q # r => phase'[q] = phase[q]
  BY <1>1, <1>2, ThreadNames DEF phase
<1>4. CASE isDone
  <2>1. phase[r] = "ran" /\ phase'[r] = "idle"
    BY <1>1, <1>4, PhaseIs
  <2>2. phase' = [phase EXCEPT ![r] = "idle"]
    BY <1>3, <2>1, PhaseExcept
  <2> QED BY <1>2, <2>1, <2>2 DEF Abstract!Return
<1>5. CASE ~isDone
  <2>1. at'[Responder] = at[Responder]
    BY <1>1, ThreadNames
  <2>2. phase'[r] = phase[r]
    BY <1>1, <1>2, <1>5, <2>1, PhaseIs
  <2> QED BY <1>2, <1>3, <2>2, PhaseKept DEF Abstract!vars
<1> QED BY <1>4, <1>5

\* A requester that gives up is refused; else it goes on trying.
LEMMA RetryIsRefuse ==
  ASSUME HInv, NEW r \in Requesters, Retry(r)
  PROVE  Abstract!Refuse(r) \/ UNCHANGED Abstract!vars
<1>1. /\ at[r] = "request" /\ at'[r] \in {"idle", "request"} /\ busy
      /\ \A t \in Threads : t # r => at'[t] = at[t]
  BY ThreadNames DEF Retry, Unlock, In, HInv, TypeOK
<1>2. UNCHANGED << isDone, params, effect >>
  BY DEF Retry, hvars
<1>3. \A q \in Requesters : q # r => phase'[q] = phase[q]
  BY <1>1, <1>2, ThreadNames DEF phase
<1>4. CASE at'[r] = "idle"
  <2>1. phase[r] = "called" /\ phase'[r] = "idle"
    BY <1>1, <1>4, PhaseIs
  <2>2. phase' = [phase EXCEPT ![r] = "idle"]
    BY <1>3, <2>1, PhaseExcept
  <2>3. PICK q \in Requesters \ {r} : at[q] = "wait"
    BY <1>1 DEF HInv, RecordTellsCall
  <2>4. phase[q] # "idle"
    BY <2>3, PhaseIs
  <2> QED BY <1>2, <2>1, <2>2, <2>4 DEF Abstract!Refuse
<1>5. CASE at'[r] = "request"
  <2>1. phase'[r] = phase[r]
    BY <1>1, <1>5, PhaseIs
  <2> QED BY <1>2, <1>3, <2>1, PhaseKept DEF Abstract!vars
<1> QED BY <1>1, <1>4, <1>5

\* The other steps, of the lock, the record and StopResponder, are no steps of a call.
LEMMA OthersStutter ==
  ASSUME HInv,
         \/ \E t \in Threads : Exchange(t) \/ Spin(t)
         \/ \E r \in Requesters : Request(r) \/ CallStop(r) \/ Stop(r)
         \/ Poll \/ Done
  PROVE  UNCHANGED Abstract!vars
<1>1. UNCHANGED << params, effect >>
  BY DEF Exchange, Spin, Request, CallStop, Stop, Poll, Done
<1>2. ASSUME NEW t \in Threads, Exchange(t) \/ Spin(t) PROVE phase' = phase
  BY <1>2 DEF Exchange, Spin, hvars, phase
<1>3. ASSUME NEW r \in Requesters, Request(r) PROVE phase' = phase
  <2>1. /\ at'[r] = "wait" /\ at[r] = "request" /\ ~isDone'
        /\ \A t \in Threads : t # r => at'[t] = at[t]
    BY <1>3, ThreadNames DEF Request, Unlock, In, HInv, TypeOK
  <2>2. at[Responder] # "done" /\ \A q \in Requesters : at[q] # "wait"
    BY <1>3 DEF Request, HInv, RecordTellsCall
  <2>3. phase[r] = "called" /\ phase'[r] = "called"
    BY <2>1, <2>2, PhaseIs, ThreadNames
  <2>4. \A q \in Requesters : q # r => phase'[q] = phase[q]
    BY <2>1, <2>2, ThreadNames DEF phase
  <2> QED BY <2>3, <2>4, PhaseKept
<1>4. ASSUME NEW r \in Requesters, CallStop(r) \/ Stop(r) PROVE phase' = phase
  <2>1. /\ at[r] \in {"idle", "stop"} /\ at'[r] \in {"stop", "stopped"}
        /\ \A t \in Threads : t # r => at'[t] = at[t]
        /\ isDone' = isDone
    BY <1>4, ThreadNames DEF CallStop, Stop, Unlock, In, HInv, TypeOK, hvars
  <2>2. phase[r] = "idle" /\ phase'[r] = "idle"
    BY <2>1, PhaseIs
  <2>3. \A q \in Requesters : q # r => phase'[q] = phase[q]
    BY <2>1, ThreadNames DEF phase
  <2> QED BY <2>2, <2>3, PhaseKept
<1>5. ASSUME Poll PROVE phase' = phase
  <2>1. /\ at[Responder] # "done" /\ at'[Responder] # "done" /\ isDone' = isDone
        /\ \A r \in Requesters : at'[r] = at[r]
    BY <1>5, ThreadNames DEF Poll, Unlock, In, HInv, TypeOK, hvars
  <2> QED BY <2>1 DEF phase
<1>6. ASSUME Done PROVE phase' = phase
  <2>1. /\ at[Responder] = "done" /\ isDone'
        /\ \A r \in Requesters : at'[r] = at[r]
    BY <1>6, ThreadNames DEF Done, Unlock, In, HInv, TypeOK
  <2> QED BY <2>1 DEF phase
<1> QED BY <1>1, <1>2, <1>3, <1>4, <1>5, <1>6 DEF Abstract!vars

\* HotCall_requestCall, HotCall_waitForCall and the spin lock implement a procedure
\* call, for any number of callers: the callback runs once per accepted call, with
\* the parameters of the caller, before the call returns.
THEOREM HotCallImplementsCall == Spec => ImplementsSyncCall
<1>1. Init => Abstract!Init
  <2> SUFFICES ASSUME Init PROVE Abstract!Init
    OBVIOUS
  <2>1. \A r \in Requesters : at[r] = "idle"
    BY ThreadNames, Zenon DEF Init
  <2>2. phase = [r \in Requesters |-> "idle"]
    BY <2>1 DEF phase
  <2> QED BY <2>2 DEF Init, Abstract!Init
<1>2. ASSUME HInv, [Next]_vars PROVE [Abstract!Next]_(Abstract!vars)
  <2>1. ASSUME NEW t \in Threads, Step(t) PROVE Abstract!Next \/ UNCHANGED Abstract!vars
    <3>1. CASE Exchange(t) \/ Spin(t)
      BY <1>2, <3>1, OthersStutter
    <3>2. CASE Poll \/ Done
      BY <1>2, <3>2, OthersStutter
    <3>3. CASE Callback
      BY <1>2, <3>3, CallbackIsRun DEF Abstract!Next
    <3>4. CASE t \in Requesters /\ (Request(t) \/ Stop(t))
      BY <1>2, <3>4, OthersStutter
    <3>5. CASE t \in Requesters /\ Retry(t)
      BY <1>2, <3>5, RetryIsRefuse DEF Abstract!Next
    <3>6. CASE t \in Requesters /\ Wait(t)
      BY <1>2, <3>6, WaitIsReturn DEF Abstract!Next
    <3> QED BY <2>1, <3>1, <3>2, <3>3, <3>4, <3>5, <3>6 DEF Step
  <2>2. ASSUME NEW r \in Requesters, CallStop(r) PROVE UNCHANGED Abstract!vars
    BY <1>2, <2>2, OthersStutter
  <2>3. ASSUME NEW r \in Requesters, NEW id \in CallIDs, NEW d \in Data, Call(r, id, d)
        PROVE  Abstract!Next
    BY <1>2, <2>3, CallIsCall DEF Abstract!Next
  <2>4. CASE UNCHANGED vars
    BY <2>4 DEF vars, phase, Abstract!vars
  <2> QED BY <1>2, <2>1, <2>2, <2>3, <2>4 DEF Next
<1> QED BY <1>1, <1>2, HInvAlways, PTL DEF Spec, ImplementsSyncCall, Abstract!Spec

=============================================================================
