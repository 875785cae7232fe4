------------------------------ MODULE SyncCall ------------------------------
(***************************************************************************)
(* What a HotCall promises its callers: a procedure call. The callback runs *)
(* once for every call that is accepted, with the parameters the caller     *)
(* prepared, after the call and before its return; a refused call runs      *)
(* nothing.                                                                 *)
(***************************************************************************)
EXTENDS Integers

CONSTANTS Requesters, Data, CallIDs, NumEntries

CONSTANT None   (* no parameters: the callback has not run for this call *)

VARIABLES phase,    (* each caller: idle, called, ran                        *)
          params,   (* the parameters of its current or latest call          *)
          effect    (* what the callback was run with in that call           *)

vars == << phase, params, effect >>

Init ==
  /\ phase = [r \in Requesters |-> "idle"]
  /\ params \in [Requesters -> CallIDs \X Data]
  /\ effect = [r \in Requesters |-> None]

Call(r, id, d) ==
  /\ phase[r] = "idle"
  /\ phase' = [phase EXCEPT ![r] = "called"]
  /\ params' = [params EXCEPT ![r] = << id, d >>]
  /\ effect' = [effect EXCEPT ![r] = None]

\* A call with an identifier outside the table is accepted and runs nothing.
Run(r) ==
  /\ phase[r] = "called"
  /\ phase' = [phase EXCEPT ![r] = "ran"]
  /\ effect' = [effect EXCEPT ![r] = IF params[r][1] < NumEntries THEN params[r][2] ELSE None]
  /\ UNCHANGED params

Return(r) ==
  /\ phase[r] = "ran"
  /\ phase' = [phase EXCEPT ![r] = "idle"]
  /\ UNCHANGED << params, effect >>

\* A call is refused only when somebody else's has been accepted.
Refuse(r) ==
  /\ phase[r] = "called"
  /\ \E q \in Requesters \ {r} : phase[q] # "idle"
  /\ phase' = [phase EXCEPT ![r] = "idle"]
  /\ UNCHANGED << params, effect >>

Next == \E r \in Requesters :
  \/ \E id \in CallIDs, d \in Data : Call(r, id, d)
  \/ Run(r)
  \/ Return(r)
  \/ Refuse(r)

Spec == Init /\ [][Next]_vars

=============================================================================
