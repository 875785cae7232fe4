------------------------------ MODULE KVStore ------------------------------
(***************************************************************************)
(* What ShieldStore promises its clients: a dictionary on which every SET,  *)
(* GET and APP takes effect at one instant between the moment a server      *)
(* thread takes the request and the moment it sends the reply, and every    *)
(* reply is the one that instant determines.                                *)
(***************************************************************************)
EXTENDS Sequences

CONSTANTS Threads, Requests

VARIABLES kv,      (* the keys stored and their values: a partial function   *)
          phase,   (* of each thread: idle, pending (accepted) or done       *)
          req,     (* the request each thread is serving                     *)
          resp     (* the reply of each thread whose phase is done           *)

vars == << kv, phase, req, resp >>

NoReq  == [op |-> "none"]
NoResp == [kind |-> "none"]

Init ==
  /\ kv = [k \in {} |-> << >>]
  /\ phase = [t \in Threads |-> "idle"]
  /\ req = [t \in Threads |-> NoReq]
  /\ resp = [t \in Threads |-> NoResp]

Invoke(t, r) ==
  /\ phase[t] = "idle"
  /\ phase' = [phase EXCEPT ![t] = "pending"]
  /\ req' = [req EXCEPT ![t] = r]
  /\ UNCHANGED << kv, resp >>

Stored(k) == k \in DOMAIN kv

\* The dictionary after request r.
Effect(r) ==
  CASE r.op = "SET" -> [k \in DOMAIN kv \cup {r.key} |->
                          IF k = r.key THEN << r.chunk >> ELSE kv[k]]
    [] r.op = "APP" /\ Stored(r.key) -> [kv EXCEPT ![r.key] = Append(@, r.chunk)]
    [] OTHER -> kv

\* The reply to request r: a GET or an APP that misses gets its own request back.
Answer(r) ==
  CASE r.op = "GET" /\ Stored(r.key) -> [kind |-> "value", body |-> kv[r.key]]
    [] r.op = "SET" \/ (r.op = "APP" /\ Stored(r.key)) -> [kind |-> "key", body |-> r.key]
    [] OTHER -> [kind |-> "echo", body |-> r.key]

Serve(t) ==
  /\ phase[t] = "pending"
  /\ phase' = [phase EXCEPT ![t] = "done"]
  /\ kv' = Effect(req[t])
  /\ resp' = [resp EXCEPT ![t] = Answer(req[t])]
  /\ UNCHANGED req

Return(t) ==
  /\ phase[t] = "done"
  /\ phase' = [phase EXCEPT ![t] = "idle"]
  /\ req' = [req EXCEPT ![t] = NoReq]
  /\ resp' = [resp EXCEPT ![t] = NoResp]
  /\ UNCHANGED kv

Next ==
  \E t \in Threads :
    \/ \E r \in Requests : Invoke(t, r)
    \/ Serve(t)
    \/ Return(t)

Spec == Init /\ [][Next]_vars

=============================================================================
