--------------------------- MODULE StoreInvariant ---------------------------
(***************************************************************************)
(* The inductive invariant of EnclaveStore.                                 *)
(***************************************************************************)
EXTENDS EnclaveStore

(***************************************************************************)
(* ht_append_o stores the MAC at kv_pos, which is the right slot of a MAC   *)
(* bucket only in special cases (MCStoreMacAppend.cfg shows one where it is *)
(* not). The invariant is proved for a server without MAC buckets, or       *)
(* clients that do not append.                                              *)
(***************************************************************************)
NoAppendToMacBuckets == MacOpt => "APP" \notin Ops

\* A busy worker serves a request for a bucket of its own.
JobAt(w) == pc[w] # "idle" => job[w] \in Requests /\ thread_id(bucket(w)) = w
JobOK == \A w \in Workers : JobAt(w)

\* What the stage a worker has reached says of its operation.
StageAt(w) ==
  /\ pc[w] = "verify" => loc[w].found # << >>
  /\ pc[w] \in {"write", "rebuild"} =>
       job[w].op \in {"SET", "APP"} /\ (job[w].op = "APP" => loc[w].found # << >>)
StageOK == \A w \in Workers : StageAt(w)

\* Every entry decrypts under its own counter, to a key its hint belongs to, and
\* its MAC verifies.
EntryOK(e) ==
  /\ e.cipher.ctr = e.nac
  /\ e.key_hash = KeyHash[e.cipher.key]
  /\ Verifies(e)

EntriesOK == \A b \in Buckets : \A i \in DOMAIN table[b] : EntryOK(table[b][i])

\* A worker between the write and the rebuild: its check will pass.
RebuildAt(w) == Macs[bucket(w)] # << >> /\ PrevVerifies(w)
RebuildOK == \A w \in Workers : pc[w] = "rebuild" => RebuildAt(w)

\* The inductive invariant: between two steps of any workers the memory, the roots
\* and the locals of the operations in progress fit together, so that every check
\* enclave_rebuild_tree_root and enclave_verify_tree_root still has to make passes.
IInv ==
  /\ TypeOK
  /\ JobOK
  /\ StageOK
  /\ EntriesOK
  /\ OneEntryPerKey
  /\ MacBucketReversed
  /\ LookupStillValid
  /\ RootsCoverMemory
  /\ RebuildOK
  /\ NoFalseAlarm

(***************************************************************************)
(* What the freshness of the counters rests on besides: the counter a       *)
(* writer holds is the one decryption left, and values fit the buffer, an   *)
(* APP's own value with room for one more chunk.                            *)
(***************************************************************************)
CounterRead(w) ==
  pc[w] = "write" /\ loc[w].found # << >> => loc[w].nac = updated_nac(loc[w].found[1])

ValuesFit == \A b \in Buckets : \A i \in DOMAIN table[b] : Len(table[b][i].cipher.val) <= MaxVal

RoomLeft(w) ==
  pc[w] \in {"lookup", "write"} /\ job[w].op = "APP" =>
    \A i \in DOMAIN table[bucket(w)] :
      table[bucket(w)][i].cipher.key = job[w].key => Len(table[bucket(w)][i].cipher.val) < MaxVal

CInv ==
  /\ \A w \in Workers : CounterRead(w) /\ RoomLeft(w)
  /\ ValuesFit

=============================================================================
