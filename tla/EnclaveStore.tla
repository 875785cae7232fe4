---------------------------- MODULE EnclaveStore ----------------------------
(***************************************************************************)
(* The key-value operations of the enclave: enclave_set, enclave_get and    *)
(* enclave_append (Enclave/Enclave.cpp) over the hash table and the MAC     *)
(* buckets in untrusted memory (Enclave/ht.cpp) and the tree roots in       *)
(* enclave memory (Enclave/core.cpp). Every worker thread runs one request  *)
(* at a time, in the steps between which another worker may run; no lock    *)
(* protects any of this state.                                              *)
(***************************************************************************)
EXTENDS MacTree, FiniteSets

CONSTANTS Keys,      (* keys the clients use                                 *)
          Chunks,    (* pieces of value a SET stores or an APP adds          *)
          Ops,       (* the operations the clients send                      *)
          HtHash,    (* ht_hash: the bucket of a key                         *)
          KeyHash,   (* key_hash_func: the hint stored beside an entry       *)
          KeyOpt,    (* arg.key_opt (-y): compare hints before decrypting    *)
          MacOpt,    (* arg.mac_opt (-c): MAC buckets                        *)
          CtrSpan,   (* counter values before it wraps; 2^16 in the code     *)
          RandNac,   (* what sgx_read_rand may return                        *)
          MaxVal     (* bound: chunks in a value, so that it fits the buffer *)

Hints == { KeyHash[k] : k \in Keys }
Nac   == 0 .. (CtrSpan - 1)

ASSUME StoreAssumption ==
  /\ Ops \subseteq {"GET", "SET", "APP"}
  /\ HtHash \in [Keys -> Buckets]
  /\ KeyHash \in [Keys -> Hints]
  /\ KeyOpt \in BOOLEAN
  /\ MacOpt \in BOOLEAN
  /\ CtrSpan \in Nat \ {0}
  /\ RandNac \subseteq Nac
  /\ MaxVal \in Nat \ {0}
  /\ 2 * (MaxVal + 1) <= CtrSpan

Requests == [op : Ops, key : Keys, chunk : Chunks]

VARIABLES table,      (* ht_enclave->table: the chain of every bucket, head first *)
          macbuf,     (* MACbuf_enclave->entry: the MAC bucket of every bucket    *)
          MACTable,   (* the tree roots                                           *)
          pc,         (* where each worker stands                                 *)
          job,        (* the request a worker is serving                          *)
          loc,        (* its locals: kv_pos, ret_entry as found, and nac          *)
          buf,        (* cur_job->buf once it holds the reply                     *)
          alarm       (* a MAC or tree verification has failed                    *)

vars == << table, macbuf, MACTable, pc, job, loc, buf, alarm >>

-----------------------------------------------------------------------------
(* Entries. AES-CTR: only the counter a text was encrypted under decrypts it. *)

Cipher == [key : Keys, val : Seq(Chunks), ctr : Nac]

Encrypt(k, v, nac) == [key |-> k, val |-> v, ctr |-> nac]

DecryptsTo(cipher, nac, k) == cipher.ctr = nac /\ cipher.key = k

\* The MAC of an entry covers its ciphertext, its counter and its hint.
MacOf(cipher, nac, hint) == [cipher |-> cipher, nac |-> nac, key_hash |-> hint]

Mac == [cipher : Cipher, nac : Nac, key_hash : Hints]

Entry == [key_hash : Hints, cipher : Cipher, nac : Nac, mac : Mac]

NewEntry(k, v, nac) ==
  LET c == Encrypt(k, v, nac)
  IN  [key_hash |-> KeyHash[k], cipher |-> c, nac |-> nac, mac |-> MacOf(c, nac, KeyHash[k])]

\* AES blocks of a key-value pair: the key fills one, each chunk another.
Blocks(v) == 1 + Len(v)

\* Mutants: the counter does not wrap; it is not written back.
updated_nac_NoWrap(e) == e.nac + Blocks(e.cipher.val)
updated_nac_NotAdvanced(e) == e.nac

\* The counter after decrypting e: the ctr_inc_bits wide counter wraps.
updated_nac(e) == (e.nac + Blocks(e.cipher.val)) % CtrSpan

-----------------------------------------------------------------------------
(* Searching a chain: ht_get_o. *)

\* Mutant: equal hints are taken for equal keys.
Matches_HintOnly(e, k) == e.key_hash = KeyHash[k]

Matches(e, k) ==
  /\ KeyOpt => e.key_hash = KeyHash[k]
  /\ DecryptsTo(e.cipher, e.nac, k)

\* Mutant: the loop ends before the last entry of the chain.
ht_get_o_SkipsLast(chain, k) ==
  CHOOSE p \in 0 .. Len(chain) :
    /\ p < Len(chain) => Matches(chain[p + 1], k) /\ p + 1 < Len(chain)
    /\ \A i \in 1 .. p : i < Len(chain) => ~Matches(chain[i], k)

\* The 0-based place of the first match, the chain's length when there is none.
ht_get_o(chain, k) ==
  CHOOSE p \in 0 .. Len(chain) :
    /\ p < Len(chain) => Matches(chain[p + 1], k)
    /\ \A i \in 1 .. p : ~Matches(chain[i], k)

Found(chain, k) == ht_get_o(chain, k) < Len(chain)

\* enclave_verification recomputes the MAC of an entry from its other fields.
Verifies(e) == e.mac = MacOf(e.cipher, e.nac, e.key_hash)

-----------------------------------------------------------------------------
(* MAC buckets and tree roots. *)

\* memcpy(mac + MAC_SIZE * i, m, MAC_SIZE) in a MAC bucket of the given size.
StoreMac(macs, size, i, m) ==
  [j \in 1 .. size |-> IF j = i + 1 THEN m ELSE macs[j]]

\* Mutant: the MAC of the updated entry is stored in chain order.
update_pos_InOrder(size, kv_pos) == kv_pos

\* The slot of an updated entry: the order of a MAC bucket is the chain's reversed.
update_pos(size, kv_pos) == size - kv_pos - 1

\* The MACs of every bucket: from the MAC buckets, or by walking the chains.
ChainMacs(chain) == [i \in 1 .. Len(chain) |-> chain[i].mac]
Macs == [b \in Buckets |-> IF MacOpt THEN macbuf[b] ELSE ChainMacs(table[b])]

\* Mutant: the new MAC is looked for at kv_pos, as in a MAC bucket, in a chain too.
insert_slot_InOrder(kv_pos, n) == kv_pos

\* Where, among the n MACs of its bucket, the MAC just written stands: a MAC bucket
\* is in the order of insertion, a chain in the reverse order, and kv_pos counts
\* from the head of the chain as it was before the insertion or update.
insert_slot(kv_pos, n) == IF MacOpt THEN kv_pos ELSE n - kv_pos - 1
update_slot(kv_pos, n) == IF MacOpt THEN n - kv_pos - 1 ELSE kv_pos

\* Mutant: the very first insertion under a root is verified like any other.
InsertVerifies_FirstToo(macs, root, hash_val, kv_pos) ==
  LET updated_idx == prev_mac_count(macs, hash_val) + insert_slot(kv_pos, Len(macs[hash_val]))
  IN  root = CMac(without(aggregate_mac(macs, hash_val), updated_idx + 1))

\* The checks of the old root in enclave_rebuild_tree_root: the array with the
\* insertion or the update undone must have the stored root as its CMAC. There is
\* no check when the inserted MAC is the only one.
InsertVerifies(macs, root, hash_val, kv_pos) ==
  LET agg         == aggregate_mac(macs, hash_val)
      updated_idx == prev_mac_count(macs, hash_val) + insert_slot(kv_pos, Len(macs[hash_val]))
  IN  Len(agg) > 1 => root = CMac(without(agg, updated_idx + 1))

UpdateVerifies(macs, root, hash_val, kv_pos, prev_mac) ==
  LET agg         == aggregate_mac(macs, hash_val)
      updated_idx == prev_mac_count(macs, hash_val) + update_slot(kv_pos, Len(macs[hash_val]))
  IN  root = CMac([agg EXCEPT ![updated_idx + 1] = prev_mac])

-----------------------------------------------------------------------------
NoJob == [op |-> "none"]
NoBuf == [kind |-> "none"]
NoLoc == [kv_pos |-> 0, found |-> << >>, nac |-> 0]

Init ==
  /\ table = [b \in Buckets |-> << >>]
  /\ macbuf = [b \in Buckets |-> << >>]
  /\ MACTable = [g \in Roots |-> ZeroMac]
  /\ pc = [w \in Workers |-> "idle"]
  /\ job = [w \in Workers |-> NoJob]
  /\ loc = [w \in Workers |-> NoLoc]
  /\ buf = [w \in Workers |-> NoBuf]
  /\ alarm = FALSE

bucket(w) == HtHash[job[w].key]

\* Mutant: a request goes to any worker, whatever the bucket of its key.
Accept_AnyWorker(w, r) ==
  /\ pc[w] = "idle"
  /\ r.op # "APP"
  /\ job' = [job EXCEPT ![w] = r]
  /\ pc' = [pc EXCEPT ![w] = "lookup"]
  /\ UNCHANGED << table, macbuf, MACTable, loc, buf, alarm >>

\* Worker w takes a request that enclave_message_pass queued to it.
Accept(w, r) ==
  /\ pc[w] = "idle"
  /\ thread_id(HtHash[r.key]) = w
  /\ r.op = "APP" => \A i \in DOMAIN table[HtHash[r.key]] :
                        LET c == table[HtHash[r.key]][i].cipher
                        IN  c.key = r.key => Len(c.val) < MaxVal
  /\ job' = [job EXCEPT ![w] = r]
  /\ pc' = [pc EXCEPT ![w] = "lookup"]
  /\ UNCHANGED << table, macbuf, MACTable, loc, buf, alarm >>

\* ht_get_o finds the key: its entry is verified, and its counter read on.
LookupHit(w) ==
  LET chain == table[bucket(w)]
      p     == ht_get_o(chain, job[w].key)
      e     == chain[p + 1]
  IN  /\ pc[w] = "lookup"
      /\ Found(chain, job[w].key)
      /\ loc' = [loc EXCEPT ![w] = [kv_pos |-> p, found |-> << e >>, nac |-> updated_nac(e)]]
      /\ alarm' = (alarm \/ ~Verifies(e))
      /\ pc' = [pc EXCEPT ![w] = IF job[w].op = "GET" THEN "verify" ELSE "write"]
      /\ UNCHANGED << table, macbuf, MACTable, job, buf >>

\* ht_get_o finds nothing: a SET will insert, under a random counter.
LookupMissSet(w) ==
  LET chain == table[bucket(w)]
  IN  /\ pc[w] = "lookup"
      /\ ~Found(chain, job[w].key)
      /\ job[w].op = "SET"
      /\ \E n \in RandNac :
           loc' = [loc EXCEPT ![w] =
                     [kv_pos |-> ht_get_o(chain, job[w].key), found |-> << >>, nac |-> n]]
      /\ pc' = [pc EXCEPT ![w] = "write"]
      /\ UNCHANGED << table, macbuf, MACTable, job, buf, alarm >>

\* ht_get_o finds nothing: GET and APP return early and leave the request in
\* the buffer, so the client is sent its own operation and key.
LookupMiss(w) ==
  /\ pc[w] = "lookup"
  /\ ~Found(table[bucket(w)], job[w].key)
  /\ job[w].op \in {"GET", "APP"}
  /\ buf' = [buf EXCEPT ![w] = [kind |-> "echo", body |-> job[w].key]]
  /\ pc' = [pc EXCEPT ![w] = "reply"]
  /\ UNCHANGED << table, macbuf, MACTable, job, loc, alarm >>

\* GET: enclave_verify_tree_root, then the value goes into the buffer.
VerifyTreeRoot(w) ==
  /\ pc[w] = "verify"
  /\ alarm' = (alarm \/ CMac(aggregate_mac(Macs, bucket(w))) # MACTable[root_index(bucket(w))])
  /\ buf' = [buf EXCEPT ![w] = [kind |-> "value", body |-> loc[w].found[1].cipher.val]]
  /\ pc' = [pc EXCEPT ![w] = "reply"]
  /\ UNCHANGED << table, macbuf, MACTable, job, loc >>

\* SET of a key that is stored: ht_set_o with updated_entry.
SetUpdate(w) ==
  LET b == bucket(w)
      e == NewEntry(job[w].key, << job[w].chunk >>, loc[w].nac)
      n == Len(macbuf[b])
  IN  /\ pc[w] = "write"
      /\ job[w].op = "SET"
      /\ loc[w].found # << >>
      /\ table' = [table EXCEPT ![b][loc[w].kv_pos + 1] = e]
      /\ macbuf' = IF MacOpt
                     THEN [macbuf EXCEPT ![b] = StoreMac(@, n, update_pos(n, loc[w].kv_pos), e.mac)]
                     ELSE macbuf
      /\ pc' = [pc EXCEPT ![w] = "rebuild"]
      /\ UNCHANGED << MACTable, job, loc, buf, alarm >>

\* SET of a new key: ht_newpair becomes the head of the chain.
SetInsert(w) ==
  LET b == bucket(w)
      e == NewEntry(job[w].key, << job[w].chunk >>, loc[w].nac)
  IN  /\ pc[w] = "write"
      /\ job[w].op = "SET"
      /\ loc[w].found = << >>
      /\ table' = [table EXCEPT ![b] = << e >> \o @]
      /\ macbuf' = IF MacOpt
                     THEN [macbuf EXCEPT ![b] = StoreMac(@, Len(@) + 1, loc[w].kv_pos, e.mac)]
                     ELSE macbuf
      /\ pc' = [pc EXCEPT ![w] = "rebuild"]
      /\ UNCHANGED << MACTable, job, loc, buf, alarm >>

\* APP: ht_append_o, which stores the MAC at kv_pos.
AppendEntry(w) ==
  LET b   == bucket(w)
      old == loc[w].found[1].cipher.val
      e   == NewEntry(job[w].key, Append(old, job[w].chunk), loc[w].nac)
  IN  /\ pc[w] = "write"
      /\ job[w].op = "APP"
      /\ table' = [table EXCEPT ![b][loc[w].kv_pos + 1] = e]
      /\ macbuf' = IF MacOpt
                     THEN [macbuf EXCEPT ![b] = StoreMac(@, Len(@), loc[w].kv_pos, e.mac)]
                     ELSE macbuf
      /\ pc' = [pc EXCEPT ![w] = "rebuild"]
      /\ UNCHANGED << MACTable, job, loc, buf, alarm >>

\* The check worker w makes, with the MAC its entry had before the update.
PrevVerifies(w) ==
  LET b    == bucket(w)
      root == MACTable[root_index(b)]
  IN  IF loc[w].found = << >>
        THEN InsertVerifies(Macs, root, b, loc[w].kv_pos)
        ELSE UpdateVerifies(Macs, root, b, loc[w].kv_pos, loc[w].found[1].mac)

\* enclave_rebuild_tree_root: check the old root, then replace it. When the
\* check fails the root stays as it was and the request is answered all the same.
RebuildTreeRoot(w) ==
  LET b  == bucket(w)
      ok == PrevVerifies(w)
  IN  /\ pc[w] = "rebuild"
      /\ MACTable' = IF ok
                       THEN [MACTable EXCEPT ![root_index(b)] = CMac(aggregate_mac(Macs, b))]
                       ELSE MACTable
      /\ alarm' = (alarm \/ ~ok)
      /\ buf' = [buf EXCEPT ![w] = [kind |-> "key", body |-> job[w].key]]
      /\ pc' = [pc EXCEPT ![w] = "reply"]
      /\ UNCHANGED << table, macbuf, job, loc >>

\* message_return sends the buffer; the job is popped and freed.
Reply(w) ==
  /\ pc[w] = "reply"
  /\ pc' = [pc EXCEPT ![w] = "idle"]
  /\ job' = [job EXCEPT ![w] = NoJob]
  /\ loc' = [loc EXCEPT ![w] = NoLoc]
  /\ buf' = [buf EXCEPT ![w] = NoBuf]
  /\ UNCHANGED << table, macbuf, MACTable, alarm >>

Next ==
  \E w \in Workers :
    \/ \E r \in Requests : Accept(w, r)
    \/ LookupHit(w)
    \/ LookupMissSet(w)
    \/ LookupMiss(w)
    \/ VerifyTreeRoot(w)
    \/ SetUpdate(w)
    \/ SetInsert(w)
    \/ AppendEntry(w)
    \/ RebuildTreeRoot(w)
    \/ Reply(w)

Spec == Init /\ [][Next]_vars

-----------------------------------------------------------------------------
(* Properties. *)

TypeOK ==
  /\ table \in [Buckets -> Seq(Entry)]
  /\ macbuf \in [Buckets -> Seq(Mac)]
  /\ MACTable \in [Roots -> Seq(Seq(Mac))]
  /\ pc \in [Workers -> {"idle", "lookup", "verify", "write", "rebuild", "reply"}]
  /\ job \in [Workers -> Requests \cup {NoJob}]
  /\ loc \in [Workers -> [kv_pos : Nat, found : Seq(Entry), nac : Nac]]
  /\ buf \in [Workers -> [kind : {"value"}, body : Seq(Chunks)]
                         \cup [kind : {"key", "echo"}, body : Keys] \cup {NoBuf}]
  /\ alarm \in BOOLEAN

\* No operation of enclave_set, enclave_get or enclave_append ever reports a MAC
\* or tree mismatch when only the server itself writes the untrusted memory.
NoFalseAlarm == ~alarm

RootBusy(g) == \E w \in Workers : pc[w] = "rebuild" /\ root_index(bucket(w)) = g

RootOf(macs) == IF macs = << >> THEN ZeroMac ELSE CMac(macs)

\* Except between ht_set_o or ht_append_o and enclave_rebuild_tree_root, every
\* in-enclave root is the CMAC of the MACs now in untrusted memory.
RootsCoverMemory ==
  \A h \in Buckets :
    ~RootBusy(root_index(h)) =>
      MACTable[root_index(h)] = RootOf(aggregate_mac(Macs, h))

ReversedMacs(chain) == [i \in 1 .. Len(chain) |-> chain[(Len(chain) - i) + 1].mac]

\* "The order of MAC bucket is reversed to hash chain order" (Enclave/ht.cpp):
\* a MAC bucket holds the MACs of its chain, last entry first.
MacBucketReversed ==
  MacOpt => \A b \in Buckets : macbuf[b] = ReversedMacs(table[b])

\* A key is stored at most once, and in the bucket ht_hash sends it to, though
\* ht_set_o inserts without searching the chain itself.
OneEntryPerKey ==
  \A b \in Buckets : \A i, j \in DOMAIN table[b] :
    /\ HtHash[table[b][i].cipher.key] = b
    /\ table[b][i].cipher.key = table[b][j].cipher.key => i = j

\* A MAC bucket never holds more MACs than keys hash to its bucket: nothing bounds
\* the copy into its 30 slots, but updates and appends reuse the slots they have, so
\* the slots suffice for as long as at most 30 keys share a bucket.
MacBucketsBounded ==
  MacOpt => \A b \in Buckets : Len(macbuf[b]) <= Cardinality({k \in Keys : HtHash[k] = b})

LookupHolds(w) ==
  LET chain == table[bucket(w)]
  IN  /\ loc[w].kv_pos = ht_get_o(chain, job[w].key)
      /\ IF loc[w].found = << >>
           THEN loc[w].kv_pos = Len(chain)
           ELSE loc[w].kv_pos < Len(chain) /\ loc[w].found = << chain[loc[w].kv_pos + 1] >>

\* kv_pos and ret_entry, read by ht_get_o, are still right when the worker uses
\* them in ht_set_o, ht_append_o or the reply: no other worker touched the chain.
LookupStillValid ==
  \A w \in Workers : pc[w] \in {"write", "verify"} => LookupHolds(w)

Stored(k) == \E i \in DOMAIN table[HtHash[k]] : table[HtHash[k]][i].cipher.key = k

CipherOf(k) ==
  LET chain == table[HtHash[k]]
  IN  chain[CHOOSE i \in DOMAIN chain : chain[i].cipher.key = k].cipher

\* The counter values AES-CTR runs through for a ciphertext.
KeyStream(c) == { (c.ctr + i) % CtrSpan : i \in 0 .. (Blocks(c.val) - 1) }

\* An update never encrypts under a counter value the ciphertext it replaces
\* used: enclave_set and enclave_append take the counter decryption left.
UpdateUsesFreshCounters ==
  [][\A k \in Keys :
       Stored(k) /\ CipherOf(k) # CipherOf(k)' =>
         KeyStream(CipherOf(k)) \cap KeyStream(CipherOf(k)') = {}]_vars

-----------------------------------------------------------------------------
(***************************************************************************)
(* The dictionary the workers implement together. A request takes effect    *)
(* when ht_get_o misses or a GET finds its key, and otherwise when ht_set_o *)
(* or ht_append_o writes the entry.                                         *)
(***************************************************************************)
kvBar == [k \in {x \in Keys : Stored(x)} |-> CipherOf(k).val]

phaseBar ==
  [w \in Workers |-> CASE pc[w] = "idle" -> "idle"
                       [] pc[w] \in {"lookup", "write"} -> "pending"
                       [] OTHER -> "done"]

respBar ==
  [w \in Workers |->
     CASE pc[w] = "verify"  -> [kind |-> "value", body |-> loc[w].found[1].cipher.val]
       [] pc[w] = "rebuild" -> [kind |-> "key", body |-> job[w].key]
       [] OTHER             -> buf[w]]

KV == INSTANCE KVStore WITH Threads <- Workers, kv <- kvBar, phase <- phaseBar,
                            req <- job, resp <- respBar

\* The workers, their steps interleaved, behave as one dictionary: every reply is
\* the one the atomic operation gives.
ImplementsKVStore == KV!Spec

=============================================================================
