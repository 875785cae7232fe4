--------------------------- MODULE KVStoreProofs ----------------------------
(***************************************************************************)
(* EnclaveStore implements KVStore: every step of a worker is, for the      *)
(* dictionary that the chains represent, the invocation, the effect or the  *)
(* return of its request, or nothing at all. The AES-CTR counters are fresh: *)
(* the ciphertext that replaces another uses none of its counter values,    *)
(* wrap-around included.                                                    *)
(***************************************************************************)
EXTENDS EnclaveStoreProofs, FiniteSetTheorems

-----------------------------------------------------------------------------
(* The dictionary of a table. *)

\* The places of key k in table tb.
Places(tb, k) == {i \in DOMAIN tb[HtHash[k]] : tb[HtHash[k]][i].cipher.key = k}

\* The ciphertext stored for key k, if there is one.
CipherIn(tb, k) == tb[HtHash[k]][CHOOSE i \in DOMAIN tb[HtHash[k]] : tb[HtHash[k]][i].cipher.key = k].cipher

Unique(tb) == \A k \in Keys : \A i, j \in Places(tb, k) : i = j

\* The dictionary a table stands for.
Dict(tb) == [k \in {x \in Keys : Places(tb, x) # {}} |-> CipherIn(tb, k).val]

\* The dictionary d with key k set to v.
SetIn(d, k, v) == [x \in DOMAIN d \cup {k} |-> IF x = k THEN v ELSE d[x]]

\* The dictionary is read off the places of the keys.
LEMMA KvBarIs ==
  /\ \A k : Stored(k) <=> Places(table, k) # {}
  /\ \A k : CipherOf(k) = CipherIn(table, k)
  /\ kvBar = Dict(table)
  /\ kvBar' = Dict(table')
<1>1. \A k : Stored(k) <=> Places(table, k) # {}
  BY DEF Stored, Places
<1>2. \A k : CipherOf(k) = CipherIn(table, k)
  BY DEF CipherOf, CipherIn
<1>3. \A k : Stored(k)' <=> Places(table', k) # {}
  BY DEF Stored, Places
<1>4. \A k : CipherOf(k)' = CipherIn(table', k)
  BY DEF CipherOf, CipherIn
<1>5. kvBar = Dict(table)
  BY <1>1, <1>2, Zenon DEF kvBar, Dict
<1>6. kvBar' = Dict(table')
  BY <1>3, <1>4, Zenon DEF kvBar, Dict
<1> QED BY <1>1, <1>2, <1>5, <1>6

\* The invariant makes the place of a key unique.
LEMMA PlacesUnique ==
  /\ IInv => Unique(table)
  /\ IInv' => Unique(table')
<1>1. ASSUME IInv PROVE Unique(table)
  <2> SUFFICES ASSUME NEW k \in Keys, NEW i \in Places(table, k), NEW j \in Places(table, k)
               PROVE  i = j
    BY DEF Unique
  <2>1. HtHash[k] \in Buckets
    BY StoreAssumption
  <2>2. /\ i \in DOMAIN table[HtHash[k]] /\ table[HtHash[k]][i].cipher.key = k
        /\ j \in DOMAIN table[HtHash[k]] /\ table[HtHash[k]][j].cipher.key = k
    BY DEF Places
  <2>3. OneEntryPerKey
    BY <1>1, Zenon DEF IInv
  <2> QED BY <2>1, <2>2, <2>3 DEF OneEntryPerKey
<1>2. ASSUME IInv' PROVE Unique(table')
  <2> SUFFICES ASSUME NEW k \in Keys, NEW i \in Places(table', k), NEW j \in Places(table', k)
               PROVE  i = j
    BY DEF Unique
  <2>1. HtHash[k] \in Buckets
    BY StoreAssumption
  <2>2. /\ i \in DOMAIN table'[HtHash[k]] /\ table'[HtHash[k]][i].cipher.key = k
        /\ j \in DOMAIN table'[HtHash[k]] /\ table'[HtHash[k]][j].cipher.key = k
    BY DEF Places
  <2>3. OneEntryPerKey'
    BY <1>2, Zenon DEF IInv
  <2> QED BY <2>1, <2>2, <2>3 DEF OneEntryPerKey
<1> QED BY <1>1, <1>2

\* The ciphertext of a key is the one at its place.
LEMMA CipherAt ==
  ASSUME NEW tb, Unique(tb), NEW k \in Keys, NEW i \in Places(tb, k)
  PROVE  CipherIn(tb, k) = tb[HtHash[k]][i].cipher
<1> DEFINE c == CHOOSE j \in DOMAIN tb[HtHash[k]] : tb[HtHash[k]][j].cipher.key = k
<1>1. i \in DOMAIN tb[HtHash[k]] /\ tb[HtHash[k]][i].cipher.key = k
  BY DEF Places
<1>2. c \in DOMAIN tb[HtHash[k]] /\ tb[HtHash[k]][c].cipher.key = k
  BY <1>1, Zenon
<1>3. c \in Places(tb, k)
  BY <1>2, Zenon DEF Places
<1>4. c = i
  BY <1>3, Zenon DEF Unique
<1> QED BY <1>4, Zenon DEF CipherIn

\* Table tb2 has the ciphertexts of tb, but for key k, which is stored with c.
Sets(tb, tb2, k, c) ==
  /\ \A x \in Keys \ {k} : \A i \in Places(tb, x) :
       \E j \in Places(tb2, x) : tb2[HtHash[x]][j].cipher = tb[HtHash[x]][i].cipher
  /\ \A x \in Keys \ {k} : Places(tb, x) = {} => Places(tb2, x) = {}
  /\ \E j \in Places(tb2, k) : tb2[HtHash[k]][j].cipher = c

\* Then key k has ciphertext c and every other key the one it had.
LEMMA SetsCiphers ==
  ASSUME NEW tb, NEW tb2, Unique(tb), Unique(tb2), NEW k \in Keys, NEW c, Sets(tb, tb2, k, c)
  PROVE  /\ CipherIn(tb2, k) = c
         /\ \A x \in Keys \ {k} : Places(tb, x) # {} => CipherIn(tb2, x) = CipherIn(tb, x)
<1>1. CipherIn(tb2, k) = c
  BY CipherAt, Zenon DEF Sets
<1>2. ASSUME NEW x \in Keys \ {k}, Places(tb, x) # {}
      PROVE  CipherIn(tb2, x) = CipherIn(tb, x)
  <2>0. x \in Keys
    OBVIOUS
  <2>1. PICK i \in Places(tb, x) : TRUE
    BY <1>2
  <2>2. PICK j \in Places(tb2, x) : tb2[HtHash[x]][j].cipher = tb[HtHash[x]][i].cipher
    BY <2>1 DEF Sets
  <2>3. CipherIn(tb2, x) = tb2[HtHash[x]][j].cipher
    BY <2>0, <2>2, CipherAt
  <2>4. CipherIn(tb, x) = tb[HtHash[x]][i].cipher
    BY <2>0, <2>1, CipherAt
  <2> QED BY <2>2, <2>3, <2>4
<1> QED BY <1>1, <1>2, Zenon

\* And its dictionary is that of tb with the key set.
LEMMA WriteKv ==
  ASSUME NEW tb, NEW tb2, Unique(tb), Unique(tb2), NEW k \in Keys, NEW c, Sets(tb, tb2, k, c)
  PROVE  Dict(tb2) = SetIn(Dict(tb), k, c.val)
<1>1. {y \in Keys : Places(tb2, y) # {}} = {y \in Keys : Places(tb, y) # {}} \cup {k}
  BY DEF Sets
<1>2. \A x \in {y \in Keys : Places(tb2, y) # {}} :
        CipherIn(tb2, x).val = IF x = k THEN c.val ELSE CipherIn(tb, x).val
  BY <1>1, SetsCiphers
<1>3. DOMAIN Dict(tb) = {y \in Keys : Places(tb, y) # {}}
  BY DEF Dict
<1>4. \A x \in DOMAIN Dict(tb) : Dict(tb)[x] = CipherIn(tb, x).val
  BY DEF Dict
<1>5. \A x \in {y \in Keys : Places(tb, y) # {}} \cup {k} :
        CipherIn(tb2, x).val = IF x = k THEN c.val ELSE Dict(tb)[x]
  BY <1>1, <1>2, <1>3, <1>4
<1>6. Dict(tb2) = [x \in {y \in Keys : Places(tb, y) # {}} \cup {k} |-> CipherIn(tb2, x).val]
  BY <1>1, Zenon DEF Dict
<1> QED BY <1>3, <1>5, <1>6, Zenon DEF SetIn

-----------------------------------------------------------------------------
(* The phases and replies of the workers. *)

\* A worker that moves changes its own phase and no other.
LEMMA PhaseMoves ==
  ASSUME NEW S, pc \in [Workers -> S], NEW w \in Workers, NEW p, pc' = [pc EXCEPT ![w] = p]
  PROVE  /\ p = "idle" => phaseBar' = [phaseBar EXCEPT ![w] = "idle"]
         /\ p \in {"lookup", "write"} => phaseBar' = [phaseBar EXCEPT ![w] = "pending"]
         /\ p \in {"verify", "rebuild", "reply"} => phaseBar' = [phaseBar EXCEPT ![w] = "done"]
<1>1. pc'[w] = p /\ \A x \in Workers \ {w} : pc'[x] = pc[x]
  OBVIOUS
<1> QED BY <1>1, Zenon DEF phaseBar

\* The reply a worker at place p with this request, found entry and buffer owes.
RespAt(p, j, l, u) ==
  CASE p = "verify"  -> [kind |-> "value", body |-> l.found[1].cipher.val]
    [] p = "rebuild" -> [kind |-> "key", body |-> j.key]
    [] OTHER         -> u

\* The reply owed by each worker, before and after a step.
LEMMA RespIs ==
  /\ respBar = [x \in Workers |-> RespAt(pc[x], job[x], loc[x], buf[x])]
  /\ respBar' = [x \in Workers |-> RespAt(pc'[x], job'[x], loc'[x], buf'[x])]
BY Zenon DEF respBar, RespAt

\* Only the worker that moves may owe another reply than before.
LEMMA RespMoves ==
  ASSUME NEW w \in Workers, NEW v,
         \A x \in Workers \ {w} : /\ pc'[x] = pc[x] /\ job'[x] = job[x]
                                  /\ loc'[x] = loc[x] /\ buf'[x] = buf[x],
         RespAt(pc'[w], job'[w], loc'[w], buf'[w]) = v
  PROVE  respBar' = [respBar EXCEPT ![w] = v]
<1>1. \A x \in Workers : RespAt(pc'[x], job'[x], loc'[x], buf'[x]) =
                         IF x = w THEN v ELSE RespAt(pc[x], job[x], loc[x], buf[x])
  BY Zenon
<1>2. respBar' = [x \in Workers |-> IF x = w THEN v ELSE RespAt(pc[x], job[x], loc[x], buf[x])]
  BY <1>1, RespIs, Zenon
<1>3. [respBar EXCEPT ![w] = v] =
      [x \in Workers |-> IF x = w THEN v ELSE RespAt(pc[x], job[x], loc[x], buf[x])]
  BY RespIs
<1> QED BY <1>2, <1>3

-----------------------------------------------------------------------------
(* What a step of a worker is to the dictionary. *)

\* The table is untouched, and so is the dictionary.
LEMMA KvKept ==
  ASSUME table' = table
  PROVE  kvBar' = kvBar
BY KvBarIs, Zenon

\* The request of a worker, and what ht_get_o says of it in the dictionary.
LEMMA FoundIsStored ==
  ASSUME IInv, NEW w \in Workers, pc[w] # "idle"
  PROVE  LET chain == table[bucket(w)]
             k     == job[w].key
         IN  /\ Found(chain, k) <=> k \in DOMAIN kvBar
             /\ Found(chain, k) => kvBar[k] = chain[ht_get_o(chain, k) + 1].cipher.val
<1> DEFINE chain == table[bucket(w)]
<1> DEFINE k == job[w].key
<1> DEFINE p == ht_get_o(chain, k)
<1>1. bucket(w) \in Buckets /\ k \in Keys /\ bucket(w) = HtHash[k]
  BY BucketOK, Zenon DEF bucket
<1>2. chain \in Seq(Entry)
  BY <1>1 DEF IInv, TypeOK
<1>3. Len(chain) \in Nat /\ DOMAIN chain = 1 .. Len(chain)
  BY <1>2
<1>4. \A i \in 1 .. Len(chain) : EntryOK(chain[i])
  BY <1>1, <1>3, Zenon DEF IInv, EntriesOK
<1>5. Places(table, k) = {i \in DOMAIN chain : chain[i].cipher.key = k}
  BY <1>1 DEF Places
<1>6. DOMAIN kvBar = {x \in Keys : Places(table, x) # {}} /\ \A x \in DOMAIN kvBar : kvBar[x] = CipherIn(table, x).val
  BY KvBarIs DEF Dict
<1> HIDE DEF chain, k, p
<1>7. /\ p \in 0 .. Len(chain)
      /\ p < Len(chain) => Matches(chain[p + 1], k)
      /\ \A i \in 1 .. p : ~Matches(chain[i], k)
  BY <1>3, GetO DEF p
<1>8. ASSUME Found(chain, k)
      PROVE  k \in DOMAIN kvBar /\ kvBar[k] = chain[p + 1].cipher.val
  <2>1. p < Len(chain)
    BY <1>8 DEF Found, p
  <2>2. p + 1 \in 1 .. Len(chain) /\ Matches(chain[p + 1], k)
    BY <1>3, <1>7, <2>1
  <2>3. p + 1 \in Places(table, k)
    BY <1>3, <1>4, <1>5, <2>2, MatchesKey
  <2>4. CipherIn(table, k) = table[HtHash[k]][p + 1].cipher
    BY <1>1, <2>3, PlacesUnique, CipherAt, Zenon
  <2> QED BY <1>1, <1>6, <2>3, <2>4 DEF chain
<1>9. ASSUME ~Found(chain, k)
      PROVE  k \notin DOMAIN kvBar
  <2>1. p = Len(chain)
    BY <1>3, <1>7, <1>9 DEF Found, p
  <2>2. ASSUME NEW i \in Places(table, k) PROVE FALSE
    <3>1. i \in 1 .. Len(chain) /\ chain[i].cipher.key = k
      BY <1>3, <1>5, <2>2
    <3>2. ~Matches(chain[i], k) /\ EntryOK(chain[i])
      BY <1>4, <1>7, <2>1, <3>1
    <3> QED BY <3>1, <3>2, MatchesKey
  <2> QED BY <1>6, <2>2
<1> QED BY <1>8, <1>9 DEF chain, k, p

\* Taking a request is an invocation.
LEMMA AcceptIsInvoke ==
  ASSUME IInv, NEW w \in Workers, NEW r \in Requests, Accept(w, r)
  PROVE  KV!Invoke(w, r)
<1> DEFINE S == {"idle", "lookup", "verify", "write", "rebuild", "reply"}
<1>1. pc \in [Workers -> S] /\ job \in [Workers -> Requests \cup {NoJob}]
  BY DEF IInv, TypeOK
<1>2. phaseBar[w] = "idle" /\ phaseBar' = [phaseBar EXCEPT ![w] = "pending"]
  BY <1>1, PhaseMoves, Zenon DEF Accept, phaseBar
<1>3. kvBar' = kvBar
  BY KvKept DEF Accept
<1>4. respBar' = respBar
  <2>1. \A x \in Workers : RespAt(pc'[x], job'[x], loc'[x], buf'[x]) = RespAt(pc[x], job[x], loc[x], buf[x])
    BY <1>1 DEF Accept, RespAt
  <2> QED BY <2>1, RespIs, Zenon
<1> QED BY <1>2, <1>3, <1>4 DEF Accept, KV!Invoke

\* A GET that finds its key takes effect when it does; a SET or an APP does not yet.
LEMMA LookupHitIs ==
  ASSUME IInv, NEW w \in Workers, LookupHit(w)
  PROVE  KV!Serve(w) \/ UNCHANGED KV!vars
<1> DEFINE chain == table[bucket(w)]
<1> DEFINE k == job[w].key
<1> DEFINE e == chain[ht_get_o(chain, k) + 1]
<1> DEFINE S == {"idle", "lookup", "verify", "write", "rebuild", "reply"}
<1>1. pc \in [Workers -> S] /\ loc \in [Workers -> [kv_pos : Nat, found : Seq(Entry), nac : Nac]]
  BY DEF IInv, TypeOK
<1>2. pc[w] = "lookup" /\ Found(chain, k) /\ table' = table /\ job' = job /\ buf' = buf
  BY DEF LookupHit
<1>3. /\ pc' = [pc EXCEPT ![w] = IF job[w].op = "GET" THEN "verify" ELSE "write"]
      /\ loc'[w].found = << e >> /\ \A x \in Workers \ {w} : loc'[x] = loc[x]
  BY <1>1 DEF LookupHit
<1>4. k \in DOMAIN kvBar /\ kvBar[k] = e.cipher.val
  BY <1>2, FoundIsStored
<1>5. job[w].op \in {"GET", "SET", "APP"}
  BY <1>2, BucketOK
<1>6. kvBar' = kvBar
  BY <1>2, KvKept
<1> HIDE DEF chain, k, e
<1>7. phaseBar[w] = "pending"
  BY <1>2 DEF phaseBar
<1>8. CASE job[w].op = "GET"
  <2>1. pc' = [pc EXCEPT ![w] = "verify"]
    BY <1>3, <1>8
  <2>2. phaseBar' = [phaseBar EXCEPT ![w] = "done"]
    BY <1>1, <2>1, PhaseMoves, Zenon
  <2>3. RespAt(pc'[w], job'[w], loc'[w], buf'[w]) = [kind |-> "value", body |-> e.cipher.val]
    BY <1>1, <1>3, <2>1 DEF RespAt
  <2>4. respBar' = [respBar EXCEPT ![w] = [kind |-> "value", body |-> e.cipher.val]]
    BY <1>1, <1>2, <1>3, <2>1, <2>3, RespMoves
  <2>5. KV!Answer(job[w]) = [kind |-> "value", body |-> e.cipher.val]
    BY <1>4, <1>8 DEF KV!Answer, KV!Stored, k
  <2>6. KV!Effect(job[w]) = kvBar
    BY <1>8 DEF KV!Effect
  <2> QED BY <1>2, <1>6, <1>7, <2>2, <2>4, <2>5, <2>6 DEF KV!Serve
<1>9. CASE job[w].op # "GET"
  <2>1. pc' = [pc EXCEPT ![w] = "write"]
    BY <1>3, <1>9
  <2>2. phaseBar' = [phaseBar EXCEPT ![w] = "pending"]
    BY <1>1, <2>1, PhaseMoves, Zenon
  <2>3. phaseBar' = phaseBar
    BY <1>7, <2>2, Zenon DEF phaseBar
  <2>4. \A x \in Workers : RespAt(pc'[x], job'[x], loc'[x], buf'[x]) = RespAt(pc[x], job[x], loc[x], buf[x])
    BY <1>1, <1>2, <1>3, <2>1 DEF RespAt
  <2>5. respBar' = respBar
    BY <2>4, RespIs, Zenon
  <2> QED BY <1>2, <1>6, <2>3, <2>5 DEF KV!vars
<1> QED BY <1>8, <1>9

\* A GET or an APP that misses takes effect, which is none, when it does.
LEMMA LookupMissIsServe ==
  ASSUME IInv, NEW w \in Workers, LookupMiss(w)
  PROVE  KV!Serve(w)
<1> DEFINE S == {"idle", "lookup", "verify", "write", "rebuild", "reply"}
<1> DEFINE v == [kind |-> "echo", body |-> job[w].key]
<1>1. pc \in [Workers -> S] /\ DOMAIN buf = Workers
  BY DEF IInv, TypeOK
<1>2. /\ pc[w] = "lookup" /\ ~Found(table[bucket(w)], job[w].key) /\ job[w].op \in {"GET", "APP"}
      /\ table' = table /\ job' = job /\ loc' = loc
      /\ pc' = [pc EXCEPT ![w] = "reply"] /\ buf' = [buf EXCEPT ![w] = v]
  BY DEF LookupMiss
<1>3. phaseBar[w] = "pending" /\ phaseBar' = [phaseBar EXCEPT ![w] = "done"]
  BY <1>1, <1>2, PhaseMoves, Zenon DEF phaseBar
<1>4. kvBar' = kvBar
  BY <1>2, KvKept
<1>5. job[w].key \notin DOMAIN kvBar
  BY <1>2, FoundIsStored
<1>6. KV!Effect(job[w]) = kvBar
  BY <1>2, <1>5 DEF KV!Effect, KV!Stored
<1>7. KV!Answer(job[w]) = v
  BY <1>2, <1>5 DEF KV!Answer, KV!Stored
<1>8. /\ RespAt(pc'[w], job'[w], loc'[w], buf'[w]) = v
      /\ \A x \in Workers \ {w} : pc'[x] = pc[x] /\ buf'[x] = buf[x]
  BY <1>1, <1>2 DEF RespAt
<1> HIDE DEF v
<1>9. respBar' = [respBar EXCEPT ![w] = v]
  BY <1>2, <1>8, RespMoves
<1> QED BY <1>2, <1>3, <1>4, <1>6, <1>7, <1>9 DEF KV!Serve

\* Steps that prepare or finish a request change nothing the dictionary shows.
LEMMA OtherStepsStutter ==
  ASSUME IInv, NEW w \in Workers,
         LookupMissSet(w) \/ VerifyTreeRoot(w) \/ RebuildTreeRoot(w)
  PROVE  UNCHANGED KV!vars
<1> DEFINE S == {"idle", "lookup", "verify", "write", "rebuild", "reply"}
<1>1. pc \in [Workers -> S] /\ DOMAIN buf = Workers /\ DOMAIN loc = Workers
  BY DEF IInv, TypeOK
<1>2. table' = table /\ job' = job
  BY DEF LookupMissSet, VerifyTreeRoot, RebuildTreeRoot
<1>3. kvBar' = kvBar
  BY <1>2, KvKept
<1>4. phaseBar' = phaseBar
  <2>1. CASE LookupMissSet(w)
    <3>1. phaseBar[w] = "pending" /\ phaseBar' = [phaseBar EXCEPT ![w] = "pending"]
      BY <1>1, <2>1, PhaseMoves DEF LookupMissSet, phaseBar
    <3> QED BY <3>1, Zenon DEF phaseBar
  <2>2. CASE VerifyTreeRoot(w) \/ RebuildTreeRoot(w)
    <3>1. pc[w] \in {"verify", "rebuild"} /\ pc' = [pc EXCEPT ![w] = "reply"]
      BY <2>2 DEF VerifyTreeRoot, RebuildTreeRoot
    <3>2. phaseBar[w] = "done" /\ phaseBar' = [phaseBar EXCEPT ![w] = "done"]
      BY <1>1, <3>1, PhaseMoves DEF phaseBar
    <3> QED BY <3>2, Zenon DEF phaseBar
  <2> QED BY <2>1, <2>2
<1>5. \A x \in Workers : RespAt(pc'[x], job'[x], loc'[x], buf'[x]) = RespAt(pc[x], job[x], loc[x], buf[x])
  <2>1. CASE LookupMissSet(w)
    BY <1>1, <2>1 DEF LookupMissSet, RespAt
  <2>2. CASE VerifyTreeRoot(w)
    BY <1>1, <2>2 DEF VerifyTreeRoot, RespAt
  <2>3. CASE RebuildTreeRoot(w)
    BY <1>1, <2>3 DEF RebuildTreeRoot, RespAt
  <2> QED BY <2>1, <2>2, <2>3
<1>6. respBar' = respBar
  BY <1>5, RespIs, Zenon
<1> QED BY <1>2, <1>3, <1>4, <1>6 DEF KV!vars

\* Sending the reply is the return.
LEMMA ReplyIsReturn ==
  ASSUME IInv, NEW w \in Workers, Reply(w)
  PROVE  KV!Return(w)
<1> DEFINE S == {"idle", "lookup", "verify", "write", "rebuild", "reply"}
<1>1. /\ pc \in [Workers -> S]
      /\ DOMAIN buf = Workers /\ DOMAIN loc = Workers /\ DOMAIN job = Workers
  BY DEF IInv, TypeOK
<1>2. /\ pc[w] = "reply" /\ pc' = [pc EXCEPT ![w] = "idle"] /\ table' = table
      /\ job' = [job EXCEPT ![w] = NoJob] /\ loc' = [loc EXCEPT ![w] = NoLoc]
      /\ buf' = [buf EXCEPT ![w] = NoBuf]
  BY DEF Reply
<1>3. phaseBar[w] = "done" /\ phaseBar' = [phaseBar EXCEPT ![w] = "idle"]
  BY <1>1, <1>2, PhaseMoves, Zenon DEF phaseBar
<1>4. kvBar' = kvBar
  BY <1>2, KvKept
<1>5. /\ RespAt(pc'[w], job'[w], loc'[w], buf'[w]) = NoBuf
      /\ \A x \in Workers \ {w} : pc'[x] = pc[x] /\ buf'[x] = buf[x]
                                  /\ job'[x] = job[x] /\ loc'[x] = loc[x]
  BY <1>1, <1>2 DEF RespAt
<1>6. respBar' = [respBar EXCEPT ![w] = NoBuf]
  BY <1>5, RespMoves
<1> QED BY <1>2, <1>3, <1>4, <1>6 DEF KV!Return, KV!NoReq, KV!NoResp, NoJob, NoBuf

\* An entry for key k at the head of its chain, or in the place of the old entry,
\* sets the ciphertext of the key and leaves the others alone.
LEMMA WriteIsSets ==
  ASSUME IInv, IInv', NEW k \in Keys, NEW e, e.cipher.key = k,
         LET chain == table[HtHash[k]]
         IN  \/ table' = [table EXCEPT ![HtHash[k]] = << e >> \o chain]
             \/ \E p \in Places(table, k) :
                  table' = [table EXCEPT ![HtHash[k]] = [chain EXCEPT ![p] = e]]
  PROVE  Unique(table) /\ Unique(table') /\ Sets(table, table', k, e.cipher)
<1> DEFINE b == HtHash[k]
<1> DEFINE chain == table[b]
<1>1. b \in Buckets /\ \A x \in Keys : HtHash[x] \in Buckets
  BY StoreAssumption
<1>2. DOMAIN table = Buckets /\ chain \in Seq(Entry)
  BY <1>1 DEF IInv, TypeOK
<1>3. Unique(table) /\ Unique(table')
  BY PlacesUnique
<1>4. Sets(table, table', k, e.cipher)
  <2>1. ASSUME NEW x \in Keys \ {k}, HtHash[x] # b
        PROVE  table'[HtHash[x]] = table[HtHash[x]] /\ Places(table', x) = Places(table, x)
    <3>1. table'[HtHash[x]] = table[HtHash[x]]
      BY <1>1, <1>2, <2>1, Zenon
    <3> QED BY <3>1 DEF Places
  <2>2. CASE table' = [table EXCEPT ![b] = << e >> \o chain]
    <3> DEFINE c2 == << e >> \o chain
    <3>1. /\ DOMAIN chain = 1 .. Len(chain) /\ DOMAIN c2 = 1 .. (Len(chain) + 1)
          /\ Len(chain) \in Nat /\ c2[1] = e /\ \A i \in 1 .. Len(chain) : c2[i + 1] = chain[i]
      BY <1>2
    <3>2. table'[b] = c2
      BY <1>1, <1>2, <2>2
    <3> HIDE DEF c2
    <3>3. \A i \in DOMAIN chain : i + 1 \in DOMAIN c2 /\ c2[i + 1] = chain[i]
      <4> SUFFICES ASSUME NEW i \in 1 .. Len(chain)
                   PROVE  i + 1 \in DOMAIN c2 /\ c2[i + 1] = chain[i]
        BY <3>1, Zenon
      <4>1. i + 1 \in 1 .. (Len(chain) + 1)
        BY <3>1
      <4> QED BY <3>1, <4>1, Zenon
    <3>4. \A j \in DOMAIN c2 : j = 1 \/ (j - 1 \in DOMAIN chain /\ c2[j] = chain[j - 1])
      <4> SUFFICES ASSUME NEW j \in DOMAIN c2, j # 1
                   PROVE  j - 1 \in DOMAIN chain /\ c2[j] = chain[j - 1]
        OBVIOUS
      <4>1. j - 1 \in 1 .. Len(chain) /\ j = (j - 1) + 1
        BY <3>1
      <4> QED BY <3>1, <4>1
    <3>5. \E j \in Places(table', k) : table'[HtHash[k]][j].cipher = e.cipher
      <4>1. 1 \in DOMAIN c2
        BY <3>1
      <4> QED BY <3>1, <3>2, <4>1, Zenon DEF Places
    <3>6. ASSUME NEW x \in Keys \ {k}, HtHash[x] = b
          PROVE  /\ \A i \in Places(table, x) :
                      \E j \in Places(table', x) : table'[HtHash[x]][j].cipher = table[HtHash[x]][i].cipher
                 /\ Places(table, x) = {} => Places(table', x) = {}
      <4>1. ASSUME NEW i \in Places(table, x)
            PROVE  i + 1 \in Places(table', x) /\ table'[HtHash[x]][i + 1].cipher = table[HtHash[x]][i].cipher
        BY <3>2, <3>3, <3>6, <4>1 DEF Places
      <4>2. ASSUME NEW j \in Places(table', x) PROVE j - 1 \in Places(table, x)
        <5>1. j \in DOMAIN c2 /\ c2[j].cipher.key = x /\ x # k
          BY <3>2, <3>6, <4>2 DEF Places
        <5>2. j # 1
          BY <3>1, <5>1
        <5>3. j - 1 \in DOMAIN chain /\ chain[j - 1].cipher.key = x
          BY <3>4, <5>1, <5>2, Zenon
        <5> QED BY <3>6, <5>3, Zenon DEF Places
      <4> QED BY <4>1, <4>2
    <3> QED BY <2>1, <3>5, <3>6 DEF Sets
  <2>3. ASSUME NEW p \in Places(table, k), table' = [table EXCEPT ![b] = [chain EXCEPT ![p] = e]]
        PROVE  Sets(table, table', k, e.cipher)
    <3> DEFINE c2 == [chain EXCEPT ![p] = e]
    <3>1. p \in DOMAIN chain /\ chain[p].cipher.key = k
      BY <2>3 DEF Places
    <3>2. /\ DOMAIN c2 = DOMAIN chain /\ c2[p] = e
          /\ \A i \in DOMAIN chain \ {p} : c2[i] = chain[i]
      BY <1>2, <3>1
    <3>3. table'[b] = c2
      BY <1>1, <1>2, <2>3
    <3> HIDE DEF c2
    <3>4. \E j \in Places(table', k) : table'[HtHash[k]][j].cipher = e.cipher
      BY <3>1, <3>2, <3>3, Zenon DEF Places
    <3>5. ASSUME NEW x \in Keys \ {k}, HtHash[x] = b
          PROVE  /\ Places(table', x) = Places(table, x)
                 /\ \A i \in Places(table, x) : table'[HtHash[x]][i].cipher = table[HtHash[x]][i].cipher
      <4>0. table'[HtHash[x]] = c2 /\ table[HtHash[x]] = chain
        BY <3>3, <3>5
      <4>1. Places(table', x) = {i \in DOMAIN chain : c2[i].cipher.key = x}
        BY <3>2, <4>0 DEF Places
      <4>2. Places(table, x) = {i \in DOMAIN chain : chain[i].cipher.key = x}
        BY <3>5, Zenon DEF Places
      <4>3. x # k /\ c2[p].cipher.key = k
        BY <3>2
      <4>4. \A i \in DOMAIN chain : c2[i].cipher.key = x <=> chain[i].cipher.key = x
        BY <3>1, <3>2, <4>3, Zenon
      <4>5. Places(table', x) = Places(table, x)
        BY <4>1, <4>2, <4>4, Zenon
      <4>6. \A i \in Places(table, x) : i \in DOMAIN chain /\ i # p
        BY <3>1, <4>2, <4>3, Zenon
      <4>7. \A i \in Places(table, x) : c2[i] = chain[i]
        BY <3>2, <4>6
      <4> HIDE DEF chain
      <4> QED BY <4>0, <4>5, <4>7
    <3> QED BY <2>1, <3>4, <3>5 DEF Sets
  <2> QED BY <2>2, <2>3, Zenon
<1> QED BY <1>3, <1>4

\* So it sets the key in the dictionary.
LEMMA WriteSets ==
  ASSUME IInv, IInv', NEW k \in Keys, NEW e, e.cipher.key = k,
         LET chain == table[HtHash[k]]
         IN  \/ table' = [table EXCEPT ![HtHash[k]] = << e >> \o chain]
             \/ \E p \in Places(table, k) :
                  table' = [table EXCEPT ![HtHash[k]] = [chain EXCEPT ![p] = e]]
  PROVE  kvBar' = SetIn(kvBar, k, e.cipher.val)
<1>1. Unique(table) /\ Unique(table') /\ Sets(table, table', k, e.cipher)
  BY WriteIsSets, Zenon
<1>2. Dict(table') = SetIn(Dict(table), k, e.cipher.val)
  BY <1>1, WriteKv
<1> QED BY <1>2, KvBarIs, Zenon

\* The write of a SET or an APP is the moment it takes effect.
LEMMA WriteIsServe ==
  ASSUME IInv, IInv', NEW w \in Workers, SetUpdate(w) \/ SetInsert(w) \/ AppendEntry(w)
  PROVE  KV!Serve(w)
<1> DEFINE S == {"idle", "lookup", "verify", "write", "rebuild", "reply"}
<1> DEFINE k == job[w].key
<1> DEFINE v == [kind |-> "key", body |-> k]
<1>1. pc \in [Workers -> S]
  BY DEF IInv, TypeOK
<1>2. pc[w] = "write" /\ pc' = [pc EXCEPT ![w] = "rebuild"] /\ job' = job /\ loc' = loc /\ buf' = buf
  BY DEF SetUpdate, SetInsert, AppendEntry
<1>3. phaseBar[w] = "pending" /\ phaseBar' = [phaseBar EXCEPT ![w] = "done"]
  BY <1>1, <1>2, PhaseMoves, Zenon DEF phaseBar
<1>4. /\ RespAt(pc'[w], job'[w], loc'[w], buf'[w]) = v
      /\ \A x \in Workers \ {w} : pc'[x] = pc[x]
  BY <1>1, <1>2 DEF RespAt
<1> HIDE DEF v
<1>5. respBar' = [respBar EXCEPT ![w] = v]
  BY <1>2, <1>4, RespMoves
<1>6. /\ k \in Keys /\ job[w].chunk \in Chunks /\ bucket(w) = HtHash[k] /\ bucket(w) \in Buckets
  BY <1>2, BucketOK DEF bucket
<1>7. /\ loc[w].nac \in Nac
      /\ loc[w].found # << >> =>
           /\ loc[w].kv_pos + 1 \in Places(table, k)
           /\ loc[w].found = << table[HtHash[k]][loc[w].kv_pos + 1] >>
  BY <1>2, <1>6, BeforeWrite, Zenon DEF Places
<1>8. table \in [Buckets -> Seq(Entry)]
  BY DEF IInv, TypeOK
<1>9. CASE SetUpdate(w) \/ SetInsert(w)
  <2> DEFINE e == NewEntry(k, << job[w].chunk >>, loc[w].nac)
  <2>1. e.cipher.key = k /\ e.cipher.val = << job[w].chunk >>
    BY DEF NewEntry, Encrypt
  <2>2. \/ table' = [table EXCEPT ![HtHash[k]] = << e >> \o table[HtHash[k]]]
        \/ \E p \in Places(table, k) :
             table' = [table EXCEPT ![HtHash[k]] = [table[HtHash[k]] EXCEPT ![p] = e]]
    <3>1. CASE SetInsert(w)
      BY <1>6, <3>1 DEF SetInsert
    <3>2. CASE SetUpdate(w)
      <4>1. /\ loc[w].found # << >>
            /\ table' = [table EXCEPT ![bucket(w)][loc[w].kv_pos + 1] = e]
        BY <3>2 DEF SetUpdate
      <4>2. table' = [table EXCEPT ![HtHash[k]] = [table[HtHash[k]] EXCEPT ![loc[w].kv_pos + 1] = e]]
        BY <1>6, <4>1
      <4> QED BY <1>7, <4>1, <4>2, Zenon
    <3> QED BY <1>9, <3>1, <3>2, Zenon
  <2> HIDE DEF e
  <2>3. kvBar' = SetIn(kvBar, k, e.cipher.val)
    BY <1>6, <2>1, <2>2, WriteSets, Zenon
  <2>4. job[w].op = "SET"
    BY <1>9 DEF SetUpdate, SetInsert
  <2>5. KV!Effect(job[w]) = kvBar'
    BY <2>1, <2>3, <2>4 DEF KV!Effect, SetIn, k
  <2>6. KV!Answer(job[w]) = v
    BY <2>4 DEF KV!Answer, v
  <2> QED BY <1>2, <1>3, <1>5, <2>5, <2>6 DEF KV!Serve
<1>10. CASE AppendEntry(w)
  <2> DEFINE old == table[HtHash[k]][loc[w].kv_pos + 1].cipher.val
  <2> DEFINE e == NewEntry(k, Append(old, job[w].chunk), loc[w].nac)
  <2>1. e.cipher.key = k /\ e.cipher.val = Append(old, job[w].chunk)
    BY Zenon DEF NewEntry, Encrypt
  <2>2. job[w].op = "APP" /\ loc[w].found # << >>
    BY <1>2, <1>10, Zenon DEF AppendEntry, IInv, StageOK, StageAt
  <2>3. loc[w].kv_pos + 1 \in Places(table, k) /\ loc[w].found[1].cipher.val = old
    BY <1>7, <2>2, FirstOfOne, Zenon
  <2>4. table' = [table EXCEPT ![bucket(w)][loc[w].kv_pos + 1] = e]
    <3>1. table' = [table EXCEPT ![bucket(w)][loc[w].kv_pos + 1] =
                      NewEntry(k, Append(loc[w].found[1].cipher.val, job[w].chunk), loc[w].nac)]
      BY <1>10, Zenon DEF AppendEntry
    <3> QED BY <2>3, <3>1, Zenon
  <2>5. table' = [table EXCEPT ![HtHash[k]] = [table[HtHash[k]] EXCEPT ![loc[w].kv_pos + 1] = e]]
    BY <1>6, <2>4, Zenon
  <2>6. k \in DOMAIN kvBar /\ kvBar[k] = old
    <3>1. CipherIn(table, k) = table[HtHash[k]][loc[w].kv_pos + 1].cipher
      BY <1>6, <2>3, PlacesUnique, CipherAt, Zenon
    <3>2. DOMAIN kvBar = {y \in Keys : Places(table, y) # {}} /\ \A x \in DOMAIN kvBar : kvBar[x] = CipherIn(table, x).val
      BY KvBarIs DEF Dict
    <3> QED BY <1>6, <2>3, <3>1, <3>2, Zenon
  <2> HIDE DEF e, old
  <2>7. kvBar' = SetIn(kvBar, k, e.cipher.val)
    <3>1. \E p \in Places(table, k) :
             table' = [table EXCEPT ![HtHash[k]] = [table[HtHash[k]] EXCEPT ![p] = e]]
      BY <2>3, <2>5, Zenon
    <3> QED BY <1>6, <2>1, <3>1, WriteSets, Zenon
  <2>8. [kvBar EXCEPT ![k] = Append(@, job[w].chunk)] = SetIn(kvBar, k, e.cipher.val)
    <3>1. DOMAIN kvBar \cup {k} = DOMAIN kvBar
      BY <2>6
    <3> QED BY <2>1, <2>6, <3>1 DEF SetIn
  <2>9. KV!Effect(job[w]) = kvBar'
    BY <2>2, <2>6, <2>7, <2>8 DEF KV!Effect, KV!Stored
  <2>10. KV!Answer(job[w]) = v
    BY <2>2, <2>6 DEF KV!Answer, KV!Stored, v
  <2> QED BY <1>2, <1>3, <1>5, <2>9, <2>10 DEF KV!Serve
<1> QED BY <1>9, <1>10

-----------------------------------------------------------------------------
\* The workers implement the dictionary: for every number of workers, keys, buckets
\* and roots that fit together, each reply of enclave_set, enclave_get and
\* enclave_append is the one an atomic operation on one dictionary gives.
THEOREM StoreImplementsKVStore ==
  ASSUME NoAppendToMacBuckets
  PROVE  Spec => ImplementsKVStore
<1>1. Init => KV!Init
  <2> SUFFICES ASSUME Init PROVE KV!Init
    OBVIOUS
  <2>1. \A k \in Keys : Places(table, k) = {}
    <3> SUFFICES ASSUME NEW k \in Keys PROVE Places(table, k) = {}
      OBVIOUS
    <3>1. HtHash[k] \in Buckets
      BY StoreAssumption
    <3> QED BY <3>1 DEF Init, Places
  <2>2. kvBar = [x \in {} |-> << >>]
    <3>1. {y \in Keys : Places(table, y) # {}} = {}
      BY <2>1
    <3> QED BY <3>1, KvBarIs DEF Dict
  <2>3. phaseBar = [x \in Workers |-> "idle"]
    BY DEF Init, phaseBar
  <2>4. respBar = [x \in Workers |-> NoBuf]
    BY DEF Init, respBar
  <2> QED BY <2>2, <2>3, <2>4 DEF Init, KV!Init, KV!NoReq, KV!NoResp, NoJob, NoBuf
<1>2. ASSUME IInv, [Next]_vars PROVE [KV!Next]_(KV!vars)
  <2>1. IInv'
    BY <1>2, InvNext
  <2>2. ASSUME NEW w \in Workers, NEW r \in Requests, Accept(w, r) PROVE KV!Next
    BY <1>2, <2>2, AcceptIsInvoke DEF KV!Next
  <2>3. ASSUME NEW w \in Workers, LookupHit(w) PROVE KV!Next \/ UNCHANGED KV!vars
    BY <1>2, <2>3, LookupHitIs DEF KV!Next
  <2>4. ASSUME NEW w \in Workers, LookupMiss(w) PROVE KV!Next
    BY <1>2, <2>4, LookupMissIsServe DEF KV!Next
  <2>5. ASSUME NEW w \in Workers, LookupMissSet(w) \/ VerifyTreeRoot(w) \/ RebuildTreeRoot(w)
        PROVE  UNCHANGED KV!vars
    BY <1>2, <2>5, OtherStepsStutter
  <2>6. ASSUME NEW w \in Workers, SetUpdate(w) \/ SetInsert(w) \/ AppendEntry(w) PROVE KV!Next
    BY <1>2, <2>1, <2>6, WriteIsServe DEF KV!Next
  <2>7. ASSUME NEW w \in Workers, Reply(w) PROVE KV!Next
    BY <1>2, <2>7, ReplyIsReturn DEF KV!Next
  <2>8. CASE UNCHANGED vars
    <3>1. table' = table /\ pc' = pc /\ job' = job /\ loc' = loc /\ buf' = buf
      BY <2>8 DEF vars
    <3>2. kvBar' = kvBar /\ respBar' = respBar
      BY <3>1, KvKept, RespIs
    <3>3. phaseBar' = phaseBar
      BY <3>1 DEF phaseBar
    <3> QED BY <3>1, <3>2, <3>3 DEF KV!vars
  <2> QED BY <1>2, <2>2, <2>3, <2>4, <2>5, <2>6, <2>7, <2>8 DEF Next
<1> QED BY <1>1, <1>2, Invariance, PTL DEF Spec, ImplementsKVStore, KV!Spec

-----------------------------------------------------------------------------
\* The MACs of a bucket are those of different keys of the bucket, so ht_set_o
\* never fills more slots of a MAC bucket than keys hash to it.
THEOREM MacBucketsFit ==
  ASSUME NoAppendToMacBuckets, IsFiniteSet(Keys)
  PROVE  Spec => []MacBucketsBounded
<1>1. ASSUME IInv PROVE MacBucketsBounded
  <2> SUFFICES ASSUME MacOpt, NEW b \in Buckets
               PROVE  Len(macbuf[b]) <= Cardinality({k \in Keys : HtHash[k] = b})
    BY DEF MacBucketsBounded
  <2> DEFINE chain == table[b]
  <2> DEFINE n == Len(chain)
  <2> DEFINE K == {k \in Keys : HtHash[k] = b}
  <2> DEFINE f == [i \in 1 .. n |-> chain[i].cipher.key]
  <2>1. OneEntryPerKey /\ MacBucketReversed
    BY <1>1, Zenon DEF IInv
  <2>2. chain \in Seq(Entry)
    BY <1>1 DEF IInv, TypeOK
  <2>3. n \in Nat /\ DOMAIN chain = 1 .. n
    BY <2>2
  <2>4. Len(macbuf[b]) = n
    <3>1. macbuf[b] = [i \in 1 .. n |-> chain[(n - i) + 1].mac]
      BY <2>1, Zenon DEF MacBucketReversed, ReversedMacs
    <3> HIDE DEF n, chain
    <3> QED BY <2>3, <3>1
  <2>5. \A i \in 1 .. n : chain[i] \in Entry
    <3> HIDE DEF chain
    <3> QED BY <2>2
  <2>6. \A i \in 1 .. n : f[i] \in K
    BY <2>1, <2>3, <2>5 DEF OneEntryPerKey, Entry, Cipher
  <2>7. \A i, j \in 1 .. n : f[i] = f[j] => i = j
    BY <2>1, <2>3 DEF OneEntryPerKey
  <2> HIDE DEF n, K, chain
  <2>8. f \in [1 .. n -> K]
    BY <2>6
  <2>9. f \in Injection(1 .. n, K)
    BY <2>7, <2>8 DEF Injection, IsInjective
  <2>10. IsFiniteSet(K)
    BY FS_Subset DEF K
  <2>11. Cardinality(1 .. n) <= Cardinality(K)
    BY <2>9, <2>10, FS_Injection, Zenon
  <2>12. Cardinality(1 .. n) = n
    BY <2>3, FS_Interval
  <2> QED BY <2>4, <2>11, <2>12 DEF K
<1> QED BY <1>1, Invariance, PTL

-----------------------------------------------------------------------------
(* Counter arithmetic. *)

\* Two numbers with the same remainder are equal or at least the divisor apart.
LEMMA SameRemainder ==
  ASSUME NEW S \in Nat \ {0}, NEW a \in Nat, NEW b \in Nat, a % S = b % S, a < b
  PROVE  a + S <= b
<1> DEFINE qa == a \div S
<1> DEFINE qb == b \div S
<1> DEFINE r == a % S
<1>1. qa \in Int /\ qb \in Int /\ r \in Int /\ a = S * qa + r /\ b = S * qb + r
  OBVIOUS
<1> HIDE DEF qa, qb, r
<1>2. S * qa < S * qb
  BY <1>1
<1>3. qa < qb
  <2>1. SUFFICES ASSUME qb <= qa PROVE FALSE
    BY <1>1
  <2>2. S * qb <= S * qa
    BY <1>1, <2>1
  <2> QED BY <1>1, <1>2, <2>2
<1>4. S * qa + S <= S * qb
  <2>1. S * (qa + 1) <= S * qb
    BY <1>1, <1>3
  <2>2. S * (qa + 1) = S * qa + S
    BY <1>1
  <2> QED BY <2>1, <2>2
<1> QED BY <1>1, <1>4

\* The remainder of a sum of less than twice the divisor.
LEMMA RemainderOnce ==
  ASSUME NEW S \in Nat \ {0}, NEW x \in Nat, x < 2 * S
  PROVE  x % S = IF x < S THEN x ELSE x - S
<1> DEFINE q == x \div S
<1> DEFINE r == x % S
<1>1. q \in Int /\ r \in 0 .. (S - 1) /\ x = S * q + r
  OBVIOUS
<1> HIDE DEF q, r
<1>2. q = 0 \/ q = 1
  <2>1. q >= 0
    <3>1. SUFFICES ASSUME q <= -1 PROVE FALSE
      BY <1>1
    <3>2. S * q <= S * (-1)
      BY <1>1, <3>1
    <3> QED BY <1>1, <3>2
  <2>2. q < 2
    <3>1. SUFFICES ASSUME 2 <= q PROVE FALSE
      BY <1>1
    <3>2. S * 2 <= S * q
      BY <1>1, <3>1
    <3> QED BY <1>1, <3>2
  <2> QED BY <1>1, <2>1, <2>2
<1>3. r = IF x < S THEN x ELSE x - S
  BY <1>1, <1>2
<1> QED BY <1>3 DEF r

\* A ciphertext that starts at the counter the other one's decryption leaves shares
\* no counter value with it, if both together have at most CtrSpan blocks.
LEMMA FreshStream ==
  ASSUME NEW c, NEW d, c.ctr \in Nac, Blocks(c.val) \in Nat, Blocks(d.val) \in Nat,
         Blocks(c.val) + Blocks(d.val) <= CtrSpan,
         d.ctr = (c.ctr + Blocks(c.val)) % CtrSpan
  PROVE  KeyStream(c) \cap KeyStream(d) = {}
<1> DEFINE S == CtrSpan
<1> DEFINE n == c.ctr
<1> DEFINE m == d.ctr
<1> DEFINE B == Blocks(c.val)
<1> DEFINE D == Blocks(d.val)
<1>1. S \in Nat \ {0} /\ n \in Nat /\ n < S /\ B \in Nat /\ D \in Nat /\ B + D <= S
  BY StoreAssumption DEF Nac
<1>2. KeyStream(c) = {(n + i) % S : i \in 0 .. (B - 1)} /\ KeyStream(d) = {(m + j) % S : j \in 0 .. (D - 1)}
  BY DEF KeyStream
<1>3. m = (n + B) % S
  OBVIOUS
<1> HIDE DEF S, n, m, B, D
<1>4. ASSUME NEW i \in 0 .. (B - 1), NEW j \in 0 .. (D - 1), (n + i) % S = (m + j) % S
      PROVE  FALSE
  <2>1. n + B \in Nat /\ n + B < 2 * S
    BY <1>1, <1>4
  <2>2. m = IF n + B < S THEN n + B ELSE (n + B) - S
    BY <1>1, <1>3, <2>1, RemainderOnce, Zenon
  <2>3. n + i \in Nat /\ m + j \in Nat
    BY <1>1, <2>2, <1>4
  <2>4. CASE n + B < S
    <3>1. n + i < m + j /\ m + j < (n + i) + S
      BY <1>1, <1>4, <2>2, <2>4
    <3>2. (n + i) + S <= m + j
      BY <1>1, <1>4, <2>3, <3>1, SameRemainder, Zenon
    <3> QED BY <1>1, <2>3, <3>1, <3>2
  <2>5. CASE ~(n + B < S)
    <3>1. m + j < n + i /\ n + i < (m + j) + S
      BY <1>1, <1>4, <2>2, <2>5
    <3>2. (m + j) + S <= n + i
      BY <1>1, <1>4, <2>3, <3>1, SameRemainder, ZenonT(30)
    <3> QED BY <1>1, <2>3, <3>1, <3>2
  <2> QED BY <2>4, <2>5
<1> QED BY <1>2, <1>4

-----------------------------------------------------------------------------
(* The entry a worker writes. *)

\* An element of a sequence.
LEMMA ElementOf ==
  ASSUME NEW S, NEW q \in Seq(S), NEW i \in DOMAIN q
  PROVE  q[i] \in S
OBVIOUS

\* A value with room for a chunk more.
LEMMA OneMore ==
  ASSUME NEW n \in Nat, NEW m \in Nat, n < m
  PROVE  n + 1 <= m
OBVIOUS

\* What is written, and where: a value under the counter the worker holds, at the
\* head of the chain or in the place of the entry found.
WritesValue(w, v) ==
  LET k == job[w].key
      e == NewEntry(k, v, loc[w].nac)
  IN  /\ \/ v = << job[w].chunk >>
         \/ job[w].op = "APP" /\ loc[w].found # << >> /\ v = Append(loc[w].found[1].cipher.val, job[w].chunk)
      /\ \/ loc[w].found = << >> /\ table' = [table EXCEPT ![HtHash[k]] = << e >> \o table[HtHash[k]]]
         \/ /\ loc[w].found # << >>
            /\ table' = [table EXCEPT ![HtHash[k]] = [table[HtHash[k]] EXCEPT ![loc[w].kv_pos + 1] = e]]

Write(w) == SetUpdate(w) \/ SetInsert(w) \/ AppendEntry(w)

\* Each of the three writes stores some value under the counter it has worked out.
LEMMA WritesAValue ==
  ASSUME IInv, NEW w \in Workers, Write(w)
  PROVE  \E v : WritesValue(w, v)
<1> DEFINE k == job[w].key
<1> DEFINE app == Append(loc[w].found[1].cipher.val, job[w].chunk)
<1>1. bucket(w) = HtHash[k]
  BY DEF bucket
<1>2. CASE SetInsert(w)
  <2>1. WritesValue(w, << job[w].chunk >>)
    BY <1>1, <1>2, ZenonT(30) DEF SetInsert, WritesValue
  <2> QED BY <2>1
<1>3. CASE SetUpdate(w)
  <2>1. WritesValue(w, << job[w].chunk >>)
    BY <1>1, <1>3 DEF SetUpdate, WritesValue
  <2> QED BY <2>1
<1>4. CASE AppendEntry(w)
  <2>1. pc[w] = "write" /\ job[w].op = "APP"
    BY <1>4 DEF AppendEntry
  <2>2. loc[w].found # << >>
    BY <2>1, Zenon DEF IInv, StageOK, StageAt
  <2>3. table' = [table EXCEPT ![bucket(w)][loc[w].kv_pos + 1] = NewEntry(k, app, loc[w].nac)]
    BY <1>4, ZenonT(30) DEF AppendEntry
  <2>4. WritesValue(w, app)
    BY <1>1, <2>1, <2>2, <2>3, Zenon DEF WritesValue
  <2> QED BY <2>4
<1> QED BY <1>2, <1>3, <1>4 DEF Write

\* What the worker knows of its key, and that the value fits.
LEMMA WriteFits ==
  ASSUME IInv, CInv, NEW w \in Workers, Write(w), NEW v, WritesValue(w, v)
  PROVE  /\ pc[w] = "write" /\ pc' = [pc EXCEPT ![w] = "rebuild"] /\ job' = job /\ loc' = loc
         /\ job[w].key \in Keys /\ v \in Seq(Chunks) /\ Len(v) <= MaxVal
         /\ loc[w].found # << >> =>
              /\ loc[w].kv_pos + 1 \in Places(table, job[w].key)
              /\ loc[w].found = << table[HtHash[job[w].key]][loc[w].kv_pos + 1] >>
         /\ loc[w].found = << >> => Places(table, job[w].key) = {}
<1> DEFINE k == job[w].key
<1> DEFINE p == loc[w].kv_pos + 1
<1>1. pc[w] = "write" /\ pc' = [pc EXCEPT ![w] = "rebuild"] /\ job' = job /\ loc' = loc
  BY DEF Write, SetUpdate, SetInsert, AppendEntry
<1>2. k \in Keys /\ job[w].chunk \in Chunks /\ bucket(w) = HtHash[k] /\ bucket(w) \in Buckets
  BY <1>1, BucketOK, Zenon DEF bucket
<1>3. loc[w].found # << >> => p \in Places(table, k) /\ loc[w].found = << table[HtHash[k]][p] >>
  BY <1>1, <1>2, BeforeWrite, Zenon DEF Places
<1>4. loc[w].found = << >> => Places(table, k) = {}
  BY <1>1, <1>2, BeforeWrite DEF Places
<1>5. MaxVal \in Nat \ {0}
  BY StoreAssumption
<1>6. v \in Seq(Chunks) /\ Len(v) <= MaxVal
  <2>1. CASE v = << job[w].chunk >>
    BY <1>2, <1>5, <2>1
  <2>2. CASE v # << job[w].chunk >>
    <3>1. job[w].op = "APP" /\ loc[w].found # << >> /\ v = Append(loc[w].found[1].cipher.val, job[w].chunk)
      BY <2>2, ZenonT(30) DEF WritesValue
    <3> DEFINE old == table[HtHash[k]][p].cipher.val
    <3>a. p \in DOMAIN table[HtHash[k]] /\ table[HtHash[k]][p].cipher.key = k
      BY <1>3, <3>1, Zenon DEF Places
    <3>b. loc[w].found[1] = table[HtHash[k]][p]
      <4> DEFINE e == table[HtHash[k]][p]
      <4>1. loc[w].found = << e >>
        BY <1>3, <3>1, Zenon
      <4> HIDE DEF e
      <4>2. << e >>[1] = e
        OBVIOUS
      <4>3. loc[w].found[1] = e
        BY <4>1, <4>2, Zenon
      <4> QED BY <4>3 DEF e
    <3>2. p \in DOMAIN table[HtHash[k]] /\ table[HtHash[k]][p].cipher.key = k /\ v = Append(old, job[w].chunk)
      BY <3>1, <3>a, <3>b, Zenon
    <3>3. RoomLeft(w)
      BY Zenon DEF CInv
    <3>4. Len(old) < MaxVal
      BY <1>1, <1>2, <3>1, <3>2, <3>3, Zenon DEF RoomLeft
    <3>5. table[HtHash[k]] \in Seq(Entry)
      BY <1>2 DEF IInv, TypeOK
    <3>6. table[HtHash[k]][p] \in Entry
      <4> DEFINE chain == table[HtHash[k]]
      <4>1. chain \in Seq(Entry) /\ p \in DOMAIN chain
        BY <3>2, <3>5, Zenon
      <4> HIDE DEF chain, p
      <4>2. chain[p] \in Entry
        BY <4>1, ElementOf, Zenon
      <4> QED BY <4>2, Zenon DEF chain
    <3>7. old \in Seq(Chunks)
      BY <3>6, Zenon DEF Entry, Cipher
    <3> HIDE DEF old
    <3>8. ASSUME NEW c \in Chunks PROVE Append(old, c) \in Seq(Chunks) /\ Len(Append(old, c)) = Len(old) + 1
      BY <3>7
    <3>9. v \in Seq(Chunks) /\ Len(v) = Len(old) + 1
      BY <1>2, <3>2, <3>8, Zenon
    <3>10. Len(old) \in Nat /\ MaxVal \in Nat
      BY <1>5, <3>7, LengthIsNat, Zenon
    <3> QED BY <3>4, <3>9, <3>10, OneMore, Zenon
  <2> QED BY <2>1, <2>2
<1> QED BY <1>1, <1>2, <1>3, <1>4, <1>6, Zenon

-----------------------------------------------------------------------------
(* CInv is an invariant, given IInv. *)

\* The empty store satisfies the invariant on counters.
LEMMA CountersInit == Init => CInv
<1> SUFFICES ASSUME Init PROVE CInv
  OBVIOUS
<1>1. \A w \in Workers : pc[w] = "idle"
  BY DEF Init
<1>2. \A b \in Buckets : table[b] = << >>
  BY DEF Init
<1>3. ValuesFit
  BY <1>2 DEF ValuesFit
<1> QED BY <1>1, <1>3, Zenon DEF CInv, CounterRead, RoomLeft

\* A step that leaves the chains alone.
LEMMA CountersQuiet ==
  ASSUME IInv, CInv, NEW w \in Workers,
         \/ \E r \in Requests : Accept(w, r)
         \/ LookupHit(w) \/ LookupMissSet(w) \/ LookupMiss(w)
         \/ VerifyTreeRoot(w) \/ RebuildTreeRoot(w) \/ Reply(w)
  PROVE  CInv'
<1>0. DOMAIN pc = Workers /\ DOMAIN job = Workers /\ DOMAIN loc = Workers
  BY Zenon DEF IInv, TypeOK
<1>1. table' = table
  BY Zenon DEF Accept, LookupHit, LookupMissSet, LookupMiss, VerifyTreeRoot, RebuildTreeRoot, Reply
<1>2. ValuesFit'
  BY <1>1, Zenon DEF CInv, ValuesFit
<1>3. \A v \in Workers : CounterRead(v) /\ RoomLeft(v)
  BY Zenon DEF CInv
<1>4. ASSUME NEW v \in Workers, v # w PROVE CounterRead(v)' /\ RoomLeft(v)'
  <2>1. pc'[v] = pc[v] /\ job'[v] = job[v] /\ loc'[v] = loc[v]
    BY <1>0, <1>4, Zenon DEF Accept, LookupHit, LookupMissSet, LookupMiss, VerifyTreeRoot, RebuildTreeRoot, Reply
  <2> QED BY <1>1, <1>3, <2>1, ZenonT(30) DEF CounterRead, RoomLeft, bucket
<1>5. CounterRead(w)' /\ RoomLeft(w)'
  <2>1. CASE \E r \in Requests : Accept(w, r)
    <3>1. PICK r \in Requests : Accept(w, r)
      BY <2>1, Zenon
    <3>2. pc'[w] = "lookup" /\ job'[w] = r
      BY <1>0, <3>1, Zenon DEF Accept
    <3>3. r.op = "APP" => \A i \in DOMAIN table[HtHash[r.key]] :
            table[HtHash[r.key]][i].cipher.key = r.key => Len(table[HtHash[r.key]][i].cipher.val) < MaxVal
      BY <3>1, Zenon DEF Accept
    <3> QED BY <1>1, <3>2, <3>3, Zenon DEF CounterRead, RoomLeft, bucket
  <2>2. CASE LookupHit(w)
    <3> DEFINE p == ht_get_o(table[bucket(w)], job[w].key)
    <3> DEFINE e == table[bucket(w)][p + 1]
    <3>1. job' = job /\ pc[w] = "lookup" /\ loc' = [loc EXCEPT ![w] = [kv_pos |-> p, found |-> << e >>, nac |-> updated_nac(e)]]
      BY <2>2, Zenon DEF LookupHit
    <3> HIDE DEF p, e
    <3>2. loc'[w].found = << e >> /\ loc'[w].nac = updated_nac(e)
      BY <1>0, <3>1
    <3>3. loc'[w].nac = updated_nac(loc'[w].found[1])
      BY <3>2
    <3>4. CounterRead(w)'
      BY <3>3, Zenon DEF CounterRead, updated_nac
    <3>5. RoomLeft(w)'
      BY <1>1, <1>3, <3>1, Zenon DEF RoomLeft, bucket
    <3> QED BY <3>4, <3>5
  <2>3. CASE LookupMissSet(w)
    <3>1. job' = job /\ pc[w] = "lookup"
      BY <2>3, Zenon DEF LookupMissSet
    <3>2. loc'[w].found = << >>
      BY <1>0, <2>3 DEF LookupMissSet
    <3> QED BY <1>1, <1>3, <3>1, <3>2, Zenon DEF CounterRead, RoomLeft, bucket
  <2>4. CASE LookupMiss(w) \/ VerifyTreeRoot(w) \/ RebuildTreeRoot(w) \/ Reply(w)
    <3>1. pc'[w] \notin {"lookup", "write"}
      BY <1>0, <2>4, Zenon DEF LookupMiss, VerifyTreeRoot, RebuildTreeRoot, Reply
    <3> QED BY <3>1, Zenon DEF CounterRead, RoomLeft
  <2> QED BY <2>1, <2>2, <2>3, <2>4
<1> QED BY <1>2, <1>4, <1>5, Zenon DEF CInv

\* A write keeps the invariant on counters: the entry it replaces had the one it read.
LEMMA CountersWrite ==
  ASSUME IInv, CInv, NEW w \in Workers, Write(w)
  PROVE  CInv'
<1> DEFINE k == job[w].key
<1> DEFINE b == HtHash[k]
<1>0. DOMAIN pc = Workers /\ DOMAIN table = Buckets /\ pc[w] = "write"
  BY Zenon DEF IInv, TypeOK, Write, SetUpdate, SetInsert, AppendEntry
<1>1. PICK v : WritesValue(w, v)
  BY WritesAValue
<1>2. /\ pc' = [pc EXCEPT ![w] = "rebuild"] /\ job' = job /\ loc' = loc
      /\ k \in Keys /\ Len(v) <= MaxVal
      /\ loc[w].found # << >> => loc[w].kv_pos + 1 \in Places(table, k)
  BY <1>1, WriteFits, Zenon
<1> DEFINE e == NewEntry(k, v, loc[w].nac)
<1>3. b \in Buckets /\ b = bucket(w) /\ thread_id(b) = w
  BY <1>0, BucketOK, Zenon DEF bucket
<1>4. e.cipher.val = v
  BY Zenon DEF NewEntry, Encrypt
<1>5. \A c \in Buckets \ {b} : table'[c] = table[c]
  BY <1>0, <1>1, <1>3, Zenon DEF WritesValue
<1>6. \A u \in Workers : CounterRead(u) /\ RoomLeft(u)
  BY Zenon DEF CInv
<1>7. ASSUME NEW u \in Workers PROVE CounterRead(u)' /\ RoomLeft(u)'
  <2>1. CASE u = w
    <3>1. pc'[u] = "rebuild"
      BY <1>0, <1>2, <2>1
    <3> QED BY <3>1 DEF CounterRead, RoomLeft
  <2>2. CASE u # w
    <3>1. pc'[u] = pc[u]
      BY <1>0, <1>2, <2>2
    <3>2. CounterRead(u)'
      BY <1>2, <1>6, <3>1, Zenon DEF CounterRead
    <3>3. ASSUME pc[u] # "idle" PROVE table'[bucket(u)] = table[bucket(u)]
      <4>1. bucket(u) \in Buckets /\ thread_id(bucket(u)) = u
        BY <3>3, BucketOK, Zenon
      <4> QED BY <1>3, <1>5, <2>2, <4>1
    <3>4. bucket(u)' = bucket(u)
      BY <1>2 DEF bucket
    <3>5. RoomLeft(u)'
      <4>1. CASE pc[u] = "idle"
        BY <3>1, <4>1 DEF RoomLeft
      <4>2. CASE pc[u] # "idle"
        BY <1>2, <1>6, <3>1, <3>3, <3>4, <4>2, Zenon DEF RoomLeft
      <4> QED BY <4>1, <4>2
    <3> QED BY <3>2, <3>5
  <2> QED BY <2>1, <2>2
<1>8. ValuesFit'
  <2> DEFINE chain == table[b]
  <2>1. chain \in Seq(Entry)
    BY <1>3 DEF IInv, TypeOK
  <2>2. \A i \in DOMAIN chain : Len(chain[i].cipher.val) <= MaxVal
    BY <1>3, Zenon DEF CInv, ValuesFit
  <2>3. ASSUME NEW i \in DOMAIN table'[b] PROVE Len(table'[b][i].cipher.val) <= MaxVal
    <3>1. CASE loc[w].found = << >>
      <4>1. table'[b] = << e >> \o chain
        BY <1>0, <1>1, <1>3, <3>1 DEF WritesValue
      <4> HIDE DEF chain, e
      <4>2. table'[b][i] = e \/ (i - 1 \in DOMAIN chain /\ table'[b][i] = chain[i - 1])
        BY <2>1, <2>3, <4>1
      <4> QED BY <1>2, <1>4, <2>2, <4>2, Zenon
    <3>2. CASE loc[w].found # << >>
      <4>1. table'[b] = [chain EXCEPT ![loc[w].kv_pos + 1] = e]
        BY <1>0, <1>1, <1>3, <3>2, Zenon DEF WritesValue
      <4> HIDE DEF chain, e
      <4>2. i \in DOMAIN chain /\ (table'[b][i] = e \/ table'[b][i] = chain[i])
        BY <2>1, <2>3, <4>1
      <4> QED BY <1>2, <1>4, <2>2, <4>2, ZenonT(30)
    <3> QED BY <3>1, <3>2
  <2>4. ASSUME NEW c \in Buckets, c # b, NEW i \in DOMAIN table'[c] PROVE Len(table'[c][i].cipher.val) <= MaxVal
    <3>1. table'[c] = table[c]
      BY <1>5, <2>4
    <3>2. Len(table[c][i].cipher.val) <= MaxVal
      BY <2>4, <3>1, Zenon DEF CInv, ValuesFit
    <3> QED BY <3>1, <3>2
  <2> QED BY <2>3, <2>4, Zenon DEF ValuesFit
<1> QED BY <1>7, <1>8, Zenon DEF CInv

\* Every step keeps the invariant on counters.
LEMMA CountersNext ==
  ASSUME IInv, CInv, [Next]_vars
  PROVE  CInv'
<1>1. CASE UNCHANGED vars
  BY <1>1, Zenon DEF vars, CInv, CounterRead, RoomLeft, ValuesFit, bucket, updated_nac
<1>2. CASE Next
  <2>1. PICK w \in Workers :
          \/ \/ \E r \in Requests : Accept(w, r)
             \/ LookupHit(w) \/ LookupMissSet(w) \/ LookupMiss(w)
             \/ VerifyTreeRoot(w) \/ RebuildTreeRoot(w) \/ Reply(w)
          \/ Write(w)
    BY <1>2, Zenon DEF Next, Write
  <2> QED BY <2>1, CountersQuiet, CountersWrite, Zenon
<1> QED BY <1>1, <1>2

-----------------------------------------------------------------------------
\* The entry a write replaces, and the counter it is replaced under.
LEMMA WriteIsFresh ==
  ASSUME IInv, IInv', CInv, NEW w \in Workers, Write(w),
         NEW k \in Keys, Stored(k), CipherOf(k) # CipherOf(k)'
  PROVE  KeyStream(CipherOf(k)) \cap KeyStream(CipherOf(k)') = {}
<1> DEFINE x == job[w].key
<1> DEFINE p == loc[w].kv_pos + 1
<1>1. PICK v : WritesValue(w, v)
  BY WritesAValue
<1> DEFINE e == NewEntry(x, v, loc[w].nac)
<1>2. /\ pc[w] = "write" /\ x \in Keys /\ v \in Seq(Chunks) /\ Len(v) <= MaxVal
      /\ loc[w].found # << >> => p \in Places(table, x) /\ loc[w].found = << table[HtHash[x]][p] >>
      /\ loc[w].found = << >> => Places(table, x) = {}
  BY <1>1, WriteFits, Zenon
<1>3. e.cipher.key = x /\ e.cipher.val = v /\ e.cipher.ctr = loc[w].nac
  BY DEF NewEntry, Encrypt
<1>4. \/ table' = [table EXCEPT ![HtHash[x]] = << e >> \o table[HtHash[x]]]
      \/ \E q \in Places(table, x) :
           table' = [table EXCEPT ![HtHash[x]] = [table[HtHash[x]] EXCEPT ![q] = e]]
  BY <1>1, <1>2, ZenonT(30) DEF WritesValue
<1> HIDE DEF e
<1>5. Unique(table) /\ Unique(table') /\ Sets(table, table', x, e.cipher)
  BY <1>2, <1>3, <1>4, WriteIsSets, Zenon
<1>6. /\ CipherIn(table', x) = e.cipher
      /\ \A y \in Keys \ {x} : Places(table, y) # {} => CipherIn(table', y) = CipherIn(table, y)
  <2> DEFINE c == e.cipher
  <2>1. x \in Keys /\ Unique(table) /\ Unique(table') /\ Sets(table, table', x, c)
    BY <1>2, <1>5, Zenon
  <2> HIDE DEF c, x
  <2>2. /\ CipherIn(table', x) = c
        /\ \A y \in Keys \ {x} : Places(table, y) # {} => CipherIn(table', y) = CipherIn(table, y)
    BY <2>1, SetsCiphers, SMT
  <2> QED BY <2>2, Zenon DEF c
<1>7. Places(table, k) # {} /\ CipherOf(k) = CipherIn(table, k) /\ CipherOf(k)' = CipherIn(table', k)
  BY Zenon DEF Stored, Places, CipherOf, CipherIn
<1>8. k = x
  BY <1>6, <1>7
<1>9. loc[w].found # << >> /\ p \in Places(table, x) /\ loc[w].found = << table[HtHash[x]][p] >>
  BY <1>2, <1>7, <1>8
<1>10. PICK old : old = table[HtHash[x]][p]
  OBVIOUS
<1>11. CipherOf(k) = old.cipher /\ CipherOf(k)' = e.cipher
  <2>1. CipherIn(table, x) = table[HtHash[x]][p].cipher
    BY <1>2, <1>5, <1>9, CipherAt, ZenonT(30)
  <2> QED BY <1>6, <1>7, <1>8, <1>10, <2>1, Zenon
<1>12. HtHash[x] \in Buckets /\ p \in DOMAIN table[HtHash[x]]
  BY <1>2, <1>9, StoreAssumption, Zenon DEF Places
<1>13. old \in Entry
  <2> DEFINE chain == table[HtHash[x]]
  <2>1. chain \in Seq(Entry) /\ p \in DOMAIN chain /\ old = chain[p]
    BY <1>10, <1>12 DEF IInv, TypeOK
  <2> HIDE DEF chain, p
  <2> QED BY <2>1, SMTT(30)
<1>14. old.cipher.ctr = old.nac /\ Len(old.cipher.val) <= MaxVal
  <2>1. EntriesOK /\ ValuesFit
    BY Zenon DEF IInv, CInv
  <2> QED BY <1>10, <1>12, <2>1, Zenon DEF EntriesOK, EntryOK, ValuesFit
<1>15. loc[w].nac = updated_nac(old)
  <2>1. loc[w].found[1] = old
    BY <1>9, <1>10
  <2>2. CounterRead(w)
    BY Zenon DEF CInv
  <2> QED BY <1>2, <1>9, <2>1, <2>2, Zenon DEF CounterRead
<1>16. old.cipher.ctr \in Nac /\ old.cipher.val \in Seq(Chunks)
  BY <1>13 DEF Entry, Cipher
<1> DEFINE c == old.cipher
<1> DEFINE d == e.cipher
<1>17. Len(c.val) \in Nat /\ Len(d.val) \in Nat
  BY <1>2, <1>3, <1>16
<1>18. d.ctr = (c.ctr + Blocks(c.val)) % CtrSpan
  BY <1>3, <1>14, <1>15, Zenon DEF updated_nac
<1>19. Blocks(c.val) \in Nat /\ Blocks(d.val) \in Nat /\ Blocks(c.val) + Blocks(d.val) <= CtrSpan
  <2>1. Len(c.val) <= MaxVal /\ Len(d.val) <= MaxVal
    BY <1>2, <1>3, <1>14, Zenon
  <2> DEFINE m == Len(c.val)
  <2> DEFINE n == Len(d.val)
  <2>2. Blocks(c.val) = 1 + m /\ Blocks(d.val) = 1 + n /\ m \in Nat /\ n \in Nat /\ m <= MaxVal /\ n <= MaxVal
    BY <1>17, <2>1 DEF Blocks
  <2>3. MaxVal \in Nat /\ CtrSpan \in Nat /\ 2 * (MaxVal + 1) <= CtrSpan
    BY StoreAssumption
  <2> HIDE DEF c, d, m, n
  <2> QED BY <2>2, <2>3
<1>20. c.ctr \in Nac
  BY <1>16
<1> HIDE DEF c, d
<1>21. KeyStream(c) \cap KeyStream(d) = {}
  BY <1>18, <1>19, <1>20, FreshStream
<1> QED BY <1>11, <1>21, Zenon DEF c, d

\* An update never encrypts under a counter value the ciphertext it replaces used,
\* whatever the width of the counter and wherever it wraps, as long as the longest
\* value needs at most half of its range: enclave_set and enclave_append encrypt
\* under the counter that decrypting the old entry left behind.
THEOREM CountersAreFresh ==
  ASSUME NoAppendToMacBuckets
  PROVE  Spec => UpdateUsesFreshCounters
<1> DEFINE Fresh == \A k \in Keys :
             Stored(k) /\ CipherOf(k) # CipherOf(k)' =>
               KeyStream(CipherOf(k)) \cap KeyStream(CipherOf(k)') = {}
<1>1. IInv /\ CInv /\ [Next]_vars => IInv' /\ CInv'
  BY InvNext, CountersNext
<1>2. ASSUME IInv, CInv, [Next]_vars PROVE [Fresh]_vars
  <2>1. IInv'
    BY <1>2, <1>1
  <2>2. ASSUME table' = table PROVE Fresh
    BY <2>2, Zenon DEF CipherOf
  <2>3. CASE UNCHANGED vars
    BY <2>3
  <2>4. CASE Next
    <3>1. PICK w \in Workers :
          \/ \/ \E r \in Requests : Accept(w, r)
             \/ LookupHit(w) \/ LookupMissSet(w) \/ LookupMiss(w)
             \/ VerifyTreeRoot(w) \/ RebuildTreeRoot(w) \/ Reply(w)
          \/ Write(w)
      BY <2>4, Zenon DEF Next, Write
    <3>2. CASE Write(w)
      BY <1>2, <2>1, <3>2, WriteIsFresh, Zenon
    <3>3. CASE ~Write(w)
      <4>1. table' = table
        BY <3>1, <3>3, Zenon DEF Accept, LookupHit, LookupMissSet, LookupMiss, VerifyTreeRoot, RebuildTreeRoot, Reply
      <4> HIDE DEF Fresh
      <4> QED BY <2>2, <4>1
    <3> QED BY <3>2, <3>3
  <2> QED BY <1>2, <2>3, <2>4
<1>3. Init => IInv /\ CInv
  BY InvInit, CountersInit
<1>4. UpdateUsesFreshCounters <=> [][Fresh]_vars
  BY DEF UpdateUsesFreshCounters
<1> QED BY <1>1, <1>2, <1>3, <1>4, PTL DEF Spec

=============================================================================
