--------------------------- MODULE CentralFreeList ---------------------------
(***************************************************************************)
(* The central free lists of the untrusted allocator (central_freelist.cc   *)
(* of the gperftools copy), one per size class and with a lock each, under   *)
(* the concurrent InsertRange and RemoveRange of the threads' caches. An     *)
(* object is known by the span it lies in, so that a chain of objects is the *)
(* number of its objects in every span. The page heap is represented by the  *)
(* class it has registered each span for.                                    *)
(***************************************************************************)
EXTENDS Integers, Sequences, FiniteSetsExt, Functions

CONSTANTS Threads, Classes, Spans,
          Batch,             (* num_objects_to_move                            *)
          PerSpan,           (* objects in a span                              *)
          max_cache_size_,   (* entries a transfer cache may grow to, by class *)
          InitEntries,       (* cache_size_ set by Init, by class              *)
          NoThread, Free

\* SizeMap hands out positive sizes; NoThread and Free stand for no thread, no class, no span.
ASSUME CentralAssumption ==
  /\ IsFiniteSet(Threads) /\ IsFiniteSet(Classes) /\ IsFiniteSet(Spans)
  /\ Batch \in Nat \ {0} /\ PerSpan \in Nat \ {0}
  /\ max_cache_size_ \in [Classes -> Nat] /\ InitEntries \in [Classes -> Nat]
  /\ NoThread \notin Threads /\ Free \notin Classes \cup Spans

VARIABLES lock_, cache_size_, slots,                (* per class; used_slots_ is Len(slots) *)
          nonempty_, empty_, counter_, num_spans_,
          objects, refcount, class,                 (* per span                            *)
          held,                                     (* objects each thread has             *)
          pc, me                                    (* where each thread stands, its locals *)

cvars == << lock_, cache_size_, slots >>
lists == << nonempty_, empty_, counter_, num_spans_ >>
spans == << objects, refcount, class >>
vars  == << lock_, cache_size_, slots, nonempty_, empty_, counter_, num_spans_,
            objects, refcount, class, held, pc, me >>

None == [s \in Spans |-> 0]
One(s, n) == [None EXCEPT ![s] = n]
Plus(f, g) == [s \in Spans |-> f[s] + g[s]]
Minus(f, g) == [s \in Spans |-> f[s] - g[s]]

Idle == [cl |-> Free, N |-> 0, chain |-> None, victim |-> Free, force |-> FALSE,
         list |-> None, at |-> Free, span |-> Free, done |-> FALSE]

Init ==
  /\ lock_ = [c \in Classes |-> NoThread]
  /\ cache_size_ = [c \in Classes |-> Min({InitEntries[c], max_cache_size_[c]})]
  /\ slots = [c \in Classes |-> << >>]
  /\ nonempty_ = [c \in Classes |-> << >>] /\ empty_ = [c \in Classes |-> {}]
  /\ counter_ = [c \in Classes |-> 0] /\ num_spans_ = [c \in Classes |-> 0]
  /\ objects = None /\ refcount = None /\ class = [s \in Spans |-> Free]
  /\ held = [t \in Threads |-> None]
  /\ pc = [t \in Threads |-> "idle"] /\ me = [t \in Threads |-> Idle]

\* The locals a thread goes on with, and where.
Goto(t, where, locals) ==
  /\ pc' = [pc EXCEPT ![t] = where]
  /\ me' = [me EXCEPT ![t] = locals]

Lock(t, c)   == lock_[c] = NoThread /\ lock_' = [lock_ EXCEPT ![c] = t]
Unlock(t, c) == lock_' = [lock_ EXCEPT ![c] = NoThread]

-----------------------------------------------------------------------------
(* InsertRange and MakeCacheSpace. *)

Used(c) == Len(slots[c])

\* The entry used_slots_ - 1 of a transfer cache, and the cache without it.
LastEntry(c) == slots[c][Used(c)]
DropEntry(c) == slots' = [slots EXCEPT ![c] = SubSeq(@, 1, Used(c) - 1)]

\* The first two tests of MakeCacheSpace.
HasRoom(c) == Used(c) < cache_size_[c]
MayGrow(c) == cache_size_[c] # max_cache_size_[c]

\* The chain becomes an entry of the transfer cache and the thread leaves.
StoreEntry(t, c, chain) ==
  /\ slots' = [slots EXCEPT ![c] = Append(@, chain)]
  /\ Goto(t, "idle", Idle)

\* ReleaseListToSpans(start), in the class whose lock the thread holds.
ReleaseChain(t, locals) ==
  Goto(t, "release", [Idle EXCEPT !.list = locals.chain, !.at = locals.cl])

\* What a thread cache may return to class c: up to a batch of the thread's objects.
Returns(t, c) ==
  {f \in [Spans -> 0 .. Batch] :
     /\ \A s \in Spans : f[s] <= held[t][s] /\ (f[s] > 0 => class[s] = c)
     /\ SumFunction(f) \in 1 .. Batch}

\* There is room, there can be none, or another class is asked for an entry.
InsertRange(t) ==
  /\ pc[t] = "idle"
  /\ \E c \in Classes : \E f \in Returns(t, c) :
       LET batch  == SumFunction(f) = Batch
           locals == [Idle EXCEPT !.cl = c, !.chain = f]
       IN
       /\ held' = [held EXCEPT ![t] = Minus(@, f)]
       /\ lock_[c] = NoThread
       /\ \/ /\ batch /\ HasRoom(c)
             /\ StoreEntry(t, c, f) /\ UNCHANGED lock_
          \/ /\ ~batch \/ ~(HasRoom(c) \/ MayGrow(c))
             /\ Lock(t, c) /\ ReleaseChain(t, locals) /\ UNCHANGED slots
          \/ /\ batch /\ ~HasRoom(c) /\ MayGrow(c)
             /\ Lock(t, c) /\ Goto(t, "evict", locals) /\ UNCHANGED slots
  /\ UNCHANGED << cache_size_, lists, spans >>

\* The look at another class before its lock is taken.
QuickCheck(t, v) ==
  v # me[t].cl /\ cache_size_[v] # 0 /\ (me[t].force \/ Used(v) # cache_size_[v])

\* EvictRandomSizeClass gets nothing from the class the unlocked counter names: the
\* second attempt forces, after that the chain goes back to the spans.
NothingEvicted(t) ==
  IF me[t].force THEN ReleaseChain(t, me[t]) ELSE Goto(t, "evict", [me[t] EXCEPT !.force = TRUE])

EvictFails(t) ==
  /\ pc[t] = "evict" /\ \E v \in Classes : ~QuickCheck(t, v)
  /\ NothingEvicted(t)
  /\ UNCHANGED << cvars, lists, spans, held >>

\* Mutant: the lock held is kept.
EvictFrom_KeepsLock(t) ==
  /\ pc[t] = "evict"
  /\ \E v \in Classes : QuickCheck(t, v) /\ Goto(t, "invert", [me[t] EXCEPT !.victim = v])
  /\ UNCHANGED << cvars, lists, spans, held >>

\* LockInverter: the lock held is released before the other is taken.
EvictFrom(t) ==
  /\ pc[t] = "evict"
  /\ \E v \in Classes : QuickCheck(t, v) /\ Goto(t, "invert", [me[t] EXCEPT !.victim = v])
  /\ Unlock(t, me[t].cl)
  /\ UNCHANGED << cache_size_, slots, lists, spans, held >>

\* Mutant: used_slots_ is not decremented.
ShrinkCache_KeepsEntry(t) ==
  LET v == me[t].victim IN
  /\ pc[t] = "invert" /\ lock_[v] = NoThread
  /\ IF cache_size_[v] # 0 /\ Used(v) = cache_size_[v] /\ me[t].force
       THEN /\ Lock(t, v)
            /\ Goto(t, "release", [me[t] EXCEPT !.list = LastEntry(v), !.at = v, !.done = TRUE])
       ELSE Goto(t, "relock", me[t]) /\ UNCHANGED lock_
  /\ UNCHANGED << cache_size_, slots, lists, spans, held >>

\* ShrinkCache with the victim's lock: nothing to take, an unused entry, or the last
\* used one, whose objects go back to their spans.
ShrinkCache(t) ==
  LET v == me[t].victim IN
  /\ pc[t] = "invert" /\ lock_[v] = NoThread
  /\ \/ /\ cache_size_[v] = 0 \/ (Used(v) = cache_size_[v] /\ ~me[t].force)
        /\ Goto(t, "relock", [me[t] EXCEPT !.done = FALSE])
        /\ UNCHANGED cvars
     \/ /\ cache_size_[v] # 0 /\ Used(v) # cache_size_[v]
        /\ cache_size_' = [cache_size_ EXCEPT ![v] = @ - 1]
        /\ Goto(t, "relock", [me[t] EXCEPT !.done = TRUE])
        /\ UNCHANGED << lock_, slots >>
     \/ /\ cache_size_[v] # 0 /\ Used(v) = cache_size_[v] /\ me[t].force
        /\ Lock(t, v)
        /\ cache_size_' = [cache_size_ EXCEPT ![v] = @ - 1]
        /\ DropEntry(v)
        /\ Goto(t, "release", [me[t] EXCEPT !.list = LastEntry(v), !.at = v, !.done = TRUE])
  /\ UNCHANGED << lists, spans, held >>

\* Mutant: the size is not looked at again.
Relock_Unchecked(t) ==
  /\ pc[t] = "relock" /\ me[t].done /\ lock_[me[t].cl] = NoThread
  /\ cache_size_' = [cache_size_ EXCEPT ![me[t].cl] = @ + 1]
  /\ StoreEntry(t, me[t].cl, me[t].chain)
  /\ UNCHANGED << lock_, lists, spans, held >>

\* The thread has its own lock back; the sizes may have changed in between.
Relock(t) ==
  LET c == me[t].cl IN
  /\ pc[t] = "relock"
  /\ \/ /\ me[t].done /\ cache_size_[c] < max_cache_size_[c]
        /\ lock_[c] = NoThread /\ UNCHANGED lock_
        /\ cache_size_' = [cache_size_ EXCEPT ![c] = @ + 1]
        /\ StoreEntry(t, c, me[t].chain)
     \/ /\ me[t].done /\ cache_size_[c] >= max_cache_size_[c]
        /\ Lock(t, c) /\ ReleaseChain(t, me[t])
        /\ UNCHANGED << cache_size_, slots >>
     \/ /\ ~me[t].done
        /\ Lock(t, c) /\ NothingEvicted(t)
        /\ UNCHANGED << cache_size_, slots >>
  /\ UNCHANGED << lists, spans, held >>

-----------------------------------------------------------------------------
(* ReleaseListToSpans: one object of the list at a time. *)

\* Span s is unlinked from the list it is in.
DLL_Remove(q, s) ==
  IF s \in Range(q)
    THEN LET i == CHOOSE i \in DOMAIN q : q[i] = s
         IN  SubSeq(q, 1, i - 1) \o SubSeq(q, i + 1, Len(q))
    ELSE q

\* The object joins the free ones of its span, which moves to the non-empty spans
\* if it had none.
KeepSpan(t, s) ==
  LET c == me[t].at IN
  /\ refcount[s] # 1
  /\ objects' = [objects EXCEPT ![s] = @ + 1]
  /\ IF objects[s] = 0
       THEN /\ nonempty_' = [nonempty_ EXCEPT ![c] = << s >> \o @]
            /\ empty_' = [empty_ EXCEPT ![c] = @ \ {s}]
       ELSE UNCHANGED << nonempty_, empty_ >>
  /\ counter_' = [counter_ EXCEPT ![c] = @ + 1]
  /\ Goto(t, "release", [me[t] EXCEPT !.list = Minus(@, One(s, 1))])
  /\ UNCHANGED << lock_, num_spans_ >>

\* Mutant: counter_ still counts the objects of the span.
DropSpan_KeepsCount(t, s) ==
  LET c == me[t].at IN
  /\ refcount[s] = 1
  /\ objects' = [objects EXCEPT ![s] = 0]
  /\ nonempty_' = [nonempty_ EXCEPT ![c] = DLL_Remove(@, s)]
  /\ empty_' = [empty_ EXCEPT ![c] = @ \ {s}]
  /\ counter_' = [counter_ EXCEPT ![c] = @ + 1]
  /\ num_spans_' = [num_spans_ EXCEPT ![c] = @ - 1]
  /\ Unlock(t, c)
  /\ Goto(t, "delete", [me[t] EXCEPT !.list = Minus(@, One(s, 1)), !.span = s])

\* It was the last one out: the span leaves the lists, and the lock is released to
\* give it to the page heap.
DropSpan(t, s) ==
  LET c == me[t].at IN
  /\ refcount[s] = 1
  /\ objects' = [objects EXCEPT ![s] = 0]
  /\ nonempty_' = [nonempty_ EXCEPT ![c] = DLL_Remove(@, s)]
  /\ empty_' = [empty_ EXCEPT ![c] = @ \ {s}]
  /\ counter_' = [counter_ EXCEPT ![c] = @ + 1 - PerSpan]
  /\ num_spans_' = [num_spans_ EXCEPT ![c] = @ - 1]
  /\ Unlock(t, c)
  /\ Goto(t, "delete", [me[t] EXCEPT !.list = Minus(@, One(s, 1)), !.span = s])

ReleaseToSpans(t) ==
  /\ pc[t] = "release"
  /\ \E s \in Spans : /\ me[t].list[s] > 0
                      /\ refcount' = [refcount EXCEPT ![s] = @ - 1]
                      /\ KeepSpan(t, s) \/ DropSpan(t, s)
  /\ UNCHANGED << cache_size_, slots, class, held >>

DeleteSpan(t) ==
  /\ pc[t] = "delete"
  /\ class' = [class EXCEPT ![me[t].span] = Free]
  /\ Goto(t, "deleted", [me[t] EXCEPT !.span = Free])
  /\ UNCHANGED << cvars, lists, objects, refcount, held >>

Deleted(t) ==
  /\ pc[t] = "deleted" /\ Lock(t, me[t].at) /\ Goto(t, "release", me[t])
  /\ UNCHANGED << cache_size_, slots, lists, spans, held >>

\* The end of InsertRange, or of ShrinkCache.
Released(t) ==
  /\ pc[t] = "release" /\ me[t].list = None
  /\ Unlock(t, me[t].at)
  /\ IF me[t].at = me[t].victim THEN Goto(t, "relock", me[t]) ELSE Goto(t, "idle", Idle)
  /\ UNCHANGED << cache_size_, slots, lists, spans, held >>

-----------------------------------------------------------------------------
(* RemoveRange. *)

RemoveRange(t) ==
  /\ pc[t] = "idle"
  /\ \E c \in Classes, n \in 1 .. Batch :
       /\ lock_[c] = NoThread
       /\ IF n = Batch /\ Used(c) > 0
            THEN /\ DropEntry(c)
                 /\ held' = [held EXCEPT ![t] = Plus(@, LastEntry(c))]
                 /\ UNCHANGED << lock_, pc, me >>
            ELSE /\ Lock(t, c) /\ Goto(t, "fetch", [Idle EXCEPT !.cl = c, !.N = n])
                 /\ UNCHANGED << slots, held >>
  /\ UNCHANGED << cache_size_, lists, spans >>

Got(t) == SumFunction(me[t].chain)

FetchFromOneSpans(t) ==
  LET c == me[t].cl
      s == Head(nonempty_[c])
      n == Min({me[t].N - Got(t), objects[s]})
  IN
  /\ pc[t] = "fetch" /\ Got(t) < me[t].N /\ nonempty_[c] # << >>
  /\ objects' = [objects EXCEPT ![s] = @ - n]
  /\ refcount' = [refcount EXCEPT ![s] = @ + n]
  /\ counter_' = [counter_ EXCEPT ![c] = @ - n]
  /\ IF objects[s] = n
       THEN /\ nonempty_' = [nonempty_ EXCEPT ![c] = Tail(@)]
            /\ empty_' = [empty_ EXCEPT ![c] = @ \cup {s}]
       ELSE UNCHANGED << nonempty_, empty_ >>
  /\ Goto(t, "fetch", [me[t] EXCEPT !.chain = Plus(@, One(s, n))])
  /\ UNCHANGED << cvars, num_spans_, class, held >>

\* FetchFromOneSpansSafe found nothing, for the first time.
Populate(t) ==
  /\ pc[t] = "fetch" /\ Got(t) = 0 /\ nonempty_[me[t].cl] = << >> /\ ~me[t].done
  /\ Unlock(t, me[t].cl)
  /\ Goto(t, "populate", me[t])
  /\ UNCHANGED << cache_size_, slots, lists, spans, held >>

\* New and RegisterSizeClass of the page heap, which may be out of memory.
NewSpan(t) ==
  /\ pc[t] = "populate"
  /\ \/ \E s \in Spans :
          /\ class[s] = Free
          /\ class' = [class EXCEPT ![s] = me[t].cl]
          /\ objects' = [objects EXCEPT ![s] = PerSpan]
          /\ refcount' = [refcount EXCEPT ![s] = 0]
          /\ Goto(t, "populated", [me[t] EXCEPT !.span = s])
     \/ /\ \A s \in Spans : class[s] # Free
        /\ Goto(t, "populated", me[t]) /\ UNCHANGED spans
  /\ UNCHANGED << cvars, lists, held >>

Populated(t) ==
  LET c == me[t].cl IN
  /\ pc[t] = "populated" /\ Lock(t, c)
  /\ IF me[t].span = Free
       THEN UNCHANGED lists
       ELSE /\ nonempty_' = [nonempty_ EXCEPT ![c] = << me[t].span >> \o @]
            /\ num_spans_' = [num_spans_ EXCEPT ![c] = @ + 1]
            /\ counter_' = [counter_ EXCEPT ![c] = @ + PerSpan]
            /\ UNCHANGED empty_
  /\ Goto(t, "fetch", [me[t] EXCEPT !.span = Free, !.done = TRUE])
  /\ UNCHANGED << cache_size_, slots, spans, held >>

Fetched(t) ==
  /\ pc[t] = "fetch"
  /\ \/ Got(t) = me[t].N
     \/ nonempty_[me[t].cl] = << >> /\ (Got(t) > 0 \/ me[t].done)
  /\ held' = [held EXCEPT ![t] = Plus(@, me[t].chain)]
  /\ Unlock(t, me[t].cl)
  /\ Goto(t, "idle", Idle)
  /\ UNCHANGED << cache_size_, slots, lists, spans >>

-----------------------------------------------------------------------------
Next ==
  \E t \in Threads :
    \/ InsertRange(t) \/ EvictFails(t) \/ EvictFrom(t) \/ ShrinkCache(t) \/ Relock(t)
    \/ ReleaseToSpans(t) \/ DeleteSpan(t) \/ Deleted(t) \/ Released(t)
    \/ RemoveRange(t) \/ FetchFromOneSpans(t) \/ Populate(t) \/ NewSpan(t) \/ Populated(t)
    \/ Fetched(t)

Spec == Init /\ [][Next]_vars

-----------------------------------------------------------------------------
\* "We use the lock inverter to ensure that we never hold two size class locks
\* concurrently. That can create a deadlock": a thread that waits for a lock, works
\* on the page heap or is outside holds none, any other holds one.
OneLockAtMost ==
  \A t \in Threads :
    Cardinality({c \in Classes : lock_[c] = t}) = IF pc[t] \in {"evict", "release", "fetch"} THEN 1 ELSE 0

\* Objects of span s that are in the hands of a thread or in a transfer cache.
Out(s) ==
  SumFunction([t \in Threads |-> held[t][s] + me[t].chain[s] + me[t].list[s]])
  + SumFunction([c \in Classes |-> SumFunction([i \in DOMAIN slots[c] |-> slots[c][i][s]])])

Listed(c) == Range(nonempty_[c]) \cup empty_[c]

\* No object is lost or handed out twice, however the locks change hands: a span of a
\* list counts the objects that are out and has the others, and a span on its way
\* to or from the page heap, or in it, has none out.
ObjectsConserved ==
  \A s \in Spans :
    /\ refcount[s] = Out(s)
    /\ IF class[s] # Free /\ s \in Listed(class[s])
         THEN objects[s] + refcount[s] = PerSpan
         ELSE refcount[s] = 0

\* counter_ and num_spans_ of a class tell the free objects and the spans of its
\* lists; a span is once in the lists of its own class only, and among the non-empty
\* ones exactly when it has a free object.
ListsExact ==
  \A c \in Classes :
    /\ counter_[c] = SumFunctionOnSet(objects, Listed(c))
    /\ num_spans_[c] = Len(nonempty_[c]) + Cardinality(empty_[c])
    /\ IsInjective(nonempty_[c]) /\ \A s \in Listed(c) : class[s] = c
    /\ \A s \in Listed(c) : s \in Range(nonempty_[c]) <=> objects[s] > 0
    /\ \A s \in empty_[c] : objects[s] = 0

\* A thread that has taken an entry from another class.
Claims(t) == me[t].victim # Free /\ me[t].done

\* No transfer cache outgrows its array, and together they never hold more entries
\* than they started with: a class grows only by what another one gave up.
EntriesFit ==
  /\ \A c \in Classes : Used(c) <= cache_size_[c] /\ cache_size_[c] <= max_cache_size_[c]
  /\ SumFunction(cache_size_) + Cardinality({t \in Threads : Claims(t)})
       <= SumFunction([c \in Classes |-> Min({InitEntries[c], max_cache_size_[c]})])

=============================================================================
