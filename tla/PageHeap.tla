------------------------------ MODULE PageHeap ------------------------------
(***************************************************************************)
(* The page heap of the untrusted allocator (page_heap.cc of the gperftools  *)
(* copy): spans of pages, the free lists by length, the map from a page to   *)
(* the span it belongs to and the statistics. Every operation runs under     *)
(* pageheap_lock and is one action. No heap limit is set (the default), so   *)
(* that EnsureLimit is always true. Memory is counted in pages.              *)
(***************************************************************************)
EXTENDS Integers, Sequences, SequencesExt, FiniteSetsExt, Functions

CONSTANTS kMaxPages,                  (* free_ has lists below it, large_ the rest *)
          kForcedCoalesceInterval,
          MaxPage,                    (* the system has pages 1 .. MaxPage         *)
          MaxLength                   (* bound: the longest span asked for         *)

VARIABLES heap,      (* the fields of PageHeap and its spans                       *)
          brk,       (* the last page the system has given out                     *)
          mode       (* canRelease: the build can give pages back to the system;   *)
                     (* aggressive: aggressive_decommit_                           *)

vars == << heap, brk, mode >>

NULL == 0
Ids == 1 .. MaxPage           (* the Span structures: each has a page at least     *)
Dead == [start |-> 0, length |-> 0, location |-> "none", sizeclass |-> 0]
Stale == -1
Lengths == 1 .. kMaxPages     (* the lists; kMaxPages stands for large_           *)

Init ==
  /\ heap = [span |-> [i \in Ids |-> Dead],
             pagemap |-> [p \in 0 .. (MaxPage + 1) |-> NULL],
             normal |-> [l \in Lengths |-> << >>], returned |-> [l \in Lengths |-> << >>],
             free |-> 0, unmapped |-> 0, system |-> 0, committed |-> 0,
             release_index |-> kMaxPages]
  /\ brk = 0
  /\ mode \in [canRelease : BOOLEAN, aggressive : BOOLEAN]

-----------------------------------------------------------------------------
(* The steps of the operations, as functions of the heap h. *)

IndexOf(len) == Min({len, kMaxPages})

PrependToFreeList(h, i) ==
  LET s == h.span[i] IN
  IF s.location = "normal"
    THEN [h EXCEPT !.free = @ + s.length, !.normal[IndexOf(s.length)] = << i >> \o @]
    ELSE [h EXCEPT !.unmapped = @ + s.length, !.returned[IndexOf(s.length)] = << i >> \o @]

RemoveFromFreeList(h, i) ==
  LET s == h.span[i] IN
  IF s.location = "normal"
    THEN [h EXCEPT !.free = @ - s.length, !.normal[IndexOf(s.length)] = Remove(@, i)]
    ELSE [h EXCEPT !.unmapped = @ - s.length, !.returned[IndexOf(s.length)] = Remove(@, i)]

\* The structure NewSpan gets: one that is not in use, and may have been before.
FreshId(h) == Min({i \in Ids : h.span[i] = Dead})

\* NewSpan and RecordSpan: the first and the last page lead to the span.
Record(h, i, p, len, loc) ==
  [h EXCEPT !.span[i] = [start |-> p, length |-> len, location |-> loc, sizeclass |-> 0],
            !.pagemap[p] = i, !.pagemap[p + len - 1] = i]

Carve(h, i, n) ==
  LET s     == h.span[i]
      taken == [RemoveFromFreeList(h, i) EXCEPT !.span[i].location = "in_use"]
      j     == FreshId(h)
      rest  == PrependToFreeList(Record(taken, j, s.start + n, s.length - n, s.location), j)
      cut   == IF s.length = n THEN taken
               ELSE [rest EXCEPT !.span[i].length = n, !.pagemap[s.start + n - 1] = i]
  IN IF s.location = "returned" THEN [cut EXCEPT !.committed = @ + n] ELSE cut

\* Mutant: any neighbour will do.
MayMergeSpans_Any(h, i, j) == h.span[j] # Dead

MayMergeSpans(h, i, j) ==
  IF mode.aggressive THEN h.span[j].location # "in_use"
  ELSE h.span[i].location = h.span[j].location

\* Mutant: the page map is not told.
Absorb_Unmapped(h, i, j) ==
  [RemoveFromFreeList(h, j) EXCEPT !.span[j] = Dead,
                                   !.span[i].start = Min({@, h.span[j].start}),
                                   !.span[i].length = @ + h.span[j].length]

\* The span j before or after span i is merged into it.
Absorb(h, i, j) ==
  LET a == h.span[i]
      b == h.span[j]
      p == Min({a.start, b.start})
      l == a.length + b.length
      g == RemoveFromFreeList(h, j)
  IN [g EXCEPT !.span[j] = Dead, !.span[i].start = p, !.span[i].length = l,
               !.pagemap[p] = IF b.start = p THEN i ELSE @,
               !.pagemap[p + l - 1] = IF a.start = p THEN i ELSE @]

\* Mutants: the span that follows is left alone; decommitting the merged span counts
\* the pages twice that were returned before.
MergeIntoFreeList_LeftOnly(h, i) ==
  LET prev == h.pagemap[h.span[i].start - 1]
  IN PrependToFreeList(IF prev # NULL /\ MayMergeSpans(h, i, prev) THEN Absorb(h, i, prev) ELSE h, i)

MergeIntoFreeList_Recounts(h, i) ==
  LET s    == h.span[i]
      prev == h.pagemap[s.start - 1]
      h1   == IF prev # NULL /\ MayMergeSpans(h, i, prev) THEN Absorb(h, i, prev) ELSE h
      next == h1.pagemap[s.start + s.length]
      h2   == IF next # NULL /\ MayMergeSpans(h1, i, next) THEN Absorb(h1, i, next) ELSE h1
  IN PrependToFreeList(IF mode.aggressive /\ mode.canRelease
                       THEN [h2 EXCEPT !.committed = @ - h2.span[i].length,
                                       !.span[i].location = "returned"]
                       ELSE h2, i)

MergeIntoFreeList(h, i) ==
  LET s    == h.span[i]
      prev == h.pagemap[s.start - 1]
      left == prev # NULL /\ MayMergeSpans(h, i, prev)
      h1   == IF left THEN Absorb(h, i, prev) ELSE h
      next == h1.pagemap[s.start + s.length]
      right == next # NULL /\ MayMergeSpans(h1, i, next)
      h2   == IF right THEN Absorb(h1, i, next) ELSE h1
      Returned(ok, j) == IF ok /\ h.span[j].location = "returned" THEN h.span[j].length ELSE 0
      temp_committed == Returned(left, prev) + Returned(right, next)
      h3   == IF mode.aggressive /\ mode.canRelease
              THEN [h2 EXCEPT !.committed = @ - h2.span[i].length + temp_committed,
                              !.span[i].location = "returned"]
              ELSE h2
  IN PrependToFreeList(h3, i)

\* Mutant: the span stays on its old list.
ReleaseLastNormalSpan_Twice(h, l) ==
  LET i == Last(h.normal[l])
      n == h.span[i].length
  IN MergeIntoFreeList([h EXCEPT !.committed = @ - n, !.free = @ - n,
                                 !.span[i].location = "returned"], i)

\* A span is decommitted and moves to the returned ones.
ReleaseLastNormalSpan(h, l) ==
  LET i == Last(h.normal[l])
      g == RemoveFromFreeList([h EXCEPT !.committed = @ - h.span[i].length], i)
  IN MergeIntoFreeList([g EXCEPT !.span[i].location = "returned"], i)

\* ReleaseAtLeastNPages, with num pages still to release in step i of a round. Some
\* systems do not support release: the first span that stays ends it.
RECURSIVE ReleaseAtLeastNPages(_, _, _)
ReleaseAtLeastNPages(h, num, i) ==
  LET l    == IF h.release_index > kMaxPages THEN 0 ELSE h.release_index
      next == (i + 1) % (kMaxPages + 1)
      last == Last(h.normal[l])
      got  == ReleaseLastNormalSpan(h, l)
  IN
  IF num <= 0 \/ (i = 0 /\ h.free = 0) THEN h
  ELSE IF l = 0 \/ h.normal[Max({l, 1})] = << >>
    THEN ReleaseAtLeastNPages([h EXCEPT !.release_index = l + 1], num, next)
  ELSE IF ~mode.canRelease THEN [h EXCEPT !.release_index = l]
  ELSE ReleaseAtLeastNPages([got EXCEPT !.release_index = l + 1], num - h.span[last].length, next)

\* When its counter has run out (due), a page at least is to be released; how long
\* the counter runs is left open.
IncrementalScavenge(h, due) == IF due THEN ReleaseAtLeastNPages(h, 1, 0) ELSE h

Delete(h, i, due) ==
  LET freed == [h EXCEPT !.span[i].location = "normal", !.span[i].sizeclass = 0]
  IN IncrementalScavenge(MergeIntoFreeList(freed, i), due)

\* The large spans that are long enough; the shortest of them, then the first.
Candidates(h, n) ==
  {i \in Range(h.normal[kMaxPages]) \cup Range(h.returned[kMaxPages]) : h.span[i].length >= n}

BestFit(h, n) ==
  CHOOSE i \in Candidates(h, n) :
    \A j \in Candidates(h, n) :
      \/ h.span[i].length < h.span[j].length
      \/ h.span[i].length = h.span[j].length /\ h.span[i].start <= h.span[j].start

\* The span SearchFreeAndLargeLists carves from, NULL if there is none.
Found(h, n) ==
  LET sizes == {l \in n .. (kMaxPages - 1) : h.normal[l] \o h.returned[l] # << >>} IN
  IF sizes # {} THEN Head(h.normal[Min(sizes)] \o h.returned[Min(sizes)])
  ELSE IF Candidates(h, n) # {} THEN BestFit(h, n)
  ELSE NULL

\* All free pages are given back when the heap is about to grow across an interval.
ForcesCoalescing(h, n) ==
  /\ h.free # 0 /\ h.unmapped # 0 /\ h.free + h.unmapped >= h.system \div 4
  /\ h.system \div kForcedCoalesceInterval # (h.system + n) \div kForcedCoalesceInterval

BeforeGrowth(h, n) ==
  IF Found(h, n) = NULL /\ ForcesCoalescing(h, n) THEN ReleaseAtLeastNPages(h, MaxPage, 0) ELSE h

\* GrowHeap with the ask pages from page p: the area is recorded as a span in use,
\* and deleted.
GrowHeap(h, p, ask, due) ==
  LET i == FreshId(h)
      g == [h EXCEPT !.system = @ + ask, !.committed = @ + ask]
  IN Delete(Record(g, i, p, ask, "in_use"), i, due)

-----------------------------------------------------------------------------
(* The operations. *)

\* Where an operation ends. What the pages inside a span lead to is left open, as in
\* the code ("we only care about the pagemap entries for the boundaries"), unless
\* the span has a size class; and a Span structure is known by its first page.
Settled(h) ==
  LET Name(i) == h.span[i].start
      Inside(p) == \E i \in Ids : /\ h.span[i] # Dead /\ h.span[i].sizeclass = 0
                                  /\ Name(i) < p /\ p < Name(i) + h.span[i].length - 1
      Named(q) == [k \in DOMAIN q |-> Name(q[k])]
  IN [h EXCEPT !.span = [p \in Ids |-> LET own == {i \in Ids : Name(i) = p}
                                       IN IF own = {} THEN Dead ELSE h.span[CHOOSE i \in own : TRUE]],
               !.pagemap = [p \in DOMAIN @ |-> IF Inside(p) THEN Stale
                                               ELSE IF @[p] \in Ids THEN Name(@[p]) ELSE @[p]],
               !.normal = [l \in Lengths |-> Named(@[l])],
               !.returned = [l \in Lengths |-> Named(@[l])]]

\* The span that was found is carved; for a size class (Populate), RegisterSizeClass
\* lets all its pages lead to it.
Serve(h, n, sc) ==
  LET i == Found(h, n)
      g == Carve(h, i, n)
      s == g.span[i]
  IN heap' = Settled(IF sc = 0 THEN g
                     ELSE [g EXCEPT !.span[i].sizeclass = sc,
                                    !.pagemap = [p \in DOMAIN @ |->
                                      IF s.start < p /\ p < s.start + n - 1 THEN i ELSE @[p]]])

NewFromLists(n, sc) ==
  LET h == BeforeGrowth(heap, n) IN
  /\ Found(h, n) # NULL
  /\ Serve(h, n, sc)
  /\ UNCHANGED << brk, mode >>

\* sbrk may leave a gap. When the system has no room for the least it is asked for,
\* it is asked for the n pages only.
NewGrows(n, sc) ==
  LET h == BeforeGrowth(heap, n) IN
  /\ Found(h, n) = NULL
  /\ \E p \in {brk + 1, brk + 2}, due \in BOOLEAN :
       LET least == Max({n, kMaxPages})
           ask   == IF p + least - 1 <= MaxPage THEN least ELSE n
       IN /\ p + ask - 1 <= MaxPage
          /\ brk' = p + ask - 1
          /\ Serve(GrowHeap(h, p, ask, due), n, sc)
  /\ UNCHANGED mode

\* Out of memory; a forced coalescing has been done all the same.
NewFails(n) ==
  LET h == BeforeGrowth(heap, n) IN
  /\ Found(h, n) = NULL
  /\ brk + n > MaxPage
  /\ heap' = Settled(h)
  /\ UNCHANGED << brk, mode >>

InUse == {i \in Ids : heap.span[i].location = "in_use"}

DeleteSpan(i) ==
  /\ i \in InUse
  /\ \E due \in BOOLEAN : heap' = Settled(Delete(heap, i, due))
  /\ UNCHANGED << brk, mode >>

Split(i, n) ==
  LET s == heap.span[i]
      j == FreshId(heap)
  IN
  /\ i \in InUse /\ s.sizeclass = 0 /\ n < s.length
  /\ heap' = Settled([Record(heap, j, s.start + n, s.length - n, "in_use")
                        EXCEPT !.pagemap[s.start + n - 1] = i, !.span[i].length = n])
  /\ UNCHANGED << brk, mode >>

Next ==
  \/ \E n \in 1 .. MaxLength : \E sc \in {0, 1} : NewFromLists(n, sc) \/ NewGrows(n, sc)
  \/ \E n \in 1 .. MaxLength : NewFails(n)
  \/ \E i \in Ids : DeleteSpan(i)
  \/ \E i \in Ids : \E n \in 1 .. (MaxLength - 1) : Split(i, n)

Spec == Init /\ [][Next]_vars

-----------------------------------------------------------------------------
Live == {i \in Ids : heap.span[i] # Dead}
Pages(i) == heap.span[i].start .. (heap.span[i].start + heap.span[i].length - 1)
Total(S) == SumFunctionOnSet([i \in Ids |-> heap.span[i].length], S)

\* Spans never overlap; the first and the last page of a span lead to it, and every
\* page of one with a size class, where ReleaseToSpans looks up the span of any of
\* its objects; pages the heap does not have lead nowhere. Stale entries are never
\* where the code looks.
PagesLeadToSpans ==
  /\ \A i, j \in Live : i # j => Pages(i) \cap Pages(j) = {}
  /\ \A i \in Live : \A p \in Pages(i) :
       (p \in {Min(Pages(i)), Max(Pages(i))} \/ heap.span[i].sizeclass # 0) => heap.pagemap[p] = i
  /\ \A p \in DOMAIN heap.pagemap : (\A i \in Live : p \notin Pages(i)) => heap.pagemap[p] = NULL

\* CheckExpensive: every free span is once on the list of its length and location,
\* and nothing else is on a list.
FreeListsExact ==
  \A l \in Lengths :
    LET Belong(loc) == {i \in Live : heap.span[i].location = loc /\ IndexOf(heap.span[i].length) = l} IN
    /\ IsInjective(heap.normal[l])   /\ Range(heap.normal[l]) = Belong("normal")
    /\ IsInjective(heap.returned[l]) /\ Range(heap.returned[l]) = Belong("returned")

\* "unmapped_bytes + committed_bytes == system_bytes", and each of the statistics is
\* what the spans say, through merging, carving and decommitting.
StatsAddUp ==
  /\ heap.free = Total({i \in Live : heap.span[i].location = "normal"})
  /\ heap.unmapped = Total({i \in Live : heap.span[i].location = "returned"})
  /\ heap.system = Total(Live)
  /\ heap.unmapped + heap.committed = heap.system

\* "Skip coalescing - no candidates possible": no two neighbours that could be one
\* free span are ever left apart.
Coalesced ==
  \A i, j \in Live :
    /\ heap.span[j].start = heap.span[i].start + heap.span[i].length
    /\ heap.span[i].location # "in_use" /\ heap.span[j].location # "in_use"
    => ~mode.aggressive /\ heap.span[i].location # heap.span[j].location

\* A span in use is changed by a call that names it and by no other: not by growing,
\* scavenging, or merging its neighbours.
InUseKept ==
  [][\A i \in InUse : \/ heap'.span[i] = heap.span[i]
                      \/ DeleteSpan(i) \/ \E n \in 1 .. MaxLength : Split(i, n)]_vars

=============================================================================
