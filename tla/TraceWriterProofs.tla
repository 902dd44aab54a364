-------------------------- MODULE TraceWriterProofs --------------------------
(***************************************************************************)
(* Proofs about TraceWriter for any spans, captures and runtimes, and any    *)
(* number of failing writes and syncs, late markers and crashes; and about      *)
(* LlmProxy for any calls, answers and splits of their bytes.                    *)
(***************************************************************************)
EXTENDS MCTraceWriter, FiniteSetTheorems, SequenceTheorems, WellFoundedInduction, TLAPS

Items == Records \cup {Marker(h) : h \in Handlers} \cup {Stop}

TypeInv ==
    /\ span \in [Spans -> {"new", "started", "past"}] /\ pending \subseteq Spans
    /\ capture \in [Captures -> {"new", "captured", "past"}] /\ recent \subseteq Captures
    /\ headed \subseteq Runtimes
    /\ queue \in Seq(Items)
    /\ synced \in [Runtimes -> SUBSET Records] /\ buffered \in [Runtimes -> SUBSET Records]
    /\ \A r \in Runtimes : \A rec \in synced[r] \cup buffered[r] : rec.file = r
    /\ handler \in [Handlers -> {"new", "recorded", "waiting", "stored", "failed"}]
    /\ covers \in [Runtimes -> SUBSET (Records \cup Spans \cup Captures)]
    /\ errors \in Nat

-----------------------------------------------------------------------------
(* Items and queues.                                                         *)

LEMMA ItemFacts ==
    /\ \A rec \in Records : IsRecord(rec)
    /\ ~IsRecord(Stop)
    /\ \A h : ~IsRecord(Marker(h)) /\ Marker(h) # Stop /\ Marker(h).handler = h
    /\ \A item \in Items : \/ item \in Records
                           \/ item = Stop
                           \/ \E h \in Handlers : item = Marker(h)
  BY DEF Records, IsRecord, Stop, Marker, Items

LEMMA NewRecords ==
    ASSUME TypeInv
    PROVE  /\ \A r \in Runtimes : Metadata(r) \in Records /\ Finalization(r) \in Records
           /\ \A s \in Spans : Incomplete(s) \in Records
           /\ \A s \in Spans, c \in Captures \cup {Nothing} : Span(s, c) \in Records
           /\ \A c \in Captures : Unmatched(c) \in Records
  BY TraceAssumption DEF Records, Record, Metadata, Finalization, Incomplete, Span, Unmatched

\* Appending keeps what is there, and where.
LEMMA Appending ==
    ASSUME TypeInv, NEW list \in Seq(Items), queue' = queue \o list
    PROVE  /\ queue' \in Seq(Items) /\ Len(queue') = Len(queue) + Len(list)
           /\ Len(queue) \in Nat /\ Len(list) \in Nat
           /\ \A i \in 1 .. Len(queue) : i \in 1 .. Len(queue') /\ queue'[i] = queue[i]
           /\ \A i \in 1 .. Len(list) : /\ Len(queue) + i \in 1 .. Len(queue')
                                        /\ queue'[Len(queue) + i] = list[i]
           /\ \A i \in 1 .. Len(queue') : i \in 1 .. Len(queue) \/ i - Len(queue) \in 1 .. Len(list)
<1> HIDE DEF Items
<1>1. queue \in Seq(Items)
  BY DEF TypeInv
<1>2. /\ queue \o list \in Seq(Items) /\ Len(queue \o list) = Len(queue) + Len(list)
      /\ Len(queue) \in Nat /\ Len(list) \in Nat
  BY <1>1
<1>3. \A i \in 1 .. Len(queue) + Len(list) :
        (queue \o list)[i] = IF i <= Len(queue) THEN queue[i] ELSE list[i - Len(queue)]
  BY <1>1
<1> QED
  BY <1>2, <1>3

\* The records of a sequence of items.
RecordsIn(list) == {list[i] : i \in {j \in DOMAIN list : IsRecord(list[j])}}

LEMMA QueuedAfter ==
    ASSUME TypeInv, NEW list \in Seq(Items), queue' = queue \o list
    PROVE  Queued' = Queued \cup RecordsIn(list)
<1>1. DOMAIN queue = 1 .. Len(queue) /\ DOMAIN list = 1 .. Len(list) /\ DOMAIN queue' = 1 .. Len(queue')
  BY Appending DEF TypeInv
<1>2. ASSUME NEW rec \in Queued' PROVE rec \in Queued \cup RecordsIn(list)
  <2>1. PICK i \in 1 .. Len(queue') : rec = queue'[i] /\ IsRecord(queue'[i])
    BY <1>1, <1>2 DEF Queued
  <2>2. CASE i \in 1 .. Len(queue)
    BY <1>1, <2>1, <2>2, Appending DEF Queued
  <2>3. CASE i - Len(queue) \in 1 .. Len(list)
    <3>1. queue'[Len(queue) + (i - Len(queue))] = list[i - Len(queue)]
      BY <2>3, Appending
    <3>2. Len(queue) + (i - Len(queue)) = i
      BY <2>1, Appending
    <3> QED
      BY <1>1, <2>1, <2>3, <3>1, <3>2 DEF RecordsIn
  <2> QED
    BY <2>1, <2>2, <2>3, Appending
<1>3. ASSUME NEW rec \in Queued PROVE rec \in Queued'
  <2>1. PICK i \in 1 .. Len(queue) : rec = queue[i] /\ IsRecord(queue[i])
    BY <1>1, <1>3 DEF Queued
  <2> QED
    BY <1>1, <2>1, Appending DEF Queued
<1>4. ASSUME NEW rec \in RecordsIn(list) PROVE rec \in Queued'
  <2>1. PICK i \in 1 .. Len(list) : rec = list[i] /\ IsRecord(list[i])
    BY <1>1, <1>4 DEF RecordsIn
  <2> QED
    BY <1>1, <2>1, Appending DEF Queued
<1> QED
  BY <1>2, <1>3, <1>4

\* What SetToSeqs lists.
LEMMA Listed ==
    ASSUME NEW S, IsFiniteSet(S), NEW list \in SetToSeqs(S)
    PROVE  /\ list \in Seq(S) /\ DOMAIN list = 1 .. Len(list)
           /\ \A x : x \in S <=> \E i \in 1 .. Len(list) : list[i] = x
           /\ \A i, j \in 1 .. Len(list) : list[i] = list[j] => i = j
<1> DEFINE n == Cardinality(S)
<1>1. n \in Nat
  BY FS_CardinalityType
<1>2. list \in [1 .. n -> S] /\ \A i, j \in 1 .. n : i # j => list[i] # list[j]
  BY DEF SetToSeqs
<1>3. list \in Injection(1 .. n, S)
  BY <1>2 DEF Injection, IsInjective
<1>4. IsFiniteSet(1 .. n) /\ Cardinality(1 .. n) = n
  BY <1>1, FS_Interval
<1>5. list \in Surjection(1 .. n, S)
  BY <1>3, <1>4, FS_Injection
<1>6. list \in Seq(S) /\ Len(list) = n
  BY <1>1, <1>2
<1> QED
  BY <1>2, <1>5, <1>6 DEF Surjection

LEMMA FiniteImage ==
    ASSUME NEW S, IsFiniteSet(S), NEW f, f = [x \in S |-> f[x]]
    PROVE  IsFiniteSet({f[x] : x \in S})
<1> DEFINE T == {f[x] : x \in S}
<1>1. f \in Surjection(S, T)
  BY DEF Surjection
<1> QED
  BY <1>1, FS_Surjection

Headers(paths) == {Metadata(r) : r \in {p \in paths : Headless(p)}}

LEMMA FiniteHeaders ==
    ASSUME NEW paths \in SUBSET Runtimes
    PROVE  IsFiniteSet(Headers(paths))
<1> DEFINE S == {p \in paths : Headless(p)}
           f == [r \in S |-> Metadata(r)]
<1>1. IsFiniteSet(S)
  BY TraceAssumption, FS_Subset
<1>2. IsFiniteSet({f[r] : r \in S})
  <2> HIDE DEF S
  <2>1. f = [r \in S |-> f[r]]
    OBVIOUS
  <2> HIDE DEF f
  <2> QED
    BY <1>1, <2>1, FiniteImage
<1>3. {f[r] : r \in S} = Headers(paths)
  BY DEF Headers
<1> QED
  BY <1>2, <1>3

\* What is still open, of one runtime and of all.
Opened(starts, calls) == {Incomplete(s) : s \in starts} \cup {Unmatched(c) : c \in calls}

LEMMA FiniteOpened ==
    ASSUME NEW starts \in SUBSET Spans, NEW calls \in SUBSET Captures
    PROVE  IsFiniteSet(Opened(starts, calls))
<1> DEFINE f == [s \in starts |-> Incomplete(s)]
           g == [c \in calls |-> Unmatched(c)]
<1>1. IsFiniteSet(starts) /\ IsFiniteSet(calls)
  BY TraceAssumption, FS_Subset
<1>2. f = [s \in starts |-> f[s]] /\ g = [c \in calls |-> g[c]]
  OBVIOUS
<1>3. IsFiniteSet({f[s] : s \in starts}) /\ IsFiniteSet({g[c] : c \in calls})
  <2> HIDE DEF f, g
  <2> QED
    BY <1>1, <1>2, FiniteImage
<1>4. {f[s] : s \in starts} = {Incomplete(s) : s \in starts}
      /\ {g[c] : c \in calls} = {Unmatched(c) : c \in calls}
  OBVIOUS
<1> QED
  BY <1>3, <1>4, FS_Union DEF Opened

LEMMA OpenRecords ==
    ASSUME TypeInv
    PROVE  /\ \A r \in Runtimes : Leftovers(r) = Opened(OpenOf(r), RecentOf(r))
           /\ UNION {Leftovers(r) : r \in Runtimes} = Opened(pending, recent)
           /\ \A starts \in SUBSET Spans, calls \in SUBSET Captures :
                 Opened(starts, calls) \subseteq Records
<1>1. \A r \in Runtimes : Leftovers(r) = Opened(OpenOf(r), RecentOf(r))
  BY DEF Leftovers, Opened
<1>2. ASSUME NEW rec
      PROVE  rec \in UNION {Leftovers(r) : r \in Runtimes} <=> rec \in Opened(pending, recent)
  <2>1. ASSUME NEW r \in Runtimes, rec \in Leftovers(r) PROVE rec \in Opened(pending, recent)
    BY <2>1 DEF Leftovers, Opened, OpenOf, RecentOf
  <2>2. ASSUME NEW s \in pending, rec = Incomplete(s)
        PROVE  \E r \in Runtimes : rec \in Leftovers(r)
    BY <2>2, TraceAssumption DEF TypeInv, Leftovers, OpenOf
  <2>3. ASSUME NEW c \in recent, rec = Unmatched(c)
        PROVE  \E r \in Runtimes : rec \in Leftovers(r)
    BY <2>3, TraceAssumption DEF TypeInv, Leftovers, RecentOf
  <2> QED
    BY <2>1, <2>2, <2>3 DEF Opened
<1>3. UNION {Leftovers(r) : r \in Runtimes} = Opened(pending, recent)
  BY <1>2
<1>4. \A starts \in SUBSET Spans, calls \in SUBSET Captures :
        Opened(starts, calls) \subseteq Records
  BY NewRecords DEF Opened
<1> QED
  BY <1>1, <1>3, <1>4

LEMMA Ordered ==
    ASSUME TypeInv, NEW paths \in SUBSET Runtimes, NEW records \in SUBSET Records,
           IsFiniteSet(records), NEW list \in Orders(paths, records)
    PROVE  /\ list \in Seq(Records) /\ list \in Seq(Items)
           /\ DOMAIN list = 1 .. Len(list) /\ Len(list) \in Nat
           /\ RecordsIn(list) = Headers(paths) \cup records
           /\ \A i \in 1 .. Len(list) : list[i] \in Headers(paths) \cup records
           /\ \A rec \in Headers(paths) \cup records : \E i \in 1 .. Len(list) : list[i] = rec
           /\ \A i, j \in 1 .. Len(list) : list[i] = list[j] => i = j
           /\ HeadersFirst(list)
<1> DEFINE S == Headers(paths) \cup records
<1>1. S \subseteq Records
  BY NewRecords DEF Headers
<1>2. IsFiniteSet(S)
  BY FiniteHeaders, FS_Union
<1>3. list \in SetToSeqs(S) /\ HeadersFirst(list)
  BY DEF Orders, Headers
<1>4. /\ list \in Seq(S) /\ DOMAIN list = 1 .. Len(list)
      /\ \A x : x \in S <=> \E i \in 1 .. Len(list) : list[i] = x
      /\ \A i, j \in 1 .. Len(list) : list[i] = list[j] => i = j
  <2> HIDE DEF S
  <2> QED
    BY <1>2, <1>3, Listed
<1>5. list \in Seq(Records) /\ list \in Seq(Items)
  <2>1. Records \subseteq Items
    BY DEF Items
  <2> HIDE DEF S
  <2> QED
    BY <1>1, <1>4, <2>1
<1>6. RecordsIn(list) = S
  <2> HIDE DEF S
  <2> QED
    BY <1>1, <1>4, ItemFacts DEF RecordsIn
<1> QED
  BY <1>3, <1>4, <1>5, <1>6

\* How an action queues new records: each once, no file without its header, and
\* nothing but records and what Stop may follow.
Listing(list, new) ==
    /\ list \in Seq(Items) /\ RecordsIn(list) = new
    /\ \A i, j \in 1 .. Len(list) : IsRecord(list[i]) /\ list[i] = list[j] => i = j
    /\ \A i, j \in 1 .. Len(list) :
          IsRecord(list[i]) /\ list[j] = Metadata(list[i].file) => j <= i

Adds(list, paths, records) ==
    /\ paths \in SUBSET Runtimes /\ records \in SUBSET Records
    /\ \A rec \in records : rec.file \in paths
    /\ Listing(list, Headers(paths) \cup records)
    /\ queue' = queue \o list
    /\ headed' = headed \cup paths

LEMMA EnqueueAdds ==
    ASSUME TypeInv, NEW paths \in SUBSET Runtimes, NEW records \in SUBSET Records,
           IsFiniteSet(records), \A rec \in records : rec.file \in paths,
           Enqueue(paths, records)
    PROVE  \E list \in Seq(Records) : Adds(list, paths, records)
<1>1. PICK list \in Orders(paths, records) : queue' = queue \o list
  BY DEF Enqueue
<1>2. /\ list \in Seq(Records) /\ list \in Seq(Items)
      /\ DOMAIN list = 1 .. Len(list) /\ Len(list) \in Nat
      /\ RecordsIn(list) = Headers(paths) \cup records
      /\ \A i, j \in 1 .. Len(list) : list[i] = list[j] => i = j
      /\ HeadersFirst(list)
  BY Ordered
<1>3. Listing(list, Headers(paths) \cup records)
  BY <1>2 DEF Listing, HeadersFirst
<1> QED
  BY <1>1, <1>2, <1>3 DEF Adds, Enqueue

LEMMA NothingAdds ==
    ASSUME TypeInv, UNCHANGED intake
    PROVE  <<>> \in Seq(Records) /\ Adds(<<>>, {}, {})
<1>1. <<>> \in Seq(Items) /\ <<>> \in Seq(Records) /\ Len(<<>>) = 0 /\ DOMAIN <<>> = 1 .. 0
  OBVIOUS
<1>2. queue' = queue \o <<>> /\ headed' = headed \cup {}
  <2>1. queue \in Seq(Items) /\ queue' = queue /\ headed' = headed
    BY DEF TypeInv, intake
  <2> HIDE DEF Items
  <2> QED
    BY <2>1
<1>3. RecordsIn(<<>>) = {} /\ Headers({}) = {}
  BY <1>1 DEF RecordsIn, Headers
<1> QED
  BY <1>1, <1>2, <1>3 DEF Adds, Listing

LEMMA FinalizeAdds ==
    ASSUME TypeInv, NEW r \in Runtimes, NEW extra \in SUBSET {Finalization(r)},
           Finalize(r, extra)
    PROVE  \E paths, list : list \in Seq(Records)
                            /\ Adds(list, paths, Opened(OpenOf(r), RecentOf(r)) \cup extra)
<1> DEFINE records == Leftovers(r) \cup extra
<1>1. /\ Leftovers(r) = Opened(OpenOf(r), RecentOf(r))
      /\ OpenOf(r) \in SUBSET Spans /\ RecentOf(r) \in SUBSET Captures
  BY OpenRecords DEF OpenOf, RecentOf, TypeInv
<1>2. records \in SUBSET Records /\ \A rec \in records : rec.file \in {r}
  BY <1>1, NewRecords, OpenRecords
     DEF Leftovers, OpenOf, RecentOf, Incomplete, Unmatched, Finalization, Record
<1>3. IsFiniteSet(records)
  <2>1. IsFiniteSet({Finalization(r)})
    BY FS_Singleton
  <2>2. IsFiniteSet(extra)
    BY <2>1, FS_Subset
  <2>3. IsFiniteSet(Leftovers(r))
    BY <1>1, FiniteOpened
  <2> QED
    BY <2>2, <2>3, FS_Union
<1>4. CASE records = {}
  BY <1>1, <1>4, NothingAdds DEF Finalize
<1>5. CASE records # {}
  <2>1. Enqueue({r}, records)
    BY <1>5 DEF Finalize
  <2>2. \E list \in Seq(Records) : Adds(list, {r}, records)
    <3> HIDE DEF records
    <3> QED
      BY <1>2, <1>3, <2>1, EnqueueAdds
  <2> QED
    BY <1>1, <2>2
<1> QED
  BY <1>4, <1>5

LEMMA EndAdds ==
    ASSUME TypeInv, NEW s \in Spans, NEW c \in Captures \cup {Nothing},
           Enqueue({RuntimeOf[s]}, {Span(s, c)})
    PROVE  \E paths, list : list \in Seq(Records) /\ Adds(list, paths, {Span(s, c)})
<1>1. {Span(s, c)} \in SUBSET Records /\ IsFiniteSet({Span(s, c)})
  BY NewRecords, FS_Singleton
<1>2. RuntimeOf[s] \in Runtimes /\ Span(s, c).file = RuntimeOf[s]
  BY TraceAssumption DEF Span, Record
<1> QED
  BY <1>1, <1>2, EnqueueAdds

\* At capacity.
LEMMA OverflowAdds ==
    ASSUME TypeInv, NEW r \in Runtimes, NEW old \in SUBSET Captures,
           \A c \in old : RuntimeOf[c] = r,
           Enqueue({r}, {Unmatched(d) : d \in old})
    PROVE  \E paths, list : list \in Seq(Records) /\ Adds(list, paths, Opened({}, old))
<1>1. Opened({}, old) = {Unmatched(d) : d \in old} /\ Opened({}, old) \in SUBSET Records
  BY OpenRecords DEF Opened
<1>2. IsFiniteSet(Opened({}, old))
  BY FiniteOpened
<1>3. \A rec \in Opened({}, old) : rec.file \in {r}
  BY <1>1 DEF Unmatched, Record
<1> QED
  BY <1>1, <1>2, <1>3, EnqueueAdds

LEMMA CloseAdds ==
    ASSUME TypeInv, CloseBegin
    PROVE  \E list : /\ Append(list, Stop) \in Seq(Items) /\ list \in Seq(Records)
                     /\ Adds(Append(list, Stop), Runtimes, Opened(pending, recent))
<1>1. /\ UNION {Leftovers(r) : r \in Runtimes} = Opened(pending, recent)
      /\ Opened(pending, recent) \in SUBSET Records
  BY OpenRecords DEF TypeInv
<1>2. /\ IsFiniteSet(Opened(pending, recent))
      /\ \A rec \in Opened(pending, recent) : rec.file \in Runtimes
  <2>1. pending \in SUBSET Spans /\ recent \in SUBSET Captures
    BY DEF TypeInv
  <2>2. \A rec \in Records : rec.file \in Runtimes
    BY DEF Records
  <2> QED
    BY <1>1, <2>1, <2>2, FiniteOpened
<1>3. \E list \in Orders(Runtimes, Opened(pending, recent)) : queue' = queue \o Append(list, Stop)
  BY <1>1 DEF CloseBegin
<1> PICK list \in Orders(Runtimes, Opened(pending, recent)) : queue' = queue \o Append(list, Stop)
  BY <1>3
<1>4. /\ list \in Seq(Records) /\ list \in Seq(Items)
      /\ DOMAIN list = 1 .. Len(list) /\ Len(list) \in Nat
      /\ RecordsIn(list) = Headers(Runtimes) \cup Opened(pending, recent)
      /\ \A i, j \in 1 .. Len(list) : list[i] = list[j] => i = j
      /\ HeadersFirst(list)
  <2>1. Runtimes \in SUBSET Runtimes
    OBVIOUS
  <2> QED
    BY <1>1, <1>2, <2>1, Ordered
<1> DEFINE all == Append(list, Stop)
<1>5. /\ all \in Seq(Items) /\ Len(all) = Len(list) + 1 /\ DOMAIN all = 1 .. Len(all)
      /\ all[Len(all)] = Stop /\ \A i \in 1 .. Len(list) : all[i] = list[i]
  <2>1. Stop \in Items
    BY DEF Items
  <2> HIDE DEF Items
  <2> QED
    BY <1>4, <2>1
<1>6. \A i \in 1 .. Len(all) : IsRecord(all[i]) => i \in 1 .. Len(list)
  BY <1>4, <1>5, ItemFacts
<1> HIDE DEF all
<1>7. RecordsIn(all) = RecordsIn(list)
  BY <1>4, <1>5, <1>6 DEF RecordsIn
<1>8. \A i, j \in 1 .. Len(all) : IsRecord(all[i]) /\ all[i] = all[j] => i = j
  BY <1>4, <1>5, <1>6
<1>9. \A i, j \in 1 .. Len(all) :
        IsRecord(all[i]) /\ all[j] = Metadata(all[i].file) => j <= i
  <2> SUFFICES ASSUME NEW i \in 1 .. Len(all), NEW j \in 1 .. Len(all),
                      IsRecord(all[i]), all[j] = Metadata(all[i].file)
               PROVE  j <= i
    OBVIOUS
  <2>1. IsRecord(all[j])
    BY DEF Metadata, Record, IsRecord
  <2> QED
    BY <1>4, <1>5, <1>6, <2>1 DEF HeadersFirst
<1>10. headed' = headed \cup Runtimes
  BY DEF CloseBegin, TypeInv
<1>11. Adds(all, Runtimes, Opened(pending, recent))
  <2>1. Listing(all, Headers(Runtimes) \cup Opened(pending, recent))
    BY <1>4, <1>5, <1>7, <1>8, <1>9 DEF Listing
  <2>2. queue' = queue \o all
    BY DEF all
  <2> QED
    BY <1>1, <1>2, <1>10, <2>1, <2>2 DEF Adds
<1> QED
  BY <1>1, <1>4, <1>5, <1>11 DEF all

LEMMA MarkAdds ==
    ASSUME TypeInv, NEW h \in Handlers, queue' = Append(queue, Marker(h)), UNCHANGED headed
    PROVE  <<Marker(h)>> \in Seq(Items) /\ Adds(<<Marker(h)>>, {}, {})
<1>1. Marker(h) \in Items /\ ~IsRecord(Marker(h))
  BY ItemFacts DEF Items
<1>2. <<Marker(h)>> \in Seq(Items) /\ Len(<<Marker(h)>>) = 1 /\ DOMAIN <<Marker(h)>> = 1 .. 1
      /\ <<Marker(h)>>[1] = Marker(h)
  BY <1>1
<1>3. queue' = queue \o <<Marker(h)>> /\ headed' = headed \cup {}
  <2>1. queue \in Seq(Items)
    BY DEF TypeInv
  <2> HIDE DEF Items
  <2> QED
    BY <1>1, <2>1
<1>4. RecordsIn(<<Marker(h)>>) = {} /\ Headers({}) = {}
  BY <1>1, <1>2 DEF RecordsIn, Headers
<1>5. \A i \in 1 .. Len(<<Marker(h)>>) : ~IsRecord(<<Marker(h)>>[i])
  BY <1>1, <1>2
<1>6. Listing(<<Marker(h)>>, Headers({}) \cup {})
  BY <1>2, <1>4, <1>5 DEF Listing
<1> QED
  BY <1>2, <1>3, <1>6 DEF Adds

-----------------------------------------------------------------------------
(* The inductive invariant.                                                  *)

\* The writer ends only behind Stop, which nothing follows; what is in a buffer
\* is there because a sync failed.
ControlInv ==
    /\ closed <=> closer # "open"
    /\ closed => pending = {} /\ recent = {}
    /\ ~thread => closed /\ queue = <<>>
    /\ \A i \in 1 .. Len(queue) : queue[i] = Stop => i = Len(queue) /\ closed
    /\ closer = "closed" => ~thread /\ ~writeError
    /\ ~writeError => \A r \in Runtimes : buffered[r] = {}
    /\ errors = 0 => ~writeError

\* No record exists of what has not begun or is still open.
FreshInv ==
    /\ \A s \in pending : span[s] = "started"
    /\ \A c \in recent : capture[c] = "captured"
    /\ \A s \in Spans : handler[s] = "new" =>
          \A rec \in Everything : ~(rec.kind = "span" /\ rec.span = s)
    /\ \A s \in Spans : s \in pending \/ span[s] = "new" => Incomplete(s) \notin Everything
    /\ \A c \in Captures : c \in recent \/ capture[c] = "new" =>
          \A rec \in Everything : rec.capture # c
    /\ \A r \in Runtimes : handler[r] = "new" => Finalization(r) \notin Everything
    /\ \A c \in Captures : \A one, two \in Everything :
          one.capture = c /\ two.capture = c => one = two

\* A record is in one place, and in one position, but for repeated model events.
PlaceInv ==
    /\ \A i, j \in 1 .. Len(queue) :
          IsRecord(queue[i]) /\ queue[i] = queue[j] => i = j \/ Repeatable(queue[i])
    /\ \A rec \in Queued \cap Written : Repeatable(rec)
    /\ \A r \in Runtimes : Metadata(r) \in Everything => ~Headless(r)

\* A header is in the file, or in front of all that is queued for the file.
HeadInv ==
    errors = 0 => \A r \in Runtimes :
        /\ synced[r] # {} => Metadata(r) \in synced[r]
        /\ r \in headed => Metadata(r) \in synced[r] \cup Queued
        /\ \A i \in 1 .. Len(queue) : IsRecord(queue[i]) /\ queue[i].file = r =>
              Metadata(r) \in synced[r] \/ \E j \in 1 .. i : queue[j] = Metadata(r)

\* What a waiting handler was promised is on disk or in front of its marker.
Ahead(x, h) == \E i, j \in 1 .. Len(queue) :
    i < j /\ IsRecord(queue[i]) /\ x \in Tells(queue[i]) /\ queue[j] = Marker(h)

Barrier(h) ==
    /\ handler[h] = "stored" => Promised(h) \subseteq Told(Synced)
    /\ ~writeError /\ Flushing(h) => Promised(h) \subseteq Told(Everything)
    /\ ~writeError /\ handler[h] = "waiting" =>
          \A x \in Promised(h) : x \in Told(Synced) \/ Ahead(x, h)
BarrierInv == \A h \in Handlers : Barrier(h)

Inv == /\ TypeInv /\ ControlInv /\ NoneDropped /\ BarrierInv
       /\ FreshInv /\ PlaceInv /\ HeadInv

-----------------------------------------------------------------------------
(* Every action but Serve and Crash queues new records, or none, and leaves the *)
(* files alone.                                                              *)

Grows(records) ==
    \E paths, list :
        /\ Adds(list, paths, records)
        /\ list # <<>> => ~closed
        /\ \A i \in 1 .. Len(list) : list[i] = Stop => i = Len(list) /\ closed'
        /\ UNCHANGED files

LEMMA Growth ==
    ASSUME TypeInv, NEW records, Grows(records)
    PROVE  /\ queue' \in Seq(Items) /\ headed' \in SUBSET Runtimes
           /\ Synced' = Synced /\ Written' = Written
           /\ Everything \cup records \subseteq Everything'
           /\ \A rec \in Everything' :
                 rec \in Everything \/ rec \in records
                 \/ \E r \in Runtimes : rec = Metadata(r) /\ Headless(r)
           /\ \A x, h : Ahead(x, h) => Ahead(x, h)'
           /\ closed => queue' = queue
<1> PICK paths, list : /\ Adds(list, paths, records)
                       /\ list # <<>> => ~closed
                       /\ UNCHANGED files
  BY DEF Grows
<1>1. list \in Seq(Items) /\ queue' = queue \o list /\ headed' = headed \cup paths
      /\ paths \in SUBSET Runtimes /\ RecordsIn(list) = Headers(paths) \cup records
  BY DEF Adds, Listing
<1>2. Queued' = Queued \cup Headers(paths) \cup records
  BY <1>1, QueuedAfter
<1>3. Synced' = Synced /\ Written' = Written
  BY DEF files, Synced, Written
<1>4. \A rec \in Headers(paths) : \E r \in Runtimes : rec = Metadata(r) /\ Headless(r)
  BY <1>1 DEF Headers
<1>5. ASSUME NEW x, NEW h, Ahead(x, h) PROVE Ahead(x, h)'
  <2>1. /\ \A i \in 1 .. Len(queue) : i \in 1 .. Len(queue') /\ queue'[i] = queue[i]
    BY <1>1, Appending
  <2>2. PICK i, j \in 1 .. Len(queue) :
          i < j /\ IsRecord(queue[i]) /\ x \in Tells(queue[i]) /\ queue[j] = Marker(h)
    BY <1>5 DEF Ahead
  <2>3. \E k, l \in 1 .. Len(queue') :
          k < l /\ IsRecord(queue'[k]) /\ x \in Tells(queue'[k]) /\ queue'[l] = Marker(h)
    BY <2>1, <2>2
  <2> QED
    BY <2>3 DEF Ahead, Tells, EndOf, IsRecord, Marker
<1>6. queue' \in Seq(Items)
  BY <1>1, Appending
<1>7. closed => queue' = queue
  <2>1. queue \in Seq(Items)
    BY DEF TypeInv
  <2> HIDE DEF Items
  <2> QED
    BY <1>1, <2>1
<1> QED
  BY <1>1, <1>2, <1>3, <1>4, <1>5, <1>6, <1>7 DEF TypeInv, Everything

LEMMA GrowthKeepsPlaces ==
    ASSUME TypeInv, PlaceInv, NEW records, Grows(records),
           \A rec \in records : rec \in Everything => Repeatable(rec)
    PROVE  PlaceInv'
<1> PICK paths, list : Adds(list, paths, records) /\ UNCHANGED files
  BY DEF Grows
<1>1. /\ list \in Seq(Items) /\ queue' = queue \o list /\ headed' = headed \cup paths
      /\ paths \in SUBSET Runtimes /\ RecordsIn(list) = Headers(paths) \cup records
      /\ \A i, j \in 1 .. Len(list) : IsRecord(list[i]) /\ list[i] = list[j] => i = j
      /\ \A rec \in records : rec \in Records /\ rec.file \in paths
  BY DEF Adds, Listing
<1>2. /\ Len(queue') = Len(queue) + Len(list) /\ Len(queue) \in Nat /\ Len(list) \in Nat
      /\ \A i \in 1 .. Len(queue) : i \in 1 .. Len(queue') /\ queue'[i] = queue[i]
      /\ \A i \in 1 .. Len(list) : queue'[Len(queue) + i] = list[i]
      /\ \A i \in 1 .. Len(queue') : i \in 1 .. Len(queue) \/ i - Len(queue) \in 1 .. Len(list)
  BY <1>1, Appending
<1>3. Queued' = Queued \cup Headers(paths) \cup records /\ Written' = Written
  BY <1>1, QueuedAfter DEF files, Written, Synced
<1>4. \A rec \in Headers(paths) \cup records : rec \in Everything => Repeatable(rec)
  BY <1>1 DEF Headers, PlaceInv
<1>5. \A i \in 1 .. Len(list) : IsRecord(list[i]) => list[i] \in Headers(paths) \cup records
  BY <1>1 DEF RecordsIn
<1>6. \A i \in 1 .. Len(queue) : IsRecord(queue[i]) => queue[i] \in Everything
  BY DEF TypeInv, Everything, Queued
<1>7. \A rec : Repeatable(rec)' <=> Repeatable(rec)
  BY DEF Repeatable, Span, Record
<1>8. ASSUME NEW i \in 1 .. Len(queue'), NEW j \in 1 .. Len(queue'),
             IsRecord(queue'[i]), queue'[i] = queue'[j], i # j
      PROVE  Repeatable(queue'[i])
  <2> DEFINE a == i - Len(queue)
             b == j - Len(queue)
  <2>1. CASE i \in 1 .. Len(queue) /\ j \in 1 .. Len(queue)
    BY <1>2, <1>8, <2>1 DEF PlaceInv
  <2>2. CASE i \in 1 .. Len(queue) /\ b \in 1 .. Len(list)
    <3>1. queue'[i] = queue[i] /\ queue'[j] = list[b]
      <4>1. Len(queue) + b = j
        BY <1>2
      <4> QED
        BY <1>2, <2>2, <4>1
    <3> QED
      BY <1>4, <1>5, <1>6, <1>8, <2>2, <3>1
  <2>3. CASE j \in 1 .. Len(queue) /\ a \in 1 .. Len(list)
    <3>1. queue'[j] = queue[j] /\ queue'[i] = list[a]
      <4>1. Len(queue) + a = i
        BY <1>2
      <4> QED
        BY <1>2, <2>3, <4>1
    <3> QED
      BY <1>4, <1>5, <1>6, <1>8, <2>3, <3>1
  <2>4. CASE a \in 1 .. Len(list) /\ b \in 1 .. Len(list)
    <3>1. queue'[i] = list[a] /\ queue'[j] = list[b]
      <4>1. Len(queue) + a = i /\ Len(queue) + b = j
        BY <1>2
      <4> QED
        BY <1>2, <2>4, <4>1
    <3>2. a = b
      BY <1>1, <1>8, <2>4, <3>1
    <3> QED
      BY <1>2, <1>8, <3>2
  <2> QED
    BY <1>2, <2>1, <2>2, <2>3, <2>4
<1>9. ASSUME NEW rec \in Queued' \cap Written' PROVE Repeatable(rec)
  BY <1>3, <1>4, <1>9 DEF PlaceInv, Everything
<1>10. ASSUME NEW r \in Runtimes, Metadata(r) \in Everything' PROVE ~Headless(r)'
  <2>1. UNCHANGED synced
    BY DEF files
  <2>2. CASE Metadata(r) \in Everything
    BY <1>1, <2>1, <2>2 DEF PlaceInv, Headless
  <2>3. CASE Metadata(r) \in Headers(paths) \cup records
    <3>1. Metadata(r).file = r
      BY DEF Metadata, Record
    <3>2. r \in paths
      BY <1>1, <2>3, <3>1 DEF Headers, Metadata, Record
    <3> QED
      BY <1>1, <3>2 DEF Headless
  <2> QED
    BY <1>3, <1>10, <2>2, <2>3 DEF Everything
<1>11. \A r \in Runtimes : Metadata(r)' = Metadata(r)
  BY DEF Metadata, Record
<1> QED
  BY <1>7, <1>8, <1>9, <1>10, <1>11 DEF PlaceInv, IsRecord

LEMMA GrowthKeepsHeads ==
    ASSUME TypeInv, HeadInv, NEW records, Grows(records), errors' = 0 => errors = 0
    PROVE  HeadInv'
<1> PICK paths, list : Adds(list, paths, records) /\ UNCHANGED files
  BY DEF Grows
<1>1. /\ list \in Seq(Items) /\ queue' = queue \o list /\ headed' = headed \cup paths
      /\ paths \in SUBSET Runtimes /\ RecordsIn(list) = Headers(paths) \cup records
      /\ \A i, j \in 1 .. Len(list) :
            IsRecord(list[i]) /\ list[j] = Metadata(list[i].file) => j <= i
      /\ \A rec \in records : rec \in Records /\ rec.file \in paths
  BY DEF Adds, Listing
<1>2. /\ Len(queue') = Len(queue) + Len(list) /\ Len(queue) \in Nat /\ Len(list) \in Nat
      /\ \A i \in 1 .. Len(queue) : i \in 1 .. Len(queue') /\ queue'[i] = queue[i]
      /\ \A i \in 1 .. Len(list) : /\ Len(queue) + i \in 1 .. Len(queue')
                                   /\ queue'[Len(queue) + i] = list[i]
      /\ \A i \in 1 .. Len(queue') : i \in 1 .. Len(queue) \/ i - Len(queue) \in 1 .. Len(list)
  BY <1>1, Appending
<1>3. Queued' = Queued \cup Headers(paths) \cup records /\ synced' = synced
  BY <1>1, QueuedAfter DEF files
<1>4. DOMAIN queue = 1 .. Len(queue) /\ DOMAIN list = 1 .. Len(list)
  BY <1>1 DEF TypeInv
<1>5. \A r : Metadata(r)' = Metadata(r) /\ Metadata(r).file = r /\ IsRecord(Metadata(r))
  BY DEF Metadata, Record, IsRecord
<1> SUFFICES ASSUME errors = 0, NEW r \in Runtimes
             PROVE  /\ synced[r] # {} => Metadata(r) \in synced[r]
                    /\ r \in headed' => Metadata(r) \in synced[r] \cup Queued'
                    /\ \A i \in 1 .. Len(queue') : IsRecord(queue'[i]) /\ queue'[i].file = r =>
                          \/ Metadata(r) \in synced[r]
                          \/ \E j \in 1 .. i : queue'[j] = Metadata(r)
  BY <1>3, <1>5 DEF HeadInv, IsRecord
<1>6. synced[r] # {} => Metadata(r) \in synced[r]
  BY DEF HeadInv
<1>7. ASSUME r \in headed' PROVE Metadata(r) \in synced[r] \cup Queued'
  <2>1. CASE r \in headed
    BY <1>3, <2>1 DEF HeadInv
  <2>2. CASE r \notin headed
    BY <1>1, <1>3, <1>6, <1>7, <2>2 DEF Headers, Headless
  <2> QED
    BY <2>1, <2>2
<1>8. ASSUME NEW i \in 1 .. Len(queue'), IsRecord(queue'[i]), queue'[i].file = r,
             Metadata(r) \notin synced[r]
      PROVE  \E j \in 1 .. i : queue'[j] = Metadata(r)
  <2>1. CASE i \in 1 .. Len(queue)
    <3>1. queue'[i] = queue[i] /\ \A j \in 1 .. i : queue'[j] = queue[j]
      BY <1>2, <2>1
    <3> QED
      BY <1>8, <2>1, <3>1 DEF HeadInv
  <2>2. CASE i - Len(queue) \in 1 .. Len(list)
    <3> DEFINE k == i - Len(queue)
    <3>1. k \in 1 .. Len(list) /\ Len(queue) + k = i
      BY <1>2, <2>2
    <3>2. queue'[i] = list[k]
      BY <1>2, <3>1
    <3>3. list[k] \in Headers(paths) \cup records
      BY <1>1, <1>4, <1>8, <3>1, <3>2 DEF RecordsIn
    <3>4. r \in paths
      BY <1>1, <1>5, <1>8, <3>2, <3>3 DEF Headers
    <3>5. CASE r \in headed
      <4>1. Metadata(r) \in Queued
        BY <1>8, <3>5 DEF HeadInv
      <4>2. PICK j \in 1 .. Len(queue) : queue[j] = Metadata(r)
        BY <1>4, <4>1 DEF Queued
      <4> QED
        BY <1>2, <3>1, <4>2
    <3>6. CASE r \notin headed
      <4>1. Metadata(r) \in RecordsIn(list)
        BY <1>1, <1>6, <1>8, <3>4, <3>6 DEF Headers, Headless
      <4>2. PICK j \in 1 .. Len(list) : list[j] = Metadata(r)
        BY <1>4, <4>1 DEF RecordsIn
      <4>3. j <= k
        BY <1>1, <1>8, <3>1, <3>2, <4>2
      <4> QED
        BY <1>2, <3>1, <4>2, <4>3
    <3> QED
      BY <3>5, <3>6
  <2> QED
    BY <1>2, <2>1, <2>2
<1> QED
  BY <1>6, <1>7, <1>8

LEMMA Telling ==
    /\ \A S, T : S \subseteq T => Told(S) \subseteq Told(T)
    /\ \A S : \A rec \in S : Tells(rec) \subseteq Told(S)
    /\ \A s \in Spans : \A c : {s, c, EndOf(s)} \subseteq Tells(Span(s, c))
    /\ \A s : s \in Tells(Incomplete(s))
    /\ \A c : c \in Tells(Unmatched(c))
    /\ \A rec : rec \in Tells(rec)
    /\ Told(Everything)' = Told(Everything') /\ Told(Synced)' = Told(Synced')
    /\ \A s : EndOf(s)' = EndOf(s)
  BY DEF Told, Tells, EndOf, Span, Incomplete, Unmatched, Record

LEMMA GrowthKeepsBarriers ==
    ASSUME TypeInv, NEW records, Grows(records), writeError' = writeError,
           NEW h \in Handlers, Barrier(h),
           handler'[h] = handler[h], Promised(h)' = Promised(h)
    PROVE  Barrier(h)'
<1>1. /\ Synced' = Synced /\ Everything \subseteq Everything'
      /\ \A x : Ahead(x, h) => Ahead(x, h)'
  BY Growth
<1>2. Flushing(h)' = Flushing(h)
  BY DEF Flushing
<1>3. Told(Everything) \subseteq Told(Everything)' /\ Told(Synced)' = Told(Synced)
  BY <1>1, Telling
<1>4. ASSUME handler'[h] = "stored" PROVE Promised(h)' \subseteq Told(Synced)'
  BY <1>3, <1>4 DEF Barrier
<1>5. ASSUME ~writeError', Flushing(h)' PROVE Promised(h)' \subseteq Told(Everything)'
  BY <1>2, <1>3, <1>5 DEF Barrier
<1>6. ASSUME ~writeError', handler'[h] = "waiting", NEW x \in Promised(h)'
      PROVE  x \in Told(Synced)' \/ Ahead(x, h)'
  BY <1>1, <1>3, <1>6 DEF Barrier
<1> QED
  BY <1>4, <1>5, <1>6 DEF Barrier

LEMMA GrowthKeepsTheEnd ==
    ASSUME TypeInv, ControlInv, NEW records, Grows(records), closed => closed', thread' = thread
    PROVE  /\ ~thread' => closed' /\ queue' = <<>>
           /\ \A i \in 1 .. Len(queue') : queue'[i] = Stop => i = Len(queue') /\ closed'
<1> PICK paths, list : /\ Adds(list, paths, records)
                       /\ list # <<>> => ~closed
                       /\ \A i \in 1 .. Len(list) : list[i] = Stop => i = Len(list) /\ closed'
  BY DEF Grows
<1>1. list \in Seq(Items) /\ queue' = queue \o list
  BY DEF Adds, Listing
<1>2. /\ Len(queue') = Len(queue) + Len(list) /\ Len(queue) \in Nat /\ Len(list) \in Nat
      /\ \A i \in 1 .. Len(queue) : i \in 1 .. Len(queue') /\ queue'[i] = queue[i]
      /\ \A i \in 1 .. Len(list) : /\ Len(queue) + i \in 1 .. Len(queue')
                                   /\ queue'[Len(queue) + i] = list[i]
      /\ \A i \in 1 .. Len(queue') : i \in 1 .. Len(queue) \/ i - Len(queue) \in 1 .. Len(list)
  BY <1>1, Appending
<1>3. closed => queue' = queue
  BY Growth
<1>4. ASSUME NEW i \in 1 .. Len(queue'), queue'[i] = Stop PROVE i = Len(queue') /\ closed'
  <2>1. CASE i \in 1 .. Len(queue)
    BY <1>2, <1>3, <1>4, <2>1 DEF ControlInv
  <2>2. CASE i - Len(queue) \in 1 .. Len(list)
    <3> DEFINE k == i - Len(queue)
    <3>1. Len(queue) + k = i
      BY <1>2
    <3>2. list[k] = Stop
      BY <1>2, <1>4, <2>2, <3>1
    <3>3. k = Len(list) /\ closed'
      BY <2>2, <3>2
    <3> QED
      BY <1>2, <3>1, <3>3
  <2> QED
    BY <1>2, <2>1, <2>2
<1> QED
  BY <1>3, <1>4 DEF ControlInv

LEMMA RecordsGrow ==
    ASSUME NEW paths, NEW records, NEW list \in Seq(Records), Adds(list, paths, records),
           ~closed, UNCHANGED files
    PROVE  Grows(records)
<1>1. \A i \in 1 .. Len(list) : list[i] # Stop
  <2>1. Stop \notin Records
    BY ItemFacts
  <2> HIDE DEF Records
  <2> QED
    BY <2>1
<1> QED
  BY <1>1 DEF Grows

LEMMA NothingGrows ==
    ASSUME TypeInv, UNCHANGED <<intake, files>>
    PROVE  Grows({})
<1>1. <<>> \in Seq(Records) /\ Adds(<<>>, {}, {})
  BY NothingAdds
<1>2. Len(<<>>) = 0
  OBVIOUS
<1> QED
  BY <1>1, <1>2 DEF Grows

LEMMA MarkGrows ==
    ASSUME TypeInv, NEW h \in Handlers, queue' = Append(queue, Marker(h)),
           UNCHANGED <<headed, files>>, ~closed
    PROVE  Grows({})
<1>1. <<Marker(h)>> \in Seq(Items) /\ Adds(<<Marker(h)>>, {}, {})
  BY MarkAdds
<1>2. Len(<<Marker(h)>>) = 1 /\ <<Marker(h)>>[1] = Marker(h)
  OBVIOUS
<1>3. \A i \in 1 .. Len(<<Marker(h)>>) : <<Marker(h)>>[i] # Stop
  BY <1>2, ItemFacts
<1> QED
  BY <1>1, <1>3 DEF Grows

LEMMA CloseGrows ==
    ASSUME TypeInv, CloseBegin
    PROVE  Grows(Opened(pending, recent))
<1> PICK list : /\ Append(list, Stop) \in Seq(Items) /\ list \in Seq(Records)
                /\ Adds(Append(list, Stop), Runtimes, Opened(pending, recent))
  BY CloseAdds
<1> DEFINE all == Append(list, Stop)
<1>1. Stop \notin Records /\ Stop \in Items /\ Records \subseteq Items
  BY ItemFacts DEF Items
<1>2. Len(all) = Len(list) + 1 /\ Len(list) \in Nat /\ \A i \in 1 .. Len(list) : all[i] = list[i]
  <2> HIDE DEF Items, Records
  <2> QED
    BY <1>1
<1>3. \A i \in 1 .. Len(list) : list[i] # Stop
  <2> HIDE DEF Items, Records
  <2> QED
    BY <1>1
<1>4. \A i \in 1 .. Len(all) : all[i] = Stop => i = Len(all)
  BY <1>2, <1>3
<1>5. Adds(all, Runtimes, Opened(pending, recent))
  OBVIOUS
<1> HIDE DEF all
<1> QED
  BY <1>4, <1>5 DEF Grows, CloseBegin, writer, files

LEMMA GrowthKeepsFresh ==
    ASSUME TypeInv, FreshInv, NEW records \in SUBSET Records, Grows(records),
           \A s \in pending' : span'[s] = "started",
           \A c \in recent' : capture'[c] = "captured",
           \A s \in Spans : handler'[s] = "new" =>
              handler[s] = "new" /\ \A rec \in records : ~(rec.kind = "span" /\ rec.span = s),
           \A s \in Spans : s \in pending' \/ span'[s] = "new" =>
              (s \in pending \/ span[s] = "new") /\ Incomplete(s) \notin records,
           \A c \in Captures : c \in recent' \/ capture'[c] = "new" =>
              (c \in recent \/ capture[c] = "new") /\ \A rec \in records : rec.capture # c,
           \A r \in Runtimes : handler'[r] = "new" =>
              handler[r] = "new" /\ Finalization(r) \notin records,
           \A rec \in records : rec.capture \in Captures =>
              rec.capture \in recent \/ capture[rec.capture] = "new",
           \A one, two \in records :
              one.capture = two.capture /\ one.capture \in Captures => one = two
    PROVE  FreshInv'
<1>1. \A rec \in Everything' : rec \in Everything \/ rec \in records
                               \/ \E r \in Runtimes : rec = Metadata(r)
  BY Growth
<1>2. \A r \in Runtimes : /\ Metadata(r).kind = "metadata" /\ Metadata(r).capture \notin Captures
                          /\ \A s \in Spans : Metadata(r) # Incomplete(s)
                          /\ \A q \in Runtimes : Metadata(r) # Finalization(q)
  BY TraceAssumption DEF Metadata, Incomplete, Finalization, Record
<1>3. ASSUME NEW s \in Spans, handler'[s] = "new", NEW rec \in Everything'
      PROVE  ~(rec.kind = "span" /\ rec.span = s)
  BY <1>1, <1>2, <1>3 DEF FreshInv
<1>4. ASSUME NEW s \in Spans, s \in pending' \/ span'[s] = "new"
      PROVE  Incomplete(s) \notin Everything'
  BY <1>1, <1>2, <1>4 DEF FreshInv
<1>5. ASSUME NEW c \in Captures, c \in recent' \/ capture'[c] = "new", NEW rec \in Everything'
      PROVE  rec.capture # c
  BY <1>1, <1>2, <1>5 DEF FreshInv
<1>6. ASSUME NEW r \in Runtimes, handler'[r] = "new"
      PROVE  Finalization(r) \notin Everything'
  BY <1>1, <1>2, <1>6 DEF FreshInv
<1>7. ASSUME NEW c \in Captures, NEW one \in Everything', NEW two \in Everything',
             one.capture = c, two.capture = c
      PROVE  one = two
  <2>1. \A rec \in Everything' : rec.capture = c => rec \in Everything \/ rec \in records
    BY <1>1, <1>2
  <2>2. ASSUME NEW new \in records, NEW old \in Everything, new.capture = c, old.capture = c
        PROVE  FALSE
    BY <2>2 DEF FreshInv
  <2>3. CASE one \in Everything /\ two \in Everything
    BY <1>7, <2>3 DEF FreshInv
  <2>4. CASE one \in records /\ two \in records
    BY <1>7, <2>4
  <2> QED
    BY <1>7, <2>1, <2>2, <2>3, <2>4
<1>8. /\ \A s : Incomplete(s)' = Incomplete(s)
      /\ \A r : Finalization(r)' = Finalization(r)
  BY DEF Incomplete, Finalization, Record
<1> QED
  BY <1>3, <1>4, <1>5, <1>6, <1>7, <1>8 DEF FreshInv

\* What an action may queue without repeating a record.
LEMMA OpenIsFresh ==
    ASSUME TypeInv, FreshInv
    PROVE  /\ \A starts \in SUBSET pending, calls \in SUBSET recent :
                 \A rec \in Opened(starts, calls) : rec \notin Everything
           /\ \A c \in Captures : capture[c] = "new" => Unmatched(c) \notin Everything
           /\ \A s \in Spans : handler[s] = "new" => \A c : Span(s, c) \notin Everything
           /\ \A s, c : c \in recent => Span(s, c) \notin Everything
           /\ \A r \in Runtimes : handler[r] = "new" => Finalization(r) \notin Everything
<1>1. \A c : Unmatched(c).capture = c
  BY DEF Unmatched, Record
<1>2. \A s, c : Span(s, c).capture = c /\ Span(s, c).kind = "span" /\ Span(s, c).span = s
  BY DEF Span, Record
<1>3. \A s \in pending : Incomplete(s) \notin Everything
  BY DEF FreshInv, TypeInv
<1>4. \A c \in Captures : c \in recent \/ capture[c] = "new" => Unmatched(c) \notin Everything
  BY <1>1 DEF FreshInv, TypeInv
<1>5. recent \subseteq Captures
  BY DEF TypeInv
<1>6. \A starts \in SUBSET pending, calls \in SUBSET recent :
         \A rec \in Opened(starts, calls) : rec \notin Everything
  BY <1>3, <1>4, <1>5 DEF Opened
<1>7. \A s, c : c \in recent => Span(s, c) \notin Everything
  BY <1>2, <1>5 DEF FreshInv
<1>8. \A s \in Spans : handler[s] = "new" => \A c : Span(s, c) \notin Everything
  BY <1>2 DEF FreshInv
<1> QED
  BY <1>4, <1>6, <1>7, <1>8 DEF FreshInv

\* What the records of something open say.
LEMMA OpenedTells ==
    ASSUME NEW starts \in SUBSET Spans, NEW calls \in SUBSET Captures
    PROVE  /\ starts \cup calls \subseteq Told(Opened(starts, calls))
           /\ \A rec \in Opened(starts, calls) :
                 \/ /\ \E s \in starts : rec = Incomplete(s)
                    /\ rec.kind = "incomplete" /\ rec.capture \notin Captures
                 \/ /\ rec.capture \in calls /\ rec = Unmatched(rec.capture)
                    /\ rec.kind = "unmatched"
           /\ \A s : Incomplete(s) \in Opened(starts, calls) => s \in starts
           /\ \A r : Finalization(r) \notin Opened(starts, calls)
<1>1. starts \cup calls \subseteq Told(Opened(starts, calls))
  <2>1. /\ \A s \in starts : Incomplete(s) \in Opened(starts, calls)
        /\ \A c \in calls : Unmatched(c) \in Opened(starts, calls)
    BY DEF Opened
  <2>2. \A rec \in Opened(starts, calls) : Tells(rec) \subseteq Told(Opened(starts, calls))
    BY Telling
  <2> QED
    BY <2>1, <2>2, Telling
<1>2. \A s : Incomplete(s) \in Opened(starts, calls) => s \in starts
  BY DEF Opened, Incomplete, Unmatched, Record
<1>3. \A r : Finalization(r) \notin Opened(starts, calls)
  BY DEF Opened, Incomplete, Unmatched, Finalization, Record
<1>4. \A rec \in Opened(starts, calls) :
         \/ /\ \E s \in starts : rec = Incomplete(s)
            /\ rec.kind = "incomplete" /\ rec.capture \notin Captures
         \/ /\ rec.capture \in calls /\ rec = Unmatched(rec.capture)
            /\ rec.kind = "unmatched"
  BY TraceAssumption DEF Opened, Incomplete, Unmatched, Record
<1> QED
  BY <1>1, <1>2, <1>3, <1>4

-----------------------------------------------------------------------------
(* Each action preserves the invariant.                                      *)

LEMMA SamePromises ==
    ASSUME NEW h \in Handlers, UNCHANGED covers
    PROVE  Promised(h)' = Promised(h)
  BY DEF Promised, EndOf

\* What stays open stays, and what does not is told.
LEMMA GrowthDropsNone ==
    ASSUME TypeInv, NoneDropped, NEW records, Grows(records), writeError' = writeError,
           \A s \in Spans : span'[s] = "started" =>
              \/ s \in pending' \cup Told(records)
              \/ span[s] = "started" /\ s \notin pending,
           \A c \in Captures : capture'[c] = "captured" =>
              \/ c \in recent' \cup Told(records)
              \/ capture[c] = "captured" /\ c \notin recent
    PROVE  NoneDropped'
<1>1. Told(Everything) \subseteq Told(Everything') /\ Told(records) \subseteq Told(Everything')
  BY Growth, Telling
<1>2. ASSUME ~writeError, NEW s \in Spans, span'[s] = "started"
      PROVE  s \in pending' \cup Told(Everything')
  BY <1>1, <1>2 DEF NoneDropped
<1>3. ASSUME ~writeError, NEW c \in Captures, capture'[c] = "captured"
      PROVE  c \in recent' \cup Told(Everything')
  BY <1>1, <1>3 DEF NoneDropped
<1> QED
  BY <1>2, <1>3, Telling DEF NoneDropped

LEMMA StartStep ==
    ASSUME Inv, NEW s \in Spans, Start(s)
    PROVE  Inv'
<1>1. /\ TypeInv /\ ControlInv /\ NoneDropped /\ FreshInv /\ PlaceInv /\ HeadInv
      /\ \A h \in Handlers : Barrier(h)
  BY DEF Inv, BarrierInv
<1>2. /\ UNCHANGED <<capture, recent, headed, queue, writeError, thread, errors,
                     buffered, synced, closed, closer, handler, covers>>
      /\ span[s] = "new" /\ ~closed
      /\ span' = [span EXCEPT ![s] = "started"] /\ pending' = pending \cup {s}
  BY DEF Start, intake, writer, files, closing
<1>3. Grows({})
  BY <1>1, <1>2, NothingGrows DEF intake, files
<1>4. TypeInv'
  BY <1>1, <1>2 DEF TypeInv
<1>5. ControlInv'
  BY <1>1, <1>2 DEF ControlInv
<1>6. NoneDropped'
  BY <1>1, <1>2, <1>3, GrowthDropsNone DEF TypeInv
<1>7. BarrierInv'
  BY <1>1, <1>2, <1>3, SamePromises, GrowthKeepsBarriers DEF BarrierInv
<1>8. FreshInv'
  BY <1>1, <1>2, <1>3, GrowthKeepsFresh DEF FreshInv, TypeInv
<1>9. PlaceInv' /\ HeadInv'
  BY <1>1, <1>2, <1>3, GrowthKeepsPlaces, GrowthKeepsHeads
<1> QED
  BY <1>4, <1>5, <1>6, <1>7, <1>8, <1>9 DEF Inv

LEMMA EndAfterCloseStep ==
    ASSUME Inv, NEW s \in Spans, EndAfterClose(s)
    PROVE  Inv'
<1>1. /\ TypeInv /\ ControlInv /\ NoneDropped /\ FreshInv /\ PlaceInv /\ HeadInv
      /\ \A h \in Handlers : Barrier(h)
  BY DEF Inv, BarrierInv
<1>2. /\ UNCHANGED <<span, capture, recent, headed, queue, writeError, thread, errors,
                     buffered, synced, closed, closer, covers>>
      /\ closed /\ handler[s] = "new"
      /\ pending' = pending \ {s} /\ handler' = [handler EXCEPT ![s] = "failed"]
  BY DEF EndAfterClose, intake, writer, files, closing
<1>3. Grows({})
  BY <1>1, <1>2, NothingGrows DEF intake, files
<1>4. TypeInv' /\ pending' = {} /\ pending = {}
  BY <1>1, <1>2 DEF TypeInv, ControlInv, Handlers
<1>5. ControlInv'
  BY <1>1, <1>2, <1>4 DEF ControlInv
<1>6. NoneDropped'
  BY <1>1, <1>2, <1>3, <1>4, GrowthDropsNone
<1>7. ASSUME NEW h \in Handlers PROVE Barrier(h)'
  <2>1. CASE h = s
    BY <1>1, <1>2, <2>1 DEF Barrier, Flushing, TypeInv
  <2>2. CASE h # s
    <3>1. handler'[h] = handler[h]
      BY <1>1, <1>2, <2>2 DEF TypeInv
    <3> QED
      BY <1>1, <1>2, <1>3, <3>1, SamePromises, GrowthKeepsBarriers
  <2> QED
    BY <2>1, <2>2
<1>8. FreshInv'
  BY <1>1, <1>2, <1>3, <1>4, GrowthKeepsFresh DEF FreshInv, TypeInv, Handlers
<1>9. PlaceInv' /\ HeadInv'
  BY <1>1, <1>2, <1>3, GrowthKeepsPlaces, GrowthKeepsHeads
<1> QED
  BY <1>4, <1>5, <1>6, <1>7, <1>8, <1>9 DEF Inv, BarrierInv

LEMMA EndStep ==
    ASSUME Inv, NEW s \in Spans, End(s)
    PROVE  Inv'
<1>1. /\ TypeInv /\ ControlInv /\ NoneDropped /\ FreshInv /\ PlaceInv /\ HeadInv
      /\ \A h \in Handlers : Barrier(h)
  BY DEF Inv, BarrierInv
<1>2. /\ UNCHANGED <<span, capture, writeError, thread, errors,
                     buffered, synced, closed, closer, covers>>
      /\ span[s] = "started" /\ ~closed
      /\ handler[s] = "new" \/ s \in Models
      /\ pending' = pending \ {s} /\ handler' = [handler EXCEPT ![s] = "recorded"]
  BY DEF End, writer, files, closing
<1>3. PICK c \in Matches(s) : Enqueue({RuntimeOf[s]}, {Span(s, c)}) /\ recent' = recent \ {c}
  BY DEF End, TakeCapture
<1>4. c \in Captures \cup {Nothing} /\ (c = Nothing \/ c \in recent)
  BY <1>1 DEF Matches, RecentOf, TypeInv
<1>5. Grows({Span(s, c)}) /\ {Span(s, c)} \in SUBSET Records
  <2>1. \E paths, list : list \in Seq(Records) /\ Adds(list, paths, {Span(s, c)})
    BY <1>1, <1>3, <1>4, EndAdds
  <2> QED
    BY <1>1, <1>2, <1>4, <2>1, RecordsGrow, NewRecords DEF files
<1>6. /\ Span(s, c).kind = "span" /\ Span(s, c).span = s /\ Span(s, c).capture = c
      /\ \A x : Span(s, c) # Incomplete(x) /\ Span(s, c) # Finalization(x)
  BY DEF Span, Incomplete, Finalization, Record
<1>7. TypeInv'
  <2>1. queue' \in Seq(Items) /\ headed' \in SUBSET Runtimes
    BY <1>1, <1>5, Growth
  <2> QED
    BY <1>1, <1>2, <1>3, <2>1 DEF TypeInv, Handlers
<1>8. ControlInv'
  <2>1. \A i \in 1 .. Len(queue') : queue'[i] = Stop => i = Len(queue') /\ closed'
    BY <1>1, <1>2, <1>5, GrowthKeepsTheEnd
  <2> QED
    BY <1>1, <1>2, <2>1 DEF ControlInv
<1>9. {s, c, EndOf(s)} \subseteq Told({Span(s, c)})
  BY Telling
<1>10. NoneDropped'
  BY <1>1, <1>2, <1>3, <1>5, <1>9, GrowthDropsNone
<1>11. ASSUME NEW h \in Handlers PROVE Barrier(h)'
  <2>1. CASE h = s
    <3>1. handler'[h] = "recorded" /\ Promised(h)' = {EndOf(s)}
      BY <1>1, <1>2, <2>1 DEF TypeInv, Promised, EndOf
    <3>2. Told({Span(s, c)}) \subseteq Told(Everything')
      BY <1>1, <1>5, Growth, Telling
    <3> QED
      BY <1>9, <3>1, <3>2, Telling DEF Barrier, Flushing
  <2>2. CASE h # s
    <3>1. handler'[h] = handler[h]
      BY <1>1, <1>2, <2>2 DEF TypeInv
    <3> QED
      BY <1>1, <1>2, <1>5, <3>1, SamePromises, GrowthKeepsBarriers
  <2> QED
    BY <2>1, <2>2
<1>12. FreshInv'
  <2>1. /\ \A x \in Spans : handler'[x] = "new" => handler[x] = "new" /\ x # s
        /\ \A x \in Runtimes : handler'[x] = "new" => handler[x] = "new"
    BY <1>1, <1>2 DEF TypeInv, Handlers
  <2>2. /\ \A x \in pending' : span'[x] = "started"
        /\ \A x \in recent' : capture'[x] = "captured"
    BY <1>1, <1>2, <1>3 DEF FreshInv
  <2>3. c \in recent => capture[c] = "captured"
    BY <1>1 DEF FreshInv
  <2> QED
    BY <1>1, <1>2, <1>3, <1>4, <1>5, <1>6, <2>1, <2>2, <2>3, TraceAssumption, GrowthKeepsFresh
<1>13. Span(s, c) \in Everything => Repeatable(Span(s, c))
  BY <1>1, <1>2, <1>4, OpenIsFresh DEF Repeatable
<1>14. PlaceInv' /\ HeadInv'
  BY <1>1, <1>2, <1>5, <1>13, GrowthKeepsPlaces, GrowthKeepsHeads
<1> QED
  BY <1>7, <1>8, <1>10, <1>11, <1>12, <1>14 DEF Inv, BarrierInv

LEMMA RememberStep ==
    ASSUME Inv, NEW c \in Captures, Remember(c)
    PROVE  Inv'
<1>1. /\ TypeInv /\ ControlInv /\ NoneDropped /\ FreshInv /\ PlaceInv /\ HeadInv
      /\ \A h \in Handlers : Barrier(h)
  BY DEF Inv, BarrierInv
<1>2. /\ UNCHANGED <<span, pending, writeError, thread, errors,
                     buffered, synced, closed, closer, handler, covers>>
      /\ capture[c] = "new" /\ ~closed
      /\ capture' = [capture EXCEPT ![c] = "captured"]
  BY DEF Remember, writer, files, closing
<1> DEFINE all == recent \cup {c}
<1>3. \E old \in SUBSET all : recent' = all \ old /\ Grows(Opened({}, old))
  <2>1. CASE recent' = all /\ UNCHANGED intake
    <3>1. Grows({}) /\ Opened({}, {}) = {}
      BY <1>1, <1>2, <2>1, NothingGrows DEF files, Opened
    <3> QED
      BY <2>1, <3>1
  <2>2. CASE \E oldest \in all :
               LET r == RuntimeOf[oldest]
                   old == {d \in all : RuntimeOf[d] = r} IN
               /\ recent' = all \ old
               /\ Enqueue({r}, {Unmatched(d) : d \in old})
    <3>1. PICK oldest \in all :
               LET r == RuntimeOf[oldest]
                   old == {d \in all : RuntimeOf[d] = r} IN
               /\ recent' = all \ old
               /\ Enqueue({r}, {Unmatched(d) : d \in old})
      BY <2>2
    <3> DEFINE r == RuntimeOf[oldest]
               old == {d \in all : RuntimeOf[d] = r}
    <3>2. /\ recent' = all \ old /\ Enqueue({r}, {Unmatched(d) : d \in old})
          /\ r \in Runtimes /\ old \in SUBSET Captures /\ \A d \in old : RuntimeOf[d] = r
      BY <1>1, <3>1, TraceAssumption DEF TypeInv
    <3>3. \E paths, list : list \in Seq(Records) /\ Adds(list, paths, Opened({}, old))
      <4> HIDE DEF r, old
      <4> QED
        BY <1>1, <3>2, OverflowAdds
    <3>4. Grows(Opened({}, old))
      <4> HIDE DEF r, old
      <4> QED
        BY <1>2, <3>3, RecordsGrow DEF files
    <3> QED
      BY <3>2, <3>4
  <2> QED
    BY <2>1, <2>2 DEF Remember
<1>4. PICK old \in SUBSET all : recent' = all \ old /\ Grows(Opened({}, old))
  BY <1>3
<1>5. old \in SUBSET Captures /\ Opened({}, old) \in SUBSET Records
  BY <1>1, OpenRecords DEF TypeInv
<1>6. TypeInv'
  <2>1. queue' \in Seq(Items) /\ headed' \in SUBSET Runtimes
    BY <1>1, <1>4, Growth
  <2> QED
    BY <1>1, <1>2, <1>4, <2>1 DEF TypeInv
<1>7. ControlInv'
  <2>1. \A i \in 1 .. Len(queue') : queue'[i] = Stop => i = Len(queue') /\ closed'
    BY <1>1, <1>2, <1>4, GrowthKeepsTheEnd
  <2> QED
    BY <1>1, <1>2, <2>1 DEF ControlInv
<1>8. NoneDropped'
  <2>1. old \subseteq Told(Opened({}, old))
    BY <1>5, OpenedTells
  <2>2. \A d \in Captures : capture'[d] = "captured" => d = c \/ capture[d] = "captured"
    BY <1>1, <1>2 DEF TypeInv
  <2> QED
    BY <1>1, <1>2, <1>4, <2>1, <2>2, GrowthDropsNone
<1>9. BarrierInv'
  BY <1>1, <1>2, <1>4, SamePromises, GrowthKeepsBarriers DEF BarrierInv
<1>10. /\ \A s : Incomplete(s) \notin Opened({}, old)
       /\ \A r : Finalization(r) \notin Opened({}, old)
       /\ \A rec \in Opened({}, old) :
             rec.capture \in old /\ rec = Unmatched(rec.capture) /\ rec.kind = "unmatched"
  BY <1>5, OpenedTells
<1>11. FreshInv'
  <2>1. \A d \in Captures : /\ capture'[d] = "new" => capture[d] = "new" /\ d # c
                            /\ d \in recent' => d \in recent \/ capture[d] = "new"
    BY <1>1, <1>2, <1>4 DEF TypeInv
  <2>2. /\ \A d \in recent' : capture'[d] = "captured"
        /\ \A d \in old : d \in recent \/ capture[d] = "new"
    BY <1>1, <1>2, <1>4 DEF FreshInv, TypeInv
  <2>3. \A d \in Captures : d \in recent' \/ capture'[d] = "new" => d \notin old
    <3>1. \A d \in recent : capture[d] = "captured"
      BY <1>1 DEF FreshInv
    <3> QED
      BY <1>4, <2>1, <3>1
  <2>4. \A x \in pending' : span'[x] = "started"
    BY <1>1, <1>2 DEF FreshInv
  <2> QED
    BY <1>1, <1>2, <1>4, <1>5, <1>10, <2>1, <2>2, <2>3, <2>4, GrowthKeepsFresh
<1>12. \A rec \in Opened({}, old) : rec \notin Everything
  <2>1. \A d \in old : Unmatched(d) \notin Everything
    <3>1. \A d \in recent : Unmatched(d) \notin Everything
      <4>1. \A d \in recent : Unmatched(d) \in Opened({}, recent)
        BY DEF Opened
      <4> QED
        BY <1>1, <4>1, OpenIsFresh
    <3> QED
      BY <1>1, <1>2, <3>1, OpenIsFresh
  <2> QED
    BY <1>10, <2>1
<1>13. PlaceInv' /\ HeadInv'
  BY <1>1, <1>2, <1>4, <1>12, GrowthKeepsPlaces, GrowthKeepsHeads
<1> QED
  BY <1>6, <1>7, <1>8, <1>9, <1>11, <1>13 DEF Inv

LEMMA FinalizeGrows ==
    ASSUME TypeInv, ~closed, UNCHANGED files, NEW r \in Runtimes,
           NEW extra \in SUBSET {Finalization(r)}, Finalize(r, extra)
    PROVE  LET records == Opened(OpenOf(r), RecentOf(r)) \cup extra IN
           /\ Grows(records) /\ records \in SUBSET Records
           /\ OpenOf(r) \cup RecentOf(r) \cup extra \subseteq Told(records)
           /\ pending' = pending \ OpenOf(r) /\ recent' = recent \ RecentOf(r)
           /\ OpenOf(r) \in SUBSET Spans /\ RecentOf(r) \in SUBSET Captures
<1> DEFINE records == Opened(OpenOf(r), RecentOf(r)) \cup extra
<1>1. OpenOf(r) \in SUBSET Spans /\ RecentOf(r) \in SUBSET Captures
  BY DEF OpenOf, RecentOf, TypeInv
<1>2. records \in SUBSET Records
  BY <1>1, OpenRecords, NewRecords
<1>3. Grows(records)
  <2>1. \E paths, list : list \in Seq(Records) /\ Adds(list, paths, records)
    BY FinalizeAdds
  <2> HIDE DEF records
  <2> QED
    BY <2>1, RecordsGrow
<1>4. OpenOf(r) \cup RecentOf(r) \subseteq Told(records)
  <2>1. OpenOf(r) \cup RecentOf(r) \subseteq Told(Opened(OpenOf(r), RecentOf(r)))
    BY <1>1, OpenedTells
  <2>2. Opened(OpenOf(r), RecentOf(r)) \subseteq records
    OBVIOUS
  <2> HIDE DEF records
  <2> QED
    BY <2>1, <2>2, Telling
<1>5. extra \subseteq Told(records)
  <2>1. extra \subseteq records
    OBVIOUS
  <2> HIDE DEF records
  <2> QED
    BY <2>1, Telling
<1> QED
  BY <1>1, <1>2, <1>3, <1>4, <1>5 DEF Finalize

\* The records of a finalised runtime, told apart.
Sorted(records, starts, calls, r, extra) ==
    /\ \A rec \in records :
          \/ /\ \E s \in starts : rec = Incomplete(s)
             /\ rec.kind = "incomplete" /\ rec.capture \notin Captures
          \/ /\ rec.capture \in calls /\ rec = Unmatched(rec.capture)
             /\ rec.kind = "unmatched"
          \/ /\ rec = Finalization(r) /\ extra # {}
             /\ rec.kind = "finalization" /\ rec.capture \notin Captures
    /\ \A s : Incomplete(s) \in records => s \in starts
    /\ \A x : Finalization(x) \in records => x = r /\ extra # {}

LEMMA FinalizedTells ==
    ASSUME NEW starts \in SUBSET Spans, NEW calls \in SUBSET Captures,
           NEW r, NEW extra \in SUBSET {Finalization(r)}
    PROVE  Sorted(Opened(starts, calls) \cup extra, starts, calls, r, extra)
<1>1. /\ \A rec \in Opened(starts, calls) :
            \/ /\ \E s \in starts : rec = Incomplete(s)
               /\ rec.kind = "incomplete" /\ rec.capture \notin Captures
            \/ /\ rec.capture \in calls /\ rec = Unmatched(rec.capture)
               /\ rec.kind = "unmatched"
      /\ \A s : Incomplete(s) \in Opened(starts, calls) => s \in starts
      /\ \A x : Finalization(x) \notin Opened(starts, calls)
  BY OpenedTells
<1>2. /\ \A s : Finalization(r) # Incomplete(s)
      /\ \A x : Finalization(x) = Finalization(r) => x = r
      /\ Finalization(r).kind = "finalization" /\ Finalization(r).capture \notin Captures
  BY TraceAssumption DEF Finalization, Incomplete, Record
<1>3. \A rec \in extra : rec = Finalization(r) /\ extra # {}
  OBVIOUS
<1>4. ASSUME NEW rec \in Opened(starts, calls) \cup extra, rec \notin Opened(starts, calls)
      PROVE  /\ rec = Finalization(r) /\ extra # {}
             /\ rec.kind = "finalization" /\ rec.capture \notin Captures
  BY <1>2, <1>3, <1>4
<1>5. ASSUME NEW s, Incomplete(s) \in Opened(starts, calls) \cup extra PROVE s \in starts
  BY <1>1, <1>2, <1>3, <1>5
<1>6. ASSUME NEW x, Finalization(x) \in Opened(starts, calls) \cup extra
      PROVE  x = r /\ extra # {}
  BY <1>1, <1>2, <1>3, <1>6
<1> QED
  BY <1>1, <1>4, <1>5, <1>6 DEF Sorted

\* Finalising a runtime, by drain, abort or release.
LEMMA FinalizeStep ==
    ASSUME Inv, NEW r \in Runtimes, NEW extra \in SUBSET {Finalization(r)}, Finalize(r, extra),
           ~closed, UNCHANGED <<span, capture, writer, closing, crashes>>,
           handler' \in [Handlers -> {"new", "recorded", "waiting", "stored", "failed"}],
           covers' \in [Runtimes -> SUBSET (Records \cup Spans \cup Captures)],
           \A h \in Handlers : handler'[h] = "new" => handler[h] = "new",
           extra # {} => handler[r] = "new" /\ handler'[r] # "new"
    PROVE  TypeInv' /\ ControlInv' /\ NoneDropped' /\ FreshInv' /\ PlaceInv' /\ HeadInv'
<1> DEFINE records == Opened(OpenOf(r), RecentOf(r)) \cup extra
<1>1. /\ TypeInv /\ ControlInv /\ NoneDropped /\ FreshInv /\ PlaceInv /\ HeadInv
  BY DEF Inv
<1>2. UNCHANGED <<span, capture, writeError, thread, errors, buffered, synced, closed, closer>>
  BY DEF writer, files, closing
<1>3. /\ Grows(records) /\ records \in SUBSET Records
      /\ OpenOf(r) \cup RecentOf(r) \subseteq Told(records)
      /\ pending' = pending \ OpenOf(r) /\ recent' = recent \ RecentOf(r)
      /\ OpenOf(r) \in SUBSET Spans /\ RecentOf(r) \in SUBSET Captures
  BY <1>1, <1>2, FinalizeGrows DEF files
<1>4. OpenOf(r) \in SUBSET pending /\ RecentOf(r) \in SUBSET recent
  BY DEF OpenOf, RecentOf
<1>5. Sorted(records, OpenOf(r), RecentOf(r), r, extra)
  BY <1>3, FinalizedTells
<1>6. \A rec \in records : rec \notin Everything
  BY <1>1, <1>4, OpenIsFresh
<1> HIDE DEF records
<1>7. /\ \A rec \in records :
            \/ /\ \E s \in OpenOf(r) : rec = Incomplete(s)
               /\ rec.kind = "incomplete" /\ rec.capture \notin Captures
            \/ /\ rec.capture \in RecentOf(r) /\ rec = Unmatched(rec.capture)
               /\ rec.kind = "unmatched"
            \/ /\ rec = Finalization(r) /\ extra # {}
               /\ rec.kind = "finalization" /\ rec.capture \notin Captures
      /\ \A s : Incomplete(s) \in records => s \in OpenOf(r)
      /\ \A x : Finalization(x) \in records => x = r /\ extra # {}
  BY <1>5 DEF Sorted
<1>8. TypeInv'
  <2>1. queue' \in Seq(Items) /\ headed' \in SUBSET Runtimes
    BY <1>1, <1>3, Growth
  <2> QED
    BY <1>1, <1>2, <1>3, <2>1 DEF TypeInv
<1>9. ControlInv'
  <2>1. \A i \in 1 .. Len(queue') : queue'[i] = Stop => i = Len(queue') /\ closed'
    BY <1>1, <1>2, <1>3, GrowthKeepsTheEnd
  <2> QED
    BY <1>1, <1>2, <2>1 DEF ControlInv
<1>10. NoneDropped'
  BY <1>1, <1>2, <1>3, GrowthDropsNone
<1>11. FreshInv'
  <2>1. /\ \A s \in pending' : span'[s] = "started"
        /\ \A c \in recent' : capture'[c] = "captured"
    BY <1>1, <1>2, <1>3 DEF FreshInv
  <2>2. \A s \in Spans : span[s] = "new" => s \notin OpenOf(r)
    BY <1>1, <1>4 DEF FreshInv
  <2>3. \A c \in Captures : capture[c] = "new" => c \notin RecentOf(r)
    BY <1>1, <1>4 DEF FreshInv
  <2>4. \A s \in Spans : handler'[s] = "new" =>
           handler[s] = "new" /\ \A rec \in records : ~(rec.kind = "span" /\ rec.span = s)
    BY <1>7 DEF Handlers
  <2>5. \A s \in Spans : s \in pending' \/ span'[s] = "new" =>
           (s \in pending \/ span[s] = "new") /\ Incomplete(s) \notin records
    BY <1>2, <1>3, <1>7, <2>2
  <2>6. \A c \in Captures : c \in recent' \/ capture'[c] = "new" =>
           (c \in recent \/ capture[c] = "new") /\ \A rec \in records : rec.capture # c
    BY <1>2, <1>3, <1>7, <2>3
  <2>7. \A q \in Runtimes : handler'[q] = "new" =>
           handler[q] = "new" /\ Finalization(q) \notin records
    BY <1>7 DEF Handlers
  <2>8. \A rec \in records : rec.capture \in Captures =>
           rec.capture \in recent \/ capture[rec.capture] = "new"
    BY <1>4, <1>7
  <2>9. \A one, two \in records :
           one.capture = two.capture /\ one.capture \in Captures => one = two
    BY <1>7
  <2> QED
    BY <1>1, <1>3, <2>1, <2>4, <2>5, <2>6, <2>7, <2>8, <2>9, GrowthKeepsFresh
<1>12. PlaceInv' /\ HeadInv'
  BY <1>1, <1>2, <1>3, <1>6, GrowthKeepsPlaces, GrowthKeepsHeads
<1> QED
  BY <1>8, <1>9, <1>10, <1>11, <1>12

LEMMA ReleaseStep ==
    ASSUME Inv, NEW r \in Runtimes, Release(r)
    PROVE  Inv'
<1>1. Finalize(r, {}) /\ ~closed /\ {} \in SUBSET {Finalization(r)}
      /\ UNCHANGED <<span, capture, writer, closing, handler, covers, crashes>>
  BY DEF Release
<1>2. TypeInv' /\ ControlInv' /\ NoneDropped' /\ FreshInv' /\ PlaceInv' /\ HeadInv'
  BY <1>1, FinalizeStep DEF Inv, TypeInv
<1>3. Grows(Opened(OpenOf(r), RecentOf(r)) \cup {})
  BY <1>1, FinalizeGrows DEF Inv, writer
<1>4. BarrierInv'
  BY <1>1, <1>3, SamePromises, GrowthKeepsBarriers DEF Inv, BarrierInv, writer
<1> QED
  BY <1>2, <1>4 DEF Inv

\* A drain or an abort promises what is open, which it writes, and what has
\* ended before, whose record is somewhere.
LEMMA FinishStep ==
    ASSUME Inv, NEW r \in Runtimes, NEW extra \in SUBSET {Finalization(r)}, Finish(r, extra)
    PROVE  Inv'
<1> DEFINE promised == extra
                    \cup {s \in Spans : RuntimeOf[s] = r /\ span[s] = "started"}
                    \cup {c \in Captures : RuntimeOf[c] = r /\ capture[c] = "captured"}
           records == Opened(OpenOf(r), RecentOf(r)) \cup extra
<1>1. /\ TypeInv /\ NoneDropped /\ \A h \in Handlers : Barrier(h)
  BY DEF Inv, BarrierInv
<1>2. /\ handler[r] = "new" /\ ~closed /\ Finalize(r, extra)
      /\ handler' = [handler EXCEPT ![r] = "recorded"]
      /\ covers' = [covers EXCEPT ![r] = promised]
      /\ UNCHANGED <<span, capture, writer, closing, crashes>>
  BY DEF Finish
<1>3. r \in Handlers /\ r \notin Spans
  BY TraceAssumption DEF Handlers
<1>4. /\ handler' \in [Handlers -> {"new", "recorded", "waiting", "stored", "failed"}]
      /\ covers' \in [Runtimes -> SUBSET (Records \cup Spans \cup Captures)]
      /\ \A h \in Handlers : handler'[h] = "new" => handler[h] = "new"
      /\ handler'[r] = "recorded" /\ covers'[r] = promised
      /\ \A h \in Handlers : h # r => handler'[h] = handler[h]
      /\ \A q \in Runtimes : q # r => covers'[q] = covers[q]
  <2>1. promised \in SUBSET (Records \cup Spans \cup Captures)
    BY <1>1, NewRecords
  <2> HIDE DEF promised
  <2> QED
    BY <1>1, <1>2, <1>3, <2>1 DEF TypeInv
<1>5. TypeInv' /\ ControlInv' /\ NoneDropped' /\ FreshInv' /\ PlaceInv' /\ HeadInv'
  BY <1>2, <1>4, FinalizeStep
<1>6. Grows(records) /\ OpenOf(r) \cup RecentOf(r) \cup extra \subseteq Told(records)
      /\ UNCHANGED writeError
  BY <1>1, <1>2, FinalizeGrows DEF writer
<1>7. ASSUME NEW h \in Handlers PROVE Barrier(h)'
  <2>1. CASE h = r
    <3>1. Promised(h)' = promised
      BY <1>3, <1>4, <2>1 DEF Promised
    <3>2. ASSUME ~writeError PROVE promised \subseteq Told(Everything')
      <4>1. Told(records) \cup Told(Everything) \subseteq Told(Everything')
        <5> HIDE DEF records
        <5> QED
          BY <1>1, <1>6, Growth, Telling
      <4>2. promised \subseteq OpenOf(r) \cup RecentOf(r) \cup extra \cup Told(Everything)
        BY <1>1, <3>2 DEF NoneDropped, OpenOf, RecentOf
      <4> HIDE DEF records, promised
      <4> QED
        BY <1>6, <4>1, <4>2
    <3> HIDE DEF promised
    <3> QED
      BY <1>4, <1>6, <2>1, <3>1, <3>2, Telling DEF Barrier, Flushing
  <2>2. CASE h # r
    <3>1. Promised(h)' = Promised(h)
      BY <1>3, <1>4, <2>2 DEF Promised, EndOf, Handlers
    <3> HIDE DEF records
    <3> QED
      BY <1>1, <1>4, <1>6, <2>2, <3>1, GrowthKeepsBarriers
  <2> QED
    BY <2>1, <2>2
<1> QED
  BY <1>5, <1>7 DEF Inv, BarrierInv

\* What a flush changes besides the queue: the progress of its handler.
LEMMA HandlerStep ==
    ASSUME Inv, NEW h \in Handlers, Grows({}), handler[h] # "new",
           NEW next \in {"waiting", "stored", "failed"},
           handler' = [handler EXCEPT ![h] = next],
           UNCHANGED <<lifecycle, writeError, thread, files, closing, covers>>,
           errors' \in Nat, errors' = 0 => errors = 0,
           Barrier(h)'
    PROVE  Inv'
<1>1. /\ TypeInv /\ ControlInv /\ NoneDropped /\ FreshInv /\ PlaceInv /\ HeadInv
      /\ \A x \in Handlers : Barrier(x)
  BY DEF Inv, BarrierInv
<1>2. UNCHANGED <<span, pending, capture, recent, writeError, thread, buffered, synced,
                  closed, closer, covers>>
  BY DEF lifecycle, files, closing
<1>3. TypeInv'
  <2>1. queue' \in Seq(Items) /\ headed' \in SUBSET Runtimes
    BY <1>1, Growth
  <2> QED
    BY <1>1, <1>2, <2>1 DEF TypeInv
<1>4. ControlInv'
  <2>1. /\ ~thread' => closed' /\ queue' = <<>>
        /\ \A i \in 1 .. Len(queue') : queue'[i] = Stop => i = Len(queue') /\ closed'
    BY <1>1, <1>2, GrowthKeepsTheEnd
  <2> QED
    BY <1>1, <1>2, <2>1 DEF ControlInv
<1>5. NoneDropped'
  BY <1>1, <1>2, GrowthDropsNone
<1>6. ASSUME NEW x \in Handlers PROVE Barrier(x)'
  <2>1. CASE x # h
    <3>1. handler'[x] = handler[x]
      BY <1>1, <2>1 DEF TypeInv
    <3> QED
      BY <1>1, <1>2, <3>1, SamePromises, GrowthKeepsBarriers
  <2> QED
    BY <2>1
<1>7. FreshInv'
  <2>1. \A x \in Handlers : handler'[x] = "new" => handler[x] = "new"
    BY <1>1 DEF TypeInv
  <2>2. /\ \A x \in Spans : handler'[x] = "new" => handler[x] = "new"
        /\ \A x \in Runtimes : handler'[x] = "new" => handler[x] = "new"
    BY <2>1 DEF Handlers
  <2>3. /\ \A s \in pending' : span'[s] = "started"
        /\ \A c \in recent' : capture'[c] = "captured"
    BY <1>1, <1>2 DEF FreshInv
  <2> QED
    BY <1>1, <1>2, <2>2, <2>3, GrowthKeepsFresh
<1>8. PlaceInv' /\ HeadInv'
  BY <1>1, <1>2, GrowthKeepsPlaces, GrowthKeepsHeads
<1> QED
  BY <1>3, <1>4, <1>5, <1>6, <1>7, <1>8 DEF Inv, BarrierInv

LEMMA FlushTimeoutStep ==
    ASSUME Inv, NEW h \in Handlers, FlushTimeout(h)
    PROVE  Inv'
<1>1. /\ handler[h] = "waiting" /\ handler' = [handler EXCEPT ![h] = "failed"]
      /\ errors' = errors + 1
      /\ UNCHANGED <<lifecycle, intake, writeError, thread, files, closing, covers>>
  BY DEF FlushTimeout, Failing
<1>2. TypeInv
  BY DEF Inv
<1>3. Grows({})
  BY <1>1, <1>2, NothingGrows
<1>4. handler'[h] = "failed" /\ errors' \in Nat /\ errors' # 0
  BY <1>1, <1>2 DEF TypeInv
<1>5. Barrier(h)'
  BY <1>4 DEF Barrier, Flushing
<1> QED
  BY <1>1, <1>3, <1>4, <1>5, HandlerStep

LEMMA FlushBeginStep ==
    ASSUME Inv, NEW h \in Handlers, FlushBegin(h)
    PROVE  Inv'
<1>1. /\ handler[h] = "recorded"
      /\ UNCHANGED <<lifecycle, headed, writeError, thread, errors, files, closing, covers>>
  BY DEF FlushBegin, writer
<1>2. /\ TypeInv /\ ControlInv /\ Barrier(h) /\ errors \in Nat
  BY DEF Inv, BarrierInv, TypeInv
<1>3. Promised(h)' = Promised(h) /\ Synced' = Synced
  BY <1>1, SamePromises DEF Synced, files
<1>4. ASSUME NEW ok \in {TRUE, FALSE}, Answered(h, ok), UNCHANGED queue,
             ok => ~writeError /\ Queued = {}
      PROVE  Inv'
  <2>1. Grows({})
    BY <1>1, <1>2, <1>4, NothingGrows DEF intake
  <2>2. PICK next \in {"stored", "failed"} :
          handler' = [handler EXCEPT ![h] = next] /\ (next = "stored" => ok)
    BY <1>4 DEF Answered
  <2>3. handler'[h] = next
    BY <1>2, <2>2 DEF TypeInv
  <2>4. ASSUME next = "stored" PROVE Promised(h)' \subseteq Told(Synced)'
    <3>1. ~writeError /\ Queued = {}
      BY <1>4, <2>2, <2>4
    <3>2. Everything = Synced
      BY <1>2, <3>1 DEF ControlInv, Everything, Written
    <3>3. Promised(h) \subseteq Told(Everything)
      BY <1>1, <1>2, <3>1 DEF Barrier, Flushing
    <3> QED
      BY <1>3, <3>2, <3>3, Telling
  <2>5. Barrier(h)'
    BY <2>2, <2>3, <2>4 DEF Barrier, Flushing
  <2> QED
    BY <1>1, <1>2, <2>1, <2>2, <2>5, HandlerStep
<1>5. CASE closed /\ Answered(h, ~thread /\ ~writeError) /\ UNCHANGED queue
  <2>1. CASE ~thread /\ ~writeError
    <3>1. Queued = {}
      BY <1>2, <2>1 DEF ControlInv, Queued
    <3>2. Answered(h, TRUE)
      BY <1>5, <2>1 DEF Answered
    <3> QED
      BY <1>4, <1>5, <2>1, <3>1, <3>2
  <2>2. CASE ~(~thread /\ ~writeError)
    <3>1. Answered(h, FALSE)
      BY <1>5, <2>2 DEF Answered
    <3> QED
      BY <1>4, <1>5, <3>1
  <2> QED
    BY <2>1, <2>2
<1>6. CASE ~closed /\ UpToDate(h)
  <2>1. Queued = {}
    BY <1>6 DEF UpToDate, Unserved, Queued
  <2>2. CASE ~writeError
    <3>1. Answered(h, TRUE)
      BY <1>6, <2>2 DEF UpToDate, Answered
    <3> QED
      BY <1>4, <1>6, <2>1, <2>2, <3>1 DEF UpToDate
  <2>3. CASE writeError
    <3>1. Answered(h, FALSE)
      BY <1>6, <2>3 DEF UpToDate, Answered
    <3> QED
      BY <1>4, <1>6, <3>1 DEF UpToDate
  <2> QED
    BY <2>2, <2>3
<1>7. CASE /\ ~closed
           /\ queue' = Append(queue, Marker(h))
           /\ handler' = [handler EXCEPT ![h] = "waiting"]
  <2>1. Grows({})
    BY <1>1, <1>2, <1>7, MarkGrows
  <2>2. handler'[h] = "waiting"
    BY <1>2, <1>7 DEF TypeInv
  <2>3. /\ Len(queue') = Len(queue) + 1 /\ Len(queue) \in Nat
        /\ queue'[Len(queue) + 1] = Marker(h)
        /\ \A i \in 1 .. Len(queue) : queue'[i] = queue[i]
        /\ DOMAIN queue = 1 .. Len(queue)
    <3>1. queue \in Seq(Items) /\ Marker(h) \in Items
      BY <1>2 DEF TypeInv, Items
    <3> HIDE DEF Items
    <3> QED
      BY <1>7, <3>1
  <2>4. ASSUME ~writeError, NEW x \in Promised(h)
        PROVE  x \in Told(Synced) \/ Ahead(x, h)'
    <3>1. x \in Told(Everything)
      BY <1>1, <1>2, <2>4 DEF Barrier, Flushing
    <3>2. Everything = Synced \cup Queued
      BY <1>2, <2>4 DEF ControlInv, Everything, Written
    <3>3. CASE \E rec \in Queued : x \in Tells(rec)
      <4>1. PICK i \in 1 .. Len(queue) : IsRecord(queue[i]) /\ x \in Tells(queue[i])
        BY <2>3, <3>3 DEF Queued
      <4>2. /\ i \in 1 .. Len(queue') /\ Len(queue) + 1 \in 1 .. Len(queue')
            /\ i < Len(queue) + 1 /\ IsRecord(queue'[i]) /\ x \in Tells(queue'[i])
        BY <2>3, <4>1
      <4> QED
        BY <2>3, <4>2 DEF Ahead, IsRecord, Tells, EndOf, Marker
    <3> QED
      BY <3>1, <3>2, <3>3 DEF Told
  <2>5. ASSUME ~writeError PROVE Promised(h) \subseteq Told(Everything)'
    <3>1. Promised(h) \subseteq Told(Everything)
      BY <1>1, <1>2, <2>5 DEF Barrier, Flushing
    <3>2. Everything \subseteq Everything'
      BY <1>2, <2>1, Growth
    <3> QED
      BY <3>1, <3>2, Telling
  <2>6. Barrier(h)'
    BY <1>1, <1>3, <2>2, <2>4, <2>5, Telling DEF Barrier
  <2> QED
    BY <1>1, <1>2, <1>7, <2>1, <2>6, HandlerStep
<1> QED
  BY <1>5, <1>6, <1>7 DEF FlushBegin

LEMMA CloseBeginStep ==
    ASSUME Inv, CloseBegin
    PROVE  Inv'
<1> DEFINE records == Opened(pending, recent)
<1>1. /\ TypeInv /\ ControlInv /\ NoneDropped /\ FreshInv /\ PlaceInv /\ HeadInv
      /\ \A h \in Handlers : Barrier(h)
  BY DEF Inv, BarrierInv
<1>2. /\ UNCHANGED <<span, capture, writeError, thread, errors, buffered, synced, handler, covers>>
      /\ ~closed /\ closed' = TRUE /\ closer' = "joining"
      /\ pending' = {} /\ recent' = {}
  BY DEF CloseBegin, writer, files
<1>3. Grows(records) /\ records \in SUBSET Records
  BY <1>1, CloseGrows, OpenRecords DEF TypeInv
<1>4. /\ pending \cup recent \subseteq Told(records)
      /\ Sorted(records \cup {}, pending, recent, Nothing, {})
  BY <1>1, OpenedTells, FinalizedTells DEF TypeInv
<1>5. \A rec \in records : rec \notin Everything
  BY <1>1, OpenIsFresh
<1>6. \A rec \in records :
         \/ /\ rec.kind = "incomplete" /\ rec.capture \notin Captures
            /\ \E s \in pending : rec = Incomplete(s)
         \/ rec.kind = "unmatched" /\ rec.capture \in recent /\ rec = Unmatched(rec.capture)
  BY <1>4 DEF Sorted
<1>7. /\ \A s : Incomplete(s) \in records => s \in pending
      /\ \A r : Finalization(r) \notin records
  BY <1>4 DEF Sorted
<1> HIDE DEF records
<1>8. TypeInv'
  <2>1. queue' \in Seq(Items) /\ headed' \in SUBSET Runtimes
    BY <1>1, <1>3, Growth
  <2> QED
    BY <1>1, <1>2, <2>1 DEF TypeInv
<1>9. ControlInv'
  <2>1. /\ ~thread' => closed' /\ queue' = <<>>
        /\ \A i \in 1 .. Len(queue') : queue'[i] = Stop => i = Len(queue') /\ closed'
    BY <1>1, <1>2, <1>3, GrowthKeepsTheEnd
  <2> QED
    BY <1>1, <1>2, <2>1 DEF ControlInv
<1>10. NoneDropped'
  BY <1>1, <1>2, <1>3, <1>4, GrowthDropsNone
<1>11. BarrierInv'
  BY <1>1, <1>2, <1>3, SamePromises, GrowthKeepsBarriers DEF BarrierInv
<1>12. FreshInv'
  <2>1. \A s \in Spans : span[s] = "new" => Incomplete(s) \notin records
    BY <1>1, <1>7 DEF FreshInv
  <2>2. \A c \in Captures : capture[c] = "new" => \A rec \in records : rec.capture # c
    BY <1>1, <1>6 DEF FreshInv
  <2>3. \A rec \in records : rec.kind # "span"
    BY <1>6
  <2>4. \A one, two \in records :
           one.capture = two.capture /\ one.capture \in Captures => one = two
    BY <1>6
  <2> QED
    BY <1>1, <1>2, <1>3, <1>6, <1>7, <2>1, <2>2, <2>3, <2>4, GrowthKeepsFresh
<1>13. PlaceInv' /\ HeadInv'
  BY <1>1, <1>2, <1>3, <1>5, GrowthKeepsPlaces, GrowthKeepsHeads
<1> QED
  BY <1>8, <1>9, <1>10, <1>11, <1>12, <1>13 DEF Inv

LEMMA CloseEndStep ==
    ASSUME Inv, CloseEnd
    PROVE  Inv'
<1>1. /\ TypeInv /\ ControlInv /\ NoneDropped /\ FreshInv /\ PlaceInv /\ HeadInv
      /\ \A h \in Handlers : Barrier(h)
  BY DEF Inv, BarrierInv
<1>2. /\ UNCHANGED <<span, pending, capture, recent, headed, queue, writeError, thread, errors,
                     buffered, synced, closed, handler, covers>>
      /\ closer = "joining" /\ closer' \in {"raised", "closed"}
      /\ closer' = "closed" => ~thread /\ ~writeError
  BY DEF CloseEnd, CloseOutcome, lifecycle, intake, writer, files
<1>3. Grows({})
  BY <1>1, <1>2, NothingGrows DEF intake, files
<1>4. TypeInv'
  BY <1>1, <1>2 DEF TypeInv
<1>5. ControlInv'
  BY <1>1, <1>2 DEF ControlInv
<1>6. NoneDropped'
  BY <1>1, <1>2, <1>3, GrowthDropsNone
<1>7. BarrierInv'
  BY <1>1, <1>2, <1>3, SamePromises, GrowthKeepsBarriers DEF BarrierInv
<1>8. FreshInv'
  BY <1>1, <1>2, <1>3, GrowthKeepsFresh DEF FreshInv
<1>9. PlaceInv' /\ HeadInv'
  BY <1>1, <1>2, <1>3, GrowthKeepsPlaces, GrowthKeepsHeads
<1> QED
  BY <1>4, <1>5, <1>6, <1>7, <1>8, <1>9 DEF Inv

-----------------------------------------------------------------------------
(* The writer's step and the crash: items leave the queue for the files.     *)

\* The first n items, those behind them, and where a record is.
LEMMA Rest ==
    ASSUME NEW S, NEW s \in Seq(S), NEW n \in 1 .. Len(s)
    PROVE  LET t == SubSeq(s, n + 1, Len(s)) IN
           /\ t \in Seq(S) /\ Len(t) = Len(s) - n
           /\ \A k \in 1 .. Len(s) - n : t[k] = s[n + k]
<1> DEFINE t == SubSeq(s, n + 1, Len(s))
<1>1. Len(s) \in Nat /\ n \in Nat /\ n <= Len(s) /\ n >= 1
  OBVIOUS
<1>2. \A i \in n + 1 .. Len(s) : s[i] \in S
  BY <1>1
<1>3. /\ t \in Seq(S) /\ Len(t) = IF n + 1 <= Len(s) THEN Len(s) - (n + 1) + 1 ELSE 0
      /\ \A k \in 1 .. Len(s) - (n + 1) + 1 : t[k] = s[(n + 1) + k - 1]
  BY <1>1, <1>2, SubSeqProperties
<1> HIDE DEF t
<1>4. Len(t) = Len(s) - n
  BY <1>1, <1>3
<1>5. ASSUME NEW k \in 1 .. Len(s) - n PROVE t[k] = s[n + k]
  <2>1. (n + 1) + k - 1 = n + k /\ k \in 1 .. Len(s) - (n + 1) + 1
    BY <1>1
  <2>2. t[k] = s[(n + 1) + k - 1]
    BY <1>3, <2>1
  <2> QED
    BY <2>1, <2>2
<1> QED
  BY <1>3, <1>4, <1>5 DEF t

Behind(n) == SubSeq(queue, n + 1, Len(queue))

LEMMA Shifting ==
    ASSUME TypeInv, NEW n \in 1 .. Len(queue), queue' = Behind(n)
    PROVE  /\ queue' \in Seq(Items) /\ Len(queue) \in Nat /\ Len(queue') = Len(queue) - n
           /\ DOMAIN queue = 1 .. Len(queue) /\ DOMAIN queue' = 1 .. Len(queue')
           /\ \A k \in 1 .. Len(queue') :
                 n + k \in 1 .. Len(queue) /\ queue'[k] = queue[n + k]
           /\ \A i \in 1 .. Len(queue) :
                 i > n => i - n \in 1 .. Len(queue') /\ queue'[i - n] = queue[i]
<1>1. /\ queue \in Seq(Items) /\ Len(queue) \in Nat /\ DOMAIN queue = 1 .. Len(queue)
      /\ n \in 1 .. Len(queue) /\ n \in Nat
  BY DEF TypeInv
<1> HIDE DEF Items
<1>2. /\ queue' \in Seq(Items) /\ Len(queue') = Len(queue) - n
      /\ \A k \in 1 .. Len(queue) - n : queue'[k] = queue[n + k]
  BY <1>1, Rest DEF Behind
<1>3. DOMAIN queue' = 1 .. Len(queue')
  BY <1>2
<1>4. ASSUME NEW k \in 1 .. Len(queue')
      PROVE  n + k \in 1 .. Len(queue) /\ queue'[k] = queue[n + k]
  <2>1. k \in 1 .. Len(queue) - n
    BY <1>2
  <2>2. queue'[k] = queue[n + k]
    BY <1>2, <2>1
  <2>3. n + k \in 1 .. Len(queue)
    BY ONLY <1>1, <2>1
  <2> QED
    BY <2>2, <2>3
<1>5. ASSUME NEW i \in 1 .. Len(queue), i > n
      PROVE  i - n \in 1 .. Len(queue') /\ queue'[i - n] = queue[i]
  <2>1. i - n \in 1 .. Len(queue) - n /\ n + (i - n) = i
    BY <1>1, <1>5
  <2> QED
    BY <1>2, <2>1
<1> QED
  BY <1>1, <1>2, <1>3, <1>4, <1>5

LEMMA TakenFacts ==
    ASSUME TypeInv, NEW n \in 0 .. Len(queue)
    PROVE  /\ \A r \in Runtimes : /\ Taken(r, n) \subseteq Queued
                                  /\ Taken(r, n) \in SUBSET Records
                                  /\ \A rec \in Taken(r, n) : rec.file = r
           /\ \A i \in 1 .. n : IsRecord(queue[i]) =>
                 /\ queue[i] \in Records /\ queue[i].file \in Runtimes
                 /\ queue[i] \in Taken(queue[i].file, n)
           /\ \A r \in Runtimes : \A rec \in Taken(r, n) :
                 \E i \in 1 .. n : queue[i] = rec /\ IsRecord(rec)
<1>1. /\ DOMAIN queue = 1 .. Len(queue) /\ Len(queue) \in Nat
      /\ \A i \in 1 .. Len(queue) : queue[i] \in Items
  <2>1. queue \in Seq(Items)
    BY DEF TypeInv
  <2> HIDE DEF Items
  <2> QED
    BY <2>1
<1>2. \A i \in 1 .. Len(queue) : IsRecord(queue[i]) => queue[i] \in Records
  BY <1>1, ItemFacts
<1>3. \A i \in 1 .. n : i \in 1 .. Len(queue)
  BY <1>1
<1>4. \A rec \in Records : rec.file \in Runtimes
  BY DEF Records
<1> QED
  BY <1>1, <1>2, <1>3, <1>4 DEF Taken, Queued

LEMMA Writing ==
    ASSUME TypeInv, ControlInv, NEW n \in 1 .. Len(queue), WriteBatch(n)
    PROVE  /\ synced' \in [Runtimes -> SUBSET Records]
           /\ buffered' \in [Runtimes -> SUBSET Records]
           /\ \A r \in Runtimes : \A rec \in synced'[r] \cup buffered'[r] : rec.file = r
           /\ \A r \in Runtimes :
                 /\ synced[r] \subseteq synced'[r]
                 /\ synced'[r] \cup buffered'[r]
                       \subseteq synced[r] \cup buffered[r] \cup Taken(r, n)
           /\ ~writeError' =>
                 /\ ~writeError
                 /\ \A r \in Runtimes : /\ synced'[r] = synced[r] \cup Taken(r, n)
                                        /\ buffered'[r] = {} /\ buffered[r] = {}
           /\ errors' \in Nat /\ (errors' = 0 => errors = 0 /\ ~writeError')
<1>1. PICK lost \in {{}} \cup {{queue[i]} : i \in {j \in 1 .. n : IsRecord(queue[j])}},
           bad \in SUBSET Runtimes :
        LET dirty == [r \in Runtimes |-> buffered[r] \cup (Taken(r, n) \ lost)] IN
        /\ Failing(Cardinality(lost) + Cardinality(bad))
        /\ writeError' = Sticky(lost # {} \/ bad # {})
        /\ synced' = [r \in Runtimes |-> IF r \in bad THEN synced[r] ELSE synced[r] \cup dirty[r]]
        /\ buffered' = [r \in Runtimes |-> IF r \in bad THEN dirty[r] ELSE {}]
  BY DEF WriteBatch
<1>2. \A r \in Runtimes :
        /\ synced'[r] = IF r \in bad THEN synced[r]
                        ELSE synced[r] \cup (buffered[r] \cup (Taken(r, n) \ lost))
        /\ buffered'[r] = IF r \in bad THEN buffered[r] \cup (Taken(r, n) \ lost) ELSE {}
  BY <1>1
<1>3. \A r \in Runtimes : /\ synced[r] \in SUBSET Records /\ buffered[r] \in SUBSET Records
                          /\ Taken(r, n) \in SUBSET Records
                          /\ \A rec \in synced[r] \cup buffered[r] \cup Taken(r, n) : rec.file = r
  <2>1. n \in 0 .. Len(queue)
    OBVIOUS
  <2> QED
    BY <2>1, TakenFacts DEF TypeInv
<1>4. /\ synced' \in [Runtimes -> SUBSET Records]
      /\ buffered' \in [Runtimes -> SUBSET Records]
  BY <1>1, <1>3
<1>5. /\ \A r \in Runtimes : \A rec \in synced'[r] \cup buffered'[r] : rec.file = r
      /\ \A r \in Runtimes :
            /\ synced[r] \subseteq synced'[r]
            /\ synced'[r] \cup buffered'[r] \subseteq synced[r] \cup buffered[r] \cup Taken(r, n)
  <2>1. ASSUME NEW r \in Runtimes
        PROVE  /\ synced[r] \subseteq synced'[r]
               /\ synced'[r] \cup buffered'[r] \subseteq synced[r] \cup buffered[r] \cup Taken(r, n)
    BY <1>2
  <2>2. \A r \in Runtimes : \A rec \in synced'[r] \cup buffered'[r] : rec.file = r
    BY <1>3, <2>1
  <2> QED
    BY <2>1, <2>2
<1>6. ~writeError' <=> ~writeError /\ lost = {} /\ bad = {}
  BY <1>1 DEF Sticky
<1>7. ASSUME ~writeError'
      PROVE  /\ ~writeError
             /\ \A r \in Runtimes : /\ synced'[r] = synced[r] \cup Taken(r, n)
                                    /\ buffered'[r] = {} /\ buffered[r] = {}
  BY <1>2, <1>6, <1>7 DEF ControlInv
<1>8. errors' \in Nat /\ (errors' = 0 => errors = 0 /\ lost = {} /\ bad = {})
  <2>1. IsFiniteSet(lost) /\ IsFiniteSet(bad)
    <3>1. lost = {} \/ \E x : lost = {x}
      BY <1>1
    <3> QED
      BY <3>1, TraceAssumption, FS_EmptySet, FS_Singleton, FS_Subset
  <2>2. Cardinality(lost) \in Nat /\ Cardinality(bad) \in Nat
    BY <2>1, FS_CardinalityType
  <2>3. /\ Cardinality(lost) = 0 => lost = {}
        /\ Cardinality(bad) = 0 => bad = {}
    BY <2>1, FS_EmptySet
  <2>4. errors' = errors + (Cardinality(lost) + Cardinality(bad)) /\ errors \in Nat
    BY <1>1 DEF Failing, TypeInv
  <2> QED
    BY <2>2, <2>3, <2>4
<1>9. errors' = 0 => ~writeError'
  BY <1>6, <1>8 DEF ControlInv
<1> QED
  BY <1>4, <1>5, <1>7, <1>8, <1>9

\* The batch as a whole: nothing new, and without an error nothing lost.
LEMMA Batch ==
    ASSUME TypeInv, ControlInv, NEW n \in 1 .. Len(queue),
           ~IsRecord(queue[n]), \A i \in 1 .. n - 1 : IsRecord(queue[i]),
           queue' = Behind(n), WriteBatch(n)
    PROVE  /\ Queued' \subseteq Queued /\ Written' \subseteq Written \cup Queued
           /\ Synced \subseteq Synced'
           /\ ~writeError' => Everything \subseteq Everything'
           /\ \A i \in 1 .. Len(queue) : IsRecord(queue[i]) =>
                 \/ i < n /\ (~writeError' => queue[i] \in Synced')
                 \/ i > n
<1>1. /\ DOMAIN queue = 1 .. Len(queue) /\ DOMAIN queue' = 1 .. Len(queue') /\ Len(queue) \in Nat
      /\ n \in 1 .. Len(queue)
      /\ \A k \in 1 .. Len(queue') : n + k \in 1 .. Len(queue) /\ queue'[k] = queue[n + k]
      /\ \A i \in 1 .. Len(queue) :
            i > n => i - n \in 1 .. Len(queue') /\ queue'[i - n] = queue[i]
  BY Shifting
<1>2. /\ \A r \in Runtimes :
            /\ synced[r] \subseteq synced'[r]
            /\ synced'[r] \cup buffered'[r] \subseteq synced[r] \cup buffered[r] \cup Taken(r, n)
      /\ ~writeError' =>
            \A r \in Runtimes : synced'[r] = synced[r] \cup Taken(r, n) /\ buffered[r] = {}
  BY Writing
<1>3. n \in 0 .. Len(queue)
  BY <1>1
<1>4. Queued' \subseteq Queued
  BY <1>1 DEF Queued, IsRecord
<1>5. Written' \subseteq Written \cup Queued
  BY <1>2, <1>3, TakenFacts DEF Written, Synced
<1>6. Synced \subseteq Synced'
  BY <1>2 DEF Synced
<1>7. ASSUME NEW i \in 1 .. Len(queue), IsRecord(queue[i])
      PROVE  \/ i < n /\ (~writeError' => queue[i] \in Synced')
             \/ i > n
  <2>1. CASE i < n
    <3>1. i \in 1 .. n
      BY <1>1, <2>1
    <3>2. queue[i].file \in Runtimes /\ queue[i] \in Taken(queue[i].file, n)
      BY <1>3, <1>7, <3>1, TakenFacts
    <3> QED
      BY <1>2, <2>1, <3>2 DEF Synced
  <2>2. i # n
    BY <1>7
  <2> QED
    BY <1>1, <2>1, <2>2
<1>8. ASSUME ~writeError', NEW rec \in Everything PROVE rec \in Everything'
  <2>1. CASE rec \in Written
    BY <1>2, <1>6, <1>8, <2>1 DEF Everything, Written
  <2>2. CASE rec \in Queued
    <3>1. PICK i \in 1 .. Len(queue) : rec = queue[i] /\ IsRecord(queue[i])
      BY <1>1, <2>2 DEF Queued
    <3>2. CASE i > n
      <4>1. i - n \in DOMAIN queue' /\ queue'[i - n] = rec /\ IsRecord(queue'[i - n])
        BY <1>1, <3>1, <3>2 DEF IsRecord
      <4> QED
        BY <1>1, <3>1, <4>1 DEF Everything, Queued, IsRecord
    <3> QED
      BY <1>7, <1>8, <3>1, <3>2 DEF Everything, Written
  <2> QED
    BY <2>1, <2>2 DEF Everything
<1> QED
  BY <1>4, <1>5, <1>6, <1>7, <1>8

LEMMA ServeStep ==
    ASSUME Inv, Serve
    PROVE  Inv'
<1>1. /\ TypeInv /\ ControlInv /\ NoneDropped /\ FreshInv /\ PlaceInv /\ HeadInv
      /\ \A h \in Handlers : Barrier(h)
  BY DEF Inv, BarrierInv
<1>2. DOMAIN queue = 1 .. Len(queue) /\ \A i \in 1 .. Len(queue) : queue[i] \in Items
  <2>1. queue \in Seq(Items)
    BY <1>1 DEF TypeInv
  <2> HIDE DEF Items
  <2> QED
    BY <2>1
<1>3. PICK n \in 1 .. Len(queue) :
          /\ ~IsRecord(queue[n]) /\ \A i \in 1 .. n - 1 : IsRecord(queue[i])
          /\ queue' = Behind(n)
          /\ WriteBatch(n)
          /\ IF queue[n] = Stop
             THEN thread' = FALSE /\ UNCHANGED handler
             ELSE /\ IF Awaited(queue[n].handler) THEN Answered(queue[n].handler, ~writeError')
                                                  ELSE UNCHANGED handler
                  /\ UNCHANGED thread
  BY <1>2 DEF Serve, Behind
<1>4. /\ thread
      /\ UNCHANGED <<span, pending, capture, recent, headed, closed, closer, covers>>
  BY DEF Serve, lifecycle, closing
<1>5. /\ queue' \in Seq(Items) /\ Len(queue) \in Nat /\ Len(queue') = Len(queue) - n
      /\ DOMAIN queue' = 1 .. Len(queue') /\ n \in Nat
      /\ \A k \in 1 .. Len(queue') :
            n + k \in 1 .. Len(queue) /\ queue'[k] = queue[n + k]
      /\ \A i \in 1 .. Len(queue) :
            i > n => i - n \in 1 .. Len(queue') /\ queue'[i - n] = queue[i]
  BY <1>1, <1>3, Shifting
<1>6. /\ synced' \in [Runtimes -> SUBSET Records]
      /\ buffered' \in [Runtimes -> SUBSET Records]
      /\ \A r \in Runtimes : \A rec \in synced'[r] \cup buffered'[r] : rec.file = r
      /\ \A r \in Runtimes : synced[r] \subseteq synced'[r]
      /\ ~writeError' =>
            /\ ~writeError
            /\ \A r \in Runtimes : /\ synced'[r] = synced[r] \cup Taken(r, n)
                                   /\ buffered'[r] = {} /\ buffered[r] = {}
      /\ errors' \in Nat /\ (errors' = 0 => errors = 0 /\ ~writeError')
  BY <1>1, <1>3, Writing
<1>7. /\ Queued' \subseteq Queued /\ Written' \subseteq Written \cup Queued
      /\ Synced \subseteq Synced'
      /\ ~writeError' => Everything \subseteq Everything'
      /\ \A i \in 1 .. Len(queue) : IsRecord(queue[i]) =>
            \/ i < n /\ (~writeError' => queue[i] \in Synced')
            \/ i > n
  BY <1>1, <1>3, Batch
<1>8. Everything' \subseteq Everything
  BY <1>7 DEF Everything
\* Only a handler whose last marker this is gets an answer.
<1>9. /\ handler' \in [Handlers -> {"new", "recorded", "waiting", "stored", "failed"}]
      /\ \A h \in Handlers :
            \/ handler'[h] = handler[h] /\ (handler[h] = "waiting" /\ queue[n] = Marker(h) =>
                                              \E i \in 1 .. Len(queue') : queue'[i] = Marker(h))
            \/ /\ queue[n] = Marker(h) /\ handler[h] = "waiting"
               /\ \A i \in 1 .. Len(queue') : queue'[i] # Marker(h)
               /\ (handler'[h] = "stored" /\ ~writeError') \/ handler'[h] = "failed"
  <2>1. CASE queue[n] = Stop
    BY <1>1, <1>3, <2>1, ItemFacts DEF TypeInv
  <2>2. CASE queue[n] # Stop
    <3>1. PICK x \in Handlers : queue[n] = Marker(x)
      BY <1>2, <1>3, <2>2, ItemFacts
    <3>2. queue[n].handler = x /\ \A h \in Handlers : queue[n] = Marker(h) => h = x
      BY <3>1, ItemFacts
    <3>3. CASE Awaited(x)
      <4>1. handler[x] = "waiting" /\ \A i \in 1 .. Len(queue') : queue'[i] # Marker(x)
        BY <1>5, <3>3 DEF Awaited, Marker
      <4>2. Answered(x, ~writeError')
        BY <1>3, <2>2, <3>2, <3>3
      <4>3. PICK next \in {"stored", "failed"} :
              handler' = [handler EXCEPT ![x] = next] /\ (next = "stored" => ~writeError')
        BY <4>2 DEF Answered
      <4> QED
        BY <1>1, <3>1, <3>2, <4>1, <4>3 DEF TypeInv
    <3>4. CASE ~Awaited(x)
      <4>1. UNCHANGED handler
        BY <1>3, <2>2, <3>2, <3>4
      <4>2. handler[x] = "waiting" => \E i \in 1 .. Len(queue') : queue'[i] = Marker(x)
        BY <1>5, <3>4 DEF Awaited, Marker
      <4> QED
        BY <1>1, <3>2, <4>1, <4>2 DEF TypeInv
    <3> QED
      BY <3>3, <3>4
  <2> QED
    BY <2>1, <2>2
<1>10. TypeInv'
  BY <1>1, <1>4, <1>5, <1>6, <1>9 DEF TypeInv
<1>11. ControlInv'
  <2>1. ASSUME ~thread' PROVE closed' /\ queue' = <<>>
    <3>1. queue[n] = Stop
      BY <1>3, <1>4, <2>1
    <3>2. n = Len(queue) /\ closed
      BY <1>1, <1>3, <3>1 DEF ControlInv
    <3>3. Len(queue') = 0
      BY <1>5, <3>2
    <3> QED
      BY <1>4, <1>5, <3>2, <3>3
  <2>2. ASSUME NEW k \in 1 .. Len(queue'), queue'[k] = Stop PROVE k = Len(queue') /\ closed'
    <3>1. n + k = Len(queue) /\ closed
      BY <1>1, <1>5, <2>2 DEF ControlInv
    <3> QED
      BY <1>4, <1>5, <3>1
  <2> QED
    BY <1>1, <1>4, <1>6, <2>1, <2>2 DEF ControlInv
<1>12. NoneDropped'
  <2>1. ASSUME ~writeError' PROVE Told(Everything) \subseteq Told(Everything')
    BY <1>7, <2>1, Telling
  <2> QED
    BY <1>1, <1>4, <1>6, <2>1, Telling DEF NoneDropped
<1>13. FreshInv'
  <2>1. /\ \A s \in Spans : handler'[s] = "new" => handler[s] = "new"
        /\ \A r \in Runtimes : handler'[r] = "new" => handler[r] = "new"
    BY <1>9 DEF Handlers
  <2>2. \A x : Incomplete(x)' = Incomplete(x) /\ Finalization(x)' = Finalization(x)
    BY DEF Incomplete, Finalization, Record
  <2> QED
    BY <1>1, <1>4, <1>8, <2>1, <2>2 DEF FreshInv
<1>14. PlaceInv'
  <2>1. ASSUME NEW i \in 1 .. Len(queue'), NEW j \in 1 .. Len(queue'),
               IsRecord(queue'[i]), queue'[i] = queue'[j], i # j
        PROVE  Repeatable(queue'[i])
    <3>1. n + i \in 1 .. Len(queue) /\ n + j \in 1 .. Len(queue) /\ n + i # n + j
      BY <1>5, <2>1
    <3>2. queue'[i] = queue[n + i] /\ queue'[j] = queue[n + j]
      BY <1>5
    <3> QED
      BY <1>1, <2>1, <3>1, <3>2 DEF PlaceInv
  <2>2. ASSUME NEW rec \in Queued' \cap Written' PROVE Repeatable(rec)
    <3>1. CASE rec \in Written
      BY <1>1, <1>7, <2>2, <3>1 DEF PlaceInv
    <3>2. CASE rec \notin Written
      <4>1. PICK k \in 1 .. Len(queue') : rec = queue'[k] /\ IsRecord(queue'[k])
        BY <1>5, <2>2 DEF Queued, IsRecord
      <4>2. \E r \in Runtimes : rec \in Taken(r, n)
        <5>1. \A r \in Runtimes :
                synced'[r] \cup buffered'[r] \subseteq synced[r] \cup buffered[r] \cup Taken(r, n)
          BY <1>1, <1>3, Writing
        <5> QED
          BY <2>2, <3>2, <5>1 DEF Written, Synced
      <4>3. PICK i \in 1 .. n : queue[i] = rec
        <5>1. n \in 0 .. Len(queue)
          BY <1>5
        <5> QED
          BY <1>1, <4>2, <5>1, TakenFacts
      <4>4. i \in 1 .. Len(queue) /\ n + k \in 1 .. Len(queue) /\ i # n + k
            /\ queue[n + k] = rec
        BY <1>5, <4>1
      <4> QED
        BY <1>1, <4>1, <4>3, <4>4 DEF PlaceInv
    <3> QED
      BY <3>1, <3>2
  <2>3. ASSUME NEW r \in Runtimes, Metadata(r) \in Everything' PROVE ~Headless(r)'
    BY <1>1, <1>4, <1>6, <1>8, <2>3 DEF PlaceInv, Headless
  <2>4. \A r : Metadata(r)' = Metadata(r)
    BY DEF Metadata, Record
  <2>5. \A rec : Repeatable(rec)' <=> Repeatable(rec)
    BY DEF Repeatable, Span, Record
  <2> QED
    BY <2>1, <2>2, <2>3, <2>4, <2>5 DEF PlaceInv, IsRecord
<1>15. HeadInv'
  <2> SUFFICES ASSUME errors' = 0, NEW r \in Runtimes
               PROVE  /\ synced'[r] # {} => Metadata(r) \in synced'[r]
                      /\ r \in headed => Metadata(r) \in synced'[r] \cup Queued'
                      /\ \A k \in 1 .. Len(queue') : IsRecord(queue'[k]) /\ queue'[k].file = r =>
                            \/ Metadata(r) \in synced'[r]
                            \/ \E j \in 1 .. k : queue'[j] = Metadata(r)
    <3>1. \A x : Metadata(x)' = Metadata(x)
      BY DEF Metadata, Record
    <3> QED
      BY <1>4, <3>1 DEF HeadInv, IsRecord
  <2>1. /\ synced'[r] = synced[r] \cup Taken(r, n)
        /\ synced[r] # {} => Metadata(r) \in synced[r]
        /\ r \in headed => Metadata(r) \in synced[r] \cup Queued
        /\ \A i \in 1 .. Len(queue) : IsRecord(queue[i]) /\ queue[i].file = r =>
              Metadata(r) \in synced[r] \/ \E j \in 1 .. i : queue[j] = Metadata(r)
    BY <1>1, <1>6 DEF HeadInv
  <2>2. IsRecord(Metadata(r)) /\ Metadata(r).file = r
    BY DEF Metadata, Record, IsRecord
  \* A header in the queue is written now or stays behind.
  <2>3. ASSUME NEW j \in 1 .. Len(queue), queue[j] = Metadata(r)
        PROVE  (j < n /\ Metadata(r) \in synced'[r]) \/ j > n
    <3>1. n \in 0 .. Len(queue) /\ j # n
      BY <1>3, <1>5, <2>2, <2>3
    <3>2. CASE j < n
      <4>1. j \in 1 .. n
        BY <1>5, <3>2
      <4>2. Metadata(r) \in Taken(r, n)
        BY <1>1, <2>2, <2>3, <3>1, <4>1, TakenFacts
      <4> QED
        BY <2>1, <3>2, <4>2
    <3> QED
      BY <1>5, <3>1, <3>2
  <2>4. ASSUME synced'[r] # {} PROVE Metadata(r) \in synced'[r]
    <3>1. CASE synced[r] # {}
      BY <2>1, <3>1
    <3>2. CASE Taken(r, n) # {}
      <4>1. n \in 0 .. Len(queue)
        BY <1>5
      <4>2. PICK rec \in Taken(r, n) : TRUE
        BY <3>2
      <4>3. PICK i \in 1 .. n : queue[i] = rec /\ IsRecord(rec) /\ rec.file = r
        BY <1>1, <4>1, <4>2, TakenFacts
      <4>4. i \in 1 .. Len(queue) /\ i <= n
        BY <1>5, <4>3
      <4>5. CASE Metadata(r) \in synced[r]
        BY <2>1, <4>5
      <4>6. CASE Metadata(r) \notin synced[r]
        <5>1. PICK j \in 1 .. i : queue[j] = Metadata(r)
          BY <2>1, <4>3, <4>4, <4>6
        <5>2. j \in 1 .. Len(queue) /\ ~(j > n)
          BY <1>5, <4>4, <5>1
        <5> QED
          BY <2>3, <5>1, <5>2
      <4> QED
        BY <4>5, <4>6
    <3> QED
      BY <2>1, <2>4, <3>1, <3>2
  <2>5. ASSUME r \in headed PROVE Metadata(r) \in synced'[r] \cup Queued'
    <3>1. CASE Metadata(r) \in synced[r]
      BY <2>1, <3>1
    <3>2. CASE Metadata(r) \in Queued
      <4>1. PICK j \in 1 .. Len(queue) : queue[j] = Metadata(r)
        BY <1>2, <3>2 DEF Queued
      <4>2. CASE j > n
        <5>1. j - n \in DOMAIN queue' /\ queue'[j - n] = Metadata(r)
          BY <1>5, <4>1, <4>2
        <5> QED
          BY <2>2, <5>1 DEF Queued, IsRecord
      <4> QED
        BY <2>3, <4>1, <4>2
    <3> QED
      BY <2>1, <2>5, <3>1, <3>2
  <2>6. ASSUME NEW k \in 1 .. Len(queue'), IsRecord(queue'[k]), queue'[k].file = r,
               Metadata(r) \notin synced'[r]
        PROVE  \E j \in 1 .. k : queue'[j] = Metadata(r)
    <3>1. n + k \in 1 .. Len(queue) /\ queue[n + k] = queue'[k] /\ k \in Nat
      BY <1>5
    <3>2. Metadata(r) \notin synced[r]
      BY <2>1, <2>6
    <3>3. PICK j \in 1 .. n + k : queue[j] = Metadata(r)
      BY <2>1, <2>6, <3>1, <3>2
    <3>4. j \in 1 .. Len(queue)
      BY <1>5, <3>1, <3>3
    <3>5. j > n
      BY <2>3, <2>6, <3>3, <3>4
    <3>6. j - n \in 1 .. k /\ queue'[j - n] = Metadata(r)
      BY <1>5, <3>1, <3>3, <3>4, <3>5
    <3> QED
      BY <3>6
  <2> QED
    BY <2>4, <2>5, <2>6
\* What stands in front of a marker is synced before its handler is answered.
<1>16. ASSUME NEW h \in Handlers PROVE Barrier(h)'
  <2>1. Promised(h)' = Promised(h) /\ Told(Synced) \subseteq Told(Synced)'
    BY <1>4, <1>7, SamePromises, Telling
  <2>2. ASSUME ~writeError', handler[h] = "waiting", NEW x \in Promised(h), x \notin Told(Synced)'
        PROVE  \E i, j \in 1 .. Len(queue') :
                  i < j /\ IsRecord(queue'[i]) /\ x \in Tells(queue'[i]) /\ queue'[j] = Marker(h)
    <3>1. Ahead(x, h)
      BY <1>1, <1>6, <2>1, <2>2 DEF Barrier
    <3>2. PICK i, j \in 1 .. Len(queue) :
            i < j /\ IsRecord(queue[i]) /\ x \in Tells(queue[i]) /\ queue[j] = Marker(h)
      BY <3>1 DEF Ahead
    <3>3. ~(queue[i] \in Synced')
      BY <2>2, <3>2, Telling
    <3>4. i > n
      BY <1>7, <2>2, <3>2, <3>3
    <3>5. i - n \in 1 .. Len(queue') /\ queue'[i - n] = queue[i]
      BY <1>5, <3>2, <3>4
    <3>6. j - n \in 1 .. Len(queue') /\ queue'[j - n] = queue[j] /\ i - n < j - n
      BY <1>5, <3>2, <3>4
    <3> QED
      BY <3>2, <3>5, <3>6
  <2>3. CASE handler'[h] = handler[h]
    <3>1. ASSUME ~writeError', Flushing(h)' PROVE Promised(h)' \subseteq Told(Everything)'
      <4>1. Promised(h) \subseteq Told(Everything)
        BY <1>1, <1>6, <2>3, <3>1 DEF Barrier, Flushing
      <4>2. Told(Everything) \subseteq Told(Everything)'
        BY <1>7, <3>1, Telling
      <4> QED
        BY <2>1, <4>1, <4>2
    <3>2. ASSUME ~writeError', handler'[h] = "waiting", NEW x \in Promised(h)'
          PROVE  x \in Told(Synced)' \/ Ahead(x, h)'
      BY <2>1, <2>2, <2>3, <3>2 DEF Ahead, IsRecord, Tells, EndOf, Marker
    <3>3. ASSUME handler'[h] = "stored" PROVE Promised(h)' \subseteq Told(Synced)'
      BY <1>1, <2>1, <2>3, <3>3 DEF Barrier
    <3> QED
      BY <3>1, <3>2, <3>3 DEF Barrier
  <2>4. CASE handler'[h] # handler[h]
    <3>1. /\ handler[h] = "waiting" /\ \A i \in 1 .. Len(queue') : queue'[i] # Marker(h)
          /\ (handler'[h] = "stored" /\ ~writeError') \/ handler'[h] = "failed"
      BY <1>9, <2>4
    <3>2. ASSUME handler'[h] = "stored", NEW x \in Promised(h)' PROVE x \in Told(Synced)'
      BY <2>1, <2>2, <3>1, <3>2
    <3> QED
      BY <3>1, <3>2 DEF Barrier, Flushing
  <2> QED
    BY <2>3, <2>4
<1> QED
  BY <1>10, <1>11, <1>12, <1>13, <1>14, <1>15, <1>16 DEF Inv, BarrierInv

LEMMA CrashStep ==
    ASSUME Inv, Crash
    PROVE  Inv'
<1>1. /\ TypeInv /\ ControlInv /\ NoneDropped /\ FreshInv /\ PlaceInv /\ HeadInv
      /\ \A h \in Handlers : Barrier(h)
  BY DEF Inv, BarrierInv
<1>2. PICK n \in 0 .. Len(queue) :
        synced' = [r \in Runtimes |-> synced[r] \cup buffered[r] \cup Taken(r, n)]
  BY DEF Crash
<1>3. /\ buffered' = [r \in Runtimes |-> {}] /\ pending' = {} /\ recent' = {} /\ headed' = {}
      /\ queue' = <<>> /\ writeError' = FALSE /\ closed' = FALSE /\ closer' = "open"
      /\ thread' = TRUE /\ UNCHANGED <<errors, covers>>
      /\ span' = Past(span, Spans) /\ capture' = Past(capture, Captures)
      /\ handler' = [h \in Handlers |-> IF Flushing(h) THEN "failed" ELSE handler[h]]
  BY DEF Crash
<1>4. /\ \A r \in Runtimes : /\ Taken(r, n) \subseteq Queued /\ Taken(r, n) \in SUBSET Records
                             /\ \A rec \in Taken(r, n) : rec.file = r
      /\ \A i \in 1 .. n : IsRecord(queue[i]) => queue[i] \in Taken(queue[i].file, n)
      /\ \A r \in Runtimes : \A rec \in Taken(r, n) : \E i \in 1 .. n : queue[i] = rec /\ IsRecord(rec)
  BY <1>1, TakenFacts
<1>5. /\ \A s \in Spans : span'[s] # "started" /\ (span'[s] = "new" => span[s] = "new")
      /\ \A c \in Captures : capture'[c] # "captured" /\ (capture'[c] = "new" => capture[c] = "new")
      /\ span' \in [Spans -> {"new", "started", "past"}]
      /\ capture' \in [Captures -> {"new", "captured", "past"}]
  BY <1>3 DEF Past
<1>6. /\ \A h \in Handlers : handler'[h] = IF Flushing(h) THEN "failed" ELSE handler[h]
      /\ handler' \in [Handlers -> {"new", "recorded", "waiting", "stored", "failed"}]
  BY <1>1, <1>3 DEF TypeInv
<1>7. \A r \in Runtimes : synced'[r] = synced[r] \cup buffered[r] \cup Taken(r, n) /\ buffered'[r] = {}
  BY <1>2, <1>3
<1>8. queue' \in Seq(Items) /\ Len(queue') = 0 /\ DOMAIN queue' = {} /\ Queued' = {}
  BY <1>3 DEF Queued
<1>9. Everything' = Synced' /\ Synced \subseteq Synced' /\ Synced' \subseteq Everything
  BY <1>4, <1>7, <1>8 DEF Everything, Written, Synced
<1>10. TypeInv'
  <2>1. synced' \in [Runtimes -> SUBSET Records] /\ buffered' \in [Runtimes -> SUBSET Records]
    BY <1>1, <1>2, <1>3, <1>4 DEF TypeInv
  <2>2. \A r \in Runtimes : \A rec \in synced'[r] \cup buffered'[r] : rec.file = r
    BY <1>1, <1>4, <1>7 DEF TypeInv
  <2> QED
    BY <1>1, <1>3, <1>5, <1>6, <1>8, <2>1, <2>2 DEF TypeInv
<1>11. ControlInv'
  BY <1>3, <1>7, <1>8 DEF ControlInv
<1>12. NoneDropped'
  BY <1>5 DEF NoneDropped
<1>13. ASSUME NEW h \in Handlers PROVE Barrier(h)'
  <2>1. Promised(h)' = Promised(h) /\ Told(Synced) \subseteq Told(Synced)'
    BY <1>3, <1>9, SamePromises, Telling
  <2>2. handler'[h] \notin {"recorded", "waiting"}
    BY <1>6 DEF Flushing
  <2>3. handler'[h] = "stored" => handler[h] = "stored"
    BY <1>6
  <2> QED
    BY <1>1, <2>1, <2>2, <2>3 DEF Barrier, Flushing
<1>14. FreshInv'
  <2>1. /\ \A s \in Spans : handler'[s] = "new" => handler[s] = "new"
        /\ \A r \in Runtimes : handler'[r] = "new" => handler[r] = "new"
    BY <1>6 DEF Handlers
  <2>2. \A x : Incomplete(x)' = Incomplete(x) /\ Finalization(x)' = Finalization(x)
    BY DEF Incomplete, Finalization, Record
  <2> QED
    BY <1>1, <1>3, <1>5, <1>9, <2>1, <2>2 DEF FreshInv
<1>15. PlaceInv'
  <2>1. ASSUME NEW r \in Runtimes, Metadata(r) \in Everything' PROVE ~Headless(r)'
    <3>1. PICK q \in Runtimes : Metadata(r) \in synced'[q]
      BY <1>9, <2>1 DEF Synced
    <3>2. q = r
      BY <1>10, <3>1 DEF TypeInv, Metadata, Record
    <3> QED
      BY <3>1, <3>2 DEF Headless
  <2>2. \A r : Metadata(r)' = Metadata(r)
    BY DEF Metadata, Record
  <2> QED
    BY <1>8, <2>1, <2>2 DEF PlaceInv
<1>16. HeadInv'
  <2> SUFFICES ASSUME errors = 0, NEW r \in Runtimes, synced'[r] # {}
               PROVE  Metadata(r) \in synced'[r]
    <3>1. \A x : Metadata(x)' = Metadata(x)
      BY DEF Metadata, Record
    <3> QED
      BY <1>3, <1>8, <3>1 DEF HeadInv
  <2>1. /\ synced'[r] = synced[r] \cup Taken(r, n)
        /\ synced[r] # {} => Metadata(r) \in synced[r]
        /\ \A i \in 1 .. Len(queue) : IsRecord(queue[i]) /\ queue[i].file = r =>
              Metadata(r) \in synced[r] \/ \E j \in 1 .. i : queue[j] = Metadata(r)
    BY <1>1, <1>7 DEF ControlInv, HeadInv
  <2>2. CASE Metadata(r) \in synced[r]
    BY <2>1, <2>2
  <2>3. CASE Metadata(r) \notin synced[r]
    <3>1. PICK rec \in Taken(r, n) : TRUE
      BY <2>1, <2>3
    <3>2. PICK i \in 1 .. n : queue[i] = rec /\ IsRecord(rec) /\ rec.file = r
      BY <1>4, <3>1
    <3>3. Len(queue) \in Nat
      BY <1>1 DEF TypeInv
    <3>4. i \in 1 .. Len(queue)
      BY <3>2, <3>3
    <3>5. PICK j \in 1 .. i : queue[j] = Metadata(r)
      BY <2>1, <2>3, <3>2, <3>4
    <3>6. j \in 1 .. n
      BY <3>2, <3>3, <3>5
    <3>7. IsRecord(Metadata(r)) /\ Metadata(r).file = r
      BY DEF Metadata, Record, IsRecord
    <3> QED
      BY <1>4, <2>1, <3>5, <3>6, <3>7
  <2> QED
    BY <2>2, <2>3
<1> QED
  BY <1>10, <1>11, <1>12, <1>13, <1>14, <1>15, <1>16 DEF Inv, BarrierInv

LEMMA InitInv == Init => Inv
<1> SUFFICES ASSUME Init PROVE Inv
  OBVIOUS
<1>1. queue = <<>> /\ DOMAIN queue = {} /\ Len(queue) = 0 /\ queue \in Seq(Items)
  BY DEF Init
<1>2. Queued = {} /\ Synced = {} /\ Written = {} /\ Everything = {}
  BY <1>1 DEF Init, Queued, Synced, Written, Everything
<1>3. TypeInv
  BY <1>1 DEF Init, TypeInv
<1>4. ControlInv
  BY <1>1 DEF Init, ControlInv
<1>5. NoneDropped /\ FreshInv
  BY <1>2 DEF Init, NoneDropped, FreshInv
<1>6. BarrierInv
  BY DEF Init, BarrierInv, Barrier, Flushing
<1>7. PlaceInv /\ HeadInv
  BY <1>1, <1>2 DEF Init, PlaceInv, HeadInv
<1> QED
  BY <1>3, <1>4, <1>5, <1>6, <1>7 DEF Inv

LEMMA NextInv == Inv /\ [Next]_vars => Inv'
<1> SUFFICES ASSUME Inv, [Next]_vars PROVE Inv'
  OBVIOUS
<1>1. ASSUME NEW s \in Spans, Start(s) \/ End(s) \/ EndAfterClose(s) PROVE Inv'
  BY <1>1, StartStep, EndStep, EndAfterCloseStep
<1>2. ASSUME NEW c \in Captures, Remember(c) PROVE Inv'
  BY <1>2, RememberStep
<1>3. ASSUME NEW r \in Runtimes, Drain(r) \/ Abort(r) \/ Release(r) PROVE Inv'
  BY <1>3, FinishStep, ReleaseStep DEF Drain, Abort
<1>4. ASSUME NEW h \in Handlers, FlushBegin(h) \/ FlushTimeout(h) PROVE Inv'
  BY <1>4, FlushBeginStep, FlushTimeoutStep
<1>5. CASE Serve \/ CloseBegin \/ CloseEnd \/ Crash
  BY <1>5, ServeStep, CloseBeginStep, CloseEndStep, CrashStep
<1>6. CASE UNCHANGED vars
  <2>1. UNCHANGED <<span, pending, capture, recent, headed, queue, writeError, thread, errors,
                    buffered, synced, closed, closer, handler, covers>>
    BY <1>6 DEF vars, lifecycle, intake, writer, files, closing
  <2>2. /\ TypeInv /\ ControlInv /\ NoneDropped /\ FreshInv /\ PlaceInv /\ HeadInv
        /\ \A h \in Handlers : Barrier(h)
    BY DEF Inv, BarrierInv
  <2>3. Grows({})
    BY <2>1, <2>2, NothingGrows DEF intake, files
  <2>4. TypeInv' /\ ControlInv'
    BY <2>1, <2>2 DEF TypeInv, ControlInv
  <2>5. NoneDropped'
    BY <2>1, <2>2, <2>3, GrowthDropsNone
  <2>6. BarrierInv'
    BY <2>1, <2>2, <2>3, SamePromises, GrowthKeepsBarriers DEF BarrierInv
  <2>7. FreshInv'
    BY <2>1, <2>2, <2>3, GrowthKeepsFresh DEF FreshInv
  <2>8. PlaceInv' /\ HeadInv'
    BY <2>1, <2>2, <2>3, GrowthKeepsPlaces, GrowthKeepsHeads
  <2> QED
    BY <2>4, <2>5, <2>6, <2>7, <2>8 DEF Inv
<1> QED
  BY <1>1, <1>2, <1>3, <1>4, <1>5, <1>6 DEF Next

THEOREM InvHolds == Spec => []Inv
  BY InitInv, NextInv, PTL DEF Spec

-----------------------------------------------------------------------------
(* The theorems.                                                             *)

\* No started span and no capture is lost unless a write failed, and nothing is
\* written twice (EachOnce): drain, abort, release, overflow and close write what
\* is open exactly once, whatever crashes and failing writes come in between.
THEOREM TracesAreExact == Spec => []EachOnce
<1>1. Inv => EachOnce
  <2> SUFFICES ASSUME Inv PROVE EachOnce
    OBVIOUS
  <2>1. DOMAIN queue = 1 .. Len(queue)
    BY DEF Inv, TypeInv
  <2>2. ASSUME NEW c \in Captures PROVE Cardinality(About(c)) <= 1
    <3>1. \A one, two \in About(c) : one = two
      BY DEF Inv, FreshInv, About
    <3>2. CASE About(c) = {}
      BY <3>2, FS_EmptySet
    <3>3. CASE About(c) # {}
      <4>1. PICK rec \in About(c) : TRUE
        BY <3>3
      <4>2. About(c) = {rec}
        BY <3>1, <4>1
      <4>3. Cardinality({rec}) = 1
        BY FS_Singleton
      <4> QED
        BY <4>2, <4>3
    <3> QED
      BY <3>2, <3>3
  <2>3. \A c \in recent : About(c) = {}
    BY DEF Inv, FreshInv, TypeInv, About
  <2>4. NoneTwice
    BY <2>1, <2>2, <2>3 DEF Inv, PlaceInv, HeadInv, NoneTwice
  <2> QED
    BY <2>4 DEF Inv, EachOnce
<1> QED
  BY <1>1, InvHolds, PTL

\* A close() that does not raise has every started span and every capture on
\* disk (ClosedIsComplete).
THEOREM CloseIsComplete == Spec => []ClosedIsComplete
<1>1. Inv => ClosedIsComplete
  <2> SUFFICES ASSUME Inv, closer = "closed" PROVE
        /\ \A s \in Spans : span[s] = "started" => s \in Told(Synced)
        /\ \A c \in Captures : capture[c] = "captured" => c \in Told(Synced)
    BY DEF ClosedIsComplete
  <2>1. /\ closed /\ pending = {} /\ recent = {} /\ queue = <<>> /\ ~writeError
        /\ \A r \in Runtimes : buffered[r] = {}
    BY DEF Inv, ControlInv
  <2>2. Everything = Synced
    BY <2>1 DEF Everything, Written, Queued
  <2> QED
    BY <2>1, <2>2 DEF Inv, NoneDropped
<1> QED
  BY <1>1, InvHolds, PTL

\* No step takes a record from the files, or an answer back.
Durably ==
    /\ Synced \subseteq Synced'
    /\ \A h \in Handlers : handler[h] = "stored" =>
          handler'[h] = "stored" /\ Promised(h)' = Promised(h)

LEMMA NextDurably ==
    ASSUME Inv, [Next]_vars
    PROVE  Durably
<1>1. /\ TypeInv /\ ControlInv
      /\ handler \in [Handlers -> {"new", "recorded", "waiting", "stored", "failed"}]
      /\ covers \in [Runtimes -> SUBSET (Records \cup Spans \cup Captures)]
  BY DEF Inv, TypeInv
<1>2. ASSUME UNCHANGED <<synced, covers>>, NEW h \in Handlers, handler[h] # "stored",
             NEW next, handler' = [handler EXCEPT ![h] = next]
      PROVE  Durably
  <2>1. Synced' = Synced
    BY <1>2 DEF Synced
  <2>2. \A x \in Handlers : handler[x] = "stored" => handler'[x] = "stored"
    BY <1>1, <1>2
  <2> QED
    BY <1>2, <2>1, <2>2, SamePromises DEF Durably
<1>3. ASSUME UNCHANGED <<synced, covers, handler>> PROVE Durably
  BY <1>3, SamePromises DEF Durably, Synced
<1>4. ASSUME NEW s \in Spans, Start(s) \/ End(s) \/ EndAfterClose(s) PROVE Durably
  <2>1. CASE Start(s)
    BY <1>3, <2>1 DEF Start, writer, files
  <2>2. CASE End(s)
    BY <1>2, <2>2 DEF End, writer, files, Handlers
  <2>3. CASE EndAfterClose(s)
    BY <1>2, <2>3 DEF EndAfterClose, writer, files, Handlers
  <2> QED
    BY <1>4, <2>1, <2>2, <2>3
<1>5. ASSUME NEW c \in Captures, Remember(c) PROVE Durably
  BY <1>3, <1>5 DEF Remember, writer, files
<1>6. ASSUME NEW r \in Runtimes, Drain(r) \/ Abort(r) \/ Release(r) PROVE Durably
  <2>1. CASE Release(r)
    BY <1>3, <2>1 DEF Release, writer, files
  <2>2. ASSUME NEW extra, Finish(r, extra) PROVE Durably
    <3>1. /\ UNCHANGED synced /\ handler[r] = "new"
          /\ handler' = [handler EXCEPT ![r] = "recorded"]
          /\ \E set : covers' = [covers EXCEPT ![r] = set]
      BY <2>2 DEF Finish, writer, files
    <3>2. \A h \in Handlers : handler[h] = "stored" =>
             handler'[h] = "stored" /\ (h \in Runtimes => covers'[h] = covers[h])
      BY <1>1, <3>1
    <3> QED
      BY <3>1, <3>2 DEF Durably, Synced, Promised, EndOf, Handlers
  <2> QED
    BY <1>6, <2>1, <2>2 DEF Drain, Abort
<1>7. ASSUME NEW h \in Handlers, FlushBegin(h) \/ FlushTimeout(h) PROVE Durably
  <2>1. CASE FlushTimeout(h)
    BY <1>2, <2>1 DEF FlushTimeout, files
  <2>2. CASE FlushBegin(h)
    <3>1. /\ UNCHANGED <<synced, covers>> /\ handler[h] = "recorded"
          /\ \E next : handler' = [handler EXCEPT ![h] = next]
      BY <2>2 DEF FlushBegin, UpToDate, Answered, writer, files
    <3> QED
      BY <1>2, <3>1
  <2> QED
    BY <1>7, <2>1, <2>2
<1>8. CASE CloseBegin \/ CloseEnd
  BY <1>3, <1>8 DEF CloseBegin, CloseEnd, writer, files
<1>9. CASE Crash
  <2>1. PICK n \in 0 .. Len(queue) :
          synced' = [r \in Runtimes |-> synced[r] \cup buffered[r] \cup Taken(r, n)]
    BY <1>9 DEF Crash
  <2>2. Synced \subseteq Synced'
    BY <2>1 DEF Synced
  <2>3. UNCHANGED covers /\ \A h \in Handlers : handler[h] = "stored" => handler'[h] = "stored"
    BY <1>9 DEF Crash, Flushing
  <2> QED
    BY <2>2, <2>3, SamePromises DEF Durably
<1>10. CASE Serve
  <2>1. PICK n \in DOMAIN queue :
           /\ WriteBatch(n)
           /\ \/ UNCHANGED handler
              \/ \E ok \in {TRUE, FALSE} : Awaited(queue[n].handler) /\ Answered(queue[n].handler, ok)
    <3>1. PICK n \in DOMAIN queue :
             /\ WriteBatch(n)
             /\ IF queue[n] = Stop
                THEN thread' = FALSE /\ UNCHANGED handler
                ELSE /\ IF Awaited(queue[n].handler) THEN Answered(queue[n].handler, ~writeError')
                                                     ELSE UNCHANGED handler
                     /\ UNCHANGED thread
      BY <1>10 DEF Serve
    <3>2. CASE UNCHANGED handler
      BY <3>1, <3>2
    <3>3. CASE Awaited(queue[n].handler) /\ Answered(queue[n].handler, ~writeError')
      <4>1. CASE writeError'
        BY <3>1, <3>3, <4>1 DEF Answered
      <4>2. CASE ~writeError'
        BY <3>1, <3>3, <4>2 DEF Answered
      <4> QED
        BY <4>1, <4>2
    <3> QED
      BY <3>1, <3>2, <3>3
  <2>2. n \in 1 .. Len(queue)
    BY <1>1 DEF TypeInv
  <2>3. \A r \in Runtimes : synced[r] \subseteq synced'[r]
    BY <1>1, <2>1, <2>2, Writing
  <2>4. UNCHANGED covers /\ \A h \in Handlers : handler[h] = "stored" => handler'[h] = "stored"
    <3>1. \A x : Awaited(x) => handler[x] = "waiting"
      BY DEF Awaited
    <3> QED
      BY <1>1, <1>10, <2>1, <3>1 DEF Serve, Answered
  <2> QED
    BY <2>3, <2>4, SamePromises DEF Durably, Synced
<1>11. CASE UNCHANGED vars
  BY <1>3, <1>11 DEF vars, writer, files
<1> QED
  BY <1>4, <1>5, <1>6, <1>7, <1>8, <1>9, <1>10, <1>11 DEF Next

\* Whoever was told that its records are stored finds them on disk for good
\* (ImplementsAcknowledgedStore): a stored answer of a tool or model event, a
\* drain or an abort outlives failing syncs, late markers and crashes.
THEOREM BarriersHold == Spec => ImplementsAcknowledgedStore
<1> DEFINE acked == UNION {Promised(h) : h \in {x \in Handlers : handler[x] = "stored"}}
           durable == Told(Synced)
<1>1. Init => durable = {} /\ acked = {}
  BY DEF Init, Told, Synced
<1>2. Inv /\ Inv' /\ [Next]_vars =>
        durable \subseteq durable' /\ acked \subseteq acked' /\ acked' \subseteq durable'
  <2> SUFFICES ASSUME Inv, Inv', [Next]_vars
               PROVE  durable \subseteq durable' /\ acked \subseteq acked' /\ acked' \subseteq durable'
    OBVIOUS
  <2>1. Durably
    BY NextDurably
  <2>2. durable \subseteq durable'
    BY <2>1, Telling DEF Durably
  <2>3. acked \subseteq acked'
    BY <2>1 DEF Durably
  <2>4. \A h \in Handlers : handler'[h] = "stored" => Promised(h)' \subseteq durable'
    BY DEF Inv, BarrierInv, Barrier
  <2>5. acked' = UNION {Promised(h)' : h \in {x \in Handlers : handler'[x] = "stored"}}
    OBVIOUS
  <2> QED
    BY <2>2, <2>3, <2>4, <2>5
<1> QED
  BY <1>1, <1>2, InvHolds, PTL DEF Spec, ImplementsAcknowledgedStore, Durable!Spec, Durable!Init, Durable!Step

-----------------------------------------------------------------------------
(* The calls that pass through the proxy, LlmProxy: what is recorded of an answer  *)
(* is a beginning of it without its markers.                                    *)

\* The model's finite sets are those of the theorems on finite sets.
LEMMA SameFinite == \A S : Proxy!IsFiniteSet(S) <=> IsFiniteSet(S)
BY DEF Proxy!IsFiniteSet, IsFiniteSet

\* The natural numbers are well ordered.
Less == {p \in Nat \X Nat : p[1] < p[2]}

\* A set with 0 and the successor of each of its numbers has them all.
LEMMA SuccessorsAreAll ==
    ASSUME NEW T, 0 \in T, \A n \in Nat : n \in T => n + 1 \in T
    PROVE  Nat \subseteq T
<1> DEFINE Missed == Nat \ T
<1>1. Missed \in SUBSET Nat /\ 0 \notin Missed /\ \A n \in Nat : n + 1 \in Missed => n \in Missed
  OBVIOUS
<1>2. Missed = {} => Nat \subseteq T
  OBVIOUS
<1>3. OpToRel(<, Nat) = Less
  BY DEF OpToRel, Less
<1>4. IsWellFoundedOn(Less, Nat)
  BY <1>3, NatLessThanWellFounded
<1> HIDE DEF Missed
<1>5. CASE Missed # {}
  <2>1. PICK n \in Missed : \A m \in Missed : ~ (<<m, n>> \in Less)
    BY <1>1, <1>4, <1>5, WFMin
  <2>2. \A m \in Missed : ~ (m < n)
    BY <1>1, <2>1 DEF Less
  <2>3. n - 1 \in Nat /\ (n - 1) + 1 \in Missed
    BY <1>1, <2>1
  <2>4. n - 1 \in Missed
    BY <1>1, <2>3
  <2> QED
    BY <1>1, <2>2, <2>4
<1> QED
  BY <1>2, <1>5

\* A set with the empty sequence that is closed under Append has all sequences.
LEMMA SequencesAreAll ==
    ASSUME NEW K, NEW T, <<>> \in T, \A s \in Seq(K), e \in K : s \in T => Append(s, e) \in T
    PROVE  Seq(K) \subseteq T
<1> DEFINE N == {n \in Nat : \A s \in Seq(K) : Len(s) = n => s \in T}
<1>1. 0 \in N
  OBVIOUS
<1>2. ASSUME NEW n \in Nat, n \in N PROVE n + 1 \in N
  <2>1. ASSUME NEW s \in Seq(K), Len(s) = n + 1 PROVE s \in T
    <3> DEFINE f == SubSeq(s, 1, n)
    <3>1. f \in Seq(K) /\ Len(f) = n /\ s[n + 1] \in K
      BY <2>1
    <3>2. s = Append(f, s[n + 1])
      BY <2>1, <3>1
    <3>3. f \in T
      BY <1>2, <3>1
    <3> HIDE DEF f
    <3> QED
      BY <3>1, <3>2, <3>3
  <2> QED
    BY <2>1
<1> HIDE DEF N
<1>3. Nat \subseteq N
  BY <1>1, <1>2, SuccessorsAreAll
<1> QED
  BY <1>3 DEF N

\* The data of the first n events, from that of the events before.
DataOf(f, s, n) ==
    IF n = 0 THEN <<>> ELSE IF s[n] = "done" THEN f[n - 1] ELSE Append(f[n - 1], s[n])

\* f tells the data of the first events, for each number of them up to m.
Collects(f, s, m) == \A n \in 0 .. m : f[n] = DataOf(f, s, n)

\* Two such functions agree.
LEMMA CollectedOnce ==
    ASSUME NEW s \in Seq(Proxy!Kinds), NEW m \in Nat, NEW f, NEW g,
           Collects(f, s, m), Collects(g, s, m)
    PROVE  f[m] = g[m]
<1> DEFINE T == {n \in Nat : n <= m => f[n] = g[n]}
<1>1. 0 \in T
  BY DEF Collects, DataOf
<1>2. ASSUME NEW n \in Nat, n \in T PROVE n + 1 \in T
  BY <1>2 DEF Collects, DataOf
<1> HIDE DEF T
<1>3. m \in T
  BY <1>1, <1>2, SuccessorsAreAll
<1> QED
  BY <1>3 DEF T

\* For every answer and number of events there is such a function.
LEMMA Collected ==
    ASSUME NEW s \in Seq(Proxy!Kinds)
    PROVE  \E f : f = [n \in 0 .. Len(s) |-> DataOf(f, s, n)]
<1> DEFINE Up(f, m) == f \in [0 .. m -> Seq(Proxy!Kinds)] /\ Collects(f, s, m)
           T == {m \in Nat : m <= Len(s) => \E f : Up(f, m)}
<1>1. 0 \in T
  <2>1. Up([n \in 0 .. 0 |-> <<>>], 0)
    BY DEF Collects, DataOf
  <2> QED
    BY <2>1
<1>2. ASSUME NEW m \in Nat, m \in T PROVE m + 1 \in T
  <2> SUFFICES ASSUME m + 1 <= Len(s) PROVE \E f : Up(f, m + 1)
    OBVIOUS
  <2>1. PICK f : Up(f, m)
    BY <1>2
  <2>2. f[m] \in Seq(Proxy!Kinds) /\ s[m + 1] \in Proxy!Kinds
    BY <2>1
  <2> DEFINE last == IF s[m + 1] = "done" THEN f[m] ELSE Append(f[m], s[m + 1])
             g == [n \in 0 .. m + 1 |-> IF n = m + 1 THEN last ELSE f[n]]
  <2>3. last \in Seq(Proxy!Kinds)
    BY <2>2
  <2>4. g \in [0 .. m + 1 -> Seq(Proxy!Kinds)]
    BY <2>1, <2>3
  <2>5. \A n \in 0 .. m : g[n] = f[n]
    OBVIOUS
  <2>6. ASSUME NEW n \in 0 .. m + 1 PROVE g[n] = DataOf(g, s, n)
    <3>1. CASE n = m + 1
      <4>1. g[n] = last /\ g[n - 1] = f[m]
        BY <3>1
      <4> HIDE DEF g
      <4> QED
        BY <3>1, <4>1 DEF DataOf
    <3>2. CASE n # m + 1
      <4>1. f[n] = DataOf(f, s, n)
        BY <2>1, <3>2 DEF Collects
      <4>2. n = 0 \/ n - 1 \in 0 .. m
        BY <3>2
      <4>3. DataOf(f, s, n) = DataOf(g, s, n)
        BY <2>5, <4>2 DEF DataOf
      <4> QED
        BY <2>5, <3>2, <4>1, <4>3
    <3> QED
      BY <3>1, <3>2
  <2>7. Up(g, m + 1)
    BY <2>4, <2>6 DEF Collects
  <2> QED
    BY <2>7
<1> HIDE DEF T
<1>3. Len(s) \in T
  BY <1>1, <1>2, SuccessorsAreAll
<1>4. PICK f : Up(f, Len(s))
  BY <1>3 DEF T
<1>5. f = [n \in 0 .. Len(s) |-> DataOf(f, s, n)]
  BY <1>4 DEF Collects
<1> QED
  BY <1>5

\* Data is what any such function has at the end.
LEMMA DataIs ==
    ASSUME NEW s \in Seq(Proxy!Kinds)
    PROVE  \E f : Collects(f, s, Len(s)) /\ f[Len(s)] = Proxy!Data(s)
<1> DEFINE h == CHOOSE f : f = [n \in 0 .. Len(s) |-> DataOf(f, s, n)]
<1>1. h = [n \in 0 .. Len(s) |-> DataOf(h, s, n)]
  BY Collected
<1>2. Proxy!Data(s) = h[Len(s)]
  BY DEF Proxy!Data, DataOf
<1>3. Collects(h, s, Len(s))
  BY <1>1 DEF Collects
<1> QED
  BY <1>2, <1>3

\* An event more.
LEMMA DataAppend ==
    ASSUME NEW s \in Seq(Proxy!Kinds), NEW e \in Proxy!Kinds
    PROVE  Proxy!Data(Append(s, e)) =
               IF e = "done" THEN Proxy!Data(s) ELSE Append(Proxy!Data(s), e)
<1> DEFINE t == Append(s, e)
<1>1. /\ t \in Seq(Proxy!Kinds) /\ Len(t) = Len(s) + 1 /\ t[Len(s) + 1] = e
      /\ \A i \in 1 .. Len(s) : t[i] = s[i]
  OBVIOUS
<1> HIDE DEF t
<1>2. PICK g : Collects(g, t, Len(t)) /\ g[Len(t)] = Proxy!Data(t)
  BY <1>1, DataIs
<1>3. PICK f : Collects(f, s, Len(s)) /\ f[Len(s)] = Proxy!Data(s)
  BY DataIs
<1>4. Collects(g, s, Len(s))
  BY <1>1, <1>2 DEF Collects, DataOf
<1>5. g[Len(s)] = Proxy!Data(s)
  BY <1>3, <1>4, CollectedOnce
<1>6. g[Len(s) + 1] = DataOf(g, t, Len(s) + 1)
  BY <1>1, <1>2 DEF Collects
<1>7. Len(s) \in Nat /\ Len(s) + 1 # 0 /\ (Len(s) + 1) - 1 = Len(s)
  OBVIOUS
<1>8. Proxy!Data(t) = IF e = "done" THEN g[Len(s)] ELSE Append(g[Len(s)], e)
  BY <1>1, <1>2, <1>6, <1>7 DEF DataOf
<1> QED
  BY <1>5, <1>8 DEF t

\* An answer without events has no data.
LEMMA DataEmpty == Proxy!Data(<<>>) = <<>>
<1>0. <<>> \in Seq(Proxy!Kinds) /\ Len(<<>>) = 0
  BY EmptySeq
<1>1. PICK f : Collects(f, <<>>, 0) /\ f[0] = Proxy!Data(<<>>)
  BY <1>0, DataIs
<1> QED
  BY <1>1 DEF Collects, DataOf

\* The members of a sequence.
LEMMA ToSetFacts ==
    ASSUME NEW K
    PROVE  /\ Proxy!ToSet(<<>>) = {}
           /\ \A s \in Seq(K), e \in K : Proxy!ToSet(Append(s, e)) = Proxy!ToSet(s) \cup {e}
           /\ \A s, t \in Seq(K) : Proxy!ToSet(s \o t) = Proxy!ToSet(s) \cup Proxy!ToSet(t)
<1>1. DOMAIN <<>> = {}
  OBVIOUS
<1>2. ASSUME NEW s \in Seq(K), NEW e \in K
      PROVE Proxy!ToSet(Append(s, e)) = Proxy!ToSet(s) \cup {e}
  <2>1. /\ DOMAIN Append(s, e) = 1 .. Len(s) + 1 /\ DOMAIN s = 1 .. Len(s)
        /\ Append(s, e)[Len(s) + 1] = e /\ \A i \in 1 .. Len(s) : Append(s, e)[i] = s[i]
    BY AppendProperties, LenProperties
  <2>2. Len(s) \in Nat /\ 1 .. Len(s) + 1 = 1 .. Len(s) \cup {Len(s) + 1}
    OBVIOUS
  <2> QED
    BY <2>1, <2>2 DEF Proxy!ToSet
<1>3. ASSUME NEW s \in Seq(K), NEW t \in Seq(K)
      PROVE Proxy!ToSet(s \o t) = Proxy!ToSet(s) \cup Proxy!ToSet(t)
  <2>1. /\ DOMAIN (s \o t) = 1 .. Len(s) + Len(t) /\ DOMAIN s = 1 .. Len(s)
        /\ DOMAIN t = 1 .. Len(t) /\ Len(s) \in Nat /\ Len(t) \in Nat
        /\ \A i \in 1 .. Len(s) + Len(t) :
              (s \o t)[i] = IF i <= Len(s) THEN s[i] ELSE t[i - Len(s)]
    BY ConcatProperties, LenProperties
  <2>2. ASSUME NEW x \in Proxy!ToSet(s \o t) PROVE x \in Proxy!ToSet(s) \cup Proxy!ToSet(t)
    <3>1. PICK i \in 1 .. Len(s) + Len(t) : x = (s \o t)[i]
      BY <2>1 DEF Proxy!ToSet
    <3>2. CASE i <= Len(s)
      BY <2>1, <3>1, <3>2 DEF Proxy!ToSet
    <3>3. CASE ~ (i <= Len(s))
      <4>1. i - Len(s) \in 1 .. Len(t) /\ x = t[i - Len(s)]
        BY <2>1, <3>1, <3>3
      <4> QED
        BY <2>1, <4>1 DEF Proxy!ToSet
    <3> QED
      BY <3>2, <3>3
  <2>3. ASSUME NEW x \in Proxy!ToSet(s) PROVE x \in Proxy!ToSet(s \o t)
    <3>1. PICK i \in 1 .. Len(s) : x = s[i]
      BY <2>1, <2>3 DEF Proxy!ToSet
    <3>2. i \in 1 .. Len(s) + Len(t) /\ (s \o t)[i] = x
      BY <2>1, <3>1
    <3> QED
      BY <2>1, <3>2 DEF Proxy!ToSet
  <2>4. ASSUME NEW x \in Proxy!ToSet(t) PROVE x \in Proxy!ToSet(s \o t)
    <3>1. PICK i \in 1 .. Len(t) : x = t[i]
      BY <2>1, <2>4 DEF Proxy!ToSet
    <3>2. i + Len(s) \in 1 .. Len(s) + Len(t) /\ (s \o t)[i + Len(s)] = x
      BY <2>1, <3>1
    <3> QED
      BY <2>1, <3>2 DEF Proxy!ToSet
  <2> QED
    BY <2>2, <2>3, <2>4
<1> QED
  BY <1>1, <1>2, <1>3 DEF Proxy!ToSet

\* The data of a sequence: its own events, without the markers.
LEMMA DataType ==
    \A s \in Seq(Proxy!Kinds) :
       /\ Proxy!Data(s) \in Seq(Proxy!Kinds)
       /\ Proxy!ToSet(Proxy!Data(s)) = Proxy!ToSet(s) \ {"done"}
<1> DEFINE T == {s \in Seq(Proxy!Kinds) :
                   /\ Proxy!Data(s) \in Seq(Proxy!Kinds)
                   /\ Proxy!ToSet(Proxy!Data(s)) = Proxy!ToSet(s) \ {"done"}}
<1>1. <<>> \in T
  BY EmptySeq, DataEmpty, ToSetFacts
<1>2. ASSUME NEW s \in Seq(Proxy!Kinds), NEW e \in Proxy!Kinds, s \in T PROVE Append(s, e) \in T
  <2>1. \A u \in Seq(Proxy!Kinds) : Proxy!ToSet(Append(u, e)) = Proxy!ToSet(u) \cup {e}
    BY ToSetFacts
  <2>2. Append(s, e) \in Seq(Proxy!Kinds) /\ Append(Proxy!Data(s), e) \in Seq(Proxy!Kinds)
    BY <1>2
  <2>3. CASE e = "done"
    BY <1>2, <2>1, <2>2, <2>3, DataAppend
  <2>4. CASE e # "done"
    <3>1. Proxy!Data(Append(s, e)) = Append(Proxy!Data(s), e)
      BY <2>4, DataAppend
    <3>2. Proxy!ToSet(Append(Proxy!Data(s), e)) = Proxy!ToSet(Proxy!Data(s)) \cup {e}
      BY <1>2, <2>1
    <3>3. /\ Proxy!ToSet(Append(s, e)) = Proxy!ToSet(s) \cup {e}
          /\ Proxy!ToSet(Proxy!Data(s)) = Proxy!ToSet(s) \ {"done"}
      BY <1>2, <2>1
    <3>4. Proxy!ToSet(Proxy!Data(Append(s, e))) = Proxy!ToSet(Append(s, e)) \ {"done"}
      BY <2>4, <3>1, <3>2, <3>3
    <3> QED
      BY <2>2, <3>1, <3>4
  <2> QED
    BY <2>3, <2>4
<1> HIDE DEF T
<1>3. Seq(Proxy!Kinds) \subseteq T
  BY <1>1, <1>2, SequencesAreAll
<1> QED
  BY <1>3 DEF T

\* The data of two answers one after the other.
LEMMA DataConcat ==
    \A s, t \in Seq(Proxy!Kinds) : Proxy!Data(s \o t) = Proxy!Data(s) \o Proxy!Data(t)
<1> SUFFICES ASSUME NEW s \in Seq(Proxy!Kinds)
             PROVE  \A t \in Seq(Proxy!Kinds) :
                       Proxy!Data(s \o t) = Proxy!Data(s) \o Proxy!Data(t)
  OBVIOUS
<1> DEFINE T == {t \in Seq(Proxy!Kinds) : Proxy!Data(s \o t) = Proxy!Data(s) \o Proxy!Data(t)}
<1>1. <<>> \in T
  BY DataEmpty, DataType
<1>2. ASSUME NEW t \in Seq(Proxy!Kinds), NEW e \in Proxy!Kinds, t \in T PROVE Append(t, e) \in T
  <2>1. s \o Append(t, e) = Append(s \o t, e) /\ s \o t \in Seq(Proxy!Kinds)
    OBVIOUS
  <2>2. Proxy!Data(s) \in Seq(Proxy!Kinds) /\ Proxy!Data(t) \in Seq(Proxy!Kinds)
    BY DataType
  <2>3. Proxy!Data(s) \o Append(Proxy!Data(t), e) = Append(Proxy!Data(s) \o Proxy!Data(t), e)
    BY <2>2
  <2>4. Proxy!Data(s \o Append(t, e)) = Proxy!Data(s) \o Proxy!Data(Append(t, e))
    BY <1>2, <2>1, <2>3, DataAppend
  <2> QED
    BY <2>4
<1> HIDE DEF T
<1>3. Seq(Proxy!Kinds) \subseteq T
  BY <1>1, <1>2, SequencesAreAll
<1> QED
  BY <1>3 DEF T

\* Reasoning is content.
Said(e) == IF e = "thought" THEN "text" ELSE e

\* Merging keeps the events in their places.
LEMMA MergedFacts ==
    \A s \in Seq(Proxy!Kinds) :
       /\ Proxy!Merged(s) \in Seq(Proxy!Kinds) /\ Len(Proxy!Merged(s)) = Len(s)
       /\ \A t \in Seq(Proxy!Kinds) : Proxy!Merged(s \o t) = Proxy!Merged(s) \o Proxy!Merged(t)
       /\ \A e \in Proxy!Kinds : Proxy!Merged(Append(s, e)) = Append(Proxy!Merged(s), Said(e))
       /\ \A x \in {"done", "error"} :
              x \in Proxy!ToSet(Proxy!Merged(s)) <=> x \in Proxy!ToSet(s)
<1>1. ASSUME NEW s \in Seq(Proxy!Kinds)
      PROVE  /\ Proxy!Merged(s) \in Seq(Proxy!Kinds) /\ Len(Proxy!Merged(s)) = Len(s)
             /\ \A i \in 1 .. Len(s) : Proxy!Merged(s)[i] = Said(s[i])
  BY DEF Proxy!Merged, Said, Proxy!Kinds
<1>2. ASSUME NEW s \in Seq(Proxy!Kinds), NEW t \in Seq(Proxy!Kinds)
      PROVE  Proxy!Merged(s \o t) = Proxy!Merged(s) \o Proxy!Merged(t)
  <2>0. /\ s \o t \in Seq(Proxy!Kinds) /\ Proxy!Merged(s) \in Seq(Proxy!Kinds)
        /\ Proxy!Merged(t) \in Seq(Proxy!Kinds)
    BY <1>1
  <2>1. /\ Proxy!Merged(s \o t) \in Seq(Proxy!Kinds)
        /\ Proxy!Merged(s) \o Proxy!Merged(t) \in Seq(Proxy!Kinds)
        /\ Len(Proxy!Merged(s \o t)) = Len(s) + Len(t)
        /\ Len(Proxy!Merged(s) \o Proxy!Merged(t)) = Len(s) + Len(t)
    <3>1. Len(s \o t) = Len(s) + Len(t)
      BY ConcatProperties
    <3>2. Proxy!Merged(s \o t) \in Seq(Proxy!Kinds) /\ Len(Proxy!Merged(s \o t)) = Len(s \o t)
      BY <1>1, <2>0
    <3>3. Len(Proxy!Merged(s) \o Proxy!Merged(t)) = Len(Proxy!Merged(s)) + Len(Proxy!Merged(t))
      BY <2>0, ConcatProperties
    <3>4. Proxy!Merged(s) \o Proxy!Merged(t) \in Seq(Proxy!Kinds)
      BY <2>0, ConcatProperties
    <3> QED
      BY <1>1, <3>1, <3>2, <3>3, <3>4
  <2>2. ASSUME NEW i \in 1 .. Len(s) + Len(t)
        PROVE  Proxy!Merged(s \o t)[i] = (Proxy!Merged(s) \o Proxy!Merged(t))[i]
    <3>1. /\ Proxy!Merged(s \o t)[i] = Said((s \o t)[i])
          /\ (s \o t)[i] = IF i <= Len(s) THEN s[i] ELSE t[i - Len(s)]
      <4>1. Len(s \o t) = Len(s) + Len(t)
        BY ConcatProperties
      <4>2. Proxy!Merged(s \o t)[i] = Said((s \o t)[i])
        BY <1>1, <2>0, <4>1
      <4> QED
        BY <4>2, ConcatProperties
    <3>2. (Proxy!Merged(s) \o Proxy!Merged(t))[i] =
             IF i <= Len(s) THEN Proxy!Merged(s)[i] ELSE Proxy!Merged(t)[i - Len(s)]
      BY <1>1, <2>0, ConcatProperties
    <3>3. CASE i <= Len(s)
      BY <1>1, <3>1, <3>2, <3>3
    <3>4. CASE ~ (i <= Len(s))
      <4>1. i - Len(s) \in 1 .. Len(t)
        BY <3>4
      <4> QED
        BY <1>1, <3>1, <3>2, <3>4, <4>1
    <3> QED
      BY <3>3, <3>4
  <2> QED
    BY <2>1, <2>2, SeqEqual
<1>3. ASSUME NEW s \in Seq(Proxy!Kinds), NEW e \in Proxy!Kinds
      PROVE  Proxy!Merged(Append(s, e)) = Append(Proxy!Merged(s), Said(e))
  <2>1. <<e>> \in Seq(Proxy!Kinds) /\ Append(s, e) = s \o <<e>> /\ Said(e) \in Proxy!Kinds
    BY AppendIsConcat DEF Said, Proxy!Kinds
  <2>2. Proxy!Merged(<<e>>) = <<Said(e)>>
    <3>1. Proxy!Merged(<<e>>) = [i \in DOMAIN <<e>> |-> Said(<<e>>[i])]
      BY DEF Proxy!Merged, Said
    <3>2. DOMAIN <<e>> = {1} /\ <<e>>[1] = e
      OBVIOUS
    <3>3. /\ Proxy!Merged(<<e>>) \in Seq(Proxy!Kinds) /\ <<Said(e)>> \in Seq(Proxy!Kinds)
          /\ Len(Proxy!Merged(<<e>>)) = 1 /\ Len(<<Said(e)>>) = 1
          /\ Proxy!Merged(<<e>>)[1] = Said(e)
      <4>1. Len(<<e>>) = 1 /\ Len(<<Said(e)>>) = 1 /\ <<Said(e)>> \in Seq(Proxy!Kinds)
        BY <2>1
      <4>2. Proxy!Merged(<<e>>) \in Seq(Proxy!Kinds) /\ Len(Proxy!Merged(<<e>>)) = 1
        BY <1>1, <2>1, <4>1
      <4>3. Proxy!Merged(<<e>>)[1] = Said(e)
        BY <3>1, <3>2
      <4> QED
        BY <4>1, <4>2, <4>3
    <3>4. \A i \in 1 .. 1 : Proxy!Merged(<<e>>)[i] = <<Said(e)>>[i]
      BY <3>3
    <3> QED
      BY <3>3, <3>4, SeqEqual
  <2>3. Append(Proxy!Merged(s), Said(e)) = Proxy!Merged(s) \o <<Said(e)>>
    BY <1>1, <2>1, AppendIsConcat
  <2> QED
    BY <1>2, <2>1, <2>2, <2>3
<1>4. ASSUME NEW s \in Seq(Proxy!Kinds), NEW x \in {"done", "error"}
      PROVE  x \in Proxy!ToSet(Proxy!Merged(s)) <=> x \in Proxy!ToSet(s)
  BY <1>1 DEF Proxy!ToSet, Said
<1> QED
  BY <1>1, <1>2, <1>3, <1>4

\* Reasoning is never a marker.
LEMMA DataMerged == \A s \in Seq(Proxy!Kinds) :
    Proxy!Data(Proxy!Merged(s)) = Proxy!Merged(Proxy!Data(s))
<1> DEFINE T == {s \in Seq(Proxy!Kinds) :
                   Proxy!Data(Proxy!Merged(s)) = Proxy!Merged(Proxy!Data(s))}
<1>0. Proxy!Merged(<<>>) = <<>>
  BY EmptySeq, MergedFacts
<1>1. <<>> \in T
  BY <1>0, DataEmpty
<1>2. ASSUME NEW s \in Seq(Proxy!Kinds), NEW e \in Proxy!Kinds, s \in T PROVE Append(s, e) \in T
  <2>1. /\ Proxy!Merged(s) \in Seq(Proxy!Kinds) /\ Proxy!Data(s) \in Seq(Proxy!Kinds)
        /\ Said(e) \in Proxy!Kinds
        /\ Said(e) = "done" <=> e = "done"
    BY MergedFacts, DataType DEF Said, Proxy!Kinds
  <2>2. Proxy!Data(Proxy!Merged(Append(s, e))) =
            IF e = "done" THEN Proxy!Data(Proxy!Merged(s))
            ELSE Append(Proxy!Data(Proxy!Merged(s)), Said(e))
    BY <2>1, MergedFacts, DataAppend
  <2>3. Proxy!Merged(Proxy!Data(Append(s, e))) =
            IF e = "done" THEN Proxy!Merged(Proxy!Data(s))
            ELSE Append(Proxy!Merged(Proxy!Data(s)), Said(e))
    BY <2>1, MergedFacts, DataAppend
  <2> QED
    BY <1>2, <2>2, <2>3
<1> HIDE DEF T
<1>3. Seq(Proxy!Kinds) \subseteq T
  BY <1>1, <1>2, SequencesAreAll
<1> QED
  BY <1>3 DEF T

\* Without markers everything is data.
LEMMA DataOfData == \A s \in Seq(Proxy!Kinds) :
    "done" \notin Proxy!ToSet(s) => Proxy!Data(s) = s
<1> DEFINE T == {s \in Seq(Proxy!Kinds) : "done" \notin Proxy!ToSet(s) => Proxy!Data(s) = s}
<1>1. <<>> \in T
  BY DataEmpty
<1>2. ASSUME NEW s \in Seq(Proxy!Kinds), NEW e \in Proxy!Kinds, s \in T PROVE Append(s, e) \in T
  <2>1. Proxy!ToSet(Append(s, e)) = Proxy!ToSet(s) \cup {e}
    BY ToSetFacts
  <2> QED
    BY <1>2, <2>1, DataAppend
<1> HIDE DEF T
<1>3. Seq(Proxy!Kinds) \subseteq T
  BY <1>1, <1>2, SequencesAreAll
<1> QED
  BY <1>3 DEF T

-----------------------------------------------------------------------------
(* The calls.                                                                *)

\* The fields of a call.
Fields == {"at", "reply", "read", "cut", "chunks", "done", "status", "error", "out", "got",
           "gone", "record"}

\* What is passed on of the first m events.
Sent(k, m) == Proxy!Data(Proxy!Merged(SubSeq(k.reply.events, 1, m)))

\* What its handler has is within the answer it reads.
LocalsInv(k) ==
    /\ DOMAIN k = Fields
    /\ k.reply.events \in Seq(Proxy!Kinds) /\ k.status \in Nat
    /\ k.chunks \in Seq(Proxy!Kinds) /\ k.out \in Seq(Proxy!Kinds) /\ k.got \in Seq(Proxy!Kinds)
    /\ k.read \in Nat /\ k.read <= 2 * Len(k.reply.events) /\ k.cut = k.read \div 2
    /\ \E m \in 0 .. Len(k.reply.events) : k.chunks = Sent(k, m)

\* Before an answer there is nothing, and a record at the end only.
UnansweredInv(k) ==
    /\ k.at \in {"new", "opened", "asked", "unread"} =>
          k.chunks = <<>> /\ k.got = <<>> /\ k.out = <<>> /\ ~k.error /\ k.read = 0
    /\ k.at # "ended" => k.record.outcome = "none"

\* What was collected of a stream under way was or is being passed on.
PassedInv(k) ==
    /\ k.at \in {"reading", "yielding"} => k.chunks = Sent(k, k.cut)
    /\ k.at \in {"reading", "yielding", "flushing", "concluding"} =>
          /\ k.got \o k.out = k.chunks
          /\ k.error <=> "error" \in Proxy!ToSet(k.chunks)
    /\ k.at \in {"reading", "concluding"} => k.out = <<>>

\* The client is told of a failure by the last thing it gets.
LastInv(k) ==
    /\ k.at = "failing" => k.error /\ k.out = <<"error">>
    /\ k.at = "closing" =>
          \/ k.error /\ k.out = <<"error", "done">>
          \/ /\ ~k.error /\ k.out = <<"done">> /\ k.status < 400
             /\ Proxy!HasPayload(k.chunks) /\ k.got = k.chunks
             /\ "error" \notin Proxy!ToSet(k.chunks)

\* The client got what was kept.
Agreed(k) ==
    Proxy!HasPayload(k.got) /\ "error" \notin Proxy!ToSet(k.got) /\ Proxy!Data(k.got) = k.chunks

\* What a record says.
EndedInv(k) ==
    k.at = "ended" =>
       /\ k.record.outcome = "completed" /\ ~Proxy!Silent(k) => k.status < 400 /\ Agreed(k)
       /\ k.record.outcome = "error" => k.gone \/ "error" \in Proxy!ToSet(k.got)
       /\ k.record.outcome # "none" => k.record.content = k.chunks

\* Where a handler can be.
KindInv(c, k) ==
    /\ c \in Streamed =>
         k.at \in {"new", "opened", "reading", "concluding", "unread", "ended"}
                    \cup Proxy!Waiting
    /\ c \notin Streamed => k.at \in {"new", "asked", "ended"}

\* The invariant of one call.
CallInv(c, k) ==
    /\ KindInv(c, k) /\ LocalsInv(k) /\ UnansweredInv(k)
    /\ PassedInv(k) /\ LastInv(k) /\ EndedInv(k)

\* A runtime that was not released counts its streams under way.
Active(r) == {c \in Streamed : CallOf[c] = r /\ Proxy!UnderWay(call[c])}
CountInv ==
    /\ activity \in [Runtimes -> Nat]
    /\ \A r \in Runtimes \ released : activity[r] = Cardinality(Active(r))

\* The inductive invariant.
ProxyInv ==
    /\ DOMAIN call = Calls
    /\ \A c \in Calls : CallInv(c, call[c])
    /\ CountInv

\* The data of a beginning of an answer.
LEMMA SentFacts ==
    ASSUME NEW k, k.reply.events \in Seq(Proxy!Kinds)
    PROVE  /\ Sent(k, 0) = <<>>
           /\ \A m \in 0 .. Len(k.reply.events) :
                 /\ Sent(k, m) \in Seq(Proxy!Kinds) /\ "done" \notin Proxy!ToSet(Sent(k, m))
                 /\ Proxy!IsPrefix(Sent(k, m), Proxy!Merged(Proxy!Data(k.reply.events)))
                 /\ \A n \in m .. Len(k.reply.events) :
                       /\ SubSeq(k.reply.events, m + 1, n) \in Seq(Proxy!Kinds)
                       /\ Sent(k, n) = Sent(k, m)
                              \o Proxy!Data(Proxy!Merged(SubSeq(k.reply.events, m + 1, n)))
           /\ Sent(k, Len(k.reply.events)) = Proxy!Merged(Proxy!Data(k.reply.events))
<1> DEFINE e == k.reply.events
<1>1. Sent(k, 0) = <<>>
  <2>1. SubSeq(e, 1, 0) = <<>>
    BY SubSeqEmpty
  <2>2. Proxy!Merged(<<>>) = <<>>
    BY EmptySeq, MergedFacts
  <2> QED
    BY <2>1, <2>2, DataEmpty DEF Sent
<1>2. ASSUME NEW m \in 0 .. Len(e), NEW n \in m .. Len(e)
      PROVE  /\ SubSeq(e, 1, m) \in Seq(Proxy!Kinds) /\ SubSeq(e, m + 1, n) \in Seq(Proxy!Kinds)
             /\ SubSeq(e, 1, n) = SubSeq(e, 1, m) \o SubSeq(e, m + 1, n)
  <2>1. SubSeq(e, 1, m) \in Seq(Proxy!Kinds) /\ SubSeq(e, m + 1, n) \in Seq(Proxy!Kinds)
    BY SubSeqProperties
  <2>2. m \in 1 - 1 .. Len(e) /\ n \in m .. Len(e) /\ 1 \in 1 .. Len(e) + 1
    OBVIOUS
  <2>3. SubSeq(e, 1, m) \o SubSeq(e, m + 1, n) = SubSeq(e, 1, n)
    BY <2>2, ConcatAdjacentSubSeq
  <2> QED
    BY <2>1, <2>3
<1>3. ASSUME NEW m \in 0 .. Len(e), NEW n \in m .. Len(e)
      PROVE  Sent(k, n) = Sent(k, m) \o Proxy!Data(Proxy!Merged(SubSeq(e, m + 1, n)))
  <2>1. /\ Proxy!Merged(SubSeq(e, 1, m)) \in Seq(Proxy!Kinds)
        /\ Proxy!Merged(SubSeq(e, m + 1, n)) \in Seq(Proxy!Kinds)
        /\ Proxy!Merged(SubSeq(e, 1, n)) =
              Proxy!Merged(SubSeq(e, 1, m)) \o Proxy!Merged(SubSeq(e, m + 1, n))
    <3> DEFINE s == SubSeq(e, 1, m)
               t == SubSeq(e, m + 1, n)
    <3>1. s \in Seq(Proxy!Kinds) /\ t \in Seq(Proxy!Kinds) /\ SubSeq(e, 1, n) = s \o t
      BY <1>2
    <3> HIDE DEF s, t
    <3>2. /\ Proxy!Merged(s) \in Seq(Proxy!Kinds) /\ Proxy!Merged(t) \in Seq(Proxy!Kinds)
          /\ Proxy!Merged(s \o t) = Proxy!Merged(s) \o Proxy!Merged(t)
      BY <3>1, MergedFacts
    <3> QED
      BY <3>1, <3>2 DEF s, t
  <2> QED
    BY <2>1, DataConcat DEF Sent
<1>4. ASSUME NEW m \in 0 .. Len(e)
      PROVE  /\ Sent(k, m) \in Seq(Proxy!Kinds) /\ "done" \notin Proxy!ToSet(Sent(k, m))
  <2>1. m \in m .. Len(e)
    OBVIOUS
  <2>2. SubSeq(e, 1, m) \in Seq(Proxy!Kinds)
    BY <1>2, <2>1
  <2>3. Proxy!Merged(SubSeq(e, 1, m)) \in Seq(Proxy!Kinds)
    BY <2>2, MergedFacts
  <2> QED
    BY <2>3, DataType DEF Sent
<1>5. Sent(k, Len(e)) = Proxy!Merged(Proxy!Data(e))
  BY SubSeqFull, DataMerged DEF Sent
<1>6. ASSUME NEW m \in 0 .. Len(e) PROVE Proxy!IsPrefix(Sent(k, m), Proxy!Merged(Proxy!Data(e)))
  <2>1. Len(e) \in m .. Len(e) /\ Len(e) \in 0 .. Len(e)
    OBVIOUS
  <2> DEFINE rest == Proxy!Data(Proxy!Merged(SubSeq(e, m + 1, Len(e))))
  <2>2. Proxy!Merged(Proxy!Data(e)) = Sent(k, m) \o rest
    BY <1>3, <1>5, <2>1
  <2>3. rest \in Seq(Proxy!Kinds) /\ Sent(k, m) \in Seq(Proxy!Kinds)
    BY <1>2, <1>4, <2>1, MergedFacts, DataType
  <2> HIDE DEF rest
  <2>4. Proxy!IsPrefix(Sent(k, m), Sent(k, m) \o rest)
    BY <2>3 DEF Proxy!IsPrefix
  <2> QED
    BY <2>2, <2>4
<1> QED
  BY <1>1, <1>2, <1>3, <1>4, <1>5, <1>6

\* The record of a call is true when a failure was told and nothing else was.
LEMMA FinishedCall ==
    ASSUME NEW c, NEW k, LocalsInv(k), c \in Streamed,
           k.error \/ k.status >= 400 => k.gone \/ "error" \in Proxy!ToSet(k.got),
           ~ (k.error \/ k.status >= 400) => Agreed(k)
    PROVE  CallInv(c, [k EXCEPT !.at = "ended", !.out = <<>>,
                                !.record = Proxy!Recorded(k, k.error \/ k.status >= 400)])
<1> DEFINE t == [k EXCEPT !.at = "ended", !.out = <<>>,
                          !.record = Proxy!Recorded(k, k.error \/ k.status >= 400)]
<1>1. /\ DOMAIN t = Fields /\ t.at = "ended" /\ t.out = <<>>
      /\ t.record = Proxy!Recorded(k, k.error \/ k.status >= 400)
      /\ t.reply = k.reply /\ t.read = k.read /\ t.cut = k.cut /\ t.chunks = k.chunks
      /\ t.status = k.status /\ t.error = k.error /\ t.got = k.got /\ t.gone = k.gone
  BY DEF LocalsInv, Fields
<1>2. /\ t.record.outcome = "none"
         \/ t.record.outcome = IF k.error \/ k.status >= 400 THEN "error" ELSE "completed"
      /\ t.record.outcome # "none" => t.record.content = k.chunks
  BY <1>1 DEF Proxy!Recorded, Proxy!Unrecorded
<1> HIDE DEF t
<1>3. LocalsInv(t)
  BY <1>1, EmptySeq DEF LocalsInv, Sent
<1>4. EndedInv(t)
  BY <1>1, <1>2 DEF EndedInv, Agreed, LocalsInv
<1>5. CallInv(c, t)
  BY <1>1, <1>3, <1>4 DEF CallInv, KindInv, UnansweredInv, PassedInv, LastInv
<1> QED
  BY <1>5 DEF t

\* One call moves.
LEMMA CallStep ==
    ASSUME ProxyInv, NEW c \in Calls, NEW k, call' = [call EXCEPT ![c] = k], CallInv(c, k),
           CountInv'
    PROVE  ProxyInv'
<1>1. DOMAIN call' = Calls /\ \A d \in Calls : call'[d] = IF d = c THEN k ELSE call[d]
  BY DEF ProxyInv
<1>2. \A d \in Calls : CallInv(d, call'[d])
  BY <1>1 DEF ProxyInv
<1> QED
  BY <1>1, <1>2 DEF ProxyInv

\* The activity is right when nothing else is under way than before.
LEMMA CountStays ==
    ASSUME CountInv, UNCHANGED activity, released \subseteq released',
           \A d \in Streamed : Proxy!UnderWay(call'[d]) <=> Proxy!UnderWay(call[d])
    PROVE  CountInv'
<1>1. \A r : {c \in Streamed : CallOf[c] = r /\ Proxy!UnderWay(call'[c])} = Active(r)
  BY DEF Active
<1> QED
  BY <1>1 DEF CountInv, Active

\* A step of one call that leaves the activity alone.
LEMMA GoStep ==
    ASSUME Proxy!ReplyAssumption, ProxyInv, NEW c \in Calls, NEW k, Proxy!Go(c, k),
           CallInv(c, k),
           c \in Streamed => (Proxy!UnderWay(k) <=> Proxy!UnderWay(call[c]))
    PROVE  ProxyInv'
<1>1. call' = [call EXCEPT ![c] = k] /\ UNCHANGED <<activity, released>>
  BY DEF Proxy!Go
<1>2. \A d \in Streamed : Proxy!UnderWay(call'[d]) <=> Proxy!UnderWay(call[d])
  BY <1>1 DEF ProxyInv, Proxy!ReplyAssumption
<1>3. CountInv'
  BY <1>1, <1>2, CountStays DEF ProxyInv
<1> QED
  BY <1>1, <1>3, CallStep

\* The activity of a stream ends with its record.
LEMMA FinishedStep ==
    ASSUME Proxy!ReplyAssumption, ProxyInv, NEW c \in Streamed, NEW k, Proxy!Finish(c, k),
           Proxy!UnderWay(call[c]), LocalsInv(k),
           k.error \/ k.status >= 400 => k.gone \/ "error" \in Proxy!ToSet(k.got),
           ~ (k.error \/ k.status >= 400) => Agreed(k)
    PROVE  ProxyInv'
<1> DEFINE t == [k EXCEPT !.at = "ended", !.out = <<>>,
                          !.record = Proxy!Recorded(k, k.error \/ k.status >= 400)]
<1>1. /\ call' = [call EXCEPT ![c] = t] /\ UNCHANGED released
      /\ activity' = [activity EXCEPT ![CallOf[c]] = IF @ > 0 THEN @ - 1 ELSE 0]
  BY DEF Proxy!Finish, Proxy!EndActivity
<1>2. CallInv(c, t)
  BY FinishedCall
<1>3. t.at = "ended"
  BY DEF LocalsInv, Fields
<1> HIDE DEF t
<1>4. c \in Calls /\ CallOf[c] \in Runtimes /\ IsFiniteSet(Streamed)
  BY SameFinite DEF Proxy!ReplyAssumption
<1>5. \A d \in Streamed : call'[d] = IF d = c THEN t ELSE call[d]
  BY <1>1 DEF ProxyInv, Proxy!ReplyAssumption
<1>6. ASSUME NEW r \in Runtimes \ released'
      PROVE  activity'[r] = Cardinality(
                {d \in Streamed : CallOf[d] = r /\ Proxy!UnderWay(call'[d])})
  <2> DEFINE S == {d \in Streamed : CallOf[d] = r /\ Proxy!UnderWay(call'[d])}
  <2>1. activity[r] = Cardinality(Active(r)) /\ activity \in [Runtimes -> Nat]
    BY <1>1, <1>6 DEF ProxyInv, CountInv
  <2>2. IsFiniteSet(Active(r))
    BY <1>4, FS_Subset DEF Active
  <2>3. CASE r = CallOf[c]
    <3>1. S = Active(r) \ {c} /\ c \in Active(r)
      BY <1>3, <1>5, <2>3 DEF Active, Proxy!UnderWay
    <3>2. Cardinality(S) = Cardinality(Active(r)) - 1 /\ Cardinality(S) \in Nat
      BY <2>2, <3>1, FS_RemoveElement, FS_CardinalityType
    <3>3. Cardinality(Active(r)) \in Nat
      BY <2>2, FS_CardinalityType
    <3> HIDE DEF S
    <3>4. activity'[r] = activity[r] - 1
      BY <1>1, <2>1, <2>3, <3>2, <3>3
    <3> QED
      BY <2>1, <3>2, <3>4 DEF S
  <2>4. CASE r # CallOf[c]
    <3>1. S = Active(r)
      BY <1>5, <2>4 DEF Active
    <3>2. activity'[r] = activity[r]
      BY <1>1, <2>1, <2>4
    <3> QED
      BY <2>1, <3>1, <3>2
  <2> QED
    BY <2>3, <2>4
<1>7. activity' \in [Runtimes -> Nat]
  BY <1>1, <1>4 DEF ProxyInv, CountInv
<1>8. CountInv'
  BY <1>6, <1>7 DEF CountInv, Active
<1> QED
  BY <1>1, <1>2, <1>4, <1>8, CallStep

-----------------------------------------------------------------------------
(* The steps of a stream.                                                    *)

\* A stream begins, and the activity counts it.
LEMMA OpenStep ==
    ASSUME Proxy!ReplyAssumption, ProxyInv, NEW c \in Calls, Proxy!Open(c)
    PROVE  ProxyInv'
<1> DEFINE k == [call[c] EXCEPT !.at = "opened"]
<1>0. /\ CallInv(c, call[c]) /\ call[c].at = "new" /\ c \in Streamed
      /\ IsFiniteSet(Streamed) /\ CallOf[c] \in Runtimes
  BY SameFinite DEF ProxyInv, Proxy!Open, Proxy!ReplyAssumption
<1>1. /\ call' = [call EXCEPT ![c] = k] /\ UNCHANGED released
      /\ activity' = [activity EXCEPT ![CallOf[c]] = @ + 1]
  BY DEF Proxy!Open
<1>2. /\ DOMAIN k = Fields /\ k.at = "opened" /\ k.reply = call[c].reply
      /\ k.read = call[c].read
      /\ k.cut = call[c].cut /\ k.chunks = call[c].chunks /\ k.status = call[c].status
      /\ k.error = call[c].error /\ k.out = call[c].out /\ k.got = call[c].got
      /\ k.record = call[c].record
  BY <1>0 DEF CallInv, LocalsInv, Fields
<1> HIDE DEF k
<1>3. CallInv(c, k)
  BY <1>0, <1>2 DEF CallInv, KindInv, LocalsInv, Sent, UnansweredInv, PassedInv, LastInv,
     EndedInv
<1>4. \A d \in Streamed : call'[d] = IF d = c THEN k ELSE call[d]
  BY <1>1 DEF ProxyInv, Proxy!ReplyAssumption
<1>5. ASSUME NEW r \in Runtimes \ released'
      PROVE  activity'[r] = Cardinality(
                {d \in Streamed : CallOf[d] = r /\ Proxy!UnderWay(call'[d])})
  <2> DEFINE S == {d \in Streamed : CallOf[d] = r /\ Proxy!UnderWay(call'[d])}
  <2>1. activity[r] = Cardinality(Active(r)) /\ activity \in [Runtimes -> Nat]
    BY <1>1, <1>5 DEF ProxyInv, CountInv
  <2>2. IsFiniteSet(Active(r))
    BY <1>0, FS_Subset DEF Active
  <2>3. CASE r = CallOf[c]
    <3>1. S = Active(r) \cup {c} /\ c \notin Active(r)
      BY <1>0, <1>2, <1>4, <2>3 DEF Active, Proxy!UnderWay
    <3>2. Cardinality(S) = Cardinality(Active(r)) + 1
      BY <2>2, <3>1, FS_AddElement
    <3> HIDE DEF S
    <3>3. activity'[r] = activity[r] + 1
      BY <1>1, <2>1, <2>3
    <3> QED
      BY <2>1, <3>2, <3>3 DEF S
  <2>4. CASE r # CallOf[c]
    <3>1. S = Active(r)
      BY <1>4, <2>4 DEF Active
    <3>2. activity'[r] = activity[r]
      BY <1>1, <2>1, <2>4
    <3> QED
      BY <2>1, <3>1, <3>2
  <2> QED
    BY <2>3, <2>4
<1>6. activity' \in [Runtimes -> Nat]
  BY <1>0, <1>1 DEF ProxyInv, CountInv
<1>7. CountInv'
  BY <1>5, <1>6 DEF CountInv, Active
<1> QED
  BY <1>1, <1>3, <1>7, CallStep

\* A stream that is never read.
LEMMA NeverReadStep ==
    ASSUME Proxy!ReplyAssumption, ProxyInv, NEW c \in Calls, Proxy!NeverRead(c)
    PROVE  ProxyInv'
<1> DEFINE k == [call[c] EXCEPT !.at = "unread", !.gone = TRUE]
<1>0. CallInv(c, call[c]) /\ call[c].at = "opened" /\ c \in Streamed /\ Proxy!Go(c, k)
  BY DEF ProxyInv, Proxy!NeverRead, CallInv, KindInv
<1>1. /\ DOMAIN k = Fields /\ k.at = "unread" /\ k.reply = call[c].reply
      /\ k.read = call[c].read
      /\ k.cut = call[c].cut /\ k.chunks = call[c].chunks /\ k.status = call[c].status
      /\ k.error = call[c].error /\ k.out = call[c].out /\ k.got = call[c].got
      /\ k.record = call[c].record
  BY <1>0 DEF CallInv, LocalsInv, Fields
<1> HIDE DEF k
<1>2. CallInv(c, k)
  BY <1>0, <1>1 DEF CallInv, KindInv, LocalsInv, Sent, UnansweredInv, PassedInv, LastInv,
     EndedInv
<1>3. Proxy!UnderWay(k) <=> Proxy!UnderWay(call[c])
  BY <1>0, <1>1 DEF Proxy!UnderWay
<1> QED
  BY <1>0, <1>2, <1>3, GoStep

\* The provider answers.
LEMMA ConnectStep ==
    ASSUME Proxy!ReplyAssumption, ProxyInv, NEW c \in Calls, Proxy!Connect(c)
    PROVE  ProxyInv'
<1>1. PICK r \in Replies[c] :
         Proxy!Go(c, [call[c] EXCEPT !.at = "reading", !.reply = r, !.status = r.status])
  BY DEF Proxy!Connect
<1> DEFINE k == [call[c] EXCEPT !.at = "reading", !.reply = r, !.status = r.status]
<1>0. CallInv(c, call[c]) /\ call[c].at = "opened" /\ c \in Streamed /\ Proxy!Go(c, k)
  BY <1>1 DEF ProxyInv, Proxy!Connect, CallInv, KindInv
<1>2. r.events \in Seq(Proxy!Kinds) /\ r.status \in Nat
  BY DEF Proxy!ReplyAssumption
<1>3. /\ DOMAIN k = Fields /\ k.at = "reading" /\ k.reply = r /\ k.read = call[c].read
      /\ k.cut = call[c].cut /\ k.chunks = call[c].chunks /\ k.status = r.status
      /\ k.error = call[c].error /\ k.out = call[c].out /\ k.got = call[c].got
      /\ k.record = call[c].record
  BY <1>0 DEF CallInv, LocalsInv, Fields
<1>4. /\ call[c].chunks = <<>> /\ call[c].got = <<>> /\ call[c].out = <<>> /\ ~call[c].error
      /\ call[c].read = 0 /\ call[c].cut = 0 /\ call[c].record.outcome = "none"
  BY <1>0 DEF CallInv, UnansweredInv, LocalsInv
<1> HIDE DEF k
<1>5. Sent(k, 0) = <<>>
  BY <1>2, <1>3, SentFacts
<1>6. LocalsInv(k)
  <2>1. k.read = 0 /\ k.cut = 0 \div 2 /\ 0 \in 0 .. Len(k.reply.events)
    BY <1>2, <1>3, <1>4
  <2> QED
    BY <1>2, <1>3, <1>4, <1>5, <2>1, EmptySeq DEF LocalsInv
<1>7. PassedInv(k)
  <2>1. <<>> \o <<>> = <<>> /\ Proxy!ToSet(<<>>) = {}
    BY EmptySeq, ConcatEmptySeq, ToSetFacts
  <2> QED
    BY <1>3, <1>4, <1>5, <2>1 DEF PassedInv
<1>8. CallInv(c, k)
  BY <1>0, <1>3, <1>4, <1>6, <1>7 DEF CallInv, KindInv, UnansweredInv, LastInv, EndedInv
<1>9. Proxy!UnderWay(k) <=> Proxy!UnderWay(call[c])
  BY <1>0, <1>3 DEF Proxy!UnderWay
<1> QED
  BY <1>0, <1>8, <1>9, GoStep

\* An event is two halves.
LEMMA Halves ==
    ASSUME NEW r \in Nat, NEW L \in Nat, r <= 2 * L
    PROVE  r \div 2 \in 0 .. L /\ (r % 2 = 1 => r \div 2 + 1 \in 0 .. L)
  OBVIOUS

\* What Take does.
LEMMA TakeFacts ==
    ASSUME NEW k, DOMAIN k = Fields, NEW events, NEW t, t = Proxy!Take(k, events)
    PROVE  /\ DOMAIN t = Fields /\ t.chunks = k.chunks \o Proxy!Data(events)
           /\ t.out = Proxy!Data(events)
           /\ t.error <=> k.error \/ "error" \in Proxy!ToSet(events)
           /\ t.at = k.at /\ t.reply = k.reply /\ t.read = k.read /\ t.cut = k.cut
           /\ t.status = k.status /\ t.got = k.got /\ t.gone = k.gone /\ t.record = k.record
  BY DEF Proxy!Take, Fields

\* Some more events are collected and passed on.
LEMMA TakeStep ==
    ASSUME Proxy!ReplyAssumption, ProxyInv, NEW c \in Calls, call[c].at = "reading",
           NEW k, DOMAIN k = Fields, k.reply = call[c].reply, k.status = call[c].status,
           k.chunks = call[c].chunks, k.got = call[c].got, k.error = call[c].error,
           k.record = call[c].record,
           k.read \in Nat, k.read <= 2 * Len(k.reply.events), k.cut = k.read \div 2,
           NEW n \in call[c].cut .. Len(k.reply.events), NEW a,
           (a \in {"reading", "yielding"} /\ n = k.cut) \/ a \in {"concluding", "flushing"},
           LET t == Proxy!Take(k, Proxy!Merged(SubSeq(k.reply.events, call[c].cut + 1, n)))
           IN  /\ a \in {"reading", "concluding"} => t.out = <<>>
               /\ Proxy!Go(c, [t EXCEPT !.at = a])
    PROVE  ProxyInv'
<1> DEFINE new == Proxy!Merged(SubSeq(k.reply.events, call[c].cut + 1, n))
           t == Proxy!Take(k, new)
           u == [t EXCEPT !.at = a]
<1>0. CallInv(c, call[c]) /\ c \in Streamed
  BY DEF ProxyInv, CallInv, KindInv
<1>1. /\ k.reply.events \in Seq(Proxy!Kinds) /\ call[c].chunks = Sent(k, call[c].cut)
      /\ call[c].cut \in 0 .. Len(k.reply.events) /\ call[c].out = <<>>
      /\ call[c].got \in Seq(Proxy!Kinds) /\ call[c].got = call[c].chunks
      /\ call[c].record.outcome = "none" /\ call[c].status \in Nat
      /\ call[c].error <=> "error" \in Proxy!ToSet(call[c].chunks)
  <2>1. call[c].got \o <<>> = call[c].got
    BY <1>0, ConcatEmptySeq DEF CallInv, LocalsInv
  <2>2. call[c].cut \in 0 .. Len(k.reply.events)
    <3>1. /\ call[c].read \in Nat /\ Len(k.reply.events) \in Nat
          /\ call[c].read <= 2 * Len(k.reply.events) /\ call[c].cut = call[c].read \div 2
      BY <1>0 DEF CallInv, LocalsInv
    <3> QED
      BY <3>1, Halves
  <2> QED
    BY <1>0, <2>1, <2>2 DEF CallInv, LocalsInv, PassedInv, UnansweredInv, Sent
<1>2. /\ new \in Seq(Proxy!Kinds) /\ Proxy!Data(new) \in Seq(Proxy!Kinds)
      /\ Sent(k, n) = Sent(k, call[c].cut) \o Proxy!Data(new)
      /\ Sent(k, n) \in Seq(Proxy!Kinds)
  <2>1. n \in 0 .. Len(k.reply.events)
    BY <1>1
  <2>2. /\ SubSeq(k.reply.events, call[c].cut + 1, n) \in Seq(Proxy!Kinds)
        /\ Sent(k, n) = Sent(k, call[c].cut) \o Proxy!Data(new)
        /\ Sent(k, n) \in Seq(Proxy!Kinds)
    BY <1>1, <2>1, SentFacts
  <2> QED
    BY <2>2, MergedFacts, DataType
<1>3. Proxy!ToSet(Sent(k, n)) = Proxy!ToSet(call[c].chunks) \cup (Proxy!ToSet(new) \ {"done"})
  <2>1. Sent(k, call[c].cut) \in Seq(Proxy!Kinds)
    BY <1>1, SentFacts
  <2>2. Proxy!ToSet(Proxy!Data(new)) = Proxy!ToSet(new) \ {"done"}
    BY <1>2, DataType
  <2> HIDE DEF new
  <2>3. Proxy!ToSet(Sent(k, call[c].cut) \o Proxy!Data(new)) =
           Proxy!ToSet(Sent(k, call[c].cut)) \cup Proxy!ToSet(Proxy!Data(new))
    BY <1>2, <2>1, ToSetFacts
  <2> QED
    BY <1>1, <1>2, <2>2, <2>3
<1> HIDE DEF new
<1>4. /\ DOMAIN t = Fields /\ t.chunks = Sent(k, n) /\ t.out = Proxy!Data(new)
      /\ t.error <=> "error" \in Proxy!ToSet(Sent(k, n))
      /\ t.reply = k.reply /\ t.read = k.read /\ t.cut = k.cut
      /\ t.status = k.status /\ t.got = k.got /\ t.record = k.record
  <2>1. /\ DOMAIN t = Fields /\ t.chunks = k.chunks \o Proxy!Data(new)
        /\ t.out = Proxy!Data(new)
        /\ t.error <=> k.error \/ "error" \in Proxy!ToSet(new)
        /\ t.reply = k.reply /\ t.read = k.read /\ t.cut = k.cut
        /\ t.status = k.status /\ t.got = k.got /\ t.record = k.record
    BY DEF Proxy!Take, Fields
  <2> HIDE DEF t
  <2> QED
    BY <1>1, <1>2, <1>3, <2>1
<1>5. (a \in {"reading", "concluding"} => t.out = <<>>) /\ Proxy!Go(c, u)
  BY DEF new
<1> HIDE DEF t
<1>6. /\ DOMAIN u = Fields /\ u.at = a /\ u.chunks = Sent(k, n) /\ u.out = Proxy!Data(new)
      /\ u.error <=> "error" \in Proxy!ToSet(u.chunks)
      /\ u.reply = k.reply /\ u.read = k.read /\ u.cut = k.cut
      /\ u.status = k.status /\ u.got = k.got /\ u.record = k.record
      /\ a \in {"reading", "concluding"} => u.out = <<>>
  BY <1>4, <1>5 DEF Fields
<1> HIDE DEF u
<1>7. LocalsInv(u)
  <2>1. n \in 0 .. Len(k.reply.events) /\ u.chunks = Sent(u, n)
    BY <1>1, <1>6 DEF Sent
  <2> QED
    BY <1>1, <1>2, <1>6, <2>1 DEF LocalsInv
<1>8. PassedInv(u)
  <2>1. u.got \o u.out = u.chunks
    BY <1>1, <1>2, <1>6
  <2>2. a \in {"reading", "yielding"} => u.chunks = Sent(u, u.cut)
    BY <1>6 DEF Sent
  <2> QED
    BY <1>6, <2>1, <2>2 DEF PassedInv
<1>9. CallInv(c, u)
  BY <1>0, <1>1, <1>6, <1>7, <1>8 DEF CallInv, KindInv, UnansweredInv, LastInv, EndedInv,
     Proxy!Waiting
<1>10. Proxy!UnderWay(u) <=> Proxy!UnderWay(call[c])
  BY <1>6 DEF Proxy!UnderWay
<1> QED
  BY <1>5, <1>9, <1>10, GoStep

\* Events arrive.
LEMMA ChunkStep ==
    ASSUME Proxy!ReplyAssumption, ProxyInv, NEW c \in Calls, Proxy!Chunk(c)
    PROVE  ProxyInv'
<1> DEFINE h == call[c]
<1>1. CallInv(c, h) /\ h.at = "reading" /\ c \in Streamed
  BY DEF ProxyInv, Proxy!Chunk, CallInv, KindInv
<1>2. PICK n \in h.read + 1 .. 2 * Len(h.reply.events) :
         LET t == Proxy!Take([h EXCEPT !.read = n, !.cut = Proxy!CutTo(h, n)],
                            Proxy!Whole(h, n)) IN
         Proxy!Go(c, [t EXCEPT !.at = IF t.out = <<>> THEN "reading" ELSE "yielding"])
  BY DEF Proxy!Chunk
<1> DEFINE k == [h EXCEPT !.read = n, !.cut = Proxy!CutTo(h, n)]
           m == n \div 2
<1>3. /\ DOMAIN k = Fields /\ k.reply = h.reply /\ k.status = h.status /\ k.chunks = h.chunks
      /\ k.got = h.got /\ k.error = h.error /\ k.record = h.record /\ k.read = n /\ k.cut = m
  BY <1>1 DEF CallInv, LocalsInv, Fields, Proxy!CutTo
<1>4. /\ n \in Nat /\ n <= 2 * Len(h.reply.events) /\ Len(h.reply.events) \in Nat
      /\ h.read \in Nat /\ h.read < n /\ h.cut = h.read \div 2
  <2>1. h.reply.events \in Seq(Proxy!Kinds) /\ h.read \in Nat /\ h.cut = h.read \div 2
    BY <1>1 DEF CallInv, LocalsInv
  <2>2. Len(h.reply.events) \in Nat
    BY <2>1
  <2> HIDE DEF h
  <2> QED
    BY <2>1, <2>2
<1>5. m \in h.cut .. Len(h.reply.events)
  BY <1>4
<1>6. Proxy!Whole(h, n) = Proxy!Merged(SubSeq(k.reply.events, h.cut + 1, m))
  BY <1>3 DEF Proxy!Whole
<1> HIDE DEF k
<1> DEFINE t == Proxy!Take(k, Proxy!Whole(h, n))
           a == IF t.out = <<>> THEN "reading" ELSE "yielding"
<1>7. Proxy!Go(c, [t EXCEPT !.at = a])
  BY <1>2 DEF k
<1>8. /\ a \in {"reading", "yielding"} /\ m = k.cut
      /\ a \in {"reading", "concluding"} => t.out = <<>>
  BY <1>3
<1> HIDE DEF a
<1>9. LET u == Proxy!Take(k, Proxy!Merged(SubSeq(k.reply.events, h.cut + 1, m)))
      IN  /\ a \in {"reading", "concluding"} => u.out = <<>>
          /\ Proxy!Go(c, [u EXCEPT !.at = a])
  BY <1>6, <1>7, <1>8
<1> HIDE DEF m
<1> QED
  BY <1>1, <1>3, <1>4, <1>5, <1>8, <1>9, TakeStep DEF m

\* The answer ends, with what is left in the buffer.
LEMMA UpstreamEndsStep ==
    ASSUME Proxy!ReplyAssumption, ProxyInv, NEW c \in Calls, Proxy!UpstreamEnds(c)
    PROVE  ProxyInv'
<1> DEFINE k == call[c]
           Left == {<<>>} \cup (IF k.read % 2 = 1 THEN {<<k.reply.events[k.cut + 1]>>} ELSE {})
<1>1. CallInv(c, k) /\ k.at = "reading" /\ c \in Streamed
  BY DEF ProxyInv, Proxy!UpstreamEnds, CallInv, KindInv
<1>2. PICK left \in Left :
         LET t == Proxy!Take(k, Proxy!Merged(left)) IN
         Proxy!Go(c, [t EXCEPT !.at = IF t.out = <<>> THEN "concluding" ELSE "flushing"])
  BY DEF Proxy!UpstreamEnds
<1>3. /\ DOMAIN k = Fields /\ k.reply.events \in Seq(Proxy!Kinds) /\ Len(k.reply.events) \in Nat
      /\ k.read \in Nat /\ k.read <= 2 * Len(k.reply.events) /\ k.cut = k.read \div 2
  BY <1>1 DEF CallInv, LocalsInv
<1>4. PICK m \in k.cut .. Len(k.reply.events) : left = SubSeq(k.reply.events, k.cut + 1, m)
  <2>1. k.cut \in 0 .. Len(k.reply.events)
    BY <1>3, Halves
  <2>2. CASE left = <<>>
    <3>1. SubSeq(k.reply.events, k.cut + 1, k.cut) = <<>>
      BY <2>1, SubSeqEmpty
    <3> QED
      BY <2>1, <2>2, <3>1
  <2>3. CASE left # <<>>
    <3>1. k.read % 2 = 1 /\ left = <<k.reply.events[k.cut + 1]>>
      BY <2>3
    <3>2. k.cut + 1 \in 1 .. Len(k.reply.events)
      <4>1. k.cut + 1 \in 0 .. Len(k.reply.events)
        BY <1>3, <3>1, Halves
      <4> QED
        BY <1>3, <2>1, <4>1
    <3>3. SubSeq(k.reply.events, k.cut + 1, k.cut + 1) = <<k.reply.events[k.cut + 1]>>
      <4> DEFINE e == k.reply.events
                 i == k.cut + 1
      <4>1. i \in 1 .. Len(e) /\ e \in Seq(Proxy!Kinds) /\ i \in Int
        BY <1>3, <3>2
      <4> HIDE DEF e, i
      <4>2. e[i] \in Proxy!Kinds /\ \A j \in i .. i : e[j] \in Proxy!Kinds
        BY <4>1
      <4>3. /\ SubSeq(e, i, i) \in Seq(Proxy!Kinds) /\ Len(SubSeq(e, i, i)) = 1
            /\ SubSeq(e, i, i)[1] = e[i]
        BY <4>1, <4>2, SubSeqProperties
      <4>4. <<e[i]>> \in Seq(Proxy!Kinds) /\ Len(<<e[i]>>) = 1 /\ <<e[i]>>[1] = e[i]
        BY <4>2
      <4>5. \A j \in 1 .. 1 : SubSeq(e, i, i)[j] = <<e[i]>>[j]
        BY <4>3
      <4>6. SubSeq(e, i, i) = <<e[i]>>
        BY <4>3, <4>4, <4>5, SeqEqual
      <4> QED
        BY <4>6 DEF e, i
    <3>4. k.cut + 1 \in k.cut .. Len(k.reply.events)
      BY <2>1, <3>2
    <3> QED
      BY <3>1, <3>3, <3>4
  <2> QED
    BY <2>2, <2>3
<1> DEFINE t == Proxy!Take(k, Proxy!Merged(left))
           a == IF t.out = <<>> THEN "concluding" ELSE "flushing"
<1>5. Proxy!Go(c, [t EXCEPT !.at = a])
  BY <1>2
<1>6. a \in {"concluding", "flushing"} /\ (a \in {"reading", "concluding"} => t.out = <<>>)
  OBVIOUS
<1> HIDE DEF a
<1>7. LET u == Proxy!Take(k, Proxy!Merged(SubSeq(k.reply.events, k.cut + 1, m)))
      IN  /\ a \in {"reading", "concluding"} => u.out = <<>>
          /\ Proxy!Go(c, [u EXCEPT !.at = a])
  BY <1>4, <1>5, <1>6
<1> QED
  BY <1>1, <1>3, <1>4, <1>6, <1>7, TakeStep

\* The connection fails, and the client is told.
LEMMA UpstreamFailsStep ==
    ASSUME Proxy!ReplyAssumption, ProxyInv, NEW c \in Calls, Proxy!UpstreamFails(c)
    PROVE  ProxyInv'
<1> DEFINE k == [call[c] EXCEPT !.at = "failing", !.status = 502, !.error = TRUE,
                                !.out = <<"error">>]
<1>0. /\ CallInv(c, call[c]) /\ call[c].at \in {"opened", "reading"}
      /\ c \in Streamed /\ Proxy!Go(c, k)
  BY DEF ProxyInv, Proxy!UpstreamFails, CallInv, KindInv
<1>1. /\ DOMAIN k = Fields /\ k.at = "failing" /\ k.reply = call[c].reply
      /\ k.read = call[c].read
      /\ k.cut = call[c].cut /\ k.chunks = call[c].chunks /\ k.status = 502
      /\ k.error /\ k.out = <<"error">> /\ k.got = call[c].got
      /\ k.record = call[c].record
  BY <1>0 DEF CallInv, LocalsInv, Fields
<1> HIDE DEF k
<1>2. <<"error">> \in Seq(Proxy!Kinds)
  BY DEF Proxy!Kinds
<1>3. CallInv(c, k)
  BY <1>0, <1>1, <1>2 DEF CallInv, KindInv, LocalsInv, Sent, UnansweredInv, PassedInv, LastInv,
     EndedInv,
     Proxy!Waiting
<1>4. Proxy!UnderWay(k) <=> Proxy!UnderWay(call[c])
  BY <1>0, <1>1 DEF Proxy!UnderWay
<1> QED
  BY <1>0, <1>3, <1>4, GoStep

\* What is kept has no markers.
LEMMA ChunksAreData ==
    ASSUME NEW k, LocalsInv(k)
    PROVE  "done" \notin Proxy!ToSet(k.chunks) /\ Proxy!Data(k.chunks) = k.chunks
<1>1. PICK m \in 0 .. Len(k.reply.events) : k.chunks = Sent(k, m)
  BY DEF LocalsInv
<1>2. "done" \notin Proxy!ToSet(k.chunks) /\ k.chunks \in Seq(Proxy!Kinds)
  BY <1>1, SentFacts DEF LocalsInv
<1> QED
  BY <1>2, DataOfData

\* The stream concludes: an error, a marker or the record.
LEMMA ConcludeStep ==
    ASSUME Proxy!ReplyAssumption, ProxyInv, NEW c \in Calls, Proxy!Conclude(c)
    PROVE  ProxyInv'
<1> DEFINE k == call[c]
<1>0. CallInv(c, k) /\ k.at = "concluding" /\ c \in Streamed
  BY DEF ProxyInv, Proxy!Conclude, CallInv, KindInv
<1>1. k.got = k.chunks /\ (k.error <=> "error" \in Proxy!ToSet(k.chunks))
  <2>1. k.got \o <<>> = k.chunks /\ k.got \in Seq(Proxy!Kinds)
    BY <1>0 DEF CallInv, PassedInv, LocalsInv
  <2> QED
    BY <1>0, <2>1, ConcatEmptySeq DEF CallInv, PassedInv
<1>2. LocalsInv(k) /\ k.record.outcome = "none"
  BY <1>0 DEF CallInv, UnansweredInv
<1>3. CASE ~k.error /\ Proxy!Refused(k)
  <2> DEFINE u == [k EXCEPT !.at = "closing", !.error = TRUE, !.done = FALSE,
                            !.out = <<"error", "done">>]
  <2>1. Proxy!Go(c, u)
    BY <1>3 DEF Proxy!Conclude
  <2>2. /\ DOMAIN u = Fields /\ u.at = "closing" /\ u.reply = k.reply /\ u.read = k.read
        /\ u.cut = k.cut /\ u.chunks = k.chunks /\ u.status = k.status
        /\ u.error /\ u.out = <<"error", "done">> /\ u.got = k.got /\ u.record = k.record
    BY <1>2 DEF LocalsInv, Fields
  <2> HIDE DEF u
  <2>3. <<"error", "done">> \in Seq(Proxy!Kinds)
    BY DEF Proxy!Kinds
  <2>4. LocalsInv(u)
    BY <1>2, <2>2, <2>3 DEF LocalsInv, Sent
  <2>5. CallInv(c, u)
    BY <1>0, <1>2, <2>2, <2>4 DEF CallInv, KindInv, UnansweredInv, PassedInv, LastInv,
       EndedInv, Proxy!Waiting
  <2>6. Proxy!UnderWay(u) <=> Proxy!UnderWay(call[c])
    BY <1>0, <2>2 DEF Proxy!UnderWay
  <2> QED
    BY <2>1, <2>5, <2>6, GoStep
<1>4. CASE ~k.error /\ ~Proxy!Refused(k) /\ k.done
  <2> DEFINE u == [k EXCEPT !.at = "closing", !.out = <<"done">>]
  <2>1. Proxy!Go(c, u)
    BY <1>4 DEF Proxy!Conclude
  <2>2. /\ DOMAIN u = Fields /\ u.at = "closing" /\ u.reply = k.reply /\ u.read = k.read
        /\ u.cut = k.cut /\ u.chunks = k.chunks /\ u.status = k.status
        /\ u.error = k.error /\ u.out = <<"done">> /\ u.got = k.got /\ u.record = k.record
    BY <1>2 DEF LocalsInv, Fields
  <2> HIDE DEF u
  <2>3. <<"done">> \in Seq(Proxy!Kinds)
    BY DEF Proxy!Kinds
  <2>4. LocalsInv(u)
    BY <1>2, <2>2, <2>3 DEF LocalsInv, Sent
  <2>5. k.status < 400 /\ Proxy!HasPayload(k.chunks)
    BY <1>2, <1>4 DEF Proxy!Refused, LocalsInv
  <2>6. LastInv(u)
    BY <1>1, <1>4, <2>2, <2>5 DEF LastInv
  <2>7. CallInv(c, u)
    BY <1>0, <1>2, <2>2, <2>4, <2>6 DEF CallInv, KindInv, UnansweredInv, PassedInv, EndedInv,
       Proxy!Waiting
  <2>8. Proxy!UnderWay(u) <=> Proxy!UnderWay(call[c])
    BY <1>0, <2>2 DEF Proxy!UnderWay
  <2> QED
    BY <2>1, <2>7, <2>8, GoStep
<1>5. CASE Proxy!Finish(c, k) /\ (k.error \/ ~Proxy!Refused(k))
  <2>1. Proxy!Data(k.chunks) = k.chunks /\ k.status \in Nat
    BY <1>2, ChunksAreData DEF LocalsInv
  <2>2. k.error \/ k.status >= 400 => "error" \in Proxy!ToSet(k.got)
    BY <1>1, <1>5 DEF Proxy!Refused
  <2>3. ~ (k.error \/ k.status >= 400) => Agreed(k)
    BY <1>1, <1>5, <2>1 DEF Proxy!Refused, Agreed
  <2>4. Proxy!UnderWay(call[c])
    BY <1>0 DEF Proxy!UnderWay
  <2> QED
    BY <1>0, <1>2, <1>5, <2>2, <2>3, <2>4, FinishedStep
<1> QED
  BY <1>3, <1>4, <1>5 DEF Proxy!Conclude

\* The client takes what was yielded.
LEMMA DeliveredStep ==
    ASSUME Proxy!ReplyAssumption, ProxyInv, NEW c \in Calls, Proxy!Delivered(c)
    PROVE  ProxyInv'
<1> DEFINE k == call[c]
           d == [k EXCEPT !.got = @ \o k.out, !.out = <<>>]
<1>0. /\ CallInv(c, k) /\ c \in Streamed /\ LocalsInv(k) /\ Proxy!UnderWay(k)
      /\ k.at \in {"yielding", "flushing", "failing", "closing"} /\ k.record.outcome = "none"
  BY DEF ProxyInv, Proxy!Delivered, CallInv, KindInv, Proxy!UnderWay, UnansweredInv
<1>1. /\ DOMAIN d = Fields /\ d.at = k.at /\ d.reply = k.reply /\ d.read = k.read
      /\ d.cut = k.cut /\ d.chunks = k.chunks /\ d.status = k.status
      /\ d.error = k.error /\ d.out = <<>> /\ d.got = k.got \o k.out /\ d.record = k.record
  BY <1>0 DEF LocalsInv, Fields
<1>2. k.got \in Seq(Proxy!Kinds) /\ k.out \in Seq(Proxy!Kinds) /\ d.got \in Seq(Proxy!Kinds)
  BY <1>0, <1>1 DEF LocalsInv
<1>3. /\ \/ k.at = "yielding" /\ Proxy!Go(c, [d EXCEPT !.at = "reading"])
         \/ k.at = "flushing" /\ Proxy!Go(c, [d EXCEPT !.at = "concluding"])
         \/ k.at \in {"failing", "closing"} /\ Proxy!Finish(c, d)
  BY DEF Proxy!Delivered
<1> HIDE DEF d
<1>4. ASSUME NEW a,
             \/ k.at = "yielding" /\ a = "reading"
             \/ k.at = "flushing" /\ a = "concluding",
             Proxy!Go(c, [d EXCEPT !.at = a])
      PROVE  ProxyInv'
  <2> DEFINE u == [d EXCEPT !.at = a]
  <2>1. /\ DOMAIN u = Fields /\ u.at = a /\ u.reply = k.reply /\ u.read = k.read
        /\ u.cut = k.cut /\ u.chunks = k.chunks /\ u.status = k.status
        /\ u.error = k.error /\ u.out = <<>> /\ u.got = d.got /\ u.record = k.record
    BY <1>1 DEF Fields
  <2> HIDE DEF u
  <2>2. LocalsInv(u)
    BY <1>0, <1>2, <2>1, EmptySeq DEF LocalsInv, Sent
  <2>3. u.got \o u.out = u.chunks /\ u.out = <<>>
    <3>1. k.got \o k.out = k.chunks
      BY <1>0, <1>4 DEF CallInv, PassedInv
    <3> QED
      BY <1>1, <1>2, <2>1, <3>1, ConcatEmptySeq
  <2>4. PassedInv(u)
    BY <1>0, <1>4, <2>1, <2>3 DEF CallInv, PassedInv, Sent
  <2>5. CallInv(c, u)
    BY <1>0, <1>4, <2>1, <2>2, <2>4 DEF CallInv, KindInv, UnansweredInv, LastInv, EndedInv
  <2>6. Proxy!UnderWay(u) <=> Proxy!UnderWay(call[c])
    BY <1>0, <1>4, <2>1 DEF Proxy!UnderWay
  <2> QED
    BY <1>4, <2>5, <2>6, GoStep DEF u
<1>5. CASE k.at \in {"failing", "closing"} /\ Proxy!Finish(c, d)
  <2>1. LocalsInv(d)
    BY <1>0, <1>1, <1>2, EmptySeq DEF LocalsInv, Sent
  <2>2. Proxy!ToSet(d.got) = Proxy!ToSet(k.got) \cup Proxy!ToSet(k.out)
    BY <1>1, <1>2, ToSetFacts
  <2>3. CASE k.error
    <3>1. k.out = <<"error">> \/ k.out = <<"error", "done">>
      BY <1>0, <1>5, <2>3 DEF CallInv, LastInv
    <3>2. "error" \in Proxy!ToSet(k.out)
      <4>1. 1 \in DOMAIN k.out /\ k.out[1] = "error"
        BY <3>1
      <4> QED
        BY <4>1 DEF Proxy!ToSet
    <3> QED
      BY <1>0, <1>1, <1>5, <2>1, <2>2, <2>3, <3>2, FinishedStep
  <2>4. CASE ~k.error
    <3>1. /\ k.out = <<"done">> /\ k.status < 400 /\ k.status \in Nat
          /\ Proxy!HasPayload(k.chunks)
          /\ k.got = k.chunks /\ "error" \notin Proxy!ToSet(k.chunks)
      BY <1>0, <1>5, <2>4 DEF CallInv, LastInv, LocalsInv
    <3>2. d.got = Append(k.chunks, "done") /\ "done" \in Proxy!Kinds
      BY <1>1, <1>2, <3>1, AppendIsConcat DEF Proxy!Kinds
    <3>3. Proxy!Data(d.got) = k.chunks
      BY <1>0, <1>2, <3>1, <3>2, DataAppend, ChunksAreData
    <3>4. Proxy!ToSet(d.got) = Proxy!ToSet(k.chunks) \cup {"done"}
      BY <1>2, <3>1, <3>2, ToSetFacts
    <3>5. Agreed(d)
      BY <1>1, <3>1, <3>3, <3>4 DEF Agreed, Proxy!HasPayload
    <3>6. ~ (d.error \/ d.status >= 400)
      BY <1>1, <2>4, <3>1
    <3> QED
      BY <1>0, <1>5, <2>1, <3>5, <3>6, FinishedStep
  <2> QED
    BY <2>3, <2>4
<1> QED
  BY <1>3, <1>4, <1>5

\* The client goes away.
LEMMA CancelStep ==
    ASSUME Proxy!ReplyAssumption, ProxyInv, NEW c \in Calls, Proxy!Cancel(c)
    PROVE  ProxyInv'
<1> DEFINE k == [call[c] EXCEPT !.gone = TRUE]
<1>0. /\ CallInv(c, call[c]) /\ c \in Streamed /\ LocalsInv(call[c]) /\ Proxy!UnderWay(call[c])
  BY DEF ProxyInv, Proxy!Cancel, CallInv, KindInv, Proxy!UnderWay
<1>1. /\ DOMAIN k = Fields /\ k.at = call[c].at /\ k.reply = call[c].reply
      /\ k.read = call[c].read
      /\ k.cut = call[c].cut /\ k.chunks = call[c].chunks /\ k.status = call[c].status
      /\ k.error = call[c].error /\ k.out = call[c].out /\ k.got = call[c].got /\ k.gone
  BY <1>0 DEF LocalsInv, Fields
<1>2. LocalsInv(k)
  BY <1>0, <1>1 DEF LocalsInv, Sent
<1>3. CASE Proxy!Finish(c, [k EXCEPT !.status = 499, !.error = TRUE])
  <2> DEFINE u == [k EXCEPT !.status = 499, !.error = TRUE]
  <2>1. /\ DOMAIN u = Fields /\ u.reply = k.reply /\ u.read = k.read
        /\ u.cut = k.cut /\ u.chunks = k.chunks /\ u.status = 499
        /\ u.error /\ u.out = k.out /\ u.got = k.got /\ u.gone
    BY <1>1 DEF Fields
  <2>2. Proxy!Finish(c, u)
    BY <1>3
  <2> HIDE DEF u
  <2>3. LocalsInv(u)
    BY <1>2, <2>1 DEF LocalsInv, Sent
  <2> QED
    BY <1>0, <2>1, <2>2, <2>3, FinishedStep
<1>4. CASE call[c].at \in {"failing", "closing"} /\ Proxy!Finish(c, k)
  <2> HIDE DEF k
  <2>1. ASSUME ~ (k.error \/ k.status >= 400) PROVE Agreed(k)
    <3>1. /\ k.got = k.chunks /\ Proxy!HasPayload(k.chunks)
          /\ "error" \notin Proxy!ToSet(k.chunks)
      BY <1>0, <1>1, <1>4, <2>1 DEF CallInv, LastInv
    <3> QED
      BY <1>2, <3>1, ChunksAreData DEF Agreed
  <2> QED
    BY <1>0, <1>1, <1>2, <1>4, <2>1, FinishedStep
<1> QED
  BY <1>3, <1>4 DEF Proxy!Cancel

-----------------------------------------------------------------------------
(* A call that is not streamed, the runtime and the writer.                  *)

\* A call that is not streamed is made.
LEMMA AskStep ==
    ASSUME Proxy!ReplyAssumption, ProxyInv, NEW c \in Calls, Proxy!Ask(c)
    PROVE  ProxyInv'
<1> DEFINE k == [call[c] EXCEPT !.at = "asked"]
<1>0. CallInv(c, call[c]) /\ call[c].at = "new" /\ c \notin Streamed /\ Proxy!Go(c, k)
  BY DEF ProxyInv, Proxy!Ask
<1>1. /\ DOMAIN k = Fields /\ k.at = "asked" /\ k.reply = call[c].reply /\ k.read = call[c].read
      /\ k.cut = call[c].cut /\ k.chunks = call[c].chunks /\ k.status = call[c].status
      /\ k.error = call[c].error /\ k.out = call[c].out /\ k.got = call[c].got
      /\ k.record = call[c].record
  BY <1>0 DEF CallInv, LocalsInv, Fields
<1> HIDE DEF k
<1>2. CallInv(c, k)
  BY <1>0, <1>1 DEF CallInv, KindInv, LocalsInv, Sent, UnansweredInv, PassedInv, LastInv,
     EndedInv
<1> QED
  BY <1>0, <1>2, GoStep

\* It fails, and the client is told.
LEMMA AskFailsStep ==
    ASSUME Proxy!ReplyAssumption, ProxyInv, NEW c \in Calls, Proxy!AskFails(c)
    PROVE  ProxyInv'
<1> DEFINE Failed(f) == [call[c] EXCEPT !.at = "ended", !.got = <<"error">>, !.status = 502,
                                        !.error = f, !.record = Proxy!Recorded(call[c], f)]
<1>1. \E silent \in BOOLEAN : Proxy!Go(c, Failed(~silent))
  BY DEF Proxy!AskFails
<1>2. PICK f : Proxy!Go(c, Failed(f))
  <2> DEFINE Goes(f) == Proxy!Go(c, Failed(f))
  <2>1. \E silent \in BOOLEAN : Goes(~silent)
    BY <1>1
  <2> HIDE DEF Goes
  <2>2. \E f : Goes(f)
    BY <2>1
  <2> QED
    BY <2>2 DEF Goes
<1> DEFINE k == Failed(f)
<1>0. CallInv(c, call[c]) /\ call[c].at = "asked" /\ c \notin Streamed /\ Proxy!Go(c, k)
  BY <1>2 DEF ProxyInv, Proxy!AskFails, CallInv, KindInv, Proxy!Waiting
<1>3. /\ DOMAIN k = Fields /\ k.at = "ended" /\ k.reply = call[c].reply /\ k.read = call[c].read
      /\ k.cut = call[c].cut /\ k.chunks = call[c].chunks /\ k.status = 502
      /\ k.error = f /\ k.out = call[c].out /\ k.got = <<"error">>
      /\ k.record = Proxy!Recorded(call[c], f)
  BY <1>0 DEF CallInv, LocalsInv, Fields
<1> HIDE DEF k
<1>4. /\ k.record.outcome = "completed" => ~f
      /\ k.record.outcome # "none" => k.record.content = k.chunks
  BY <1>3 DEF Proxy!Recorded, Proxy!Unrecorded
<1>5. <<"error">> \in Seq(Proxy!Kinds) /\ "error" \in Proxy!ToSet(<<"error">>)
  BY DEF Proxy!Kinds, Proxy!ToSet
<1>6. EndedInv(k)
  BY <1>3, <1>4, <1>5 DEF EndedInv, Proxy!Silent
<1>7. CallInv(c, k)
  BY <1>0, <1>3, <1>5, <1>6 DEF CallInv, KindInv, LocalsInv, Sent, UnansweredInv, PassedInv,
     LastInv
<1> QED
  BY <1>0, <1>7, GoStep

\* A call that is not streamed is answered.
LEMMA ReplyStep ==
    ASSUME Proxy!ReplyAssumption, ProxyInv, NEW c \in Calls, Proxy!Reply(c)
    PROVE  ProxyInv'
<1> DEFINE Heard(r) == [call[c] EXCEPT !.reply = r, !.status = r.status,
                                    !.chunks = Proxy!Merged(Proxy!Data(r.events))]
           Relayed(r) == [Heard(r) EXCEPT !.at = "ended", !.error = Proxy!Refused(Heard(r)),
                          !.got = IF Proxy!Refused(Heard(r)) THEN <<"error">>
                                  ELSE Heard(r).chunks,
                          !.record = Proxy!Recorded(Heard(r), Proxy!Refused(Heard(r)))]
<1>1. PICK r \in Replies[c] : Proxy!Go(c, Relayed(r))
  BY DEF Proxy!Reply
<1> DEFINE h == Heard(r)
           k == Relayed(r)
<1>0. CallInv(c, call[c]) /\ call[c].at = "asked" /\ Proxy!Go(c, k)
  BY <1>1 DEF ProxyInv, Proxy!Reply
<1>2. c \notin Streamed
  BY <1>0 DEF CallInv, KindInv, Proxy!Waiting
<1>3. /\ r.events \in Seq(Proxy!Kinds) /\ r.status \in Nat
      /\ r.status < 400 => "error" \notin Proxy!ToSet(r.events)
  BY <1>2 DEF Proxy!ReplyAssumption
<1>4. /\ DOMAIN h = Fields /\ h.reply = r /\ h.read = 0 /\ h.cut = 0 \div 2
      /\ h.status = r.status
      /\ h.chunks = Proxy!Merged(Proxy!Data(r.events)) /\ h.out = <<>>
  BY <1>0 DEF CallInv, LocalsInv, UnansweredInv, Fields
<1>5. /\ Proxy!Data(r.events) \in Seq(Proxy!Kinds) /\ h.chunks \in Seq(Proxy!Kinds)
      /\ "done" \notin Proxy!ToSet(h.chunks)
      /\ r.status < 400 => "error" \notin Proxy!ToSet(h.chunks)
  <2>1. /\ Proxy!Data(r.events) \in Seq(Proxy!Kinds)
        /\ Proxy!ToSet(Proxy!Data(r.events)) = Proxy!ToSet(r.events) \ {"done"}
    BY <1>3, DataType
  <2>2. /\ Proxy!Merged(Proxy!Data(r.events)) \in Seq(Proxy!Kinds)
        /\ \A x \in {"done", "error"} :
              x \in Proxy!ToSet(Proxy!Merged(Proxy!Data(r.events))) <=>
                 x \in Proxy!ToSet(Proxy!Data(r.events))
    BY <2>1, MergedFacts
  <2> QED
    BY <1>3, <1>4, <2>1, <2>2
<1> HIDE DEF Heard
<1>6. /\ DOMAIN k = Fields /\ k.at = "ended" /\ k.reply = r /\ k.read = 0 /\ k.cut = 0 \div 2
      /\ k.status = r.status /\ k.chunks = h.chunks /\ k.out = <<>>
      /\ k.error <=> Proxy!Refused(h)
      /\ k.got = IF Proxy!Refused(h) THEN <<"error">> ELSE h.chunks
      /\ k.record = Proxy!Recorded(h, Proxy!Refused(h))
  BY <1>4 DEF Fields
<1> HIDE DEF Relayed
<1>7. /\ k.record.outcome = "completed" => ~Proxy!Refused(h)
      /\ k.record.outcome = "error" => Proxy!Refused(h)
      /\ k.record.outcome # "none" => k.record.content = k.chunks
  BY <1>6 DEF Proxy!Recorded, Proxy!Unrecorded
<1>8. <<"error">> \in Seq(Proxy!Kinds) /\ "error" \in Proxy!ToSet(<<"error">>)
  BY DEF Proxy!Kinds, Proxy!ToSet
<1>9. LocalsInv(k)
  <2>1. k.chunks = Sent(k, Len(k.reply.events)) /\ Len(r.events) \in 0 .. Len(r.events)
    BY <1>3, <1>4, <1>6, SentFacts
  <2> QED
    BY <1>3, <1>5, <1>6, <1>8, <2>1, EmptySeq DEF LocalsInv
<1>10. EndedInv(k)
  <2>1. ~Proxy!Refused(h) => k.status < 400 /\ Agreed(k)
    <3>1. Proxy!Data(h.chunks) = h.chunks
      BY <1>5, DataOfData
    <3> QED
      BY <1>3, <1>4, <1>5, <1>6, <3>1 DEF Proxy!Refused, Agreed
  <2>2. Proxy!Refused(h) => "error" \in Proxy!ToSet(k.got)
    BY <1>6, <1>8
  <2> QED
    BY <1>7, <2>1, <2>2 DEF EndedInv
<1>11. CallInv(c, k)
  BY <1>2, <1>6, <1>9, <1>10 DEF CallInv, KindInv, UnansweredInv, PassedInv, LastInv
<1> QED
  BY <1>0, <1>2, <1>11, GoStep

\* Forget keeps the invariant.
LEMMA ForgetStep ==
    ASSUME ProxyInv, NEW r \in Runtimes, Proxy!Release(r)
    PROVE  ProxyInv'
<1>1. /\ UNCHANGED call /\ released' = released \cup {r}
      /\ activity' = [activity EXCEPT ![r] = 0]
  BY DEF Proxy!Release
<1>2. \A q \in Runtimes \ released' : Active(q)' = Active(q) /\ activity'[q] = activity[q]
  BY <1>1 DEF Active, ProxyInv, CountInv
<1>3. activity' \in [Runtimes -> Nat]
  BY <1>1 DEF ProxyInv, CountInv
<1>4. CountInv'
  BY <1>1, <1>2, <1>3 DEF CountInv, ProxyInv
<1> QED
  BY <1>1, <1>4 DEF ProxyInv

\* The inductive invariant.
LEMMA ProxyInvAlways == Proxy!ReplyAssumption => (Proxy!Spec => []ProxyInv)
<1> SUFFICES ASSUME Proxy!ReplyAssumption PROVE Proxy!Spec => []ProxyInv
  OBVIOUS
<1>1. Proxy!Init => ProxyInv
  <2> SUFFICES ASSUME Proxy!Init PROVE ProxyInv
    OBVIOUS
  <2>1. \A c \in Calls : call[c] = Proxy!New
    BY DEF Proxy!Init
  <2>2. /\ Proxy!NoReply.events = <<>> /\ <<>> \in Seq(Proxy!Kinds) /\ Len(<<>>) = 0
        /\ Proxy!New.reply = Proxy!NoReply
    BY EmptySeq DEF Proxy!NoReply, Proxy!New
  <2>3. Sent(Proxy!New, 0) = <<>>
    BY <2>2, SentFacts
  <2>4. LocalsInv(Proxy!New)
    <3>1. DOMAIN Proxy!New = Fields
      BY DEF Proxy!New, Fields
    <3>2. 0 = 0 \div 2 /\ 0 \in 0 .. Len(Proxy!New.reply.events)
      BY <2>2
    <3>3. /\ Proxy!New.status = 200 /\ Proxy!New.chunks = <<>> /\ Proxy!New.out = <<>>
          /\ Proxy!New.got = <<>>
          /\ Proxy!New.read = 0 /\ Proxy!New.cut = 0
      BY DEF Proxy!New
    <3> QED
      <4>1. Proxy!New.reply.events \in Seq(Proxy!Kinds) /\ 0 <= 2 * Len(Proxy!New.reply.events)
        <5>1. Proxy!New.reply.events = <<>>
          BY <2>2
        <5>2. Proxy!New.reply.events \in Seq(Proxy!Kinds) /\ Len(Proxy!New.reply.events) = 0
          BY <2>2, <5>1
        <5> QED
          BY <5>2
      <4>2. Proxy!New.chunks = Sent(Proxy!New, 0)
        BY <2>3, <3>3
      <4>3. /\ Proxy!New.chunks \in Seq(Proxy!Kinds) /\ Proxy!New.out \in Seq(Proxy!Kinds)
            /\ Proxy!New.got \in Seq(Proxy!Kinds)
        BY <2>2, <3>3
      <4>4. /\ Proxy!New.read \in Nat /\ Proxy!New.status \in Nat
            /\ Proxy!New.cut = Proxy!New.read \div 2
        BY <3>2, <3>3
      <4> QED
        BY <3>1, <3>2, <3>3, <4>1, <4>2, <4>3, <4>4 DEF LocalsInv
  <2>5. \A c \in Calls : CallInv(c, Proxy!New)
    BY <2>4 DEF CallInv, KindInv, UnansweredInv, PassedInv, LastInv, EndedInv, Proxy!New,
       Proxy!Unrecorded
  <2>6. \A r \in Runtimes : Active(r) = {} /\ activity[r] = 0
    BY <2>1 DEF Proxy!Init, Active, Proxy!UnderWay, Proxy!New, Proxy!ReplyAssumption
  <2>7. CountInv
    BY <2>6, FS_EmptySet DEF CountInv, Proxy!Init
  <2> QED
    BY <2>1, <2>5, <2>7 DEF ProxyInv, Proxy!Init
<1>2. ProxyInv /\ [Proxy!Next]_(Proxy!vars) => ProxyInv'
  <2> SUFFICES ASSUME ProxyInv, [Proxy!Next]_(Proxy!vars) PROVE ProxyInv'
    OBVIOUS
  <2>1. CASE Proxy!Shut \/ UNCHANGED Proxy!vars
    <3>1. UNCHANGED <<call, activity, released>>
      BY <2>1 DEF Proxy!Shut, Proxy!vars
    <3> QED
      BY <3>1 DEF ProxyInv, CountInv, Active
  <2> QED
    BY <2>1, OpenStep, NeverReadStep, ConnectStep, ChunkStep, UpstreamEndsStep,
       UpstreamFailsStep, ConcludeStep, DeliveredStep, CancelStep, AskStep, AskFailsStep,
       ReplyStep, ForgetStep DEF Proxy!Next
<1> QED
  BY <1>1, <1>2, PTL DEF Proxy!Spec

\* For any calls, runtimes and answers, any splits of their bytes, failures and
\* cancellations: a call is recorded as completed only when its client got what was
\* recorded, as failed only when it was told or had gone, every event once and in
\* order, and a runtime without activity has left its records (llm_proxy.py).
THEOREM RecordsAreTrue == Proxy!ReplyAssumption => (Proxy!Spec => []CapturedAsAnswered)
<1> SUFFICES ASSUME Proxy!ReplyAssumption PROVE Proxy!Spec => []CapturedAsAnswered
  OBVIOUS
<1>1. ASSUME ProxyInv PROVE Proxy!CapturedAsAnswered
  <2>1. ASSUME NEW c \in Calls PROVE Proxy!Truthful(c) /\ Proxy!Admitted(c) /\ Proxy!Faithful(c)
    <3> DEFINE k == call[c]
    <3>1. LocalsInv(k) /\ EndedInv(k) /\ (k.at # "ended" => k.record.outcome = "none")
      BY <1>1 DEF ProxyInv, CallInv, UnansweredInv
    <3>2. Proxy!IsPrefix(k.chunks, Proxy!Merged(Proxy!Data(k.reply.events)))
      BY <3>1, SentFacts DEF LocalsInv
    <3> HIDE DEF k
    <3>3. /\ k.record.outcome = "completed" /\ ~Proxy!Silent(k) =>
                /\ k.status < 400 /\ Proxy!HasPayload(k.got)
                /\ "error" \notin Proxy!ToSet(k.got)
                /\ Proxy!Data(k.got) = k.record.content
          /\ k.record.outcome = "error" => k.gone \/ "error" \in Proxy!ToSet(k.got)
          /\ k.record.outcome # "none" => k.record.content = k.chunks
      BY <3>1 DEF EndedInv, Agreed
    <3> QED
      BY <3>2, <3>3 DEF Proxy!Truthful, Proxy!Admitted, Proxy!Faithful, k
  <2>2. ASSUME NEW r \in Runtimes \ released, activity[r] = 0,
               NEW c \in Streamed, CallOf[c] = r, Proxy!UnderWay(call[c])
        PROVE  FALSE
    <3>1. IsFiniteSet(Active(r)) /\ Cardinality(Active(r)) = 0
      BY <1>1, <2>2, SameFinite, FS_Subset DEF ProxyInv, CountInv, Active, Proxy!ReplyAssumption
    <3>2. Active(r) = {}
      BY <3>1, FS_EmptySet
    <3> QED
      BY <2>2, <3>2 DEF Active
  <2> QED
    BY <2>1, <2>2 DEF Proxy!CapturedAsAnswered, Proxy!IdleIsRecorded
<1> QED
  BY <1>1, ProxyInvAlways, PTL DEF CapturedAsAnswered
=============================================================================
