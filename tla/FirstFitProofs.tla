--------------------------- MODULE FirstFitProofs ---------------------------
(* Proofs that the first-fit heap keeps its ring of headers, its merged free *)
(* chunks and its clients' blocks, for every heap and every request size.    *)
EXTENDS FirstFit, FiniteSetTheorems, TLAPS

-----------------------------------------------------------------------------
(* Arithmetic *)

\* Rounding up keeps or adds less than ALIGN bytes, unless it wraps.
LEMMA AlignedBounds ==
    ASSUME NEW a \in Nat
    PROVE  /\ aligned(a) \in Nat
           /\ a <= WordSize - ALIGN =>
                /\ a <= aligned(a) /\ aligned(a) < a + ALIGN
                /\ aligned(a) % ALIGN = 0
<1>1. /\ a % ALIGN \in 0 .. ALIGN - 1
      /\ a = ALIGN * (a \div ALIGN) + (a % ALIGN)
      /\ a \div ALIGN \in Int
  BY FirstFitAssumption
<1>2. ALIGN + (a - (a % ALIGN)) \in Nat
  BY <1>1, FirstFitAssumption
<1>3. aligned(a) \in Nat
  BY <1>1, <1>2, FirstFitAssumption DEF aligned
<1>4. ASSUME a <= WordSize - ALIGN, a % ALIGN # 0
      PROVE  (ALIGN + (a - (a % ALIGN))) % WordSize = ALIGN + (a - (a % ALIGN))
  BY <1>1, <1>2, <1>4, FirstFitAssumption
<1>5. (ALIGN * ((a \div ALIGN) + 1)) % ALIGN = 0
  BY <1>1, FirstFitAssumption
<1> QED
  BY <1>1, <1>2, <1>3, <1>4, <1>5, FirstFitAssumption DEF aligned

LEMMA MultLess ==
    ASSUME NEW a \in Nat \ {0}, NEW i \in Int, NEW j \in Int, a * i < a * j
    PROVE  i + 1 <= j /\ a * i + a <= a * j
<1>1. CASE j <= i
  <2>1. PICK k \in Nat : i = j + k
    BY <1>1
  <2>2. a * i = a * j + a * k /\ a * k >= 0
    BY <2>1
  <2> QED
    BY <2>2
<1>2. CASE i < j
  <2>1. PICK k \in Nat : j = i + 1 + k
    BY <1>2
  <2>2. a * j = a * i + a + a * k /\ a * k >= 0
    BY <2>1
  <2> QED
    BY <2>1, <2>2
<1> QED
  BY <1>1, <1>2

-----------------------------------------------------------------------------
(* What the header operators do *)

\* A ring of typed headers with its first and last header.
Good(h, first, last) ==
    /\ HeadersTyped(h)
    /\ first \in Chunks(h) /\ last \in Chunks(h)
    /\ Ring(h, first, last)

\* MergeNext drops the chunk after c from a good ring and nothing else.
LEMMA MergeNextGood ==
    ASSUME NEW h, NEW first, NEW last, Good(h, first, last),
           NEW c \in Chunks(h), c # last, h.next[c] # last
    PROVE  LET d == h.next[c]
               m == MergeNext(h, c)
           IN  /\ Good(m, first, last)
               /\ d \in Chunks(h) /\ d # c
               /\ Chunks(m) = Chunks(h) \ {d}
               /\ m.current = h.current
               /\ \A x \in Chunks(m) : m.used[x] = h.used[x]
               /\ m.next[c] = h.next[d]
               /\ \A x \in Chunks(m) \ {c} : m.next[x] = h.next[x]
               /\ m.prev[h.next[d]] = c
               /\ \A x \in Chunks(m) \ {h.next[d]} : m.prev[x] = h.prev[x]
<1> DEFINE d == h.next[c]
           e == h.next[d]
           m == MergeNext(h, c)
<1>1. /\ d \in Chunks(h) /\ e \in Chunks(h)
      /\ c \in Int /\ d \in Int /\ e \in Int /\ first \in Int /\ last \in Int
      /\ Chunks(h) \subseteq Int
      /\ DOMAIN h.next = Chunks(h) /\ DOMAIN h.prev = Chunks(h)
      /\ DOMAIN h.used = Chunks(h)
  BY DEF Good, HeadersTyped, Chunks
<1>2. c < d /\ d < e /\ d # first /\ d # last /\ c # d /\ e # d
  BY <1>1, FirstFitAssumption DEF Good, Ring, chunk_data
<1>3. /\ m.next = [x \in Chunks(h) \ {d} |-> IF x = c THEN e ELSE h.next[x]]
      /\ m.prev = [x \in Chunks(h) \ {d} |-> IF x = e THEN c ELSE h.prev[x]]
      /\ m.used = [x \in Chunks(h) \ {d} |-> h.used[x]]
      /\ m.current = h.current
  BY <1>1, <1>2 DEF MergeNext, Heap, Put, Without
<1>4. Chunks(m) = Chunks(h) \ {d}
  BY <1>3 DEF Chunks
<1>5. \A x \in Chunks(h) \ {c} : h.next[x] # d
  BY <1>1 DEF Good, Ring
<1>6. \A x \in Chunks(h) \ {e} : h.prev[x] # d
  BY <1>1 DEF Good, Ring
<1>7. HeadersTyped(m)
  BY <1>1, <1>2, <1>3, <1>4, <1>5, <1>6 DEF Good, HeadersTyped
<1>8. Ring(m, first, last)
  <2>1. m.next[last] = first /\ m.used[last]
    BY <1>1, <1>2, <1>3, <1>4 DEF Good, Ring
  <2>2. \A x \in Chunks(m) : first <= x /\ x <= last
    BY <1>4 DEF Good, Ring
  <2>3. \A x \in Chunks(m) : m.prev[m.next[x]] = x /\ m.next[m.prev[x]] = x
    <3> TAKE x \in Chunks(m)
    <3>1. x \in Chunks(h) /\ h.prev[h.next[x]] = x /\ h.next[h.prev[x]] = x
      BY <1>4 DEF Good, Ring
    <3>2. m.prev[m.next[x]] = x
      <4>1. h.prev[e] = d /\ h.next[x] \in Chunks(h)
        BY <1>1, <3>1 DEF Good, Ring, HeadersTyped
      <4>2. CASE x = c
        BY <1>1, <1>2, <1>3, <1>4, <4>2, SMTT(40)
      <4>3. CASE x # c
        BY <1>1, <1>2, <1>3, <1>4, <1>5, <3>1, <4>1, <4>3
      <4> QED
        BY <4>2, <4>3
    <3>3. m.next[m.prev[x]] = x
      BY <1>1, <1>2, <1>3, <1>4, <1>6, <3>1 DEF Good, HeadersTyped
    <3> QED
      BY <3>2, <3>3
  <2>4. \A x \in Chunks(m) \ {last} : chunk_data(x) <= m.next[x]
    BY <1>1, <1>2, <1>3, <1>4, FirstFitAssumption DEF Good, Ring, chunk_data
  <2>5. \A x \in Chunks(m) \ {last} : \A y \in Chunks(m) : y <= x \/ m.next[x] <= y
    BY <1>1, <1>2, <1>3, <1>4 DEF Good, Ring
  <2> QED
    BY <2>1, <2>2, <2>3, <2>4, <2>5 DEF Ring
<1> QED
  BY <1>1, <1>2, <1>3, <1>4, <1>7, <1>8 DEF Good

\* LinkFree adds one free chunk inside the gap after c and nothing else.
LEMMA LinkFreeGood ==
    ASSUME NEW h, NEW first, NEW last, Good(h, first, last),
           NEW c \in Chunks(h), c # last,
           NEW new \in Int,
           chunk_data(c) <= new, chunk_data(new) <= h.next[c]
    PROVE  LET nx == h.next[c]
               m  == LinkFree(h, c, new)
           IN  /\ Good(m, first, last)
               /\ new \notin Chunks(h)
               /\ Chunks(m) = Chunks(h) \union {new}
               /\ m.current = h.current
               /\ \A x \in Chunks(h) : m.used[x] = h.used[x]
               /\ ~m.used[new]
               /\ m.next[c] = new /\ m.next[new] = nx
               /\ \A x \in Chunks(h) \ {c} : m.next[x] = h.next[x]
<1> DEFINE nx == h.next[c]
           m  == LinkFree(h, c, new)
<1>1. /\ nx \in Chunks(h)
      /\ c \in Int /\ nx \in Int /\ first \in Int /\ last \in Int
      /\ Chunks(h) \subseteq Int
      /\ DOMAIN h.next = Chunks(h) /\ DOMAIN h.prev = Chunks(h)
      /\ DOMAIN h.used = Chunks(h)
  BY DEF Good, HeadersTyped, Chunks
<1>2. c < new /\ new < nx
  BY <1>1, FirstFitAssumption DEF chunk_data
<1>3. new \notin Chunks(h) /\ new # c /\ new # nx
  BY <1>1, <1>2 DEF Good, Ring
<1>4. /\ m.next = [x \in Chunks(h) \union {new} |->
                    IF x = new THEN nx ELSE IF x = c THEN new ELSE h.next[x]]
      /\ m.prev = [x \in Chunks(h) \union {new} |->
                    IF x = new THEN c ELSE IF x = nx THEN new ELSE h.prev[x]]
      /\ m.used = [x \in Chunks(h) \union {new} |->
                    IF x = new THEN FALSE ELSE h.used[x]]
      /\ m.current = h.current
  BY <1>1, <1>3 DEF LinkFree, Heap, Put
<1>5. Chunks(m) = Chunks(h) \union {new}
  BY <1>4 DEF Chunks
<1>6. HeadersTyped(m)
  <2>1. Chunks(m) \subseteq Int
    BY <1>1, <1>5
  <2>2. m.next \in [Chunks(m) -> Chunks(m)]
    BY <1>1, <1>4, <1>5 DEF Good, HeadersTyped
  <2>3. m.prev \in [Chunks(m) -> Chunks(m)]
    BY <1>1, <1>4, <1>5 DEF Good, HeadersTyped
  <2>4. m.used \in [Chunks(m) -> BOOLEAN]
    <3>1. \A x \in Chunks(h) : h.used[x] \in BOOLEAN
      BY DEF Good, HeadersTyped
    <3> QED
      BY <1>4, <1>5, <3>1, Zenon
  <2> QED
    BY <2>1, <2>2, <2>3, <2>4 DEF HeadersTyped
<1>7. Ring(m, first, last)
  <2>1. m.next[last] = first /\ m.used[last]
    BY <1>1, <1>3, <1>4, <1>5 DEF Good, Ring
  <2>2. \A x \in Chunks(m) : first <= x /\ x <= last
    BY <1>1, <1>2, <1>5 DEF Good, Ring
  <2>3. \A x \in Chunks(m) : m.prev[m.next[x]] = x /\ m.next[m.prev[x]] = x
    BY <1>1, <1>3, <1>4, <1>5 DEF Good, Ring, HeadersTyped
  <2>4. \A x \in Chunks(m) \ {last} : chunk_data(x) <= m.next[x]
    BY <1>1, <1>3, <1>4, <1>5 DEF Good, Ring
  <2>5. \A x \in Chunks(m) \ {last} : \A y \in Chunks(m) : y <= x \/ m.next[x] <= y
    BY <1>1, <1>2, <1>3, <1>4, <1>5 DEF Good, Ring, HeadersTyped
  <2> QED
    BY <2>1, <2>2, <2>3, <2>4, <2>5 DEF Ring
<1> QED
  BY <1>1, <1>3, <1>4, <1>5, <1>6, <1>7, ZenonT(40) DEF Good

\* Marking a header changes its mark only.
LEMMA MarkGood ==
    ASSUME NEW h, NEW first, NEW last, Good(h, first, last), NEW c \in Chunks(h)
    PROVE  /\ Good(set_used(h, c), first, last)
           /\ c # last => Good(set_free(h, c), first, last)
           /\ Chunks(set_used(h, c)) = Chunks(h)
           /\ Chunks(set_free(h, c)) = Chunks(h)
           /\ \A x \in Chunks(h) :
                /\ set_used(h, c).used[x] <=> (h.used[x] \/ x = c)
                /\ set_free(h, c).used[x] <=> (h.used[x] /\ x # c)
           /\ set_used(h, c).next = h.next /\ set_used(h, c).prev = h.prev
           /\ set_free(h, c).next = h.next /\ set_free(h, c).prev = h.prev
           /\ set_used(h, c).current = h.current
           /\ set_free(h, c).current = h.current
<1> DEFINE u == set_used(h, c)
           f == set_free(h, c)
<1>1. /\ DOMAIN h.used = Chunks(h)
      /\ \A x \in Chunks(h) : h.used[x] \in BOOLEAN
  BY DEF Good, HeadersTyped, Chunks
<1>2. /\ u.next = h.next /\ u.prev = h.prev /\ u.current = h.current
      /\ f.next = h.next /\ f.prev = h.prev /\ f.current = h.current
      /\ u.used = Put(h.used, c, TRUE) /\ f.used = Put(h.used, c, FALSE)
  BY DEF set_used, set_free, Heap
<1>3. Chunks(u) = Chunks(h) /\ Chunks(f) = Chunks(h)
  BY <1>2 DEF Chunks
<1>4. Chunks(h) \union {c} = Chunks(h)
  OBVIOUS
<1>5. /\ u.used = [x \in Chunks(h) |-> IF x = c THEN TRUE ELSE h.used[x]]
      /\ f.used = [x \in Chunks(h) |-> IF x = c THEN FALSE ELSE h.used[x]]
  BY <1>1, <1>2, <1>4, Zenon DEF Put
<1>6. \A x \in Chunks(h) : /\ u.used[x] <=> (h.used[x] \/ x = c)
                           /\ f.used[x] <=> (h.used[x] /\ x # c)
  BY <1>5, Zenon
<1>7. u.used \in [Chunks(h) -> BOOLEAN] /\ f.used \in [Chunks(h) -> BOOLEAN]
  BY <1>1, <1>5, Zenon
<1>8. HeadersTyped(u) /\ HeadersTyped(f)
  BY <1>2, <1>3, <1>7, ZenonT(40) DEF Good, HeadersTyped
<1>9. Ring(u, first, last) /\ (c # last => Ring(f, first, last))
  <2>1. last \in Chunks(h) /\ h.used[last] /\ h.next[last] = first
    BY DEF Good, Ring
  <2>2. u.used[last] /\ (c # last => f.used[last])
    BY <1>6, <2>1
  <2>3. Ring(u, first, last)
    BY <1>2, <1>3, <2>2, ZenonT(40) DEF Good, Ring
  <2>4. ASSUME c # last PROVE Ring(f, first, last)
    BY <1>2, <1>3, <2>2, <2>4, ZenonT(40) DEF Good, Ring
  <2> QED
    BY <2>3, <2>4
<1> QED
  BY <1>2, <1>3, <1>6, <1>8, <1>9, ZenonT(40) DEF Good

LEMMA CurrentGood ==
    ASSUME NEW h, NEW first, NEW last, Good(h, first, last), NEW c
    PROVE  /\ Good(set_current(h, c), first, last)
           /\ Chunks(set_current(h, c)) = Chunks(h)
           /\ set_current(h, c).used = h.used
           /\ set_current(h, c).next = h.next
           /\ set_current(h, c).prev = h.prev
           /\ set_current(h, c).current = c
  BY DEF set_current, Heap, Good, HeadersTyped, Ring, Chunks

-----------------------------------------------------------------------------
(* The operations keep the ring, the merged free chunks and the blocks *)

\* Taking a chunk that fits marks it as used, leaves every other block alone,
\* and any chunk it splits off is free.
LEMMA TakeGood ==
    ASSUME NEW h, NEW first, NEW last, Good(h, first, last), Merged(h),
           NEW c \in Chunks(h), NEW size \in 1 .. INT_MAX, fits(h, c, size)
    PROVE  LET t == Take(h, c, size)
           IN  /\ Good(t, first, last) /\ Merged(t)
               /\ t.current \in Chunks(t)
               /\ Chunks(h) \subseteq Chunks(t)
               /\ \A x \in Chunks(h) : t.used[x] <=> (h.used[x] \/ x = c)
               /\ \A x \in Chunks(t) \ Chunks(h) : ~t.used[x]
               /\ \A x \in Chunks(h) \ {c} : t.next[x] = h.next[x]
               /\ c # last
               /\ get_size(t, c) >= size
<1> DEFINE nx  == h.next[c]
           off == aligned(size + CHUNK_SIZE) - CHUNK_SIZE
           new == chunk_data(c) + off
           t   == Take(h, c, size)
<1>1. /\ c # last /\ ~h.used[c] /\ nx - c - CHUNK_SIZE >= size
      /\ nx \in Chunks(h) /\ c \in Int /\ nx \in Int /\ h.used[nx]
  BY DEF fits, get_size, Good, Ring, HeadersTyped, Merged
<1>2. size \in Nat /\ size + CHUNK_SIZE \in Nat /\ size + CHUNK_SIZE <= WordSize - ALIGN
  BY FirstFitAssumption DEF INT_MAX
<1>3. off \in Int /\ size <= off
  BY <1>2, AlignedBounds, FirstFitAssumption
<1>4. new \in Int /\ chunk_data(c) <= new /\ size <= new - c - CHUNK_SIZE
  BY <1>1, <1>2, <1>3, FirstFitAssumption DEF chunk_data
<1>5. CASE chunk_data(new) + 4 <= nx
  <2> DEFINE l  == LinkFree(h, c, new)
             m1 == set_used(l, nx)
             m2 == set_used(m1, c)
  <2>5. t = set_current(m2, new)
    BY <1>5 DEF Take
  <2>1. chunk_data(new) <= nx
    BY <1>1, <1>4, <1>5, FirstFitAssumption DEF chunk_data
  <2>2. /\ Good(l, first, last) /\ new \notin Chunks(h)
        /\ Chunks(l) = Chunks(h) \union {new}
        /\ \A x \in Chunks(h) : l.used[x] = h.used[x]
        /\ ~l.used[new]
        /\ l.next[c] = new /\ l.next[new] = nx
        /\ \A x \in Chunks(h) \ {c} : l.next[x] = h.next[x]
    BY <1>1, <1>4, <2>1, LinkFreeGood
  <2> HIDE DEF l
  <2>3. /\ Good(m1, first, last) /\ Chunks(m1) = Chunks(l) /\ m1.next = l.next
        /\ \A x \in Chunks(l) : m1.used[x] <=> (l.used[x] \/ x = nx)
    <3>1. Good(l, first, last) /\ nx \in Chunks(l)
      BY <1>1, <2>2
    <3>2. Good(m1, first, last)
      BY <3>1, MarkGood
    <3>3. Chunks(m1) = Chunks(l)
      BY <3>1, MarkGood
    <3>4. m1.next = l.next
      BY <3>1, MarkGood
    <3>5. \A x \in Chunks(l) : m1.used[x] <=> (l.used[x] \/ x = nx)
      BY <3>1, MarkGood
    <3> QED
      BY <3>2, <3>3, <3>4, <3>5
  <2> HIDE DEF m1
  <2>4. /\ Good(m2, first, last) /\ Chunks(m2) = Chunks(l) /\ m2.next = l.next
        /\ \A x \in Chunks(l) : m2.used[x] <=> (m1.used[x] \/ x = c)
    <3>1. Good(m1, first, last) /\ c \in Chunks(m1)
      BY <2>2, <2>3
    <3>2. Good(m2, first, last)
      BY <3>1, MarkGood
    <3>3. Chunks(m2) = Chunks(m1)
      BY <3>1, MarkGood
    <3>4. m2.next = m1.next
      BY <3>1, MarkGood
    <3>5. \A x \in Chunks(m1) : m2.used[x] <=> (m1.used[x] \/ x = c)
      BY <3>1, MarkGood
    <3> QED
      BY <2>3, <3>2, <3>3, <3>4, <3>5
  <2> HIDE DEF m2
  <2>6. /\ Good(t, first, last) /\ Chunks(t) = Chunks(l) /\ t.next = l.next
        /\ t.used = m2.used /\ t.current = new
    BY <2>4, <2>5, CurrentGood
  <2>7. \A x \in Chunks(h) : t.used[x] <=> (h.used[x] \/ x = c)
    BY <1>1, <2>2, <2>3, <2>4, <2>6
  <2>8. ~t.used[new] /\ new # c /\ new # nx /\ t.used[nx] /\ t.used[c]
    BY <1>1, <2>2, <2>3, <2>4, <2>6, ZenonT(40)
  <2>9. Merged(t)
    <3> SUFFICES ASSUME NEW x \in Chunks(t)
                 PROVE  t.used[x] \/ t.used[t.next[x]]
      BY DEF Merged
    <3>1. CASE x = new
      BY <2>2, <2>6, <2>8, <3>1
    <3>2. CASE x = c
      BY <2>8, <3>2
    <3>3. CASE x # new /\ x # c
      <4>1. x \in Chunks(h) /\ t.next[x] = h.next[x] /\ h.next[x] \in Chunks(h)
        BY <2>2, <2>6, <3>3 DEF Good, HeadersTyped
      <4> QED
        BY <2>7, <4>1 DEF Merged
    <3> QED
      BY <3>1, <3>2, <3>3
  <2> QED
    BY <1>1, <1>4, <2>2, <2>6, <2>7, <2>8, <2>9 DEF get_size
<1>6. CASE ~(chunk_data(new) + 4 <= nx)
  <2> DEFINE m == set_used(h, c)
  <2>1. /\ Good(m, first, last) /\ Chunks(m) = Chunks(h) /\ m.next = h.next
        /\ \A x \in Chunks(h) : m.used[x] <=> (h.used[x] \/ x = c)
    BY MarkGood
  <2>2. t = set_current(m, nx)
    BY <1>6 DEF Take
  <2>3. /\ Good(t, first, last) /\ Chunks(t) = Chunks(h) /\ t.next = h.next
        /\ t.used = m.used /\ t.current = nx
    BY <2>1, <2>2, CurrentGood
  <2>4. Merged(t)
    BY <2>1, <2>3 DEF Merged, Good, HeadersTyped
  <2> QED
    BY <1>1, <2>1, <2>3, <2>4 DEF get_size
<1> QED
  BY <1>5, <1>6

\* The merge with a free successor: what is free may disappear, nothing else.
LEMMA MergeFreeNextGood ==
    ASSUME NEW h, NEW first, NEW last, Good(h, first, last),
           NEW c \in Chunks(h), c # last
    PROVE  LET nx == h.next[c]
               m  == MergeFreeNext(h, c)
           IN  /\ Good(m, first, last) /\ c \in Chunks(m)
               /\ Chunks(m) \subseteq Chunks(h)
               /\ m.current = h.current
               /\ \A x \in Chunks(h) : (x = nx /\ ~h.used[nx]) \/ x \in Chunks(m)
               /\ \A x \in Chunks(m) : m.used[x] = h.used[x]
               /\ \A x \in Chunks(m) \ {c} : m.next[x] = h.next[x]
               /\ m.next[c] = IF h.used[nx] THEN nx ELSE h.next[nx]
               /\ ~h.used[nx] => nx \notin Chunks(m)
<1>1. CASE h.used[h.next[c]]
  BY <1>1 DEF MergeFreeNext
<1>2. CASE ~h.used[h.next[c]]
  <2>1. MergeFreeNext(h, c) = MergeNext(h, c)
    BY <1>2 DEF MergeFreeNext
  <2>2. h.next[c] # last
    BY <1>2 DEF Good, Ring
  <2> QED
    BY <1>2, <2>1, <2>2, MergeNextGood
<1> QED
  BY <1>1, <1>2

\* Freeing a used chunk keeps every other used chunk and its size, and no two
\* neighbours are free afterwards.
LEMMA ReleaseGood ==
    ASSUME NEW h, NEW first, NEW last, Good(h, first, last), Merged(h),
           NEW c \in Chunks(h), c # last, h.used[c]
    PROVE  LET r == Release(h, c)
           IN  /\ Good(r, first, last) /\ Merged(r)
               /\ r.current \in Chunks(r)
               /\ Chunks(r) \subseteq Chunks(h)
               /\ \A x \in Chunks(r) : r.used[x] => h.used[x] /\ x # c
               /\ \A x \in Chunks(h) : h.used[x] /\ x # c =>
                    x \in Chunks(r) /\ r.used[x] /\ r.next[x] = h.next[x]
<1> DEFINE f  == set_free(h, c)
           m  == MergeFreeNext(f, c)
           p  == m.prev[c]
           r  == Release(h, c)
<1>1. Good(f, first, last)
  BY MarkGood
<1>2. Chunks(f) = Chunks(h) /\ f.next = h.next
  BY MarkGood
<1>3. \A x \in Chunks(h) : f.used[x] <=> (h.used[x] /\ x # c)
  BY MarkGood, SMTT(40)
<1>4. r = MergeFreePrev(m, c)
  BY DEF Release
<1> HIDE DEF f
<1>5. /\ Good(m, first, last) /\ c \in Chunks(m)
      /\ Chunks(m) \subseteq Chunks(h)
      /\ \A x \in Chunks(h) : (x = h.next[c] /\ ~f.used[h.next[c]]) \/ x \in Chunks(m)
      /\ \A x \in Chunks(m) : m.used[x] = f.used[x]
      /\ \A x \in Chunks(m) \ {c} : m.next[x] = h.next[x]
      /\ m.next[c] = IF f.used[h.next[c]] THEN h.next[c] ELSE h.next[h.next[c]]
      /\ ~f.used[h.next[c]] => h.next[c] \notin Chunks(m)
  BY <1>1, <1>2, MergeFreeNextGood
<1> HIDE DEF m
<1>6. /\ \A x \in Chunks(m) : m.used[x] <=> (h.used[x] /\ x # c)
      /\ \A x \in Chunks(h) : h.used[x] /\ x # c => x \in Chunks(m)
  BY <1>2, <1>3, <1>5 DEF Good, HeadersTyped
<1>7. \A x \in Chunks(m) : h.next[x] \in Chunks(h) /\ m.next[x] \in Chunks(m)
  BY <1>5 DEF Good, HeadersTyped
\* After the merge with its successor, c is followed by a used chunk.
<1>8. m.used[m.next[c]]
  <2>1. h.next[c] \in Chunks(h) /\ h.next[h.next[c]] \in Chunks(h)
    BY DEF Good, HeadersTyped
  <2>2. c \in Int /\ h.next[c] \in Int /\ h.next[h.next[c]] \in Int
    BY <2>1 DEF Good, HeadersTyped
  <2>3. c < h.next[c]
    BY <2>1, <2>2, FirstFitAssumption DEF Good, Ring, chunk_data
  <2>4. CASE f.used[h.next[c]]
    BY <1>3, <1>5, <1>6, <1>7, <2>1, <2>4
  <2>5. CASE ~f.used[h.next[c]]
    <3>1. ~h.used[h.next[c]] /\ h.next[c] # last
      BY <1>3, <2>1, <2>3, <2>2, <2>5 DEF Good, Ring
    <3>2. h.next[c] < h.next[h.next[c]]
      BY <2>1, <2>2, <3>1, FirstFitAssumption DEF Good, Ring, chunk_data
    <3>3. h.used[h.next[h.next[c]]] /\ h.next[h.next[c]] # c
      BY <2>1, <2>2, <2>3, <3>1, <3>2 DEF Merged
    <3> QED
      BY <1>5, <1>6, <1>7, <2>5, <3>3
  <2> QED
    BY <2>4, <2>5
<1>9. \A x \in Chunks(m) \ {c} : m.used[x] \/ m.used[m.next[x]] \/ m.next[x] = c
  BY <1>5, <1>6, <1>7 DEF Merged
<1>10. p \in Chunks(m) /\ m.next[p] = c
  BY <1>5 DEF Good, HeadersTyped, Ring
<1>11. CASE m.used[p]
  <2>1. r = set_current(m, c)
    BY <1>4, <1>11 DEF MergeFreePrev
  <2>2. /\ Good(r, first, last) /\ Chunks(r) = Chunks(m) /\ r.used = m.used
        /\ r.next = m.next /\ r.current = c
    BY <1>5, <2>1, CurrentGood
  <2>3. \A x \in Chunks(m) : m.next[x] = c => x = p
    BY <1>5, <1>10 DEF Good, Ring
  <2>4. Merged(r)
    BY <1>8, <1>9, <1>11, <2>2, <2>3, SMTT(40) DEF Merged
  <2> QED
    BY <1>5, <1>6, <2>2, <2>4
<1>12. CASE ~m.used[p]
  <2> DEFINE q == MergeNext(m, p)
  <2>1. r = set_current(q, p)
    BY <1>4, <1>12 DEF MergeFreePrev
  <2>2. p # last /\ m.next[p] # last
    BY <1>5, <1>10, <1>12, SMTT(40) DEF Good, Ring
  <2>3. /\ Good(q, first, last) /\ c # p
        /\ Chunks(q) = Chunks(m) \ {c}
        /\ \A x \in Chunks(q) : q.used[x] = m.used[x]
        /\ q.next[p] = m.next[c]
        /\ \A x \in Chunks(q) \ {p} : q.next[x] = m.next[x]
    BY <1>5, <1>10, <2>2, MergeNextGood
  <2> HIDE DEF q
  <2>4. /\ Good(r, first, last) /\ Chunks(r) = Chunks(q) /\ r.used = q.used
        /\ r.next = q.next /\ r.current = p
    BY <2>1, <2>3, CurrentGood
  <2>5. \A x \in Chunks(m) : m.next[x] = c => x = p
    BY <1>5, <1>10 DEF Good, Ring
  <2>6. Merged(r)
    <3> SUFFICES ASSUME NEW x \in Chunks(r)
                 PROVE  r.used[x] \/ r.used[r.next[x]]
      BY DEF Merged
    <3>1. x \in Chunks(m) /\ x # c /\ r.next[x] \in Chunks(q)
      BY <2>3, <2>4, SMTT(40) DEF Good, HeadersTyped
    <3>2. CASE x = p
      BY <1>8, <2>3, <2>4, <3>1, <3>2, SMTT(40)
    <3>3. CASE x # p
      BY <1>9, <2>3, <2>4, <2>5, <3>1, <3>3, SMTT(40)
    <3> QED
      BY <3>2, <3>3
  <2>7. \A x \in Chunks(h) : h.used[x] /\ x # c =>
            x \in Chunks(r) /\ r.used[x] /\ r.next[x] = h.next[x]
    BY <1>5, <1>6, <1>12, <2>3, <2>4, SMTT(40)
  <2> QED
    BY <1>5, <1>6, <1>10, <2>3, <2>4, <2>6, <2>7, SMTT(40)
<1> QED
  BY <1>11, <1>12

\* Resizing a block in place keeps every used chunk and the size of the other
\* ones, gives the block asize bytes and makes one free chunk of the rest.
LEMMA ResizeGood ==
    ASSUME NEW h, NEW first, NEW last, Good(h, first, last), Merged(h),
           h.current \in Chunks(h),
           NEW c \in Chunks(h), c # last, h.used[c], NEW asize \in Nat,
           chunk_data(chunk_data(c) + asize)
              <= (IF h.used[h.next[c]] THEN h.next[c] ELSE h.next[h.next[c]]),
           NEW cur, cur \in {chunk_data(c) + asize, h.next[h.next[c]]}
    PROVE  LET z == Resize(h, c, asize, cur)
           IN  /\ Good(z, first, last) /\ Merged(z)
               /\ z.current \in Chunks(z)
               /\ \A x \in Chunks(z) : z.used[x] => x \in Chunks(h) /\ h.used[x]
               /\ \A x \in Chunks(h) : h.used[x] =>
                    /\ x \in Chunks(z) /\ z.used[x]
                    /\ x # c => z.next[x] = h.next[x]
               /\ get_size(z, c) = asize
<1> DEFINE nx  == h.next[c]
           new == chunk_data(c) + asize
           h1  == IF h.current = nx /\ ~h.used[nx] THEN set_current(h, cur) ELSE h
           m   == MergeFreeNext(h1, c)
           z   == Resize(h, c, asize, cur)
<1>1. /\ c \in Int /\ nx \in Chunks(h) /\ nx \in Int
      /\ h.next[nx] \in Chunks(h) /\ h.next[nx] \in Int
  BY DEF Good, HeadersTyped
<1>2. /\ new \in Int /\ chunk_data(c) <= new /\ c < new
      /\ new - c - CHUNK_SIZE = asize
  BY <1>1, FirstFitAssumption DEF chunk_data
<1>3. z = LinkFree(m, c, new)
  BY SMTT(40) DEF Resize
<1>4. /\ Good(h1, first, last) /\ Chunks(h1) = Chunks(h) /\ h1.used = h.used
      /\ h1.next = h.next
      /\ h1.current = IF h.current = nx /\ ~h.used[nx] THEN cur ELSE h.current
  BY CurrentGood, SMTT(40)
<1> HIDE DEF h1
<1>5. /\ Good(m, first, last) /\ c \in Chunks(m)
      /\ Chunks(m) \subseteq Chunks(h)
      /\ m.current = h1.current
      /\ \A x \in Chunks(h) : (x = nx /\ ~h.used[nx]) \/ x \in Chunks(m)
      /\ \A x \in Chunks(m) : m.used[x] = h.used[x]
      /\ \A x \in Chunks(m) \ {c} : m.next[x] = h.next[x]
      /\ m.next[c] = IF h.used[nx] THEN nx ELSE h.next[nx]
      /\ ~h.used[nx] => nx \notin Chunks(m)
  BY <1>4, MergeFreeNextGood, SMTT(40)
<1> HIDE DEF m
<1>6. /\ Good(z, first, last) /\ new \notin Chunks(m)
      /\ Chunks(z) = Chunks(m) \union {new}
      /\ z.current = m.current
      /\ \A x \in Chunks(m) : z.used[x] = m.used[x]
      /\ ~z.used[new]
      /\ z.next[c] = new /\ z.next[new] = m.next[c]
      /\ \A x \in Chunks(m) \ {c} : z.next[x] = m.next[x]
  BY <1>2, <1>3, <1>5, LinkFreeGood, SMTT(40)
<1> HIDE DEF z
<1>7. m.next[c] \in Chunks(m) /\ m.used[m.next[c]]
  <2>1. m.next[c] \in Chunks(m)
    BY <1>5 DEF Good, HeadersTyped
  <2> QED
    BY <1>1, <1>5, <2>1 DEF Merged
<1>8. z.current \in Chunks(z)
  <2>1. CASE h.current = nx /\ ~h.used[nx]
    <3>1. h.next[nx] \in Chunks(m)
      BY <1>5, <1>7, <2>1, SMTT(40)
    <3> QED
      BY <1>4, <1>5, <1>6, <2>1, <3>1, SMTT(40)
  <2>2. CASE ~(h.current = nx /\ ~h.used[nx])
    BY <1>4, <1>5, <1>6, <2>2
  <2> QED
    BY <2>1, <2>2, SMTT(40)
<1>9. Merged(z)
  <2> SUFFICES ASSUME NEW x \in Chunks(z)
               PROVE  z.used[x] \/ z.used[z.next[x]]
    BY DEF Merged
  <2>1. CASE x = new
    BY <1>6, <1>7, <2>1, ZenonT(40)
  <2>2. CASE x = c
    BY <1>5, <1>6, <2>2, SMTT(40)
  <2>3. CASE x # new /\ x # c
    <3>1. /\ x \in Chunks(m) /\ z.next[x] = h.next[x] /\ m.next[x] = h.next[x]
          /\ h.next[x] \in Chunks(m)
      BY <1>5, <1>6, <2>3, SMTT(40) DEF Good, HeadersTyped
    <3> QED
      BY <1>5, <1>6, <3>1, SMTT(40) DEF Merged
  <2> QED
    BY <2>1, <2>2, <2>3
<1>10. \A x \in Chunks(z) : z.used[x] => x \in Chunks(h) /\ h.used[x]
  BY <1>5, <1>6, SMTT(40)
<1>11. \A x \in Chunks(h) : h.used[x] =>
          /\ x \in Chunks(z) /\ z.used[x]
          /\ x # c => z.next[x] = h.next[x]
  BY <1>5, <1>6
<1> QED
  BY <1>2, <1>6, <1>8, <1>9, <1>10, <1>11 DEF get_size, z

-----------------------------------------------------------------------------
(* The heap together with its clients' blocks *)

HeapInv(h, first, last, blocks) ==
    /\ Good(h, first, last) /\ Merged(h) /\ h.current \in Chunks(h)
    /\ blocks \in [DOMAIN blocks -> 0 .. WordSize - 1]
    /\ DOMAIN blocks \subseteq Int
    /\ Held(h, last, blocks)

\* A block's chunk is a used chunk of the ring, not the sentinel.
LEMMA BlockChunk ==
    ASSUME NEW h, NEW first, NEW last, NEW blocks, HeapInv(h, first, last, blocks),
           NEW p \in DOMAIN blocks
    PROVE  /\ p \in Int /\ chunk_of(p) \in Chunks(h) /\ chunk_of(p) # last
           /\ chunk_data(chunk_of(p)) = p
           /\ h.used[chunk_of(p)]
           /\ chunk_of(p) \in Int
<1>1. p \in Int /\ chunk_of(p) \in Int /\ chunk_data(chunk_of(p)) = p
  BY FirstFitAssumption DEF HeapInv, chunk_of, chunk_data
<1>2. chunk_of(p) \in Chunks(h) /\ chunk_of(p) # last
  BY DEF HeapInv, Held
<1>3. h.used[chunk_of(p)]
  BY <1>1, <1>2 DEF HeapInv, Held
<1> QED
  BY <1>1, <1>2, <1>3

\* malloc adds one block that was not held before.
LEMMA TakeHeld ==
    ASSUME NEW h, NEW first, NEW last, NEW blocks, HeapInv(h, first, last, blocks),
           NEW c \in Chunks(h), NEW size \in 1 .. INT_MAX, fits(h, c, size)
    PROVE  /\ HeapInv(Take(h, c, size), first, last,
                      Put(blocks, chunk_data(c), size))
           /\ chunk_data(c) \notin DOMAIN blocks
           /\ chunk_data(c) \in Int
           /\ DOMAIN Put(blocks, chunk_data(c), size)
                = DOMAIN blocks \union {chunk_data(c)}
<1> DEFINE t == Take(h, c, size)
           b == Put(blocks, chunk_data(c), size)
<1>1. /\ Good(t, first, last) /\ Merged(t)
      /\ t.current \in Chunks(t)
      /\ Chunks(h) \subseteq Chunks(t)
      /\ \A x \in Chunks(h) : t.used[x] <=> (h.used[x] \/ x = c)
      /\ \A x \in Chunks(t) \ Chunks(h) : ~t.used[x]
      /\ \A x \in Chunks(h) \ {c} : t.next[x] = h.next[x]
      /\ c # last
      /\ get_size(t, c) >= size
  BY TakeGood DEF HeapInv
<1> HIDE DEF t
<1>2. /\ c \in Int /\ chunk_data(c) \in Int /\ chunk_of(chunk_data(c)) = c
      /\ Chunks(t) \subseteq Int
      /\ \A x \in Int : chunk_data(x) = chunk_data(c) => x = c
      /\ \A x \in Int : chunk_data(x) \in Int /\ chunk_of(chunk_data(x)) = x
  BY <1>1, FirstFitAssumption DEF HeapInv, Good, HeadersTyped, chunk_data, chunk_of
<1>3. chunk_data(c) \notin DOMAIN blocks
  BY <1>1 DEF HeapInv, Held, fits
<1>4. /\ DOMAIN b = DOMAIN blocks \union {chunk_data(c)}
      /\ b[chunk_data(c)] = size
      /\ \A p \in DOMAIN blocks : b[p] = blocks[p]
  BY <1>3 DEF Put
<1>5. b \in [DOMAIN b -> 0 .. WordSize - 1] /\ DOMAIN b \subseteq Int
  <2>1. size \in 0 .. WordSize - 1
    BY FirstFitAssumption DEF INT_MAX
  <2> QED
    BY <1>2, <1>4, <2>1 DEF HeapInv, Put
<1> HIDE DEF b
<1>6. \A x \in Chunks(t) \ {last} : t.used[x] <=> chunk_data(x) \in DOMAIN b
  <2> SUFFICES ASSUME NEW x \in Chunks(t), x # last
               PROVE  t.used[x] <=> chunk_data(x) \in DOMAIN b
    OBVIOUS
  <2>1. CASE x \in Chunks(h)
    <3>1. h.used[x] <=> chunk_data(x) \in DOMAIN blocks
      BY <2>1 DEF HeapInv, Held
    <3>2. t.used[x] <=> (h.used[x] \/ x = c)
      BY <1>1, <2>1
    <3> QED
      BY <1>2, <1>4, <3>1, <3>2
  <2>2. CASE x \notin Chunks(h)
    <3>1. ~t.used[x] /\ x # c
      BY <1>1, <2>2
    <3>2. x \in Int /\ chunk_of(chunk_data(x)) = x
      BY <1>2
    <3>3. chunk_data(x) \notin DOMAIN blocks
      BY <2>2, <3>2 DEF HeapInv, Held
    <3> QED
      BY <1>2, <1>4, <3>1, <3>2, <3>3
  <2> QED
    BY <2>1, <2>2
<1>7. ASSUME NEW p \in DOMAIN b
      PROVE  /\ chunk_of(p) \in Chunks(t) \ {last}
             /\ b[p] <= WordSize - ALIGN => b[p] <= get_size(t, chunk_of(p))
  <2>1. CASE p = chunk_data(c)
    BY <1>1, <1>2, <1>4, <2>1
  <2>2. CASE p # chunk_data(c)
    <3>1. p \in DOMAIN blocks /\ b[p] = blocks[p]
      BY <1>4, <2>2
    <3>2. chunk_of(p) \in Chunks(h) /\ chunk_of(p) # last /\ chunk_of(p) # c
      BY <2>2, <3>1, BlockChunk
    <3>3. t.next[chunk_of(p)] = h.next[chunk_of(p)]
      BY <1>1, <3>2
    <3> QED
      BY <1>1, <3>1, <3>2, <3>3 DEF HeapInv, Held, get_size
  <2> QED
    BY <2>1, <2>2
<1>8. HeapInv(t, first, last, b)
  BY <1>1, <1>5, <1>6, <1>7 DEF HeapInv, Held
<1> QED
  BY <1>2, <1>3, <1>4, <1>8 DEF t, b

\* free takes one block away and leaves the others.
LEMMA ReleaseHeld ==
    ASSUME NEW h, NEW first, NEW last, NEW blocks, HeapInv(h, first, last, blocks),
           NEW p \in DOMAIN blocks
    PROVE  /\ HeapInv(Release(h, chunk_of(p)), first, last, Without(blocks, p))
           /\ DOMAIN Without(blocks, p) = DOMAIN blocks \ {p}
<1> DEFINE c == chunk_of(p)
           r == Release(h, c)
           b == Without(blocks, p)
<1>1. /\ p \in Int /\ c \in Chunks(h) /\ c # last /\ chunk_data(c) = p
      /\ h.used[c] /\ c \in Int
  BY BlockChunk
<1>2. /\ Good(r, first, last) /\ Merged(r)
      /\ r.current \in Chunks(r)
      /\ Chunks(r) \subseteq Chunks(h)
      /\ \A x \in Chunks(r) : r.used[x] => h.used[x] /\ x # c
      /\ \A x \in Chunks(h) : h.used[x] /\ x # c =>
           x \in Chunks(r) /\ r.used[x] /\ r.next[x] = h.next[x]
  BY <1>1, ReleaseGood DEF HeapInv
<1> HIDE DEF r
<1>3. /\ DOMAIN b = DOMAIN blocks \ {p}
      /\ \A q \in DOMAIN b : b[q] = blocks[q]
      /\ b \in [DOMAIN b -> 0 .. WordSize - 1] /\ DOMAIN b \subseteq Int
  BY DEF Without, HeapInv
<1> HIDE DEF b
<1>4. \A x \in Chunks(h) : chunk_data(x) = p => x = c
  BY <1>1, FirstFitAssumption DEF HeapInv, Good, HeadersTyped, chunk_data, chunk_of
<1>5. \A x \in Chunks(r) \ {last} : r.used[x] <=> chunk_data(x) \in DOMAIN b
  <2> SUFFICES ASSUME NEW x \in Chunks(r), x # last
               PROVE  r.used[x] <=> chunk_data(x) \in DOMAIN b
    OBVIOUS
  <2>1. h.used[x] <=> chunk_data(x) \in DOMAIN blocks
    BY <1>2 DEF HeapInv, Held
  <2>2. r.used[x] <=> (h.used[x] /\ x # c)
    BY <1>2
  <2>3. x # c <=> chunk_data(x) # p
    BY <1>1, <1>2, <1>4
  <2> QED
    BY <1>3, <2>1, <2>2, <2>3
<1>6. ASSUME NEW q \in DOMAIN b
      PROVE  /\ chunk_of(q) \in Chunks(r) \ {last}
             /\ b[q] <= WordSize - ALIGN => b[q] <= get_size(r, chunk_of(q))
  <2>1. q \in DOMAIN blocks /\ q # p /\ b[q] = blocks[q]
    BY <1>3
  <2>2. /\ chunk_of(q) \in Chunks(h) /\ chunk_of(q) # last /\ chunk_of(q) # c
        /\ h.used[chunk_of(q)]
    BY <1>1, <2>1, BlockChunk
  <2>3. chunk_of(q) \in Chunks(r) /\ r.next[chunk_of(q)] = h.next[chunk_of(q)]
    BY <1>2, <2>2
  <2> QED
    BY <2>1, <2>2, <2>3 DEF HeapInv, Held, get_size
<1>7. HeapInv(r, first, last, b)
  BY <1>2, <1>3, <1>5, <1>6 DEF HeapInv, Held
<1> QED
  BY <1>3, <1>7 DEF r, b

\* realloc in place changes the size of one block only.
LEMMA ResizeHeld ==
    ASSUME NEW h, NEW first, NEW last, NEW blocks, HeapInv(h, first, last, blocks),
           NEW p \in DOMAIN blocks, NEW size \in 0 .. WordSize - 1,
           chunk_data(p + aligned(size))
              <= (IF h.used[h.next[chunk_of(p)]] THEN h.next[chunk_of(p)]
                  ELSE h.next[h.next[chunk_of(p)]]),
           NEW cur, cur \in {p + aligned(size), h.next[h.next[chunk_of(p)]]}
    PROVE  HeapInv(Resize(h, chunk_of(p), aligned(size), cur), first, last,
                   [blocks EXCEPT ![p] = size])
<1> DEFINE c == chunk_of(p)
           z == Resize(h, c, aligned(size), cur)
           b == [blocks EXCEPT ![p] = size]
<1>1. /\ p \in Int /\ c \in Chunks(h) /\ c # last /\ chunk_data(c) = p
      /\ h.used[c] /\ c \in Int
  BY BlockChunk
<1>2. aligned(size) \in Nat /\ (size <= WordSize - ALIGN => size <= aligned(size))
  BY AlignedBounds, FirstFitAssumption, SMTT(40)
<1>3. /\ Good(z, first, last) /\ Merged(z)
      /\ z.current \in Chunks(z)
      /\ \A x \in Chunks(z) : z.used[x] => x \in Chunks(h) /\ h.used[x]
      /\ \A x \in Chunks(h) : h.used[x] =>
           /\ x \in Chunks(z) /\ z.used[x]
           /\ x # c => z.next[x] = h.next[x]
      /\ get_size(z, c) = aligned(size)
  BY <1>1, <1>2, ResizeGood DEF HeapInv
<1> HIDE DEF z
<1>4. /\ DOMAIN b = DOMAIN blocks /\ b[p] = size
      /\ \A q \in DOMAIN blocks \ {p} : b[q] = blocks[q]
      /\ b \in [DOMAIN b -> 0 .. WordSize - 1] /\ DOMAIN b \subseteq Int
  BY DEF HeapInv
<1> HIDE DEF b
<1>5. \A x \in Int : chunk_of(chunk_data(x)) = x
  BY FirstFitAssumption DEF chunk_of, chunk_data
<1>6. \A x \in Chunks(z) \ {last} : z.used[x] <=> chunk_data(x) \in DOMAIN b
  <2> SUFFICES ASSUME NEW x \in Chunks(z), x # last
               PROVE  z.used[x] <=> chunk_data(x) \in DOMAIN b
    OBVIOUS
  <2>1. x \in Int
    BY <1>3 DEF Good, HeadersTyped
  <2>2. ASSUME z.used[x] PROVE chunk_data(x) \in DOMAIN b
    BY <1>3, <1>4, <2>2 DEF HeapInv, Held
  <2>3. ASSUME chunk_data(x) \in DOMAIN b PROVE z.used[x]
    <3>1. x \in Chunks(h) /\ h.used[x]
      BY <1>4, <1>5, <2>1, <2>3, BlockChunk, SMTT(40)
    <3> QED
      BY <1>3, <3>1
  <2> QED
    BY <2>2, <2>3
<1>7. ASSUME NEW q \in DOMAIN b
      PROVE  /\ chunk_of(q) \in Chunks(z) \ {last}
             /\ b[q] <= WordSize - ALIGN => b[q] <= get_size(z, chunk_of(q))
  <2>1. CASE q = p
    BY <1>1, <1>2, <1>3, <1>4, <2>1
  <2>2. CASE q # p
    <3>1. q \in DOMAIN blocks /\ b[q] = blocks[q]
      BY <1>4, <2>2
    <3>2. /\ chunk_of(q) \in Chunks(h) /\ chunk_of(q) # last /\ chunk_of(q) # c
          /\ h.used[chunk_of(q)]
      BY <1>1, <2>2, <3>1, BlockChunk, SMTT(40)
    <3>3. chunk_of(q) \in Chunks(z) /\ z.next[chunk_of(q)] = h.next[chunk_of(q)]
      BY <1>3, <3>2
    <3> QED
      BY <3>1, <3>2, <3>3 DEF HeapInv, Held, get_size
  <2> QED
    BY <2>1, <2>2
<1>8. HeapInv(z, first, last, b)
  BY <1>3, <1>4, <1>6, <1>7 DEF HeapInv, Held
<1> QED
  BY <1>8 DEF z, b

-----------------------------------------------------------------------------
(* The inductive invariant *)

\* The chunks a scan has left behind, from this->current up to its chunk
\* around the ring.
Passed(c) ==
    IF heap.current <= call.chunk
    THEN heap.current <= c /\ c < call.chunk
    ELSE heap.current <= c \/ c < call.chunk

\* A scan runs over undamaged headers, and what it has left behind does not
\* fit.
ScanInv ==
    call # Idle =>
       /\ smashed = {}
       /\ \A c \in Chunks(heap) : Passed(c) => ~fits(heap, c, call.size)

IInv ==
    /\ HeapInv(heap, initial, heap_end, live)
    /\ TypeOK
    /\ ScanInv
    /\ IsFiniteSet(Blocks) /\ StatsCount

\* firstfit_new makes two headers, or one when the heap is too small for two.
LEMMA InitIInv == Init => IInv
<1> SUFFICES ASSUME Init PROVE IInv
  OBVIOUS
<1>1. PICK startmem \in StartMem, size \in HeapSizes :
        /\ size >= aligned(ALLOC_SIZE + CHUNK_SIZE) + CHUNK_SIZE + 1
        /\ initial = aligned(startmem + ALLOC_SIZE + CHUNK_SIZE) - CHUNK_SIZE
        /\ heap_end = ALIGN * ((startmem + size) \div ALIGN) - CHUNK_SIZE
        /\ LET ends == {initial, heap_end}
               other == [c \in ends |-> IF c = heap_end THEN initial ELSE heap_end]
           IN  heap = Heap(other, other, [c \in ends |-> c = heap_end], initial)
  BY DEF Init, firstfit_new
<1> DEFINE S == ALLOC_SIZE + CHUNK_SIZE
           X == aligned(startmem + ALLOC_SIZE + CHUNK_SIZE)
           e == (startmem + size) \div ALIGN
<1>2. /\ startmem \in Nat /\ size \in Nat /\ S \in Nat /\ ALIGN \in Nat \ {0}
      /\ startmem % ALIGN = 0 /\ S <= WordSize - ALIGN
      /\ startmem + size <= WordSize - ALIGN
  BY FirstFitAssumption
<1>3. /\ aligned(S) \in Nat /\ S <= aligned(S) /\ aligned(S) < S + ALIGN
      /\ aligned(S) % ALIGN = 0
  BY <1>2, AlignedBounds
<1>4. /\ X \in Nat /\ startmem + S <= X /\ X < startmem + S + ALIGN
      /\ X % ALIGN = 0
  <2>1. startmem + ALLOC_SIZE + CHUNK_SIZE = startmem + S
    BY <1>2, FirstFitAssumption
  <2>2. startmem + S \in Nat /\ startmem + S <= WordSize - ALIGN
    BY <1>1, <1>2, <1>3, FirstFitAssumption
  <2> QED
    BY <2>1, <2>2, AlignedBounds
<1>5. PICK k \in Int : X = ALIGN * k
  BY <1>2, <1>4, SMTT(40)
<1>6. PICK n \in Int : startmem + aligned(S) = ALIGN * n
  <2>1. PICK i \in Int : startmem = ALIGN * i
    <3>1. startmem \div ALIGN \in Int
      BY <1>2
    <3>2. startmem = ALIGN * (startmem \div ALIGN)
      BY <1>2
    <3> QED
      BY <3>1, <3>2
  <2>2. PICK j \in Int : aligned(S) = ALIGN * j
    BY <1>2, <1>3
  <2>3. startmem + aligned(S) = ALIGN * (i + j)
    BY <1>2, <2>1, <2>2
  <2> QED
    BY <2>3
<1>7. e \in Int /\ ALIGN * e <= startmem + size /\ startmem + size < ALIGN * e + ALIGN
  BY <1>2
<1>8. ALIGN * k <= ALIGN * n
  <2>1. ALIGN * k < ALIGN * (n + 1)
    <3>1. ALIGN * (n + 1) = ALIGN * n + ALIGN
      BY <1>2
    <3>2. X < startmem + aligned(S) + ALIGN
      BY <1>2, <1>3, <1>4
    <3> QED
      BY <1>5, <1>6, <3>1, <3>2
  <2>2. ALIGN * k + ALIGN <= ALIGN * (n + 1)
    BY <1>2, <2>1, MultLess
  <2> QED
    BY <1>2, <2>2
<1>9. ALIGN * n <= ALIGN * e
  <2>1. ALIGN * n < ALIGN * (e + 1)
    BY <1>1, <1>2, <1>3, <1>6, <1>7, FirstFitAssumption
  <2>2. ALIGN * n + ALIGN <= ALIGN * (e + 1)
    BY <1>2, <1>7, <2>1, MultLess
  <2> QED
    BY <1>2, <1>7, <2>2
<1>10. /\ initial \in Int /\ heap_end \in Int /\ initial <= heap_end
       /\ initial # heap_end => chunk_data(initial) <= heap_end
  <2>1. ASSUME ALIGN * k < ALIGN * e PROVE ALIGN * k + ALIGN <= ALIGN * e
    BY <1>2, <1>7, <2>1, MultLess, ZenonT(40)
  <2>2. ALIGN * k \in Int /\ ALIGN * n \in Int /\ ALIGN * e \in Int
    BY <1>2, <1>7
  <2>3. initial = ALIGN * k - CHUNK_SIZE /\ heap_end = ALIGN * e - CHUNK_SIZE
    BY <1>1, <1>5
  <2> HIDE DEF e
  <2> QED
    BY <1>2, <1>8, <1>9, <2>1, <2>2, <2>3, FirstFitAssumption DEF chunk_data
<1> DEFINE ends == {initial, heap_end}
<1>11. /\ heap.next = [c \in ends |-> IF c = heap_end THEN initial ELSE heap_end]
       /\ heap.prev = [c \in ends |-> IF c = heap_end THEN initial ELSE heap_end]
       /\ heap.used = [c \in ends |-> c = heap_end]
       /\ heap.current = initial
       /\ Chunks(heap) = ends
  BY <1>1 DEF Heap, Chunks
<1>12. Good(heap, initial, heap_end)
  <2>1. HeadersTyped(heap)
    BY <1>10, <1>11 DEF HeadersTyped
  <2>2. Ring(heap, initial, heap_end)
    <3>1. heap.next[heap_end] = initial /\ heap.used[heap_end]
      BY <1>11, ZenonT(40)
    <3>2. \A c \in Chunks(heap) : initial <= c /\ c <= heap_end
      BY <1>10, <1>11
    <3>3. \A c \in Chunks(heap) : /\ heap.prev[heap.next[c]] = c
                                  /\ heap.next[heap.prev[c]] = c
      BY <1>11
    <3>4. \A c \in Chunks(heap) \ {heap_end} :
            /\ chunk_data(c) <= heap.next[c]
            /\ \A d \in Chunks(heap) : d <= c \/ heap.next[c] <= d
      BY <1>10, <1>11
    <3> QED
      BY <3>1, <3>2, <3>3, <3>4 DEF Ring
  <2> QED
    BY <1>11, <2>1, <2>2 DEF Good
<1>13. Merged(heap)
  BY <1>11, ZenonT(40) DEF Merged
<1>14. live = << >> /\ DOMAIN live = {} /\ call = Idle /\ smashed = {} /\ balance = 0
  BY DEF Init
<1>15. live \in [DOMAIN live -> 0 .. WordSize - 1]
  BY <1>14
<1>16. Held(heap, heap_end, live)
  BY <1>11, <1>14, ZenonT(40) DEF Held
<1>17. HeapInv(heap, initial, heap_end, live) /\ TypeOK
  BY <1>11, <1>12, <1>13, <1>14, <1>15, <1>16 DEF HeapInv, TypeOK, Good, Blocks
<1>18. IsFiniteSet(Blocks) /\ StatsCount
  BY <1>14, FS_EmptySet, SMTT(40) DEF Blocks, StatsCount
<1> QED
  BY <1>14, <1>17, <1>18 DEF IInv, ScanInv

\* What a scan looks at next: the passed chunks grow by the one it leaves.
LEMMA ScanPasses ==
    ASSUME IInv, call # Idle, NEW c \in Chunks(heap)
    PROVE  LET nx == heap.next[call.chunk]
           IN  /\ nx = heap.current => Passed(c) \/ c = call.chunk
               /\ nx # heap.current =>
                    ((IF heap.current <= nx THEN heap.current <= c /\ c < nx
                      ELSE heap.current <= c \/ c < nx)
                     => Passed(c) \/ c = call.chunk)
<1> DEFINE k  == call.chunk
           nx == heap.next[k]
<1>1. /\ k \in Chunks(heap) /\ nx \in Chunks(heap) /\ heap.current \in Chunks(heap)
      /\ Chunks(heap) \subseteq Int /\ heap_end \in Chunks(heap)
      /\ initial \in Chunks(heap)
  BY DEF IInv, TypeOK, HeadersTyped
<1>2. /\ heap.next[heap_end] = initial
      /\ \A x \in Chunks(heap) : initial <= x /\ x <= heap_end
  BY DEF IInv, HeapInv, Good, Ring
<1>3. CASE k = heap_end
  BY <1>1, <1>2, <1>3 DEF Passed
<1>4. CASE k # heap_end
  <2>1. k < nx /\ \A x \in Chunks(heap) : x <= k \/ nx <= x
    BY <1>1, <1>4, FirstFitAssumption DEF IInv, HeapInv, Good, Ring, chunk_data
  <2> QED
    BY <1>1, <2>1 DEF Passed
<1> QED
  BY <1>3, <1>4

\* The counts after one more and after one less block.
LEMMA CountBlocks ==
    ASSUME NEW S, IsFiniteSet(S), NEW n, n = Cardinality(S)
    PROVE  /\ n \in Int
           /\ \A x : x \notin S => /\ IsFiniteSet(S \union {x})
                                   /\ Cardinality(S \union {x}) = n + 1
           /\ \A x : x \in S => /\ IsFiniteSet(S \ {x})
                                /\ Cardinality(S \ {x}) = n - 1
  BY FS_CardinalityType, FS_AddElement, FS_RemoveElement

\* The end of every call: no call is running, so only the heap, its blocks
\* and their count are left to show.
LEMMA IdleIInv ==
    HeapInv(heap, initial, heap_end, live) /\ call = Idle
    /\ smashed \subseteq Chunks(heap) /\ IsFiniteSet(Blocks) /\ StatsCount
    => IInv
<1> SUFFICES ASSUME HeapInv(heap, initial, heap_end, live), call = Idle,
                    smashed \subseteq Chunks(heap), IsFiniteSet(Blocks), StatsCount
             PROVE  IInv
  OBVIOUS
<1>1. balance \in Int
  BY FS_CardinalityType DEF StatsCount
<1> QED
  BY <1>1 DEF IInv, TypeOK, HeapInv, Good, ScanInv, Blocks

\* The state a call works on.
LEMMA IInvFacts ==
    ASSUME IInv
    PROVE  /\ HeapInv(heap, initial, heap_end, live)
           /\ smashed \subseteq Chunks(heap)
           /\ IsFiniteSet(Blocks) /\ balance = Cardinality(Blocks)
           /\ balance \in Int
           /\ call # Idle => /\ call.size \in 1 .. INT_MAX
                             /\ call.old \in Blocks \union {Null}
                             /\ call.chunk \in Chunks(heap)
  BY DEF IInv, TypeOK, StatsCount

\* Freeing a block, by itself or at the end of a failed realloc.
LEMMA FreeStep ==
    ASSUME IInv, NEW p \in Blocks,
           heap' = Release(heap, chunk_of(p)), live' = Without(live, p),
           balance' = balance - 1, call' = Idle, smashed' = {},
           initial' = initial, heap_end' = heap_end
    PROVE  IInv'
<1>1. p \in DOMAIN live
  BY DEF Blocks
<1>2. /\ HeapInv(heap', initial', heap_end', live')
      /\ DOMAIN live' = DOMAIN live \ {p}
  BY <1>1, IInvFacts, ReleaseHeld, SMTT(40)
<1>3. IsFiniteSet(Blocks)' /\ StatsCount'
  BY <1>1, <1>2, IInvFacts, CountBlocks DEF Blocks, StatsCount
<1>4. /\ (smashed \subseteq Chunks(heap))' /\ (call = Idle)'
      /\ HeapInv(heap, initial, heap_end, live)'
  BY <1>2
<1> QED
  BY <1>3, <1>4, IdleIInv, PTL

\* realloc in place.
LEMMA InPlaceStep ==
    ASSUME IInv, Callable, NEW p \in Blocks, NEW size \in 0 .. WordSize - 1, NEW h,
           InPlace(p, size, h),
           HeapInv(h, initial, heap_end, [live EXCEPT ![p] = size])
    PROVE  IInv'
<1>1. /\ heap' = h /\ live' = [live EXCEPT ![p] = size] /\ initial' = initial
      /\ heap_end' = heap_end /\ balance' = balance /\ call' = Idle /\ smashed' = {}
  BY DEF InPlace, Callable
<1>2. HeapInv(heap', initial', heap_end', live')
  BY <1>1
<1>3. DOMAIN live' = DOMAIN live
  BY <1>1
<1>4. IsFiniteSet(Blocks)' /\ StatsCount'
  BY <1>1, <1>3, IInvFacts DEF Blocks, StatsCount
<1>5. /\ (smashed \subseteq Chunks(heap))' /\ (call = Idle)'
      /\ HeapInv(heap, initial, heap_end, live)'
  BY <1>1, <1>2
<1> QED
  BY <1>4, <1>5, IdleIInv, PTL

\* Starting a scan.
LEMMA BeginStep ==
    ASSUME IInv, Callable, NEW size \in 0 .. WordSize - 1, ~Refused(size),
           NEW old \in Blocks \union {Null}, BeginScan(size, old),
           UNCHANGED <<initial, heap_end, heap, live, balance, smashed>>
    PROVE  IInv'
<1>1. /\ size \in 1 .. INT_MAX
      /\ call' = [kind |-> "scan", size |-> size, old |-> old, chunk |-> heap.current]
  BY FirstFitAssumption DEF Refused, BeginScan, ScanAt, INT_MAX
<1>2. /\ call'.kind = "scan" /\ call'.size = size /\ call'.old = old
      /\ call'.chunk = heap.current
  BY <1>1, SMTT(40)
<1>3. HeapInv(heap, initial, heap_end, live)' /\ IsFiniteSet(Blocks)' /\ StatsCount'
  BY IInvFacts DEF Blocks, StatsCount
<1>4. heap.current \in Chunks(heap) /\ heap.current \in Int
  BY DEF IInv, TypeOK, HeadersTyped
<1>5. TypeOK'
  BY <1>1, <1>2, <1>4 DEF IInv, TypeOK, Blocks
<1>6. ScanInv'
  <2> SUFFICES ASSUME NEW c \in Chunks(heap)', Passed(c)' PROVE FALSE
    BY DEF ScanInv, Callable
  <2>1. c \in Int
    BY DEF IInv, TypeOK, HeadersTyped
  <2> QED
    BY <1>2, <1>4, <2>1 DEF Passed
<1> QED
  BY <1>3, <1>5, <1>6 DEF IInv

LEMMA NextIInv == IInv /\ [Next]_vars => IInv'
<1> SUFFICES ASSUME IInv, [Next]_vars PROVE IInv'
  OBVIOUS
<1> DEFINE H == HeapInv(heap, initial, heap_end, live)
<1>1. H /\ smashed \subseteq Chunks(heap) /\ balance \in Int
  BY IInvFacts
<1>2. ASSUME NEW size \in MallocSizes, firstfit_malloc(size)
      PROVE  IInv'
  BY <1>2, BeginStep, FirstFitAssumption DEF firstfit_malloc
<1>3. ASSUME NEW p \in Blocks, NEW size \in ReallocSizes, firstfit_realloc(p, size)
      PROVE  IInv'
  <2> DEFINE c  == chunk_of(p)
             nx == heap.next[c]
             as == aligned(size)
  <2>1. Callable /\ size \in 0 .. WordSize - 1 /\ size \in Nat /\ p \in DOMAIN live
    BY <1>3, FirstFitAssumption DEF firstfit_realloc, Blocks
  <2>2. /\ p \in Int /\ c \in Chunks(heap) /\ c # heap_end /\ p = chunk_data(c)
        /\ c \in Int
    BY <1>1, <2>1, BlockChunk
  <2>3. nx \in Chunks(heap) /\ nx \in Int
    BY <1>1, <2>2 DEF HeapInv, Good, HeadersTyped
  <2>4. ~heap.used[nx] => /\ nx # heap_end /\ heap.next[nx] \in Int
                          /\ nx < heap.next[nx]
    BY <1>1, <2>3, FirstFitAssumption, SMTT(40)
      DEF HeapInv, Good, HeadersTyped, Ring, chunk_data
  <2>5. as \in Nat /\ (size <= WordSize - ALIGN => size <= as)
    BY <2>1, AlignedBounds
  <2>6. this_size(p) = nx - c - CHUNK_SIZE /\ next_chunk(p) = nx
    BY DEF this_size, next_chunk, get_size
  <2>7. CASE ReallocKeeps(p, size)
    <3>1. HeapInv(heap, initial, heap_end, [live EXCEPT ![p] = size])
      <4> DEFINE b == [live EXCEPT ![p] = size]
      <4>1. /\ DOMAIN b = DOMAIN live /\ b[p] = size
            /\ \A q \in DOMAIN live \ {p} : b[q] = live[q]
            /\ b \in [DOMAIN b -> 0 .. WordSize - 1]
        BY <1>1, <2>1 DEF HeapInv
      <4> HIDE DEF b
      <4>2. size <= WordSize - ALIGN => size <= get_size(heap, chunk_of(p))
        BY <2>1, <2>2, <2>3, <2>5, <2>6, <2>7, FirstFitAssumption, SMTT(40)
          DEF ReallocKeeps, get_size
      <4>3. Held(heap, heap_end, b)
        BY <1>1, <2>1, <4>1, <4>2 DEF HeapInv, Held
      <4>4. HeapInv(heap, initial, heap_end, b)
        BY <1>1, <4>1, <4>3 DEF HeapInv
      <4> QED
        BY <4>4 DEF b
    <3> QED
      BY <2>1, <2>7, <3>1, InPlaceStep DEF ReallocKeeps
  <2>8. CASE ReallocShrinks(p, size)
    <3>1. chunk_data(p + as) <= (IF heap.used[nx] THEN nx ELSE heap.next[nx])
      BY <2>2, <2>3, <2>4, <2>5, <2>6, <2>8, FirstFitAssumption, SMTT(40)
        DEF ReallocShrinks, chunk_data
    <3>2. HeapInv(Resize(heap, c, as, p + as), initial, heap_end,
                  [live EXCEPT ![p] = size])
      BY <1>1, <2>1, <3>1, ResizeHeld
    <3> QED
      BY <2>1, <2>8, <3>2, InPlaceStep, SMTT(40) DEF ReallocShrinks
  <2>9. CASE ReallocGrows(p, size)
    <3>1. chunk_data(p + as) <= (IF heap.used[nx] THEN nx ELSE heap.next[nx])
      BY <2>2, <2>3, <2>4, <2>5, <2>6, <2>9, FirstFitAssumption, SMTT(40)
        DEF ReallocGrows, CanGrow, chunk_data, get_size
    <3>2. HeapInv(Resize(heap, c, as, heap.next[nx]), initial, heap_end,
                  [live EXCEPT ![p] = size])
      BY <1>1, <2>1, <3>1, ResizeHeld
    <3> QED
      BY <2>1, <2>6, <2>9, <3>2, InPlaceStep, SMTT(40) DEF ReallocGrows
  <2>10. CASE ReallocRelocates(p, size)
    <3>1. CASE Refused(size)
      BY <2>1, <2>10, <3>1, FreeStep
        DEF ReallocRelocates, RelocationFailed, Callable
    <3>2. CASE ~Refused(size)
      BY <2>1, <2>10, <3>2, BeginStep DEF ReallocRelocates
    <3> QED
      BY <3>1, <3>2
  <2> QED
    BY <1>3, <2>7, <2>8, <2>9, <2>10 DEF firstfit_realloc
<1>4. ASSUME NEW p \in Blocks, firstfit_free(p)
      PROVE  IInv'
  BY <1>4, FreeStep, SMTT(40) DEF firstfit_free, Callable
<1>5. CASE UNCHANGED vars
  BY <1>5, SMTT(40) DEF vars, IInv, TypeOK, ScanInv, Passed, StatsCount, Blocks, HeapInv
<1>6. CASE ScanStep
  <2> DEFINE nx == heap.next[call.chunk]
  <2>1. /\ call # Idle /\ nx # heap.current /\ ~fits(heap, call.chunk, call.size)
        /\ call' = [kind |-> "scan", size |-> call.size,
                    old |-> call.old, chunk |-> nx]
        /\ UNCHANGED <<initial, heap_end, heap, live, balance, smashed>>
    BY <1>6 DEF ScanStep, ScanAt
  <2>2. /\ call = [kind |-> "scan", size |-> call.size,
                   old |-> call.old, chunk |-> call.chunk]
        /\ call.chunk \in Chunks(heap) /\ nx \in Chunks(heap)
    BY <2>1 DEF IInv, TypeOK, HeadersTyped
  <2>3. /\ call'.kind = "scan" /\ call'.size = call.size /\ call'.old = call.old
        /\ call'.chunk = nx
    BY <2>1
  <2>4. TypeOK'
    BY <2>1, <2>2, <2>3, SMTT(40) DEF IInv, TypeOK, Blocks
  <2>5. ScanInv'
    <3>1. smashed' = {}
      BY <2>1, ZenonT(40) DEF IInv, ScanInv
    <3>2. ASSUME NEW c \in Chunks(heap), Passed(c)'
          PROVE  ~fits(heap, c, call.size)
      <4>1. IF heap.current <= nx THEN heap.current <= c /\ c < nx
            ELSE heap.current <= c \/ c < nx
        BY <2>1, <2>3, <3>2, SMTT(40) DEF Passed
      <4>2. Passed(c) \/ c = call.chunk
        BY <2>1, <4>1, ScanPasses
      <4> QED
        BY <2>1, <4>2, ZenonT(40) DEF IInv, ScanInv
    <3> QED
      BY <2>1, <2>3, <3>1, <3>2, ZenonT(40) DEF ScanInv
  <2> QED
    BY <2>1, <2>4, <2>5, ZenonT(40) DEF IInv, Blocks, StatsCount
<1>7. CASE ScanFails
  <2>1. /\ call # Idle /\ smashed = {} /\ call.old \in Blocks \union {Null}
        /\ call' = Idle /\ initial' = initial /\ heap_end' = heap_end
    BY <1>7 DEF ScanFails, Return, IInv, ScanInv, TypeOK
  <2>2. CASE call.old = Null
    <3>1. UNCHANGED <<heap, live, balance, smashed>>
      BY <1>7, <2>2, SMTT(40) DEF ScanFails
    <3>2. /\ HeapInv(heap, initial, heap_end, live)' /\ (call = Idle)'
          /\ (smashed \subseteq Chunks(heap))' /\ IsFiniteSet(Blocks)' /\ StatsCount'
      BY <1>1, <2>1, <3>1, SMTT(40) DEF IInv, Blocks, StatsCount
    <3> QED
      BY <3>2, IdleIInv, PTL
  <2>3. CASE call.old # Null
    BY <1>7, <2>1, <2>3, FreeStep DEF ScanFails, RelocationFailed
  <2> QED
    BY <2>2, <2>3
<1>8. CASE ScanTakes
  <2> DEFINE n == chunk_data(call.chunk)
  <2>1. /\ call # Idle /\ fits(heap, call.chunk, call.size)
        /\ heap' = Take(heap, call.chunk, call.size)
        /\ live' = Put(live, n, call.size)
        /\ balance' = balance + 1 /\ call' = Idle /\ smashed' = smashed
        /\ initial' = initial /\ heap_end' = heap_end /\ smashed = {}
    BY <1>8 DEF ScanTakes, Return, IInv, ScanInv
  <2>2. call.size \in 1 .. INT_MAX /\ call.chunk \in Chunks(heap)
    BY <2>1, IInvFacts, SMTT(40)
  <2>3. /\ HeapInv(heap, initial, heap_end, live)'
        /\ n \notin DOMAIN live /\ DOMAIN live' = DOMAIN live \union {n}
    <3>1. HeapInv(Take(heap, call.chunk, call.size), initial, heap_end,
                  Put(live, n, call.size))
      BY <1>1, <2>1, <2>2, TakeHeld, ZenonT(40)
    <3>2. n \notin DOMAIN live
      BY <1>1, <2>1, <2>2, TakeHeld, ZenonT(40)
    <3>3. DOMAIN Put(live, n, call.size) = DOMAIN live \union {n}
      BY SMTT(40) DEF Put
    <3> QED
      BY <2>1, <3>1, <3>2, <3>3
  <2>4. IsFiniteSet(Blocks)' /\ StatsCount'
    BY <2>1, <2>3, IInvFacts, CountBlocks DEF Blocks, StatsCount
  <2>5. (call = Idle)' /\ (smashed \subseteq Chunks(heap))'
    BY <2>1
  <2> QED
    BY <2>3, <2>4, <2>5, IdleIInv, PTL
<1>9. CASE ScanRelocates
  <2> DEFINE n   == chunk_data(call.chunk)
             old == chunk_of(call.old)
             h   == Take(heap, call.chunk, call.size)
             new == Put(live, n, call.size)
             hit == CopySmashes(h, call.chunk, get_size(heap, old))
  <2>1. /\ call # Idle /\ call.old # Null /\ fits(heap, call.chunk, call.size)
        /\ smashed' = hit /\ call' = Idle
        /\ initial' = initial /\ heap_end' = heap_end
    BY <1>9, SMTT(40) DEF ScanRelocates, Return
  <2>2. IF hit = {}
        THEN /\ heap' = Release(h, old) /\ live' = Without(new, call.old)
             /\ balance' = balance
        ELSE heap' = h /\ live' = new /\ balance' = balance + 1
    BY <1>9 DEF ScanRelocates
  <2>3. hit \subseteq Chunks(h)
    BY DEF CopySmashes
  <2>4. call.size \in 1 .. INT_MAX /\ call.chunk \in Chunks(heap) /\ call.old \in Blocks
    BY <2>1, IInvFacts, SMTT(40)
  <2> HIDE DEF hit
  <2>5. /\ HeapInv(h, initial, heap_end, new)
        /\ n \notin DOMAIN live /\ DOMAIN new = DOMAIN live \union {n}
    <3>1. HeapInv(h, initial, heap_end, new)
      BY <1>1, <2>1, <2>4, TakeHeld, ZenonT(40)
    <3>2. n \notin DOMAIN live
      BY <1>1, <2>1, <2>4, TakeHeld, SMTT(40)
    <3>3. DOMAIN new = DOMAIN live \union {n}
      BY SMTT(40) DEF Put
    <3> QED
      BY <3>1, <3>2, <3>3
  <2> HIDE DEF h, new, n
  <2>6. IsFiniteSet(DOMAIN new) /\ Cardinality(DOMAIN new) = balance + 1
    BY <2>5, IInvFacts, CountBlocks DEF Blocks
  <2>7. CASE hit = {}
    <3>1. call.old \in DOMAIN new
      BY <2>4, <2>5, SMTT(40) DEF Blocks
    <3>2. /\ HeapInv(heap, initial, heap_end, live)'
          /\ DOMAIN live' = DOMAIN new \ {call.old}
      BY <2>1, <2>2, <2>5, <2>7, <3>1, ReleaseHeld, SMTT(40)
    <3>3. IsFiniteSet(DOMAIN live') /\ Cardinality(DOMAIN live') = (balance + 1) - 1
      BY <2>6, <3>1, <3>2, CountBlocks
    <3>4. IsFiniteSet(Blocks)' /\ StatsCount'
      BY <1>1, <2>2, <2>7, <3>3 DEF Blocks, StatsCount
    <3>5. (call = Idle)' /\ (smashed \subseteq Chunks(heap))'
      BY <2>1, <2>7, SMTT(40)
    <3> QED
      BY <3>2, <3>4, <3>5, IdleIInv, PTL
  <2>8. CASE hit # {}
    <3>1. /\ HeapInv(heap, initial, heap_end, live)' /\ (call = Idle)'
          /\ (smashed \subseteq Chunks(heap))' /\ IsFiniteSet(Blocks)' /\ StatsCount'
      BY <2>1, <2>2, <2>3, <2>5, <2>6, <2>8 DEF Blocks, StatsCount
    <3> QED
      BY <3>1, IdleIInv, PTL
  <2> QED
    BY <2>7, <2>8
<1> QED
  BY <1>2, <1>3, <1>4, <1>5, <1>6, <1>7, <1>8, <1>9 DEF Next, Scan, Blocks

-----------------------------------------------------------------------------
(* Theorems *)

LEMMA SpecIInv == Spec => []IInv
<1>1. Init => IInv
  BY InitIInv
<1>2. IInv /\ [Next]_vars => IInv'
  BY NextIInv
<1> QED
  BY <1>1, <1>2, PTL DEF Spec

\* The headers are always typed, this->current always points to a valid header
\* and a scan never holds a header that has been erased, in every heap and for
\* every sequence of malloc, realloc and free (ff_alloc.c:175-322).
THEOREM TypeCorrect == Spec => []TypeOK
<1>1. IInv => TypeOK
  BY DEF IInv
<1> QED
  BY <1>1, SpecIInv, PTL

\* The list of headers stays an ordered ring between initial and heap_end
\* whatever malloc, realloc and free do to it.
THEOREM RingCorrect == Spec => []RingOK
<1>1. IInv => RingOK
  BY DEF IInv, HeapInv, Good, RingOK
<1> QED
  BY <1>1, SpecIInv, PTL

\* No two neighbouring chunks are ever both free, the fact that malloc uses
\* when it marks the next chunk as used while splitting (ff_alloc.c:194).
THEOREM FreeChunksMerged == Spec => []NoAdjacentFree
<1>1. IInv => NoAdjacentFree
  BY DEF IInv, HeapInv, NoAdjacentFree
<1> QED
  BY <1>1, SpecIInv, PTL

\* Every used chunk is a client's block and has the bytes the client asked for
\* before the next header, so blocks never overlap each other or a header.
THEOREM BlocksCorrect == Spec => []BlocksOK
<1>1. IInv => BlocksOK
  BY DEF IInv, HeapInv, BlocksOK
<1> QED
  BY <1>1, SpecIInv, PTL

\* Once everything has been freed, only firstfit_new's two headers are left.
THEOREM EmptyHeapCoalesces == Spec => []EmptyHeapIsOneChunk
<1>1. IInv => EmptyHeapIsOneChunk
  <2> SUFFICES ASSUME IInv, Blocks = {}, NEW c \in Chunks(heap),
                      c # initial, c # heap_end
               PROVE  FALSE
    BY DEF EmptyHeapIsOneChunk, IInv, TypeOK
  <2>1. /\ initial \in Chunks(heap) /\ heap_end \in Chunks(heap)
        /\ heap.next[initial] \in Chunks(heap)
        /\ c \in Int /\ initial \in Int /\ heap_end \in Int /\ heap.next[initial] \in Int
    BY DEF IInv, TypeOK, HeadersTyped
  <2>2. \A x \in Chunks(heap) \ {heap_end} : ~heap.used[x]
    BY DEF IInv, HeapInv, Held, Blocks
  <2>3. initial # heap_end /\ initial < c /\ c < heap_end
    BY <2>1 DEF IInv, HeapInv, Good, Ring
  <2>4. heap.next[initial] = heap_end
    BY <2>1, <2>2, <2>3 DEF IInv, HeapInv, Merged
  <2> QED
    BY <2>1, <2>3, <2>4 DEF IInv, HeapInv, Good, Ring
<1> QED
  BY <1>1, SpecIInv, PTL

\* n_malloc - n_free is the number of blocks in use.
THEOREM StatsCorrect == Spec => []StatsCount
<1>1. IInv => StatsCount
  BY DEF IInv
<1> QED
  BY <1>1, SpecIInv, PTL

\* malloc returns null only when no free chunk of the whole heap is as large as
\* the request, wherever this->current points when it starts.
THEOREM NullOnlyWhenFull == Spec => NullMeansNoFit
<1>1. IInv /\ [Next]_vars
        => [ScanFails => \A c \in Chunks(heap) : ~fits(heap, c, call.size)]_vars
  <2> SUFFICES ASSUME IInv, ScanFails, NEW c \in Chunks(heap)
               PROVE  ~fits(heap, c, call.size)
    OBVIOUS
  <2>1. /\ call # Idle /\ ~fits(heap, call.chunk, call.size)
        /\ heap.next[call.chunk] = heap.current
    BY DEF ScanFails
  <2>2. Passed(c) \/ c = call.chunk
    BY <2>1, ScanPasses
  <2> QED
    BY <2>1, <2>2 DEF IInv, ScanInv
<1> QED
  BY <1>1, SpecIInv, PTL DEF Spec, NullMeansNoFit

\* The block a relocation will copy is not larger than the request.
CopyFits ==
    call # Idle /\ call.old # Null =>
        get_size(heap, chunk_of(call.old)) <= call.size

\* When clients only reallocate to multiples of ALIGN (or to sizes malloc
\* refuses), no relocation copies past its new block and every header stays
\* intact: the memcpy of this_size bytes (ff_alloc.c:270) is then safe.
THEOREM AlignedReallocsKeepHeaders ==
    ASSUME \A s \in ReallocSizes : s % ALIGN = 0 \/ s > INT_MAX
    PROVE  Spec => []HeadersIntact
<1>1. Init => CopyFits /\ HeadersIntact
  BY DEF Init, CopyFits, HeadersIntact
<1>2. IInv /\ CopyFits /\ HeadersIntact /\ [Next]_vars => CopyFits' /\ HeadersIntact'
  <2> SUFFICES ASSUME IInv, CopyFits, HeadersIntact, [Next]_vars
               PROVE  CopyFits' /\ HeadersIntact'
    OBVIOUS
  <2>1. ASSUME NEW size \in MallocSizes, firstfit_malloc(size)
        PROVE  CopyFits' /\ HeadersIntact'
    BY <2>1, SMTT(40) DEF firstfit_malloc, BeginScan, ScanAt, CopyFits, HeadersIntact
  <2>2. ASSUME NEW p \in Blocks, NEW size \in ReallocSizes, firstfit_realloc(p, size)
        PROVE  CopyFits' /\ HeadersIntact'
    <3>1. call = Idle
      BY <2>2 DEF firstfit_realloc, Callable
    <3>2. ASSUME NEW h, InPlace(p, size, h) PROVE CopyFits' /\ HeadersIntact'
      BY <3>1, <3>2 DEF InPlace, CopyFits, HeadersIntact
    <3>3. CASE ReallocRelocates(p, size)
      <4>1. CASE Refused(size)
        BY <3>1, <3>3, <4>1
          DEF ReallocRelocates, RelocationFailed, CopyFits, HeadersIntact
      <4>2. CASE ~Refused(size)
        <5>1. aligned(size) = size
          BY <4>2 DEF Refused, aligned
        <5>2. /\ heap' = heap /\ smashed' = smashed
              /\ get_size(heap, chunk_of(p)) <= aligned(size)
          <6>1. /\ heap' = heap /\ smashed' = smashed
                /\ aligned(size) >= get_size(heap, chunk_of(p))
            BY <3>3, <4>2 DEF ReallocRelocates, this_size
          <6>2. p \in DOMAIN live /\ HeapInv(heap, initial, heap_end, live)
            BY IInvFacts, SMTT(40) DEF Blocks
          <6>3. get_size(heap, chunk_of(p)) \in Int
            BY <6>2, BlockChunk, FirstFitAssumption
              DEF get_size, HeapInv, Good, HeadersTyped
          <6> QED
            BY <5>1, <6>1, <6>3, FirstFitAssumption
        <5>3. call' = [kind |-> "scan", size |-> size, old |-> p,
                       chunk |-> heap.current]
          BY <3>3, <4>2 DEF ReallocRelocates, BeginScan, ScanAt
        <5>4. call'.size = size /\ call'.old = p
          BY <5>3
        <5> QED
          BY <5>1, <5>2, <5>4 DEF CopyFits, HeadersIntact, get_size
      <4> QED
        BY <4>1, <4>2
    <3> QED
      BY <2>2, <3>2, <3>3 DEF firstfit_realloc, ReallocKeeps, ReallocShrinks, ReallocGrows
  <2>3. ASSUME NEW p \in Blocks, firstfit_free(p)
        PROVE  CopyFits' /\ HeadersIntact'
    BY <2>3, SMTT(40) DEF firstfit_free, Callable, CopyFits, HeadersIntact
  <2>4. CASE ScanStep
    <3>1. /\ call # Idle /\ heap' = heap /\ smashed' = smashed
          /\ call' = [kind |-> "scan", size |-> call.size, old |-> call.old,
                      chunk |-> heap.next[call.chunk]]
      BY <2>4, SMTT(40) DEF ScanStep, ScanAt
    <3>2. call'.size = call.size /\ call'.old = call.old
      BY <3>1, SMTT(40)
    <3> QED
      BY <3>1, <3>2 DEF CopyFits, HeadersIntact, get_size
  <2>5. CASE ScanFails \/ ScanTakes
    BY <2>5 DEF ScanFails, ScanTakes, RelocationFailed, Return, CopyFits, HeadersIntact
  <2>6. CASE ScanRelocates
    <3> DEFINE h == Take(heap, call.chunk, call.size)
               n == get_size(heap, chunk_of(call.old))
    <3>1. /\ call # Idle /\ call.old # Null /\ fits(heap, call.chunk, call.size)
          /\ smashed' = CopySmashes(h, call.chunk, n) /\ call' = Idle
      BY <2>6, SMTT(40) DEF ScanRelocates, Return
    <3>2. /\ call.size \in 1 .. INT_MAX /\ call.chunk \in Chunks(heap)
          /\ call.old \in DOMAIN live
          /\ HeapInv(heap, initial, heap_end, live)
      BY <3>1, IInvFacts, ZenonT(40) DEF Blocks
    <3>3. n \in Int /\ n <= call.size
      <4>1. n \in Int
        BY <3>2, BlockChunk, FirstFitAssumption, SMTT(40)
          DEF get_size, HeapInv, Good, HeadersTyped
      <4> QED
        BY <3>1, <4>1, SMTT(40) DEF CopyFits
    <3> HIDE DEF n
    <3>4. /\ Good(h, initial, heap_end) /\ Chunks(heap) \subseteq Chunks(h)
          /\ call.chunk # heap_end /\ get_size(h, call.chunk) >= call.size
      BY <3>1, <3>2, TakeGood, SMTT(40) DEF HeapInv
    <3> HIDE DEF h
    <3>5. \A d \in Chunks(h) : d <= call.chunk \/ h.next[call.chunk] <= d
      BY <3>2, <3>4, SMTT(40) DEF Good, Ring
    <3>6. Chunks(h) \subseteq Int /\ call.chunk \in Int /\ h.next[call.chunk] \in Int
      BY <3>2, <3>4, SMTT(40) DEF Good, HeadersTyped
    <3>7. CopySmashes(h, call.chunk, n) = {}
      BY <3>2, <3>3, <3>4, <3>5, <3>6, FirstFitAssumption
        DEF CopySmashes, get_size, chunk_data
    <3> QED
      BY <3>1, <3>7 DEF CopyFits, HeadersIntact
  <2>7. CASE UNCHANGED vars
    BY <2>7 DEF vars, CopyFits, HeadersIntact
  <2> QED
    BY <2>1, <2>2, <2>3, <2>4, <2>5, <2>6, <2>7 DEF Next, Scan, Blocks
<1> QED
  BY <1>1, <1>2, SpecIInv, PTL DEF Spec
=============================================================================
