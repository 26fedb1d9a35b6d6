--------------------------- MODULE HostFileProofs ---------------------------
(***************************************************************************)
(* What src/host.rs and src/run/list.rs make of any host file is what the  *)
(* file says.  The loops are folds, which the lemma of Folding takes one   *)
(* step at a time; a step keeps an invariant, as an action would.          *)
(***************************************************************************)
EXTENDS HostFile, FiniteSetTheorems, SequenceTheorems, TLAPS

-----------------------------------------------------------------------------
(* The loops *)

HeaderStep(list, headers, column) ==
    IF Shows(list, column) THEN Append(headers, column) ELSE headers
CellStep(c, row, column) ==
    IF Shows(c[2], column) THEN Append(row, Cell(c[1], column)) ELSE row
KeepStep(wanted, kept, host) ==
    IF host.name \in wanted THEN Append(kept, host) ELSE kept
ItemStep(c, acc, item) == TakeItem(acc, item)
HostStep(c, acc, host) == DeclareHost(acc, host)
EntryStep(c, acc, entry) == TakeEntry(acc, entry)

HeaderLoop == INSTANCE Folding WITH Step <- HeaderStep
CellLoop == INSTANCE Folding WITH Step <- CellStep
KeepLoop == INSTANCE Folding WITH Step <- KeepStep
ItemLoop == INSTANCE Folding WITH Step <- ItemStep
HostLoop == INSTANCE Folding WITH Step <- HostStep
EntryLoop == INSTANCE Folding WITH Step <- EntryStep
SelectorLoop == INSTANCE Folding WITH Step <- TakeSelector

-----------------------------------------------------------------------------
(* The listing *)

\* A text longer by one.
LEMMA OneMore ==
    ASSUME NEW T, NEW s \in Seq(T), NEW x \in T, NEW n, n = Len(s),
           NEW t, t = Append(s, x)
    PROVE  /\ t \in Seq(T) /\ Len(t) = n + 1 /\ n \in Nat /\ t[n + 1] = x
           /\ \A i \in 1..n : t[i] = s[i]
BY AppendProperties, LenProperties

\* The headers, and a row's cells, one column at a time.
TableBuilt(list, host, h, r) ==
    /\ h[0] = << >> /\ r[0] = << >>
    /\ \A k \in 1..5 :
           IF Shows(list, Columns[k])
           THEN /\ h[k] = Append(h[k - 1], Columns[k])
                /\ r[k] = Append(r[k - 1], Cell(host, Columns[k]))
           ELSE h[k] = h[k - 1] /\ r[k] = r[k - 1]
    /\ Headers(list) = h[5] /\ Cells(host, list) = r[5]

LEMMA ColumnByColumn ==
    ASSUME NEW list, NEW host
    PROVE  \E h, r : TableBuilt(list, host, h, r)
<1> DEFINE n == 5
           c == <<host, list>>
<1>1. n \in Nat /\ DOMAIN Columns = 1..n
  BY DEF Columns
<1> HIDE DEF n, c
<1>2. Headers(list) = HeaderLoop!Folded(list, << >>, Columns)
  BY DEF Headers, FoldLeft, MapThenFoldSet, Max, HeaderStep, HeaderLoop!Folded,
         HeaderLoop!FoldLeft, HeaderLoop!MapThenFoldSet, HeaderLoop!Max
<1>3. Cells(host, list) = CellLoop!Folded(c, << >>, Columns)
  BY DEF c, Cells, FoldLeft, MapThenFoldSet, Max, CellStep, CellLoop!Folded,
         CellLoop!FoldLeft, CellLoop!MapThenFoldSet, CellLoop!Max
<1>4. PICK h : HeaderLoop!Stepped(list, << >>, Columns, n, h)
  BY <1>1, HeaderLoop!StepByStep
<1>5. PICK r : CellLoop!Stepped(c, << >>, Columns, n, r)
  BY <1>1, CellLoop!StepByStep
<1>6. WITNESS h, r
<1> QED BY <1>2, <1>3, <1>4, <1>5 DEF HeaderLoop!Stepped, CellLoop!Stepped,
              HeaderStep, CellStep, TableBuilt, n, c

\* A row has as many cells as the table has headers, each under its own, the
\* Host's name first, and a column that is shown is among the headers.
LEMMA RowsAreAligned ==
    ASSUME NEW list, NEW host,
           NEW h, h = Headers(list), NEW r, r = Cells(host, list)
    PROVE  /\ Len(h) \in Nat \ {0} /\ Len(r) = Len(h) /\ DOMAIN h = 1..Len(h)
           /\ h[1] = "host" /\ \A j \in 2..Len(h) : h[j] # "host"
           /\ \A j \in 1..Len(h) : r[j] = Cell(host, h[j])
           /\ \A column \in ToSet(Columns) : Shows(list, column) => column \in ToSet(h)
<1> DEFINE Heads == ToSet(Columns)
           Texts == {Cell(host, column) : column \in Heads}
<1>0. PICK hs, rs : TableBuilt(list, host, hs, rs)
  BY ColumnByColumn
<1>1. /\ hs[0] = << >> /\ rs[0] = << >>
      /\ \A k \in 1..5 :
             IF Shows(list, Columns[k])
             THEN /\ hs[k] = Append(hs[k - 1], Columns[k])
                  /\ rs[k] = Append(rs[k - 1], Cell(host, Columns[k]))
             ELSE hs[k] = hs[k - 1] /\ rs[k] = rs[k - 1]
      /\ h = hs[5] /\ r = rs[5]
  BY <1>0 DEF TableBuilt
<1>2. /\ \A k \in 1..5 : Columns[k] \in Heads /\ (Columns[k] = "host" <=> k = 1)
      /\ \A column \in Heads : \E k \in 1..5 : column = Columns[k]
  BY DEF Columns, ToSet
<1>3. Shows(list, "host")
  BY DEF Shows
<1>4. \A k \in 1..5 : Cell(host, Columns[k]) \in Texts
  BY <1>2
<1> HIDE DEF Heads, Texts
<1> DEFINE Aligned(k) ==
               /\ hs[k] \in Seq(Heads) /\ rs[k] \in Seq(Texts)
               /\ Len(rs[k]) = Len(hs[k])
               /\ k > 0 => Len(hs[k]) > 0 /\ hs[k][1] = "host"
               /\ \A j \in 2..Len(hs[k]) : hs[k][j] # "host"
               /\ \A j \in 1..Len(hs[k]) : rs[k][j] = Cell(host, hs[k][j])
               /\ \A i \in 1..k : Shows(list, Columns[i]) =>
                      \E j \in 1..Len(hs[k]) : hs[k][j] = Columns[i]
           Steps == {k \in 0..5 : Aligned(k)}
<1>5. 0 \in Steps
  <2>1. << >> \in Seq(Heads) /\ << >> \in Seq(Texts) /\ Len(<< >>) = 0
    BY EmptySeq
  <2>2. Aligned(0)
    BY <1>1, <2>1
  <2> HIDE DEF Aligned
  <2> QED BY <2>2
<1>6. ASSUME NEW k \in 1..5, k - 1 \in Steps
      PROVE  k \in Steps
  <2>1. Aligned(k - 1)
    BY <1>6
  <2>2. CASE ~Shows(list, Columns[k])
    <3>1. k # 1 /\ hs[k] = hs[k - 1] /\ rs[k] = rs[k - 1]
      BY <1>1, <1>2, <1>3, <2>2
    <3> QED BY <2>1, <2>2, <3>1
  <2>3. CASE Shows(list, Columns[k])
    <3> DEFINE a == hs[k - 1]
               b == hs[k]
               c == rs[k - 1]
               d == rs[k]
               n == Len(a)
    <3>1. b = Append(a, Columns[k]) /\ d = Append(c, Cell(host, Columns[k]))
      BY <1>1, <2>3
    <3>2. a \in Seq(Heads) /\ c \in Seq(Texts) /\ Len(c) = n
      BY <2>1
    <3> HIDE DEF a, b, c, d
    <3>3. /\ b \in Seq(Heads) /\ Len(b) = n + 1 /\ n \in Nat /\ b[n + 1] = Columns[k]
          /\ \A j \in 1..n : b[j] = a[j]
      BY <1>2, <3>1, <3>2, OneMore
    <3>4. /\ d \in Seq(Texts) /\ Len(d) = n + 1 /\ d[n + 1] = Cell(host, Columns[k])
          /\ \A j \in 1..n : d[j] = c[j]
      BY <1>4, <3>1, <3>2, OneMore
    <3>5. /\ k - 1 > 0 => n > 0 /\ a[1] = "host"
          /\ \A j \in 2..n : a[j] # "host"
          /\ \A j \in 1..n : c[j] = Cell(host, a[j])
          /\ \A i \in 1..(k - 1) : Shows(list, Columns[i]) =>
                 \E j \in 1..n : a[j] = Columns[i]
      BY <2>1 DEF a, c
    <3>6. k = 1 => n = 0
      BY <1>1, <3>2, EmptySeq DEF a
    <3> HIDE DEF n
    <3>7. Len(b) > 0 /\ b[1] = "host"
      BY <1>2, <3>3, <3>5, <3>6
    <3>8. \A j \in 2..Len(b) : b[j] # "host"
      BY <1>2, <3>3, <3>5, <3>6
    <3>9. \A j \in 1..Len(b) : d[j] = Cell(host, b[j])
      BY <3>3, <3>4, <3>5
    <3>10. \A i \in 1..k : Shows(list, Columns[i]) =>
               \E j \in 1..Len(b) : b[j] = Columns[i]
      <4> TAKE i \in 1..k
      <4>1. CASE i = k
        BY <3>3, <4>1
      <4>2. CASE i # k
        BY <3>3, <3>5, <4>2
      <4> QED BY <4>1, <4>2
    <3> QED BY <3>3, <3>4, <3>7, <3>8, <3>9, <3>10 DEF b, d
  <2> QED BY <2>2, <2>3
<1>7. Aligned(5)
  <2> DEFINE n == 5
  <2>1. n \in Nat /\ n \in 0..n
    OBVIOUS
  <2>2. 0 \in Steps /\ \A k \in 1..n : k - 1 \in Steps => k \in Steps
    BY <1>5, <1>6
  <2> HIDE DEF n, Steps
  <2>3. n \in Steps
    BY <2>1, <2>2, HeaderLoop!UpTo
  <2> QED BY <2>3 DEF n, Steps
<1>8. DOMAIN h = 1..Len(h) /\ Len(h) \in Nat
  BY <1>1, <1>7, LenProperties
<1>9. ASSUME NEW column \in Heads, Shows(list, column)
      PROVE  column \in ToSet(h)
  <2>1. PICK i \in 1..5 : column = Columns[i]
    BY <1>2
  <2>2. PICK j \in 1..Len(h) : h[j] = Columns[i]
    BY <1>1, <1>7, <1>9, <2>1
  <2> QED BY <1>8, <2>1, <2>2 DEF ToSet
<1> QED BY <1>1, <1>7, <1>8, <1>9 DEF Heads

-----------------------------------------------------------------------------
(* A list that names each member of a set once *)

Numbered(at, n, S) ==
    /\ at \in [1..n -> S]
    /\ \A i, j \in 1..n : at[i] = at[j] => i = j
    /\ \A x \in S : \E i \in 1..n : at[i] = x

\* What is numbered up to n has n members.
LEMMA NumberedCount ==
    ASSUME NEW n \in Nat, NEW S, NEW at, Numbered(at, n, S)
    PROVE  IsFiniteSet(S) /\ Cardinality(S) = n
<1>1. at \in Bijection(1..n, S)
  BY DEF Numbered, Bijection, Injection, Surjection, IsInjective
<1>2. ExistsBijection(1..n, S)
  BY <1>1 DEF ExistsBijection
<1> QED BY <1>2, FS_NatBijection, FS_CountingElements

Joint(a, n, b, m) == [i \in 1..(n + m) |-> IF i <= n THEN a[i] ELSE b[i - n]]

\* Two numberings of disjoint sets, one after the other.
LEMMA NumberedJoint ==
    ASSUME NEW n \in Nat, NEW m \in Nat, NEW S, NEW T, S \cap T = {},
           NEW a, Numbered(a, n, S), NEW b, Numbered(b, m, T)
    PROVE  Numbered(Joint(a, n, b, m), n + m, S \cup T)
<1> DEFINE c == Joint(a, n, b, m)
<1>1. ASSUME NEW i \in 1..(n + m)
      PROVE  /\ i <= n => i \in 1..n /\ c[i] = a[i] /\ a[i] \in S
             /\ ~(i <= n) => i - n \in 1..m /\ c[i] = b[i - n] /\ b[i - n] \in T
  BY DEF Numbered, Joint
<1>2. c \in [1..(n + m) -> S \cup T]
  BY <1>1 DEF Joint
<1>3. ASSUME NEW i \in 1..(n + m), NEW j \in 1..(n + m), c[i] = c[j]
      PROVE  i = j
  <2> HIDE DEF c
  <2>1. CASE i <= n /\ j <= n
    BY <1>1, <1>3, <2>1 DEF Numbered
  <2>2. CASE ~(i <= n) /\ ~(j <= n)
    <3>1. i - n = j - n
      BY <1>1, <1>3, <2>2 DEF Numbered
    <3> QED BY <3>1
  <2>3. CASE i <= n /\ ~(j <= n)
    BY <1>1, <1>3, <2>3
  <2>4. CASE ~(i <= n) /\ j <= n
    BY <1>1, <1>3, <2>4
  <2> QED BY <2>1, <2>2, <2>3, <2>4
<1>4. ASSUME NEW x \in S \cup T
      PROVE  \E i \in 1..(n + m) : c[i] = x
  <2>1. CASE x \in S
    <3>1. PICK i \in 1..n : a[i] = x
      BY <2>1 DEF Numbered
    <3>2. i \in 1..(n + m) /\ i <= n
      OBVIOUS
    <3> QED BY <1>1, <3>1, <3>2
  <2>2. CASE x \in T
    <3>1. PICK i \in 1..m : b[i] = x
      BY <2>2 DEF Numbered
    <3>2. i + n \in 1..(n + m) /\ ~(i + n <= n) /\ (i + n) - n = i
      OBVIOUS
    <3> QED BY <1>1, <3>1, <3>2
  <2> QED BY <2>1, <2>2
<1> QED BY <1>2, <1>3, <1>4 DEF Numbered

-----------------------------------------------------------------------------
(* expand *)

\* The items of a name, one at a time.
ItemsTaken(items, n, acc) ==
    /\ acc[0] = Ok(<< >>)
    /\ \A k \in 1..n : acc[k] = TakeItem(acc[k - 1], items[k])
    /\ FoldLeft(TakeItem, Ok(<< >>), items) = acc[n]

LEMMA ItemByItem ==
    ASSUME NEW items, NEW n \in Nat, DOMAIN items = 1..n
    PROVE  \E acc : ItemsTaken(items, n, acc)
<1> DEFINE base == Ok(<< >>)
           c == {}
<1>1. FoldLeft(TakeItem, base, items) = ItemLoop!Folded(c, base, items)
  <2> HIDE DEF base, c
  <2> QED BY DEF FoldLeft, MapThenFoldSet, Max, ItemStep, ItemLoop!Folded,
                 ItemLoop!FoldLeft, ItemLoop!MapThenFoldSet, ItemLoop!Max
<1> HIDE DEF base, c
<1>2. PICK acc : ItemLoop!Stepped(c, base, items, n, acc)
  BY ItemLoop!StepByStep
<1> QED BY <1>1, <1>2 DEF ItemLoop!Stepped, ItemsTaken, ItemStep, base, c

Rendered == {Render(n, w) : n \in Nat, w \in Nat}

PlacesIn(items, i) == {i} \X (items[i].low[1]..items[i].high[1])
PlacesUpTo(items, k) == UNION {PlacesIn(items, i) : i \in 1..k}

\* The n numbers of an item, counted from its low one.
Spans(items, i, low, high, w, n, at) ==
    /\ i \in Nat /\ low \in Nat /\ high \in Nat /\ w \in Nat /\ low <= high
    /\ items[i].low = <<low, w>> /\ items[i].high[1] = high
    /\ n = Size(items[i])
    /\ at = [j \in 1..n |-> <<i, low + j - 1>>]

\* The places of one item, in the order of its numbers.
LEMMA ItemNumbered ==
    ASSUME NEW items, NEW i, NEW low, NEW high, NEW w, NEW n, NEW at,
           Spans(items, i, low, high, w, n, at),
           NEW names, names = ItemNames(items[i])
    PROVE  /\ n = high - low + 1
           /\ names \in Seq(Rendered) /\ Len(names) = n
           /\ Numbered(at, n, PlacesIn(items, i))
           /\ \A j \in 1..n : names[j] = Render(at[j][2], items[at[j][1]].low[2])
<1> USE DEF Spans
<1>1. n = high - low + 1 /\ n \in Nat \ {0}
  BY DEF Size
<1>2. names = [j \in 1..n |-> Render(low + j - 1, w)]
  BY DEF ItemNames
<1>3. \A j \in 1..n : low + j - 1 \in Nat /\ Render(low + j - 1, w) \in Rendered
  BY <1>1 DEF Rendered
<1>4. names \in [1..n -> Rendered]
  BY <1>2, <1>3
<1>5. names \in Seq(Rendered) /\ Len(names) = n
  BY <1>1, <1>4
<1>6. at \in [1..n -> PlacesIn(items, i)]
  BY <1>1 DEF PlacesIn
<1>7. \A j, k \in 1..n : at[j] = at[k] => j = k
  BY <1>1
<1>8. ASSUME NEW x \in PlacesIn(items, i)
      PROVE  \E j \in 1..n : at[j] = x
  <2>1. PICK m \in low..high : x = <<i, m>>
    BY DEF PlacesIn
  <2>2. m - low + 1 \in 1..n /\ low + (m - low + 1) - 1 = m
    BY <1>1
  <2> QED BY <2>1, <2>2
<1>9. \A j \in 1..n : names[j] = Render(at[j][2], items[at[j][1]].low[2])
  BY <1>2
<1> QED BY <1>1, <1>5, <1>6, <1>7, <1>8, <1>9 DEF Numbered

Entitled == Rendered \cup Words

\* A list with the name of every place in a set, once each.
Spells(name, list, S) ==
    /\ list \in Seq(Entitled)
    /\ \E at : /\ Numbered(at, Len(list), S)
               /\ \A j \in 1..Len(list) : list[j] = NameAt(name, at[j])

Upwards(item) == item.low[1] <= item.high[1] /\ item.high[1] <= MaxBound

\* What the items so far have come to.
ItemsSoFar(name, r, k) ==
    LET items == name.items
    IN  /\ IsFiniteSet(PlacesUpTo(items, k))
        /\ \/ /\ r = Ok(r.list)
              /\ Spells(name, r.list, PlacesUpTo(items, k))
              /\ Len(r.list) <= MaxExpansion
              /\ \A i \in 1..k : Upwards(items[i])
           \/ /\ r = Err
              /\ \/ \E i \in 1..k : ~Upwards(items[i])
                 \/ ~(Cardinality(PlacesUpTo(items, k)) <= MaxExpansion)

\* The bounds of an item.
LEMMA ItemTypes ==
    ASSUME NEW name \in WrittenNames, NEW i \in 1..Len(name.items)
    PROVE  \E low, high, w \in Nat :
               /\ name.items[i].low = <<low, w>> /\ name.items[i].low[1] = low
               /\ name.items[i].high[1] = high
<1>1. name.items[i] \in [low : Words, high : Words]
  BY ElementOfSeq DEF WrittenNames
<1>2. name.items[i].low \in Nat \X Nat /\ name.items[i].high \in Nat \X Nat
  BY <1>1 DEF Words
<1>3. PICK low \in Nat, w \in Nat : name.items[i].low = <<low, w>>
  BY <1>2
<1>4. PICK high \in Nat, v \in Nat : name.items[i].high = <<high, v>>
  BY <1>2
<1> QED BY <1>3, <1>4

LEMMA MaxExpansionIsNat == MaxExpansion \in Nat \ {0}
BY MaxExpansionAssumption

\* One more item.
LEMMA ItemStepKeeps ==
    ASSUME NEW name \in WrittenNames, IsPattern(name), NEW k \in 1..Len(name.items),
           NEW r, ItemsSoFar(name, r, k - 1),
           NEW s, s = TakeItem(r, name.items[k])
    PROVE  ItemsSoFar(name, s, k)
<1> DEFINE items == name.items
           item == items[k]
           before == PlacesUpTo(items, k - 1)
           new == PlacesIn(items, k)
           n == Len(r.list)
           m == Size(item)
<1>1. PICK low \in Nat, high \in Nat, w \in Nat :
          item.low = <<low, w>> /\ item.low[1] = low /\ item.high[1] = high
  BY ItemTypes
<1>2. Len(items) \in Nat /\ k \in Nat /\ k - 1 \in Nat
  BY LenProperties DEF WrittenNames
<1>3. PlacesUpTo(items, k) = before \cup new
  <2>1. 1..k = (1..(k - 1)) \cup {k}
    BY <1>2
  <2> HIDE DEF items
  <2> QED BY <2>1 DEF PlacesUpTo
<1>4. before \cap new = {}
  <2> HIDE DEF items
  <2> QED BY <1>2 DEF PlacesUpTo, PlacesIn
<1>5. IsFiniteSet(new)
  <2>1. IsFiniteSet(low..high)
    BY FS_Interval
  <2>2. IsFiniteSet({k} \X (low..high))
    BY <2>1, FS_Singleton, FS_Product
  <2>3. new = {k} \X (low..high)
    BY <1>1 DEF PlacesIn
  <2> QED BY <2>2, <2>3
<1>6. IsFiniteSet(PlacesUpTo(items, k))
  <2>1. IsFiniteSet(before)
    BY DEF ItemsSoFar
  <2> HIDE DEF before, new
  <2>2. IsFiniteSet(before \cup new)
    BY <1>5, <2>1, FS_Union
  <2> QED BY <1>3, <2>2
<1> DEFINE wrong == \/ ~parse_bound(item.low) \/ ~parse_bound(item.high)
                    \/ m < 1
<1>7. Upwards(item) <=> ~wrong
  BY <1>1, MaxBoundAssumption DEF Upwards, Size, parse_bound
<1>8. m \in Int
  BY <1>1 DEF Size
<1>9. CASE r = Err
  <2>1. s = Err
    BY <1>9 DEF TakeItem, Err
  <2>2. CASE \E i \in 1..(k - 1) : ~Upwards(items[i])
    <3>1. \E i \in 1..k : ~Upwards(items[i])
      BY <1>2, <2>2
    <3> QED BY <1>6, <2>1, <3>1 DEF ItemsSoFar
  <2>3. CASE ~(Cardinality(before) <= MaxExpansion)
    <3>1. Cardinality(before) <= Cardinality(PlacesUpTo(items, k))
          /\ Cardinality(before) \in Nat /\ Cardinality(PlacesUpTo(items, k)) \in Nat
      <4>1. before \in SUBSET PlacesUpTo(items, k)
        BY <1>3
      <4>2. IsFiniteSet(before)
        BY DEF ItemsSoFar
      <4> QED BY <1>6, <4>1, <4>2, FS_Subset, FS_CardinalityType
    <3>2. ~(Cardinality(PlacesUpTo(items, k)) <= MaxExpansion)
      BY <2>3, <3>1, MaxExpansionIsNat
    <3> QED BY <1>6, <2>1, <3>2 DEF ItemsSoFar
  <2>4. r # Ok(r.list)
    BY <1>9 DEF Ok, Err
  <2> QED BY <2>2, <2>3, <2>4 DEF ItemsSoFar
<1>10. CASE r = Ok(r.list)
  <2>1. r # Err /\ r.state # "err"
    BY <1>10 DEF Ok, Err
  <2>2. /\ Spells(name, r.list, before) /\ n <= MaxExpansion
        /\ \A i \in 1..(k - 1) : Upwards(items[i])
    BY <2>1 DEF ItemsSoFar
  <2>3. n \in Nat /\ r.list \in Seq(Entitled)
    BY <2>2, LenProperties DEF Spells
  <2>4. PICK a : /\ Numbered(a, n, before)
                 /\ \A j \in 1..n : r.list[j] = NameAt(name, a[j])
    BY <2>2 DEF Spells
  <2>5. CASE wrong
    <3>1. s = Err
      BY <2>5 DEF TakeItem
    <3>2. \E i \in 1..k : ~Upwards(items[i])
      BY <1>2, <1>7, <2>5
    <3> QED BY <1>6, <3>1, <3>2 DEF ItemsSoFar
  <2>6. CASE ~wrong
    <3> DEFINE names == ItemNames(item)
               b == [j \in 1..m |-> <<k, low + j - 1>>]
               c == Joint(a, n, b, m)
    <3>1. /\ names \in Seq(Rendered) /\ Len(names) = m
          /\ Numbered(b, m, new)
          /\ \A j \in 1..m : names[j] = Render(b[j][2], items[b[j][1]].low[2])
      <4>1. low <= high
        BY <1>1, <1>7, <2>6 DEF Upwards
      <4>2. /\ m = high - low + 1
            /\ names \in Seq(Rendered) /\ Len(names) = m
            /\ Numbered(b, m, new)
            /\ \A j \in 1..m : names[j] = Render(b[j][2], items[b[j][1]].low[2])
        <5>1. Spans(items, k, low, high, w, m, b) /\ names = ItemNames(items[k])
          BY <1>1, <1>2, <4>1 DEF Spans
        <5> HIDE DEF items, names, b, m, new, wrong
        <5>2. /\ m = high - low + 1
              /\ names \in Seq(Rendered) /\ Len(names) = m
              /\ Numbered(b, m, PlacesIn(items, k))
              /\ \A j \in 1..m : names[j] = Render(b[j][2], items[b[j][1]].low[2])
          BY <5>1, ItemNumbered
        <5> QED BY <5>2 DEF new
      <4> QED BY <4>2
    <3>2. m \in Nat
      BY <1>8, <2>6
    <3> HIDE DEF b, names, m
    <3>3. Numbered(c, n + m, PlacesUpTo(items, k))
      BY <1>3, <1>4, <2>3, <2>4, <3>1, <3>2, NumberedJoint
    <3>4. Cardinality(PlacesUpTo(items, k)) = n + m
      <4> DEFINE total == n + m
                 all == PlacesUpTo(items, k)
      <4>1. total \in Nat /\ Numbered(c, total, all)
        BY <2>3, <3>2, <3>3
      <4> HIDE DEF c, total, all
      <4>2. Cardinality(all) = total
        BY <4>1, NumberedCount
      <4> QED BY <4>2 DEF all, total
    <3>5. CASE n + m > MaxExpansion
      <4>1. s = Err
        BY <3>5 DEF TakeItem, TooMany, m
      <4>2. ~(Cardinality(PlacesUpTo(items, k)) <= MaxExpansion)
        BY <2>3, <3>2, <3>4, <3>5, MaxExpansionIsNat
      <4> QED BY <1>6, <4>1, <4>2 DEF ItemsSoFar
    <3>6. CASE ~(n + m > MaxExpansion)
      <4> DEFINE l == r.list \o names
      <4>1. s = Ok(l)
        BY <2>1, <2>6, <3>6 DEF TakeItem, TooMany, m, names
      <4>2. names \in Seq(Entitled)
        BY <3>1 DEF Entitled
      <4>3. /\ l \in Seq(Entitled) /\ Len(l) = n + m
            /\ \A j \in 1..(n + m) : l[j] = IF j <= n THEN r.list[j] ELSE names[j - n]
        BY <2>3, <3>1, <4>2, ConcatProperties
      <4> HIDE DEF l
      <4>4. ASSUME NEW j \in 1..(n + m)
            PROVE  l[j] = NameAt(name, c[j])
        <5>1. CASE j <= n
          BY <2>3, <2>4, <4>3, <5>1 DEF Joint
        <5>2. CASE ~(j <= n)
          <6>1. j - n \in 1..m /\ c[j] = b[j - n]
            BY <2>3, <3>2, <5>2 DEF Joint
          <6>2. l[j] = Render(c[j][2], items[c[j][1]].low[2])
            BY <3>1, <4>3, <5>2, <6>1
          <6> QED BY <6>2 DEF NameAt
        <5> QED BY <5>1, <5>2
      <4>5. Spells(name, l, PlacesUpTo(items, k))
        BY <3>3, <4>3, <4>4 DEF Spells
      <4>6. \A i \in 1..k : Upwards(items[i])
        BY <1>2, <1>7, <2>2, <2>6 DEF m
      <4>7. s.list = l /\ Len(l) <= MaxExpansion
        BY <2>3, <3>2, <3>6, <4>1, <4>3, MaxExpansionIsNat DEF Ok
      <4> QED BY <1>6, <4>1, <4>5, <4>6, <4>7 DEF ItemsSoFar
    <3> QED BY <3>5, <3>6
  <2> QED BY <2>5, <2>6
<1> QED BY <1>9, <1>10 DEF ItemsSoFar

\* What expand answers: the names of all places, or an error for an item that
\* counts down and for more places than the cap.
Expanded(name, e) ==
    /\ IsFiniteSet(Places(name))
    /\ \/ /\ e = Ok(e.list)
          /\ Spells(name, e.list, Places(name))
          /\ Cardinality(Places(name)) <= MaxExpansion
          /\ \A item \in ToSet(name.items) : Upwards(item)
       \/ /\ e = Err
          /\ \/ \E item \in ToSet(name.items) : ~Upwards(item)
             \/ ~(Cardinality(Places(name)) <= MaxExpansion)

\* A name without a range is one name.
LEMMA ExpandedWord ==
    ASSUME NEW name \in WrittenNames, ~IsPattern(name)
    PROVE  Expanded(name, expand(name))
<1> DEFINE list == <<name.word>>
           S == {<<0, 0>>}
           at == [j \in 1..1 |-> <<0, 0>>]
<1>1. expand(name) = Ok(list) /\ Places(name) = S
  BY DEF expand, Places
<1>2. name.word \in Entitled /\ name.items = << >>
  BY DEF Entitled, WrittenNames, IsPattern
<1>3. list \in Seq(Entitled) /\ Len(list) = 1 /\ list[1] = name.word
  BY <1>2
<1>4. Numbered(at, 1, S)
  BY DEF Numbered
<1>5. NameAt(name, at[1]) = name.word
  BY DEF NameAt
<1>6. IsFiniteSet(S) /\ Cardinality(S) = 1
  BY FS_Singleton
<1>7. Cardinality(S) <= MaxExpansion
  BY <1>6, MaxExpansionIsNat
<1>8. ToSet(name.items) = {}
  BY <1>2 DEF ToSet
<1> HIDE DEF list, S, at
<1>9. Spells(name, list, S)
  <2>1. \A j \in 1..1 : list[j] = NameAt(name, at[j])
    BY <1>3, <1>5
  <2> QED BY <1>3, <1>4, <2>1 DEF Spells
<1>10. Ok(list).list = list
  BY DEF Ok
<1> QED BY <1>1, <1>6, <1>7, <1>8, <1>9, <1>10 DEF Expanded

\* A range is all its items.
LEMMA ExpandedRange ==
    ASSUME NEW name \in WrittenNames, IsPattern(name)
    PROVE  Expanded(name, expand(name))
<1> DEFINE items == name.items
           n == Len(items)
<1>1. n \in Nat /\ DOMAIN items = 1..n
  BY LenProperties DEF WrittenNames
<1>2. PICK acc : ItemsTaken(items, n, acc)
  BY <1>1, ItemByItem
<1>3. expand(name) = acc[n]
  BY <1>2 DEF expand, ItemsTaken
<1> DEFINE Steps == {k \in 0..n : ItemsSoFar(name, acc[k], k)}
<1>4. 0 \in Steps
  <2> DEFINE none == << >>
             at == [j \in 1..0 |-> 0]
  <2>1. acc[0] = Ok(none)
    BY <1>2 DEF ItemsTaken
  <2>2. none \in Seq(Entitled) /\ Len(none) = 0
    BY EmptySeq
  <2>3. PlacesUpTo(items, 0) = {}
    BY DEF PlacesUpTo
  <2>4. Numbered(at, 0, {})
    BY DEF Numbered
  <2> HIDE DEF none, at, items, n
  <2>5. Spells(name, none, {})
    <3>1. \A j \in 1..0 : none[j] = NameAt(name, at[j])
      OBVIOUS
    <3> QED BY <2>2, <2>4, <3>1 DEF Spells
  <2>6. IsFiniteSet({})
    BY FS_EmptySet
  <2>7. Ok(none).list = none
    BY DEF Ok
  <2>8. 0 <= MaxExpansion /\ 0 \in 0..n
    BY <1>1, MaxExpansionIsNat
  <2>9. ItemsSoFar(name, acc[0], 0)
    <3> DEFINE r == acc[0]
    <3>1. r.list = none /\ r = Ok(r.list)
      BY <2>1, <2>7
    <3>2. \A i \in 1..0 : Upwards(items[i])
      OBVIOUS
    <3> HIDE DEF r
    <3> QED BY <2>2, <2>3, <2>5, <2>6, <2>8, <3>1, <3>2 DEF ItemsSoFar, items, r
  <2> QED BY <2>8, <2>9
<1>5. ASSUME NEW k \in 1..n, k - 1 \in Steps
      PROVE  k \in Steps
  <2>1. acc[k] = TakeItem(acc[k - 1], items[k])
    BY <1>2 DEF ItemsTaken
  <2>2. ItemsSoFar(name, acc[k], k)
    BY <1>5, <2>1, ItemStepKeeps
  <2>3. k \in 0..n
    BY <1>1
  <2> QED BY <2>2, <2>3
<1> HIDE DEF Steps
<1>6. n \in Steps
  <2>1. n \in 0..n
    BY <1>1
  <2> HIDE DEF n
  <2> QED BY <1>1, <1>4, <1>5, <2>1, ItemLoop!UpTo
<1>7. ItemsSoFar(name, acc[n], n)
  BY <1>6 DEF Steps
<1>8. Places(name) = PlacesUpTo(items, n)
  BY <1>1 DEF Places, PlacesUpTo, PlacesIn
<1>9. ToSet(items) = {items[i] : i \in 1..n}
  BY <1>1 DEF ToSet
<1> DEFINE e == acc[n]
           S == PlacesUpTo(items, n)
<1>10. CASE /\ e = Ok(e.list) /\ Spells(name, e.list, S) /\ Len(e.list) <= MaxExpansion
            /\ \A i \in 1..n : Upwards(items[i])
  <2> HIDE DEF e, S, items, n
  <2>1. PICK at : Numbered(at, Len(e.list), S)
    BY <1>10 DEF Spells
  <2>2. Len(e.list) \in Nat
    BY <1>10, LenProperties DEF Spells
  <2>3. IsFiniteSet(S) /\ Cardinality(S) = Len(e.list)
    BY <2>1, <2>2, NumberedCount
  <2> QED BY <1>3, <1>8, <1>9, <1>10, <2>3 DEF Expanded, e, S, items
<1>11. CASE e = Err /\ \/ \E i \in 1..n : ~Upwards(items[i])
                       \/ ~(Cardinality(S) <= MaxExpansion)
  <2> HIDE DEF e
  <2>1. IsFiniteSet(S)
    BY <1>7 DEF ItemsSoFar
  <2> QED BY <1>3, <1>8, <1>9, <1>11, <2>1 DEF Expanded, e
<1> QED BY <1>7, <1>10, <1>11 DEF ItemsSoFar

LEMMA ExpandIs ==
    ASSUME NEW name \in WrittenNames
    PROVE  Expanded(name, expand(name))
BY ExpandedWord, ExpandedRange

-----------------------------------------------------------------------------
(* Declare *)

\* Hosts that can stand in one list: each has a name, and no other's.
Fit(list) ==
    /\ \A i \in 1..Len(list) : list[i].name # NotAName
    /\ \A i, j \in 1..Len(list) : list[i].name = list[j].name => i = j

StartOf(T, l, all, k) ==
    /\ l \in Seq(T) /\ Len(l) = k
    /\ \A i \in 1..k : l[i] = all[i]

\* The Hosts of one entry, one at a time.
HostsTaken(base, new, n, acc) ==
    /\ acc[0] = base
    /\ \A k \in 1..n : acc[k] = DeclareHost(acc[k - 1], new[k])
    /\ FoldLeft(DeclareHost, base, new) = acc[n]

LEMMA HostByHost ==
    ASSUME NEW base, NEW new, NEW n \in Nat, DOMAIN new = 1..n
    PROVE  \E acc : HostsTaken(base, new, n, acc)
<1> DEFINE c == {}
<1>1. FoldLeft(DeclareHost, base, new) = HostLoop!Folded(c, base, new)
  <2> HIDE DEF c
  <2> QED BY DEF FoldLeft, MapThenFoldSet, Max, HostStep, HostLoop!Folded,
                 HostLoop!FoldLeft, HostLoop!MapThenFoldSet, HostLoop!Max
<1> HIDE DEF c
<1>2. PICK acc : HostLoop!Stepped(c, base, new, n, acc)
  BY HostLoop!StepByStep
<1> QED BY <1>1, <1>2 DEF HostLoop!Stepped, HostsTaken, HostStep

LEMMA NamedIs ==
    ASSUME NEW T, NEW list \in Seq(T)
    PROVE  Named(list) = {list[i].name : i \in 1..Len(list)}
<1>1. DOMAIN list = 1..Len(list)
  BY LenProperties
<1> QED BY <1>1 DEF Named, ToSet

\* One more Host.
HostsSoFar(T, r, all, k) ==
    \/ r = Ok(r.list) /\ StartOf(T, r.list, all, k) /\ Fit(r.list)
    \/ r = Err /\ ~Fit(all)

LEMMA HostStepKeeps ==
    ASSUME NEW T, NEW all \in Seq(T), NEW k \in Nat, k + 1 <= Len(all),
           NEW r, HostsSoFar(T, r, all, k),
           NEW host, host = all[k + 1], NEW s, s = DeclareHost(r, host)
    PROVE  HostsSoFar(T, s, all, k + 1)
<1>1. Len(all) \in Nat /\ k + 1 \in 1..Len(all)
  BY LenProperties
<1>2. host \in T
  BY <1>1, ElementOfSeq
<1>3. CASE r = Err
  <2>1. ~Fit(all)
    BY <1>3 DEF HostsSoFar, Ok, Err
  <2>2. s = Err
    BY <1>3 DEF DeclareHost, Err
  <2> QED BY <2>1, <2>2 DEF HostsSoFar
<1>4. CASE r = Ok(r.list)
  <2> DEFINE l == r.list
  <2>1. r.state # "err" /\ r # Err
    BY <1>4 DEF Ok, Err
  <2>2. /\ l \in Seq(T) /\ Len(l) = k /\ Fit(l)
        /\ \A i \in 1..k : l[i] = all[i]
    BY <2>1 DEF HostsSoFar, StartOf
  <2>3. Named(l) = {l[i].name : i \in 1..k}
    BY <2>2, NamedIs
  <2>4. CASE host.name = NotAName \/ host.name \in Named(l)
    <3>1. s = Err
      BY <2>4 DEF DeclareHost
    <3>2. ~Fit(all)
      <4>1. CASE host.name = NotAName
        BY <1>1, <4>1 DEF Fit
      <4>2. CASE host.name \in Named(l)
        <5>1. PICK i \in 1..k : l[i].name = host.name
          BY <2>3, <4>2
        <5>2. i \in 1..Len(all) /\ i # k + 1 /\ all[i].name = all[k + 1].name
          BY <1>1, <2>2, <5>1
        <5> QED BY <1>1, <5>2 DEF Fit
      <4> QED BY <2>4, <4>1, <4>2
    <3> QED BY <3>1, <3>2 DEF HostsSoFar
  <2>5. CASE ~(host.name = NotAName \/ host.name \in Named(l))
    <3> DEFINE t == Append(l, host)
    <3>1. s = Ok(t)
      BY <2>1, <2>5 DEF DeclareHost
    <3> HIDE DEF l
    <3>2. k = Len(l)
      BY <2>2
    <3>3. /\ t \in Seq(T) /\ Len(t) = k + 1 /\ t[k + 1] = host
          /\ \A i \in 1..k : t[i] = l[i]
      BY <1>2, <2>2, <3>2, OneMore
    <3> HIDE DEF t
    <3>4. StartOf(T, t, all, k + 1)
      BY <2>2, <3>3 DEF StartOf
    <3>5. Fit(t)
      <4>1. \A i \in 1..(k + 1) : i = k + 1 \/ i \in 1..k
        OBVIOUS
      <4>2. \A i \in 1..k : l[i].name # host.name
        BY <2>3, <2>5
      <4> QED BY <2>2, <2>5, <3>3, <4>1, <4>2 DEF Fit
    <3>6. s.list = t
      BY <3>1 DEF Ok
    <3> QED BY <3>1, <3>4, <3>5, <3>6 DEF HostsSoFar
  <2> QED BY <2>4, <2>5
<1> QED BY <1>3, <1>4 DEF HostsSoFar

\* The Hosts of an entry join the others when all of them fit, and are refused
\* otherwise.
LEMMA DeclareIs ==
    ASSUME NEW T, NEW old \in Seq(T), NEW new \in Seq(T), Fit(old),
           NEW r, r = FoldLeft(DeclareHost, Ok(old), new)
    PROVE  \/ r = Ok(old \o new) /\ Fit(old \o new)
           \/ r = Err /\ ~Fit(old \o new)
<1> DEFINE all == old \o new
           b == Len(old)
           n == Len(new)
           base == Ok(old)
<1>1. n \in Nat /\ b \in Nat /\ DOMAIN new = 1..n
  BY LenProperties
<1>2. /\ all \in Seq(T) /\ Len(all) = b + n
      /\ \A i \in 1..(b + n) : all[i] = IF i <= b THEN old[i] ELSE new[i - b]
  BY ConcatProperties
<1> HIDE DEF all, n, b, base
<1>3. PICK acc : HostsTaken(base, new, n, acc)
  BY <1>1, HostByHost
<1> DEFINE Steps == {k \in 0..n : HostsSoFar(T, acc[k], all, b + k)}
<1>4. 0 \in Steps
  <2>1. \A i \in 1..b : all[i] = old[i]
    BY <1>1, <1>2
  <2>2. base = Ok(old) /\ base.list = old /\ acc[0] = base /\ b + 0 = Len(old)
    BY <1>1, <1>3 DEF HostsTaken, base, Ok, b
  <2>3. StartOf(T, old, all, b + 0)
    BY <1>1, <2>1, <2>2 DEF StartOf
  <2>4. HostsSoFar(T, acc[0], all, b + 0)
    BY <2>2, <2>3 DEF HostsSoFar
  <2>5. 0 \in 0..n
    BY <1>1
  <2> QED BY <2>4, <2>5
<1>5. ASSUME NEW k \in 1..n, k - 1 \in Steps
      PROVE  k \in Steps
  <2> DEFINE m == b + (k - 1)
  <2>1. m \in Nat /\ m + 1 = b + k /\ m + 1 <= Len(all) /\ k \in 0..n
    BY <1>1, <1>2
  <2>2. all[m + 1] = new[k]
    BY <1>1, <1>2, <2>1
  <2>3. acc[k] = DeclareHost(acc[k - 1], new[k])
    BY <1>3 DEF HostsTaken
  <2>4. HostsSoFar(T, acc[k - 1], all, m)
    BY <1>5
  <2> HIDE DEF m
  <2>5. HostsSoFar(T, acc[k], all, m + 1)
    BY <1>2, <2>1, <2>2, <2>3, <2>4, HostStepKeeps
  <2> QED BY <2>1, <2>5
<1> HIDE DEF Steps
<1>6. n \in Steps
  <2>1. n \in 0..n
    BY <1>1
  <2> QED BY <1>1, <1>4, <1>5, <2>1, HostLoop!UpTo
<1>7. r = acc[n] /\ HostsSoFar(T, r, all, Len(all))
  BY <1>2, <1>3, <1>6 DEF Steps, HostsTaken, base
<1>8. ASSUME r = Ok(r.list), StartOf(T, r.list, all, Len(all)), Fit(r.list)
      PROVE  r = Ok(all) /\ Fit(all)
  <2>1. r.list = all
    BY <1>2, <1>8, SeqEqual DEF StartOf
  <2> QED BY <1>8, <2>1
<1> QED BY <1>7, <1>8 DEF HostsSoFar, all

-----------------------------------------------------------------------------
(* parse *)

\* A place of the file: an entry of it, and a place of that entry's name.
PlacesOf(k) == {k} \X Places(file.entries[k].name)
FilePlaces(k) == UNION {PlacesOf(i) : i \in 1..k}

HostAt(q) ==
    [name |-> NameAt(file.entries[q[1]].name, q[2]),
     fields |-> file.entries[q[1]].fields]

HostRecords ==
    {[name |-> n, fields |-> e.fields] : n \in Entitled, e \in ToSet(file.entries)}

\* A list with the Host of every place in a set, once each.
HostsOf(list, S) ==
    /\ list \in Seq(HostRecords)
    /\ \E at : /\ Numbered(at, Len(list), S)
               /\ \A j \in 1..Len(list) : list[j] = HostAt(at[j])

Once(S) == \A p, q \in S : HostAt(p).name = HostAt(q).name => p = q

\* What the entries so far have come to.
EntriesSoFar(r, k) ==
    \/ /\ r = Ok(r.list) /\ HostsOf(r.list, FilePlaces(k)) /\ Fit(r.list)
       /\ \A i \in 1..k : WellFormed(file.entries[i])
    \/ /\ r = Err
       /\ ~Once(FilePlaces(k)) \/ \E i \in 1..k : ~WellFormed(file.entries[i])

\* What TOML lets through, of the file that is read.
LEMMA EntryTypes ==
    ASSUME file \in Files
    PROVE  /\ Len(file.entries) \in Nat /\ DOMAIN file.entries = 1..Len(file.entries)
           /\ \A k \in 1..Len(file.entries) :
                  /\ file.entries[k].name \in WrittenNames
                  /\ file.entries[k] \in ToSet(file.entries)
                  /\ DOMAIN file.entries[k].fields \subseteq ToSet(Columns) \ {"host"}
BY FilesAssumption DEF ToSet

\* The Hosts of one entry, after those of the entries before it.
LEMMA EntryHosts ==
    ASSUME file \in Files, NEW k \in 1..Len(file.entries),
           NEW old, HostsOf(old, FilePlaces(k - 1)),
           NEW names, Spells(file.entries[k].name, names, Places(file.entries[k].name)),
           NEW new, new = [j \in DOMAIN names |->
                              [name |-> names[j], fields |-> file.entries[k].fields]]
    PROVE  /\ new \in Seq(HostRecords) /\ Len(new) = Len(names)
           /\ HostsOf(old \o new, FilePlaces(k))
<1> DEFINE entry == file.entries[k]
           b == Len(old)
           n == Len(names)
           all == old \o new
<1>1. PICK a : Numbered(a, b, FilePlaces(k - 1)) /\ \A j \in 1..b : old[j] = HostAt(a[j])
  BY DEF HostsOf
<1>2. PICK p : /\ Numbered(p, n, Places(entry.name))
               /\ \A j \in 1..n : names[j] = NameAt(entry.name, p[j])
  BY DEF Spells
<1>3. /\ b \in Nat /\ n \in Nat /\ DOMAIN names = 1..n /\ old \in Seq(HostRecords)
      /\ names \in Seq(Entitled)
  BY LenProperties DEF Spells, HostsOf
<1>4. entry \in ToSet(file.entries) /\ k \in Nat
  BY EntryTypes
<1>5. \A j \in 1..n : [name |-> names[j], fields |-> entry.fields] \in HostRecords
  <2>1. \A j \in 1..n : names[j] \in Entitled
    BY <1>3, ElementOfSeq
  <2> HIDE DEF entry, n
  <2> QED BY <1>4, <2>1 DEF HostRecords
<1>6. new \in Seq(HostRecords) /\ Len(new) = n
  <2>1. new = [j \in 1..n |-> [name |-> names[j], fields |-> entry.fields]]
    BY <1>3
  <2>2. new \in [1..n -> HostRecords]
    BY <1>5, <2>1
  <2> HIDE DEF n
  <2> QED BY <1>3, <2>2
<1> DEFINE q == [j \in 1..n |-> <<k, p[j]>>]
           c == Joint(a, b, q, n)
<1>7. Numbered(q, n, PlacesOf(k))
  <2> DEFINE S == Places(entry.name)
  <2> HIDE DEF S, n
  <2>1. /\ p \in [1..n -> S] /\ \A i, j \in 1..n : p[i] = p[j] => i = j
        /\ \A x \in S : \E i \in 1..n : p[i] = x
    BY <1>2 DEF Numbered, S
  <2>2. q \in [1..n -> {k} \X S]
    BY <2>1
  <2>3. \A i, j \in 1..n : q[i] = q[j] => i = j
    BY <2>1
  <2>4. \A x \in {k} \X S : \E i \in 1..n : q[i] = x
    BY <2>1
  <2>5. PlacesOf(k) = {k} \X S
    BY DEF PlacesOf, S
  <2> HIDE DEF q
  <2> QED BY <2>2, <2>3, <2>4, <2>5 DEF Numbered
<1>8. \A j \in 1..n : new[j] = HostAt(q[j])
  BY <1>2, <1>3 DEF HostAt
<1>9. FilePlaces(k) = FilePlaces(k - 1) \cup PlacesOf(k)
  <2>1. 1..k = (1..(k - 1)) \cup {k}
    BY <1>4
  <2> QED BY <2>1 DEF FilePlaces
<1>10. FilePlaces(k - 1) \cap PlacesOf(k) = {}
  BY <1>4 DEF FilePlaces, PlacesOf
<1> HIDE DEF q, n, b, all
<1>11. Numbered(c, b + n, FilePlaces(k))
  <2> DEFINE S == FilePlaces(k - 1)
             T == PlacesOf(k)
  <2>1. S \cap T = {} /\ Numbered(a, b, S) /\ Numbered(q, n, T)
    BY <1>1, <1>7, <1>10
  <2> HIDE DEF S, T, c
  <2>2. Numbered(Joint(a, b, q, n), b + n, S \cup T)
    BY <1>3, <2>1, NumberedJoint
  <2> QED BY <1>9, <2>2 DEF S, T, c
<1>12. /\ all \in Seq(HostRecords) /\ Len(all) = b + n
       /\ \A j \in 1..(b + n) : all[j] = IF j <= b THEN old[j] ELSE new[j - b]
  BY <1>3, <1>6, ConcatProperties DEF all, b
<1>13. ASSUME NEW j \in 1..(b + n)
       PROVE  all[j] = HostAt(c[j])
  <2>1. CASE j <= b
    <3>1. j \in 1..b /\ c[j] = a[j]
      BY <1>3, <2>1 DEF Joint
    <3> QED BY <1>1, <1>12, <2>1, <3>1
  <2>2. CASE ~(j <= b)
    <3>1. j - b \in 1..n /\ c[j] = q[j - b]
      BY <1>3, <2>2 DEF Joint
    <3> QED BY <1>8, <1>12, <2>2, <3>1
  <2> QED BY <2>1, <2>2
<1> HIDE DEF c
<1>14. HostsOf(all, FilePlaces(k))
  BY <1>11, <1>12, <1>13 DEF HostsOf
<1> QED BY <1>6, <1>14 DEF all, n

\* A list that does not fit, of Hosts that stand in the file, says what is wrong
\* with the file.
LEMMA UnfitHosts ==
    ASSUME NEW list, NEW S, HostsOf(list, S), ~Fit(list)
    PROVE  ~Once(S) \/ \E q \in S : HostAt(q).name = NotAName
<1>1. PICK at : /\ Numbered(at, Len(list), S)
                /\ \A j \in 1..Len(list) : list[j] = HostAt(at[j])
  BY DEF HostsOf
<1>2. \A j \in 1..Len(list) : at[j] \in S
  BY <1>1 DEF Numbered
<1>3. CASE \E i \in 1..Len(list) : list[i].name = NotAName
  BY <1>1, <1>2, <1>3
<1>4. CASE \E i, j \in 1..Len(list) : list[i].name = list[j].name /\ i # j
  <2>1. PICK i, j \in 1..Len(list) : list[i].name = list[j].name /\ i # j
    BY <1>4
  <2>2. at[i] # at[j]
    BY <1>1, <2>1 DEF Numbered
  <2> QED BY <1>1, <1>2, <2>1, <2>2 DEF Once
<1> QED BY <1>3, <1>4 DEF Fit

\* ... and of a list that does, nothing is.
LEMMA FitHosts ==
    ASSUME NEW list, NEW S, HostsOf(list, S), Fit(list)
    PROVE  Once(S) /\ \A q \in S : HostAt(q).name # NotAName
<1>1. PICK at : /\ Numbered(at, Len(list), S)
                /\ \A j \in 1..Len(list) : list[j] = HostAt(at[j])
  BY DEF HostsOf
<1>2. \A q \in S : \E j \in 1..Len(list) : at[j] = q /\ list[j] = HostAt(q)
  BY <1>1 DEF Numbered
<1> QED BY <1>2 DEF Fit, Once

LEMMA EntryStepKeeps ==
    ASSUME file \in Files, NEW k \in 1..Len(file.entries),
           NEW r, EntriesSoFar(r, k - 1),
           NEW s, s = TakeEntry(r, file.entries[k])
    PROVE  EntriesSoFar(s, k)
<1> DEFINE entry == file.entries[k]
           name == entry.name
           e == expand(name)
           before == FilePlaces(k - 1)
           all == FilePlaces(k)
<1>1. k \in Nat /\ name \in WrittenNames /\ \A i \in 1..k : i = k \/ i \in 1..(k - 1)
  BY EntryTypes
<1>2. Expanded(name, e)
  BY <1>1, ExpandIs
<1>3. before \subseteq all /\ PlacesOf(k) \subseteq all /\ 1..(k - 1) \subseteq 1..k
  BY <1>1 DEF FilePlaces
<1>4. CASE r = Err
  <2>1. s = Err
    BY <1>4 DEF TakeEntry, Err
  <2>2. ~Once(before) \/ \E i \in 1..(k - 1) : ~WellFormed(file.entries[i])
    BY <1>4 DEF EntriesSoFar, Ok, Err
  <2>3. ~Once(all) \/ \E i \in 1..k : ~WellFormed(file.entries[i])
    BY <1>3, <2>2 DEF Once
  <2> QED BY <2>1, <2>3 DEF EntriesSoFar
<1>5. CASE r = Ok(r.list)
  <2> DEFINE old == r.list
  <2>1. r.state # "err" /\ r # Err
    BY <1>5 DEF Ok, Err
  <2>2. /\ HostsOf(old, before) /\ Fit(old)
        /\ \A i \in 1..(k - 1) : WellFormed(file.entries[i])
    BY <2>1 DEF EntriesSoFar
  <2>3. ASSUME ~WellFormed(entry), s = Err
        PROVE  EntriesSoFar(s, k)
    <3>1. k \in 1..k
      BY <1>1
    <3> QED BY <2>3, <3>1 DEF EntriesSoFar
  <2>4. CASE \/ Sets(entry.fields, "user") /\ entry.fields["user"] = NotAUser
             \/ Sets(entry.fields, "ip") /\ IsPattern(name)
             \/ e.state = "err"
    <3>1. s = Err
      BY <2>4 DEF TakeEntry
    <3>2. e.state = "err" => e = Err
      BY <1>2 DEF Expanded, Ok
    <3>3. ~WellFormed(entry)
      BY <1>2, <2>4, <3>2 DEF Expanded, WellFormed, Ok, Err, Upwards
    <3> QED BY <2>3, <3>1, <3>3
  <2>5. CASE ~(\/ Sets(entry.fields, "user") /\ entry.fields["user"] = NotAUser
               \/ Sets(entry.fields, "ip") /\ IsPattern(name)
               \/ e.state = "err")
    <3> DEFINE names == e.list
               new == [j \in DOMAIN names |-> [name |-> names[j], fields |-> entry.fields]]
    <3>1. /\ e = Ok(names) /\ Spells(name, names, Places(name))
          /\ Cardinality(Places(name)) <= MaxExpansion
          /\ \A item \in ToSet(name.items) : Upwards(item)
      BY <1>2, <2>5 DEF Expanded, Err
    <3>2. s = FoldLeft(DeclareHost, Ok(old), new)
      BY <1>5, <2>1, <2>5 DEF TakeEntry, Declare
    <3> HIDE DEF names, new, old
    <3>3. new \in Seq(HostRecords) /\ HostsOf(old \o new, all)
      BY <2>2, <3>1, EntryHosts DEF new, names
    <3>4. \/ s = Ok(old \o new) /\ Fit(old \o new)
          \/ s = Err /\ ~Fit(old \o new)
      BY <2>2, <3>2, <3>3, DeclareIs DEF HostsOf
    <3>5. \A q \in PlacesOf(k) : HostAt(q).name = NameAt(name, q[2]) /\ q[2] \in Places(name)
      BY DEF PlacesOf, HostAt
    <3>6. \A p \in Places(name) : <<k, p>> \in PlacesOf(k) /\ HostAt(<<k, p>>).name = NameAt(name, p)
      BY DEF PlacesOf, HostAt
    <3>7. CASE s = Ok(old \o new) /\ Fit(old \o new)
      <4>1. \A q \in all : HostAt(q).name # NotAName
        BY <3>3, <3>7, FitHosts
      <4>2. NotAName \notin Declares(name)
        BY <1>3, <3>6, <4>1 DEF Declares
      <4>3. WellFormed(entry)
        BY <2>5, <3>1, <4>2 DEF WellFormed, Upwards
      <4>4. \A i \in 1..k : WellFormed(file.entries[i])
        BY <1>1, <2>2, <4>3
      <4>5. s.list = old \o new
        BY <3>7 DEF Ok
      <4> QED BY <3>3, <3>7, <4>4, <4>5 DEF EntriesSoFar
    <3>8. CASE s = Err /\ ~Fit(old \o new)
      <4>1. ~Once(all) \/ \E q \in all : HostAt(q).name = NotAName
        BY <3>3, <3>8, UnfitHosts
      <4>2. CASE ~Once(all)
        BY <3>8, <4>2 DEF EntriesSoFar
      <4>3. CASE \E q \in all : HostAt(q).name = NotAName
        <5>1. \A q \in before : HostAt(q).name # NotAName
          BY <2>2, FitHosts
        <5>2. all = before \cup PlacesOf(k)
          BY <1>1 DEF FilePlaces
        <5>3. PICK q \in PlacesOf(k) : HostAt(q).name = NotAName
          BY <4>3, <5>1, <5>2
        <5>4. ~WellFormed(entry)
          BY <3>5, <5>3 DEF WellFormed, Declares
        <5> QED BY <2>3, <3>8, <5>4
      <4> QED BY <4>1, <4>2, <4>3
    <3> QED BY <3>4, <3>7, <3>8
  <2> QED BY <2>4, <2>5
<1> QED BY <1>4, <1>5 DEF EntriesSoFar

\* The entries of the file, one at a time.
LEMMA EntriesTaken ==
    ASSUME file \in Files, NEW r, r = FoldLeft(TakeEntry, Ok(<< >>), file.entries)
    PROVE  EntriesSoFar(r, Len(file.entries))
<1> DEFINE entries == file.entries
           n == Len(entries)
           none == << >>
           base == Ok(none)
           c == {}
<1>1. n \in Nat /\ DOMAIN entries = 1..n
  BY EntryTypes
<1>2. r = EntryLoop!Folded(c, base, entries)
  <2> HIDE DEF base, c
  <2> QED BY DEF base, FoldLeft, MapThenFoldSet, Max, EntryStep, EntryLoop!Folded,
                 EntryLoop!FoldLeft, EntryLoop!MapThenFoldSet, EntryLoop!Max
<1> HIDE DEF base, c, n
<1>3. PICK acc : EntryLoop!Stepped(c, base, entries, n, acc)
  BY <1>1, EntryLoop!StepByStep
<1>4. /\ acc[0] = base /\ r = acc[n]
      /\ \A k \in 1..n : acc[k] = TakeEntry(acc[k - 1], entries[k])
  BY <1>2, <1>3 DEF EntryLoop!Stepped, EntryStep
<1> DEFINE Steps == {k \in 0..n : EntriesSoFar(acc[k], k)}
<1>5. 0 \in Steps
  <2> DEFINE at == [j \in 1..0 |-> 0]
             S == FilePlaces(0)
  <2>1. none \in Seq(HostRecords) /\ Len(none) = 0
    BY EmptySeq
  <2>2. S = {}
    BY DEF FilePlaces
  <2>3. Numbered(at, 0, S)
    BY <2>2 DEF Numbered
  <2> HIDE DEF none, at, S
  <2>4. HostsOf(none, S) /\ Fit(none)
    BY <2>1, <2>3 DEF HostsOf, Fit
  <2>5. acc[0] = Ok(none) /\ Ok(none).list = none
    BY <1>4 DEF base, Ok
  <2>6. EntriesSoFar(acc[0], 0)
    <3> DEFINE first == acc[0]
    <3>1. first = Ok(none) /\ first.list = none
      BY <2>5
    <3>2. \A i \in 1..0 : WellFormed(entries[i])
      OBVIOUS
    <3> HIDE DEF first
    <3>3. EntriesSoFar(first, 0)
      BY <2>4, <3>1, <3>2 DEF EntriesSoFar, S
    <3> QED BY <3>3 DEF first
  <2> QED BY <1>1, <2>6
<1>6. ASSUME NEW k \in 1..n, k - 1 \in Steps
      PROVE  k \in Steps
  <2>1. EntriesSoFar(acc[k], k)
    BY <1>4, <1>6, EntryStepKeeps DEF n
  <2> QED BY <1>1, <2>1
<1> HIDE DEF Steps
<1>7. n \in Steps
  <2>1. n \in 0..n
    BY <1>1
  <2> QED BY <1>1, <1>5, <1>6, <2>1, EntryLoop!UpTo
<1> QED BY <1>4, <1>7 DEF Steps, n

\* What is loaded has the Host of every place of the file, once each.
LEMMA Loaded ==
    ASSUME file \in Files, hosts = parse, hosts.state = "ok"
    PROVE  /\ hosts = Ok(hosts.list) /\ ALL \notin DOMAIN file.groups
           /\ HostsOf(hosts.list, FilePlaces(Len(file.entries))) /\ Fit(hosts.list)
           /\ \A i \in 1..Len(file.entries) : WellFormed(file.entries[i])
<1> DEFINE r == FoldLeft(TakeEntry, Ok(<< >>), file.entries)
<1>1. EntriesSoFar(r, Len(file.entries))
  BY EntriesTaken
<1> HIDE DEF r
<1>2. hosts = IF ALL \in DOMAIN file.groups THEN Err ELSE r
  BY DEF parse, r
<1>3. hosts # Err
  BY DEF Err
<1>4. hosts = r /\ ALL \notin DOMAIN file.groups
  BY <1>2, <1>3
<1> QED BY <1>1, <1>3, <1>4 DEF EntriesSoFar

LEMMA ParsedAsDeclared ==
    ASSUME file \in Files, hosts = Pending \/ hosts = parse
    PROVE  LoadedAsDeclared
<1> DEFINE entries == file.entries
           n == Len(entries)
           S == FilePlaces(n)
           list == hosts.list
           all == UNION {Declares(e.name) : e \in ToSet(entries)}
           fine == /\ ALL \notin DOMAIN file.groups
                   /\ NamedOnce
                   /\ \A e \in ToSet(entries) : WellFormed(e)
<1>1. /\ n \in Nat /\ DOMAIN entries = 1..n
      /\ ToSet(entries) = {entries[k] : k \in 1..n}
  BY EntryTypes DEF ToSet
<1>2. ASSUME NEW k, NEW p
      PROVE  /\ <<k, p>> \in S <=> k \in 1..n /\ p \in Places(entries[k].name)
             /\ HostAt(<<k, p>>).name = NameAt(entries[k].name, p)
  BY DEF FilePlaces, PlacesOf, HostAt
<1>3. \A q \in S : q = <<q[1], q[2]>>
  BY DEF FilePlaces, PlacesOf
<1>4. NamedOnce <=> Once(S)
  <2> HIDE DEF S, n
  <2>1. ASSUME NamedOnce
        PROVE  Once(S)
    <3> SUFFICES ASSUME NEW p \in S, NEW q \in S, HostAt(p).name = HostAt(q).name
                 PROVE  p = q
      BY DEF Once
    <3>1. p = <<p[1], p[2]>> /\ q = <<q[1], q[2]>>
      BY <1>3
    <3>2. /\ p[1] \in 1..n /\ p[2] \in Places(entries[p[1]].name)
          /\ q[1] \in 1..n /\ q[2] \in Places(entries[q[1]].name)
          /\ NameAt(entries[p[1]].name, p[2]) = NameAt(entries[q[1]].name, q[2])
      BY <1>2, <3>1
    <3>3. \A k, l \in 1..n :
              \A x \in Places(entries[k].name), y \in Places(entries[l].name) :
                  NameAt(entries[k].name, x) = NameAt(entries[l].name, y)
                      => k = l /\ x = y
      BY Zenon, <1>1, <2>1 DEF NamedOnce
    <3>4. p[1] = q[1] /\ p[2] = q[2]
      <4> DEFINE k == p[1]
                 x == p[2]
                 l == q[1]
                 y == q[2]
      <4> HIDE DEF k, x, l, y
      <4>1. k = l /\ x = y
        BY <3>2, <3>3 DEF k, x, l, y
      <4> QED BY <4>1 DEF k, x, l, y
    <3> QED BY <3>1, <3>4
  <2>2. ASSUME Once(S)
        PROVE  NamedOnce
    <3> SUFFICES ASSUME NEW k \in 1..n, NEW l \in 1..n,
                        NEW p \in Places(entries[k].name),
                        NEW q \in Places(entries[l].name),
                        NameAt(entries[k].name, p) = NameAt(entries[l].name, q)
                 PROVE  k = l /\ p = q
      BY <1>1 DEF NamedOnce
    <3>1. <<k, p>> = <<l, q>>
      BY <1>2, <2>2 DEF Once
    <3> QED BY <3>1
  <2> QED BY <2>1, <2>2
<1>5. all = {HostAt(q).name : q \in S}
  <2> HIDE DEF S, n
  <2>1. ASSUME NEW x \in all
        PROVE  x \in {HostAt(q).name : q \in S}
    <3>1. PICK k \in 1..n : x \in Declares(entries[k].name)
      BY <1>1
    <3>2. PICK p \in Places(entries[k].name) : x = NameAt(entries[k].name, p)
      BY <3>1 DEF Declares
    <3> QED BY <1>2, <3>2
  <2>2. ASSUME NEW q \in S
        PROVE  HostAt(q).name \in all
    <3>1. q = <<q[1], q[2]>>
      BY <1>3
    <3>2. /\ q[1] \in 1..n /\ q[2] \in Places(entries[q[1]].name)
          /\ HostAt(q).name = NameAt(entries[q[1]].name, q[2])
      BY <1>2, <3>1
    <3>3. HostAt(q).name \in Declares(entries[q[1]].name)
      BY <3>2 DEF Declares
    <3> QED BY <1>1, <3>2, <3>3
  <2> HIDE DEF all
  <2> QED BY <2>1, <2>2
<1>6. ASSUME hosts.state = "ok"
      PROVE  /\ fine /\ Declared = all /\ Len(list) = Cardinality(all)
             /\ \A host \in ToSet(list) :
                    \E e \in ToSet(entries) : host.name \in Declares(e.name)
                                              /\ host.fields = e.fields
  <2>1. hosts = parse
    BY <1>6 DEF Pending
  <2>2. /\ HostsOf(list, S) /\ Fit(list)
        /\ \A k \in 1..n : WellFormed(entries[k])
    BY <1>6, <2>1, Loaded
  <2>3. fine
    <3>1. Once(S)
      BY <2>2, FitHosts
    <3>2. \A e \in ToSet(entries) : WellFormed(e)
      BY <1>1, <2>2
    <3>3. ALL \notin DOMAIN file.groups
      BY <1>6, <2>1 DEF parse, Err
    <3> QED BY <1>4, <3>1, <3>2, <3>3
  <2> HIDE DEF S, all, list, n
  <2>4. PICK at : /\ Numbered(at, Len(list), S)
                  /\ \A j \in 1..Len(list) : list[j] = HostAt(at[j])
    BY <2>2 DEF HostsOf
  <2>5. Len(list) \in Nat /\ DOMAIN list = 1..Len(list) /\ list \in Seq(HostRecords)
    BY <2>2, LenProperties DEF HostsOf
  <2> DEFINE names == [j \in 1..Len(list) |-> list[j].name]
  <2>6. Numbered(names, Len(list), all)
    <3>1. \A j \in 1..Len(list) : list[j].name \in all
      BY <1>5, <2>4 DEF Numbered
    <3>2. \A x \in all : \E j \in 1..Len(list) : list[j].name = x
      BY <1>5, <2>4 DEF Numbered
    <3>3. \A i, j \in 1..Len(list) : list[i].name = list[j].name => i = j
      BY <2>2 DEF Fit
    <3> QED BY <3>1, <3>2, <3>3 DEF Numbered
  <2>7. Len(list) = Cardinality(all)
    <3> HIDE DEF names
    <3> QED BY <2>5, <2>6, NumberedCount
  <2>8. Declared = all
    <3>1. Declared = {list[j].name : j \in 1..Len(list)}
      BY <2>5, NamedIs DEF Declared, list
    <3>2. \A j \in 1..Len(list) : names[j] = list[j].name
      OBVIOUS
    <3> HIDE DEF names
    <3> QED BY <2>6, <3>1, <3>2 DEF Numbered
  <2>9. ASSUME NEW host \in ToSet(list)
        PROVE  \E e \in ToSet(entries) : host.name \in Declares(e.name)
                                         /\ host.fields = e.fields
    <3>1. PICK j \in 1..Len(list) : host = list[j]
      BY <2>5 DEF ToSet
    <3> DEFINE q == at[j]
    <3>2. q \in S /\ host = HostAt(q)
      BY <2>4, <3>1 DEF Numbered
    <3> HIDE DEF q
    <3>3. q = <<q[1], q[2]>>
      BY <1>3, <3>2 DEF S
    <3>4. /\ q[1] \in 1..n /\ q[2] \in Places(entries[q[1]].name)
          /\ host.name = NameAt(entries[q[1]].name, q[2])
      BY <1>2, <3>2, <3>3 DEF S, n
    <3>5. host.fields = entries[q[1]].fields
      BY <3>2 DEF HostAt
    <3> QED BY <1>1, <3>4, <3>5 DEF Declares
  <2> QED BY <2>3, <2>7, <2>8, <2>9 DEF all, list
<1>7. ASSUME hosts.state = "err"
      PROVE  ~fine
  <2>1. hosts = parse
    BY <1>7 DEF Pending
  <2> SUFFICES ASSUME ALL \notin DOMAIN file.groups
               PROVE  ~fine
    OBVIOUS
  <2>2. hosts = FoldLeft(TakeEntry, Ok(<< >>), entries)
    BY <2>1 DEF parse
  <2>3. EntriesSoFar(hosts, n)
    BY <2>2, EntriesTaken
  <2>4. ~Once(S) \/ \E k \in 1..n : ~WellFormed(entries[k])
    BY <1>7, <2>3 DEF EntriesSoFar, Ok
  <2> QED BY <1>1, <1>4, <2>4
<1> HIDE DEF fine, all
<1> QED BY <1>6, <1>7 DEF LoadedAsDeclared, fine, all

-----------------------------------------------------------------------------
(* The groups that are reached *)

Groups == DOMAIN file.groups

Closed(S) == \A s \in S : Names(s) \subseteq S

LEMMA NamesAreGroups ==
    ASSUME NEW g
    PROVE  Names(g) \subseteq Groups
BY DEF Names, NamesGroup, Groups

LEMMA ReachedIsLeast ==
    ASSUME NEW from
    PROVE  /\ Reached(from) \subseteq Groups /\ from \cap Groups \subseteq Reached(from)
           /\ Closed(Reached(from))
           /\ \A S \in SUBSET Groups :
                  from \cap Groups \subseteq S /\ Closed(S) => Reached(from) \subseteq S
<1> DEFINE R == Reached(from)
<1>1. /\ R \subseteq Groups
      /\ \A g \in Groups : g \in R <=>
             \A S \in SUBSET Groups : from \cap Groups \subseteq S /\ Closed(S) => g \in S
  BY DEF Reached, Closed, Groups
<1> HIDE DEF R
<1>2. \A S \in SUBSET Groups : from \cap Groups \subseteq S /\ Closed(S) => R \subseteq S
  BY <1>1
<1>3. from \cap Groups \subseteq R
  BY <1>1
<1>4. Closed(R)
  <2> SUFFICES ASSUME NEW r \in R, NEW h \in Names(r)
               PROVE  h \in R
    BY DEF Closed
  <2>1. h \in Groups
    BY NamesAreGroups
  <2>2. ASSUME NEW S \in SUBSET Groups, from \cap Groups \subseteq S, Closed(S)
        PROVE  h \in S
    <3>1. r \in S
      BY <1>2, <2>2
    <3> QED BY <2>2, <3>1 DEF Closed
  <2> QED BY <1>1, <2>1, <2>2
<1> QED BY <1>1, <1>2, <1>3, <1>4 DEF R

\* What is reached from some groups is reached from one of them.
LEMMA ReachedFromOne ==
    ASSUME NEW from
    PROVE  Reached(from) = UNION {Reached({h}) : h \in from \cap Groups}
<1> DEFINE U == UNION {Reached({h}) : h \in from \cap Groups}
<1>1. \A h : Reached({h}) \subseteq Groups /\ Closed(Reached({h}))
  BY ReachedIsLeast
<1>2. \A h \in Groups : h \in Reached({h})
  <2> TAKE h \in Groups
  <2>1. {h} \cap Groups \subseteq Reached({h})
    BY ReachedIsLeast
  <2> QED BY <2>1
<1>3. U \subseteq Groups /\ from \cap Groups \subseteq U /\ Closed(U)
  BY <1>1, <1>2 DEF Closed
<1>4. Reached(from) \subseteq U
  <2> HIDE DEF U
  <2> QED BY <1>3, ReachedIsLeast
<1>5. ASSUME NEW h \in from \cap Groups
      PROVE  Reached({h}) \subseteq Reached(from)
  <2> DEFINE R == Reached(from)
  <2>1. R \in SUBSET Groups /\ {h} \cap Groups \subseteq R /\ Closed(R)
    BY ReachedIsLeast
  <2> HIDE DEF R
  <2>2. Reached({h}) \subseteq R
    BY <2>1, ReachedIsLeast
  <2> QED BY <2>2 DEF R
<1> QED BY <1>4, <1>5

\* What a group reaches is itself and what the groups it names reach.
LEMMA ReachedFromGroup ==
    ASSUME NEW g \in Groups
    PROVE  Reached({g}) = {g} \cup Reached(Names(g))
<1> DEFINE N == Reached(Names(g))
           U == {g} \cup N
           R == Reached({g})
<1>1. N \subseteq Groups /\ Names(g) \subseteq N /\ Closed(N)
  <2>1. Names(g) \cap Groups = Names(g)
    BY NamesAreGroups
  <2> QED BY <2>1, ReachedIsLeast
<1>2. U \in SUBSET Groups /\ {g} \cap Groups \subseteq U /\ Closed(U)
  BY <1>1 DEF Closed
<1>3. R \subseteq U
  <2> HIDE DEF U
  <2> QED BY <1>2, ReachedIsLeast
<1>4. R \in SUBSET Groups /\ {g} \cap Groups \subseteq R /\ Closed(R)
  BY ReachedIsLeast
<1>5. Names(g) \cap Groups \subseteq R
  BY <1>4 DEF Closed
<1>6. N \subseteq R
  <2> HIDE DEF R
  <2> QED BY <1>4, <1>5, ReachedIsLeast
<1> QED BY <1>3, <1>4, <1>6

-----------------------------------------------------------------------------
(* expand_group *)

\* A group that can be expanded: its groups form no cycle, and each of its
\* selectors picks something.
Sound(g) ==
    \A h \in Reached({g}) :
        h \notin Reached(Names(h)) /\ \A s \in Picks(h) : match_selector(s) # {}

\* The Hosts of a group, and of those it reaches.
Below(g) ==
    UNION {match_selector(s) : s \in UNION {Picks(h) : h \in Reached({g})}}

Expandable(g, path) == Sound(g) /\ Reached({g}) \cap ToSet(path) = {}

\* What expand_group answers, without the recursion.
Answer(g, path) ==
    IF g = ALL THEN Found(Declared, path)
    ELSE IF g \notin Groups \/ Contains(path, g) THEN NotFound(path)
    ELSE IF Expandable(g, path) THEN Found(Below(g), path)
    ELSE NotFound(Append(path, g))

\* A selector of a group at the end of the path, and what it adds.
Holds(s, path) ==
    IF NamesGroup(s) THEN Expandable(s.word, path) ELSE match_selector(s) # {}
Adds(s) == IF NamesGroup(s) THEN Below(s.word) ELSE match_selector(s)

\* A group can be expanded when its selectors hold behind it; it adds up to
\* what they add.
LEMMA OfItsSelectors ==
    ASSUME NEW g \in Groups, NEW path, NEW below,
           ToSet(below) = ToSet(path) \cup {g}, g \notin ToSet(path)
    PROVE  /\ Expandable(g, path) <=> \A s \in ToSet(file.groups[g]) : Holds(s, below)
           /\ Below(g) = UNION {Adds(s) : s \in ToSet(file.groups[g])}
<1> DEFINE N == Names(g)
           P == Picks(g)
           R == Reached({g})
<1>1. R = {g} \cup UNION {Reached({h}) : h \in N}
  <2>1. N \cap Groups = N
    BY NamesAreGroups
  <2> QED BY <2>1, ReachedFromGroup, ReachedFromOne
<1>2. Reached(N) = UNION {Reached({h}) : h \in N}
  <2>1. N \cap Groups = N
    BY NamesAreGroups
  <2> QED BY <2>1, ReachedFromOne
<1>3. \A s \in ToSet(file.groups[g]) :
          IF NamesGroup(s) THEN s.word \in N ELSE s \in P
  BY DEF Names, Picks
<1>4. /\ \A h \in N : \E s \in ToSet(file.groups[g]) : NamesGroup(s) /\ s.word = h
      /\ \A s \in P : s \in ToSet(file.groups[g]) /\ ~NamesGroup(s)
  BY DEF Names, Picks
<1>5. (\A s \in ToSet(file.groups[g]) : Holds(s, below))
          <=> /\ \A h \in N : Expandable(h, below)
              /\ \A s \in P : match_selector(s) # {}
  <2> HIDE DEF N, P
  <2> QED BY <1>3, <1>4 DEF Holds
<1>6. Expandable(g, path)
          <=> /\ \A h \in N : Expandable(h, below)
              /\ \A s \in P : match_selector(s) # {}
  <2> HIDE DEF N, P, R
  <2>1. Expandable(g, path)
            <=> /\ g \notin Reached(N)
                /\ \A s \in P : match_selector(s) # {}
                /\ \A h \in N : Sound(h)
                /\ R \cap ToSet(path) = {}
    BY <1>1 DEF Expandable, Sound, N, P, R
  <2>2. (\A h \in N : Expandable(h, below))
            <=> /\ \A h \in N : Sound(h)
                /\ Reached(N) \cap (ToSet(path) \cup {g}) = {}
    <3> DEFINE T == ToSet(below)
    <3> HIDE DEF T
    <3>1. (\A h \in N : Reached({h}) \cap T = {}) <=> Reached(N) \cap T = {}
      <4>1. ASSUME \A h \in N : Reached({h}) \cap T = {}
            PROVE  Reached(N) \cap T = {}
        BY <1>2, <4>1
      <4>2. ASSUME Reached(N) \cap T = {}, NEW h \in N
            PROVE  Reached({h}) \cap T = {}
        BY <1>2, <4>2
      <4> QED BY <4>1, <4>2
    <3>2. T = ToSet(path) \cup {g}
      BY DEF T
    <3> QED BY <3>1, <3>2 DEF Expandable, T
  <2>3. R = {g} \cup Reached(N)
    BY <1>1, <1>2
  <2> QED BY <2>1, <2>2, <2>3
<1>7. Below(g) = UNION {Adds(s) : s \in ToSet(file.groups[g])}
  <2>1. ASSUME NEW x \in Below(g)
        PROVE  \E s \in ToSet(file.groups[g]) : x \in Adds(s)
    <3>1. PICK h \in R : \E t \in Picks(h) : x \in match_selector(t)
      BY DEF Below
    <3> PICK s \in Picks(h) : x \in match_selector(s)
      BY <3>1
    <3>2. CASE h = g
      BY <1>4, <3>2 DEF Adds
    <3>3. CASE h # g
      <4>1. PICK n \in N : h \in Reached({n})
        BY <1>1, <3>3
      <4>2. x \in Below(n)
        BY <4>1 DEF Below
      <4> QED BY <1>4, <4>2 DEF Adds
    <3> QED BY <3>2, <3>3
  <2>2. ASSUME NEW s \in ToSet(file.groups[g]), NEW x \in Adds(s)
        PROVE  x \in Below(g)
    <3>1. CASE NamesGroup(s)
      <4>1. s.word \in N /\ x \in Below(s.word)
        BY <1>3, <3>1 DEF Adds
      <4>2. Reached({s.word}) \subseteq R
        BY <1>1, <4>1
      <4> QED BY <4>1, <4>2 DEF Below
    <3>2. CASE ~NamesGroup(s)
      <4>1. s \in P /\ x \in match_selector(s) /\ g \in R
        BY <1>1, <1>3, <3>2 DEF Adds
      <4> QED BY <4>1 DEF Below
    <3> QED BY <3>1, <3>2
  <2> QED BY <2>1, <2>2
<1> QED BY <1>5, <1>6, <1>7

\* The groups' selectors, as TOML lets them through.
LEMMA GroupTypes ==
    ASSUME file \in Files
    PROVE  /\ IsFiniteSet(Groups) /\ Groups \subseteq Words
           /\ \A g \in Groups : file.groups[g] \in Seq(WrittenNames)
BY FilesAssumption DEF Groups

LEMMA ContainsIs ==
    ASSUME NEW T, NEW s \in Seq(T), NEW x
    PROVE  Contains(s, x) <=> x \in ToSet(s)
BY LenProperties DEF Contains, ToSet

\* One selector of a group whose path is `below`.
LEMMA SelectorIs ==
    ASSUME ALL \notin Groups, NEW below \in Seq(Words),
           NEW f, \A h \in Groups : f[<<h, below>>] = Answer(h, below),
           NEW names, NEW s,
           NEW r, r = TakeSelector(f, Found(names, below), s)
    PROVE  r = IF Holds(s, below) THEN Found(names \cup Adds(s), below)
               ELSE NotFound(below)
<1> DEFINE acc == Found(names, below)
<1>1. acc.ok /\ acc.names = names /\ acc.visiting = below
  BY DEF Found
<1> HIDE DEF acc
<1>2. CASE NamesGroup(s)
  <2> DEFINE h == s.word
             a == f[<<h, below>>]
  <2>1. h \in Groups /\ h # ALL
    BY <1>2 DEF NamesGroup, Groups
  <2>2. a = Answer(h, below)
    BY <2>1
  <2> HIDE DEF a, h
  <2>3. Contains(below, h) => ~Expandable(h, below)
    <3>1. h \in Reached({h})
      BY <2>1, ReachedIsLeast
    <3> QED BY <3>1, ContainsIs DEF Expandable
  <2>4. r = IF ~a.ok THEN NotFound(below)
            ELSE Found(names \cup a.names, a.visiting)
    BY <1>1, <1>2 DEF TakeSelector, acc, a, h
  <2>5. CASE Expandable(h, below)
    <3>1. a = Found(Below(h), below)
      BY <2>1, <2>2, <2>3, <2>5 DEF Answer
    <3>2. a.ok /\ a.names = Below(h) /\ a.visiting = below
      BY <3>1 DEF Found
    <3> QED BY <1>2, <2>4, <2>5, <3>2 DEF Holds, Adds, h
  <2>6. CASE ~Expandable(h, below)
    <3>1. a = NotFound(below) \/ a = NotFound(Append(below, h))
      BY <2>1, <2>2, <2>6 DEF Answer
    <3>2. ~a.ok
      BY <3>1 DEF NotFound
    <3> QED BY <1>2, <2>4, <2>6, <3>2 DEF Holds, h
  <2> QED BY <2>5, <2>6
<1>3. CASE ~NamesGroup(s)
  <2> DEFINE m == match_selector(s)
             a == Found(m, below)
  <2>1. a.ok /\ a.names = m /\ a.visiting = below
    BY DEF Found
  <2>2. r = IF ~a.ok \/ a.names = {} THEN NotFound(below)
            ELSE Found(names \cup a.names, a.visiting)
    BY <1>1, <1>3 DEF TakeSelector, acc
  <2> HIDE DEF a
  <2> QED BY <1>3, <2>1, <2>2 DEF Holds, Adds
<1> QED BY <1>2, <1>3

\* What the selectors so far have come to.
SelectorsSoFar(selectors, below, r, k) ==
    \/ /\ r = Found(r.names, below)
       /\ \A i \in 1..k : Holds(selectors[i], below)
       /\ r.names = UNION {Adds(selectors[i]) : i \in 1..k}
    \/ /\ r = NotFound(below)
       /\ \E i \in 1..k : ~Holds(selectors[i], below)

LEMMA SelectorStepKeeps ==
    ASSUME ALL \notin Groups, NEW below \in Seq(Words),
           NEW f, \A h \in Groups : f[<<h, below>>] = Answer(h, below),
           NEW selectors, NEW k \in Nat \ {0},
           NEW r, SelectorsSoFar(selectors, below, r, k - 1),
           NEW s, s = TakeSelector(f, r, selectors[k])
    PROVE  SelectorsSoFar(selectors, below, s, k)
<1> DEFINE x == selectors[k]
<1>1. 1..k = (1..(k - 1)) \cup {k}
  OBVIOUS
<1>2. CASE r = NotFound(below)
  <2>1. ~r.ok
    BY <1>2 DEF NotFound
  <2>2. s = r
    BY <2>1 DEF TakeSelector
  <2>3. \E i \in 1..(k - 1) : ~Holds(selectors[i], below)
    BY <2>1 DEF SelectorsSoFar, Found
  <2> QED BY <1>1, <1>2, <2>2, <2>3 DEF SelectorsSoFar
<1>3. CASE r = Found(r.names, below)
  <2>1. r.ok
    BY <1>3 DEF Found
  <2>2. /\ \A i \in 1..(k - 1) : Holds(selectors[i], below)
        /\ r.names = UNION {Adds(selectors[i]) : i \in 1..(k - 1)}
    BY <2>1 DEF SelectorsSoFar, NotFound
  <2>3. s = IF Holds(x, below) THEN Found(r.names \cup Adds(x), below)
            ELSE NotFound(below)
    <3> DEFINE names == r.names
    <3>1. s = TakeSelector(f, Found(names, below), x)
      BY <1>3
    <3> HIDE DEF names, x
    <3>2. s = IF Holds(x, below) THEN Found(names \cup Adds(x), below)
              ELSE NotFound(below)
      BY <3>1, SelectorIs
    <3> QED BY <3>2 DEF names
  <2>4. CASE Holds(x, below)
    <3>1. s = Found(r.names \cup Adds(x), below)
      BY <2>3, <2>4
    <3>2. s.names = r.names \cup Adds(x)
      BY <3>1 DEF Found
    <3>3. \A i \in 1..k : Holds(selectors[i], below)
      BY <1>1, <2>2, <2>4
    <3>4. s.names = UNION {Adds(selectors[i]) : i \in 1..k}
      BY <1>1, <2>2, <3>2
    <3> QED BY <3>1, <3>2, <3>3, <3>4 DEF SelectorsSoFar
  <2>5. CASE ~Holds(x, below)
    BY <1>1, <2>3, <2>5 DEF SelectorsSoFar
  <2> QED BY <2>4, <2>5
<1> QED BY <1>2, <1>3 DEF SelectorsSoFar

LEMMA SelectorsTaken ==
    ASSUME file \in Files, ALL \notin Groups, NEW below \in Seq(Words),
           NEW f, \A h \in Groups : f[<<h, below>>] = Answer(h, below),
           NEW g \in Groups, NEW r, r = TakeSelectors(f, g, below)
    PROVE  r = IF \A s \in ToSet(file.groups[g]) : Holds(s, below)
               THEN Found(UNION {Adds(s) : s \in ToSet(file.groups[g])}, below)
               ELSE NotFound(below)
<1> DEFINE selectors == file.groups[g]
           n == Len(selectors)
           none == {}
           base == Found(none, below)
<1>1. /\ n \in Nat /\ DOMAIN selectors = 1..n
      /\ ToSet(selectors) = {selectors[i] : i \in 1..n}
  BY GroupTypes, LenProperties DEF ToSet
<1>2. r = SelectorLoop!Folded(f, base, selectors)
  BY DEF TakeSelectors, FoldLeft, MapThenFoldSet, Max, SelectorLoop!Folded,
         SelectorLoop!FoldLeft, SelectorLoop!MapThenFoldSet, SelectorLoop!Max
<1> HIDE DEF base, n, selectors
<1>3. PICK acc : SelectorLoop!Stepped(f, base, selectors, n, acc)
  BY <1>1, SelectorLoop!StepByStep
<1>4. /\ acc[0] = base /\ r = acc[n]
      /\ \A k \in 1..n : acc[k] = TakeSelector(f, acc[k - 1], selectors[k])
  BY <1>2, <1>3 DEF SelectorLoop!Stepped
<1> DEFINE Steps == {k \in 0..n : SelectorsSoFar(selectors, below, acc[k], k)}
<1>5. 0 \in Steps
  <2> DEFINE first == acc[0]
  <2>1. first = Found(none, below) /\ first.names = none
    BY <1>4 DEF base, Found
  <2>2. none = UNION {Adds(selectors[i]) : i \in 1..0}
    OBVIOUS
  <2>3. \A i \in 1..0 : Holds(selectors[i], below)
    OBVIOUS
  <2> HIDE DEF first, none
  <2>4. SelectorsSoFar(selectors, below, first, 0)
    BY <2>1, <2>2, <2>3 DEF SelectorsSoFar
  <2> QED BY <1>1, <2>4 DEF first
<1>6. ASSUME NEW k \in 1..n, k - 1 \in Steps
      PROVE  k \in Steps
  <2>1. k \in Nat \ {0} /\ SelectorsSoFar(selectors, below, acc[k - 1], k - 1)
        /\ acc[k] = TakeSelector(f, acc[k - 1], selectors[k])
    BY <1>1, <1>4, <1>6
  <2>2. SelectorsSoFar(selectors, below, acc[k], k)
    BY <2>1, SelectorStepKeeps
  <2> QED BY <1>1, <2>2
<1> HIDE DEF Steps
<1>7. n \in Steps
  <2>1. n \in 0..n
    BY <1>1
  <2> QED BY <1>1, <1>5, <1>6, <2>1, SelectorLoop!UpTo
<1>8. SelectorsSoFar(selectors, below, r, n)
  BY <1>4, <1>7 DEF Steps
<1>9. (\A s \in ToSet(selectors) : Holds(s, below))
          <=> \A i \in 1..n : Holds(selectors[i], below)
  BY <1>1
<1>10. UNION {Adds(s) : s \in ToSet(selectors)} = UNION {Adds(selectors[i]) : i \in 1..n}
  BY <1>1
<1> QED BY <1>8, <1>9, <1>10 DEF SelectorsSoFar, selectors

\* A call answers as it should when the calls it makes do.
LEMMA OneCall ==
    ASSUME file \in Files, ALL \notin Groups,
           NEW g \in Words, NEW path \in Seq(Words), NEW f,
           g \in Groups /\ ~Contains(path, g) =>
               \A h \in Groups : f[<<h, Append(path, g)>>] = Answer(h, Append(path, g))
    PROVE  ExpandGroup(f, g, path) = Answer(g, path)
<1>1. CASE g = ALL \/ g \notin Groups \/ Contains(path, g)
  BY <1>1 DEF ExpandGroup, Answer, Groups
<1>2. CASE g # ALL /\ g \in Groups /\ ~Contains(path, g)
  <2> DEFINE below == Append(path, g)
             r == TakeSelectors(f, g, below)
             n == Len(path)
  <2>1. /\ below \in Seq(Words) /\ n \in Nat /\ Len(below) = n + 1 /\ below[n + 1] = g
        /\ \A i \in 1..n : below[i] = path[i]
    BY OneMore
  <2>2. DOMAIN below = 1..(n + 1) /\ DOMAIN path = 1..n
    BY <2>1, LenProperties
  <2>3. Front(below) = path
    <3>1. Front(below) = SubSeq(below, 1, n)
      BY <2>1 DEF Front
    <3>2. SubSeq(below, 1, n) = [i \in 1..n |-> below[i]]
      BY <2>1
    <3>3. path = [i \in 1..n |-> path[i]]
      BY <2>2
    <3> HIDE DEF below
    <3> QED BY <2>1, <3>1, <3>2, <3>3
  <2>4. ToSet(below) = ToSet(path) \cup {g}
    <3>1. \A i \in 1..(n + 1) : i = n + 1 \/ i \in 1..n
      BY <2>1
    <3>2. 1..n \subseteq 1..(n + 1) /\ n + 1 \in 1..(n + 1)
      BY <2>1
    <3> HIDE DEF below, n
    <3> QED BY <2>1, <2>2, <3>1, <3>2 DEF ToSet
  <2>5. g \notin ToSet(path)
    BY <1>2, ContainsIs
  <2>6. \A h \in Groups : f[<<h, below>>] = Answer(h, below)
    BY <1>2
  <2> HIDE DEF below
  <2>7. r = IF \A s \in ToSet(file.groups[g]) : Holds(s, below)
            THEN Found(UNION {Adds(s) : s \in ToSet(file.groups[g])}, below)
            ELSE NotFound(below)
    BY <1>2, <2>1, <2>6, SelectorsTaken
  <2>8. r = IF Expandable(g, path) THEN Found(Below(g), below) ELSE NotFound(below)
    <3>1. /\ Expandable(g, path) <=> \A s \in ToSet(file.groups[g]) : Holds(s, below)
          /\ Below(g) = UNION {Adds(s) : s \in ToSet(file.groups[g])}
      BY <1>2, <2>4, <2>5, OfItsSelectors
    <3> HIDE DEF r
    <3> QED BY <2>7, <3>1
  <2>9. ExpandGroup(f, g, path) = IF r.ok THEN Found(r.names, LeaveGroup(r.visiting)) ELSE r
    BY <1>2 DEF ExpandGroup, Groups, below
  <2> HIDE DEF r
  <2>10. CASE Expandable(g, path)
    <3>1. r.ok /\ r.names = Below(g) /\ LeaveGroup(r.visiting) = path
      BY <2>3, <2>8, <2>10 DEF Found, LeaveGroup
    <3> QED BY <1>2, <2>9, <2>10, <3>1 DEF Answer
  <2>11. CASE ~Expandable(g, path)
    <3>1. ~r.ok /\ r = NotFound(below)
      BY <2>8, <2>11 DEF NotFound
    <3> QED BY <1>2, <2>9, <2>11, <3>1 DEF Answer, below
  <2> QED BY <2>10, <2>11
<1> QED BY <1>1, <1>2

Solves(f) ==
    f = [call \in Words \X Seq(Words) |-> ExpandGroup(f, call[1], call[2])]

\* The recursion has a solution.
LEMMA SomeSolution ==
    ASSUME file \in Files, ALL \notin Groups
    PROVE  \E f : Solves(f)
<1> DEFINE D == Words \X Seq(Words)
           f == [call \in D |-> Answer(call[1], call[2])]
<1>1. \A g \in Words, path \in Seq(Words) : f[<<g, path>>] = Answer(g, path)
  OBVIOUS
<1>2. Groups \subseteq Words
  BY GroupTypes
<1> HIDE DEF f
<1>3. ASSUME NEW g \in Words, NEW path \in Seq(Words)
      PROVE  ExpandGroup(f, g, path) = Answer(g, path)
  <2>1. Append(path, g) \in Seq(Words)
    BY AppendProperties
  <2>2. \A h \in Groups : f[<<h, Append(path, g)>>] = Answer(h, Append(path, g))
    BY <1>1, <1>2, <2>1
  <2> QED BY <2>2, OneCall
<1>4. \A call \in D : Answer(call[1], call[2]) = ExpandGroup(f, call[1], call[2])
  BY <1>3
<1>5. f = [call \in D |-> ExpandGroup(f, call[1], call[2])]
  BY <1>4 DEF f
<1> QED BY <1>5 DEF Solves

\* It has no other: a call is answered by calls with one more group on the path,
\* and no group is on the path twice.
LEMMA OneSolution ==
    ASSUME file \in Files, ALL \notin Groups, NEW f, Solves(f),
           NEW g \in Words, NEW path \in Seq(Words)
    PROVE  f[<<g, path>>] = Answer(g, path)
<1> DEFINE Left(p) == Groups \ ToSet(p)
           Solved(m) == \A h \in Words, p \in Seq(Words) :
                            Cardinality(Left(p)) <= m => f[<<h, p>>] = Answer(h, p)
           N == Cardinality(Groups)
           Steps == {m \in 0..N : Solved(m)}
<1>1. \A h \in Words, p \in Seq(Words) : f[<<h, p>>] = ExpandGroup(f, h, p)
  BY DEF Solves
<1>2. \A p : IsFiniteSet(Left(p)) /\ Cardinality(Left(p)) \in Nat /\ Cardinality(Left(p)) <= N
  <2> TAKE p
  <2>1. Left(p) \in SUBSET Groups /\ IsFiniteSet(Groups)
    BY GroupTypes
  <2> HIDE DEF Left
  <2> QED BY <2>1, FS_Subset, FS_CardinalityType
<1>3. N \in Nat
  BY GroupTypes, FS_CardinalityType
<1>4. Groups \subseteq Words
  BY GroupTypes
<1>5. ASSUME NEW h \in Groups, NEW p \in Seq(Words), ~Contains(p, h)
      PROVE  /\ Append(p, h) \in Seq(Words)
             /\ Cardinality(Left(Append(p, h))) = Cardinality(Left(p)) - 1
             /\ Cardinality(Left(p)) >= 1
  <2> DEFINE q == Append(p, h)
             n == Len(p)
  <2>1. /\ q \in Seq(Words) /\ n \in Nat /\ Len(q) = n + 1 /\ q[n + 1] = h
        /\ \A i \in 1..n : q[i] = p[i]
    BY <1>4, OneMore
  <2>2. DOMAIN q = 1..(n + 1) /\ DOMAIN p = 1..n
    BY <2>1, LenProperties
  <2> HIDE DEF q, n
  <2>3. ToSet(q) = ToSet(p) \cup {h}
    <3>1. \A i \in 1..(n + 1) : i = n + 1 \/ i \in 1..n
      BY <2>1
    <3>2. 1..n \subseteq 1..(n + 1) /\ n + 1 \in 1..(n + 1)
      BY <2>1
    <3> QED BY <2>1, <2>2, <3>1, <3>2 DEF ToSet
  <2>4. h \notin ToSet(p)
    BY <1>5, ContainsIs
  <2>5. h \in Left(p) /\ Left(q) = Left(p) \ {h}
    BY <2>3, <2>4
  <2>6. Cardinality(Left(p) \ {h}) = Cardinality(Left(p)) - 1
    <3> DEFINE S == Left(p)
    <3>1. IsFiniteSet(S) /\ h \in S
      BY <1>2, <2>5
    <3> HIDE DEF S
    <3>2. Cardinality(S \ {h}) = Cardinality(S) - 1
      BY <3>1, FS_RemoveElement
    <3> QED BY <3>2 DEF S
  <2>7. Cardinality(Left(q)) \in Nat /\ Cardinality(Left(p)) \in Nat
    BY <1>2
  <2> HIDE DEF Left
  <2>8. Cardinality(Left(q)) = Cardinality(Left(p)) - 1
    BY <2>5, <2>6
  <2> QED BY <2>1, <2>7, <2>8 DEF q
<1> HIDE DEF Left, N
<1>6. ASSUME NEW m \in 0..N, m = 0 \/ Solved(m - 1)
      PROVE  Solved(m)
  <2> SUFFICES ASSUME NEW h \in Words, NEW p \in Seq(Words), Cardinality(Left(p)) <= m
               PROVE  f[<<h, p>>] = Answer(h, p)
    OBVIOUS
  <2>1. ASSUME h \in Groups, ~Contains(p, h)
        PROVE  \A i \in Groups : f[<<i, Append(p, h)>>] = Answer(i, Append(p, h))
    <3>1. /\ Append(p, h) \in Seq(Words)
          /\ Cardinality(Left(Append(p, h))) = Cardinality(Left(p)) - 1
          /\ Cardinality(Left(p)) >= 1
      BY <1>5, <2>1
    <3>2. Cardinality(Left(p)) \in Nat
      BY <1>2
    <3>3. m # 0 /\ Cardinality(Left(Append(p, h))) <= m - 1
      BY <3>1, <3>2
    <3> QED BY <1>4, <1>6, <3>1, <3>3
  <2>2. ExpandGroup(f, h, p) = Answer(h, p)
    BY <2>1, OneCall
  <2> QED BY <1>1, <2>2
<1>7. N \in Steps
  <2>1. 0 \in Steps
    BY <1>3, <1>6
  <2>2. \A m \in 1..N : m - 1 \in Steps => m \in Steps
    BY <1>3, <1>6
  <2>3. N \in 0..N
    BY <1>3
  <2> HIDE DEF Steps
  <2> QED BY <1>3, <2>1, <2>2, <2>3, HostLoop!UpTo
<1> QED BY <1>2, <1>7

\* What expand_group answers.
LEMMA ExpandGroupIs ==
    ASSUME file \in Files, ALL \notin Groups, NEW g \in Words, NEW path \in Seq(Words)
    PROVE  expand_group[<<g, path>>] = Answer(g, path)
<1>1. expand_group = CHOOSE f : Solves(f)
  BY DEF expand_group, Solves
<1>2. Solves(expand_group)
  BY <1>1, SomeSolution
<1> QED BY <1>2, OneSolution

-----------------------------------------------------------------------------
(* select *)

\* The Hosts that are kept so far, of the first k of a list.
KeptSoFar(T, list, wanted, kept, k) ==
    /\ kept \in Seq(T)
    /\ \A i \in 1..Len(kept) : \E a \in 1..k : kept[i] = list[a] /\ list[a].name \in wanted
    /\ \A a \in 1..k : list[a].name \in wanted => \E i \in 1..Len(kept) : kept[i] = list[a]
    /\ \A i, j \in 1..Len(kept) : i < j =>
           \E a, b \in 1..k : a < b /\ kept[i] = list[a] /\ kept[j] = list[b]

LEMMA KeepStepKeeps ==
    ASSUME NEW T, NEW list \in Seq(T), NEW k \in 1..Len(list), NEW wanted,
           NEW kept, KeptSoFar(T, list, wanted, kept, k - 1),
           NEW t, t = KeepStep(wanted, kept, list[k])
    PROVE  KeptSoFar(T, list, wanted, t, k)
<1> DEFINE host == list[k]
           n == Len(kept)
<1>1. /\ \A a \in 1..(k - 1) : a \in 1..k /\ a < k
      /\ \A a \in 1..k : a = k \/ a \in 1..(k - 1)
      /\ k \in 1..k
  OBVIOUS
<1>2. /\ kept \in Seq(T)
      /\ \A i \in 1..n : \E a \in 1..(k - 1) : kept[i] = list[a] /\ list[a].name \in wanted
      /\ \A a \in 1..(k - 1) : list[a].name \in wanted => \E i \in 1..n : kept[i] = list[a]
      /\ \A i, j \in 1..n : i < j =>
             \E a, b \in 1..(k - 1) : a < b /\ kept[i] = list[a] /\ kept[j] = list[b]
  BY DEF KeptSoFar
<1>3. CASE host.name \notin wanted
  <2>1. t = kept
    BY <1>3 DEF KeepStep
  <2>2. \A i \in 1..n : \E a \in 1..k : kept[i] = list[a] /\ list[a].name \in wanted
    BY <1>1, <1>2
  <2>3. \A a \in 1..k : list[a].name \in wanted => \E i \in 1..n : kept[i] = list[a]
    BY <1>1, <1>2, <1>3
  <2>4. \A i, j \in 1..n : i < j =>
            \E a, b \in 1..k : a < b /\ kept[i] = list[a] /\ kept[j] = list[b]
    BY <1>1, <1>2
  <2> QED BY <1>2, <2>1, <2>2, <2>3, <2>4 DEF KeptSoFar
<1>4. CASE host.name \in wanted
  <2>1. t = Append(kept, host) /\ host \in T
    BY <1>4, ElementOfSeq DEF KeepStep
  <2> HIDE DEF host, n
  <2>2. /\ t \in Seq(T) /\ Len(t) = n + 1 /\ n \in Nat /\ t[n + 1] = host
        /\ \A i \in 1..n : t[i] = kept[i]
    BY <1>2, <2>1, OneMore DEF n
  <2>3. /\ \A i \in 1..(n + 1) : i = n + 1 \/ (i \in 1..n /\ i < n + 1)
        /\ n + 1 \in 1..(n + 1) /\ 1..n \subseteq 1..(n + 1)
    BY <2>2
  <2>4. \A i \in 1..(n + 1) : \E a \in 1..k : t[i] = list[a] /\ list[a].name \in wanted
    <3> TAKE i \in 1..(n + 1)
    <3>1. CASE i = n + 1
      BY <1>1, <1>4, <2>2, <3>1 DEF host
    <3>2. CASE i \in 1..n
      BY <1>1, <1>2, <2>2, <3>2
    <3> QED BY <2>3, <3>1, <3>2
  <2>5. \A a \in 1..k : list[a].name \in wanted => \E i \in 1..(n + 1) : t[i] = list[a]
    <3> TAKE a \in 1..k
    <3>1. CASE a = k
      BY <2>2, <2>3, <3>1 DEF host
    <3>2. CASE a \in 1..(k - 1)
      BY <1>2, <2>2, <2>3, <3>2
    <3> QED BY <1>1, <3>1, <3>2
  <2>6. \A i, j \in 1..(n + 1) : i < j =>
            \E a, b \in 1..k : a < b /\ t[i] = list[a] /\ t[j] = list[b]
    <3> SUFFICES ASSUME NEW i \in 1..(n + 1), NEW j \in 1..(n + 1), i < j
                 PROVE  \E a, b \in 1..k : a < b /\ t[i] = list[a] /\ t[j] = list[b]
      OBVIOUS
    <3>1. i \in 1..n
      BY <2>2
    <3>2. CASE j \in 1..n
      <4>1. PICK a \in 1..(k - 1), b \in 1..(k - 1) :
                a < b /\ kept[i] = list[a] /\ kept[j] = list[b]
        BY <1>2, <3>1, <3>2
      <4> QED BY <1>1, <2>2, <3>1, <3>2, <4>1
    <3>3. CASE j = n + 1
      <4>1. PICK a \in 1..(k - 1) : kept[i] = list[a]
        BY <1>2, <3>1
      <4>2. t[i] = list[a] /\ t[j] = list[k] /\ a < k
        BY <1>1, <2>2, <3>1, <3>3, <4>1 DEF host
      <4> QED BY <1>1, <4>2
    <3> QED BY <2>3, <3>2, <3>3
  <2> QED BY <2>2, <2>4, <2>5, <2>6 DEF KeptSoFar
<1> QED BY <1>3, <1>4

LEMMA KeepIs ==
    ASSUME NEW T, NEW list \in Seq(T), NEW wanted
    PROVE  KeptSoFar(T, list, wanted, Keep(list, wanted), Len(list))
<1> DEFINE n == Len(list)
           none == << >>
<1>1. n \in Nat /\ DOMAIN list = 1..n
  BY LenProperties
<1>2. Keep(list, wanted) = KeepLoop!Folded(wanted, none, list)
  BY DEF Keep, FoldLeft, MapThenFoldSet, Max, KeepStep, KeepLoop!Folded,
         KeepLoop!FoldLeft, KeepLoop!MapThenFoldSet, KeepLoop!Max
<1>3. none \in Seq(T) /\ Len(none) = 0
  BY EmptySeq
<1> HIDE DEF n, none
<1>4. PICK acc : KeepLoop!Stepped(wanted, none, list, n, acc)
  BY <1>1, KeepLoop!StepByStep
<1>5. /\ acc[0] = none /\ Keep(list, wanted) = acc[n]
      /\ \A k \in 1..n : acc[k] = KeepStep(wanted, acc[k - 1], list[k])
  BY <1>2, <1>4 DEF KeepLoop!Stepped
<1> DEFINE Steps == {k \in 0..n : KeptSoFar(T, list, wanted, acc[k], k)}
<1>6. 0 \in Steps
  <2>1. KeptSoFar(T, list, wanted, none, 0)
    BY <1>3 DEF KeptSoFar
  <2> QED BY <1>1, <1>5, <2>1
<1>7. ASSUME NEW k \in 1..n, k - 1 \in Steps
      PROVE  k \in Steps
  <2>1. KeptSoFar(T, list, wanted, acc[k], k)
    BY <1>5, <1>7, KeepStepKeeps DEF n
  <2> QED BY <1>1, <2>1
<1> HIDE DEF Steps
<1>8. n \in Steps
  <2>1. n \in 0..n
    BY <1>1
  <2> QED BY <1>1, <1>6, <1>7, <2>1, KeepLoop!UpTo
<1> QED BY <1>5, <1>8 DEF Steps, n

\* What is selected is part of what is loaded.
LEMMA SelectedTypes ==
    ASSUME file \in Files, hosts = parse, hosts.state = "ok", selected = select
    PROVE  selected.state = "ok" => selected.list \in Seq(HostRecords)
<1>1. hosts.list \in Seq(HostRecords) /\ ALL \notin Groups
  BY Loaded DEF HostsOf, Groups
<1> DEFINE found == {expand_group[<<g, << >>>>] : g \in ToSet(file.asked)}
           kept == Keep(hosts.list, UNION {f.names : f \in found})
<1>2. kept \in Seq(HostRecords)
  <2> DEFINE wanted == UNION {f.names : f \in found}
  <2> HIDE DEF wanted
  <2>1. Keep(hosts.list, wanted) \in Seq(HostRecords)
    BY <1>1, KeepIs DEF KeptSoFar
  <2> QED BY <2>1 DEF wanted
<1>3. selected = IF file.asked = << >> THEN hosts
                 ELSE IF \E f \in found : ~f.ok THEN Err ELSE Ok(kept)
  BY DEF select
<1> HIDE DEF kept, found
<1> QED BY <1>1, <1>2, <1>3 DEF Ok, Err

LEMMA SelectedAsAsked ==
    ASSUME file \in Files, selected = Pending \/
               (hosts = parse /\ hosts.state = "ok" /\ selected = select)
    PROVE  SelectsWhatWasAsked
<1> DEFINE asked == ToSet(file.asked)
           reached == Reached(asked)
           picked == UNION {match_selector(s) : s \in UNION {Picks(g) : g \in reached}}
           fine == /\ asked \subseteq DOMAIN file.groups \cup {ALL}
                   /\ \A g \in reached : g \notin Reached(Names(g))
                   /\ \A g \in reached : \A s \in Picks(g) : match_selector(s) # {}
           result == IF asked = {} \/ ALL \in asked THEN Declared ELSE picked
           inOrder == \A i, j \in 1..Len(selected.list) : i < j =>
                          \E k, l \in 1..Len(hosts.list) :
                              /\ k < l
                              /\ selected.list[i] = hosts.list[k]
                              /\ selected.list[j] = hosts.list[l]
<1> SUFFICES ASSUME selected # Pending
             PROVE  /\ selected.state = "ok" => fine /\ Named(selected.list) = result /\ inOrder
                    /\ selected.state = "err" => ~fine
  BY DEF SelectsWhatWasAsked, Pending
<1>1. hosts = parse /\ hosts.state = "ok" /\ selected = select
  OBVIOUS
<1>2. /\ hosts = Ok(hosts.list) /\ ALL \notin Groups /\ hosts.list \in Seq(HostRecords)
  BY <1>1, Loaded DEF HostsOf, Groups
<1> DEFINE list == hosts.list
           answer(g) == expand_group[<<g, << >>>>]
           found == {answer(g) : g \in asked}
           wanted == UNION {f.names : f \in found}
<1>3. /\ file.asked \in Seq(Words) /\ asked \subseteq Words
      /\ asked = {} <=> file.asked = << >>
  <2>1. file.asked \in Seq(Words)
    BY FilesAssumption
  <2>2. DOMAIN file.asked = 1..Len(file.asked) /\ Len(file.asked) \in Nat
    BY <2>1, LenProperties
  <2>3. \A i \in 1..Len(file.asked) : file.asked[i] \in Words
    BY <2>1, ElementOfSeq
  <2>4. file.asked # << >> => 1 \in 1..Len(file.asked)
    BY <2>1, <2>2, EmptySeq
  <2>5. file.asked = << >> => Len(file.asked) = 0
    OBVIOUS
  <2> DEFINE s == file.asked
  <2> HIDE DEF s
  <2>6. asked = {s[i] : i \in 1..Len(s)}
    BY <2>2 DEF ToSet, s
  <2> HIDE DEF asked
  <2>7. asked \subseteq Words
    BY <2>3, <2>6 DEF s
  <2>8. s # << >> => asked # {}
    BY <2>4, <2>6 DEF s
  <2>9. s = << >> => asked = {}
    <3>1. s = << >> => 1..Len(s) = {}
      BY <2>5 DEF s
    <3> QED BY <2>6, <3>1
  <2> QED BY <2>1, <2>7, <2>8, <2>9 DEF s
<1>4. \A g \in asked : answer(g) = Answer(g, << >>)
  <2>1. << >> \in Seq(Words)
    BY EmptySeq
  <2> HIDE DEF asked
  <2> QED BY <1>2, <1>3, <2>1, ExpandGroupIs
<1>5. ToSet(<< >>) = {} /\ \A g : ~Contains(<< >>, g)
  BY DEF ToSet, Contains
<1>6. \A g \in asked :
          /\ answer(g).ok <=> g = ALL \/ (g \in Groups /\ Sound(g))
          /\ answer(g).ok => answer(g).names = IF g = ALL THEN Declared ELSE Below(g)
  <2> TAKE g \in asked
  <2>1. answer(g) = IF g = ALL THEN Found(Declared, << >>)
                    ELSE IF g \notin Groups THEN NotFound(<< >>)
                    ELSE IF Sound(g) THEN Found(Below(g), << >>)
                    ELSE NotFound(Append(<< >>, g))
    BY <1>4, <1>5 DEF Answer, Expandable
  <2> HIDE DEF answer
  <2> QED BY <2>1 DEF Found, NotFound
<1>7. reached = UNION {Reached({g}) : g \in asked \cap Groups}
  BY ReachedFromOne
<1>8. fine <=> \A g \in asked : g = ALL \/ (g \in Groups /\ Sound(g))
  <2> HIDE DEF asked, reached
  <2>1. (/\ \A g \in reached : g \notin Reached(Names(g))
         /\ \A g \in reached : \A s \in Picks(g) : match_selector(s) # {})
        <=> \A g \in asked \cap Groups : Sound(g)
    BY <1>7 DEF Sound
  <2>2. asked \subseteq DOMAIN file.groups \cup {ALL}
        <=> \A g \in asked : g = ALL \/ g \in Groups
    BY DEF Groups
  <2> QED BY <1>2, <2>1, <2>2
<1>9. picked = UNION {Below(g) : g \in asked \cap Groups}
  <2> HIDE DEF asked, reached
  <2>1. ASSUME NEW x \in picked
        PROVE  \E g \in asked \cap Groups : x \in Below(g)
    <3>1. PICK h \in reached : \E s \in Picks(h) : x \in match_selector(s)
      OBVIOUS
    <3>2. PICK g \in asked \cap Groups : h \in Reached({g})
      BY <1>7
    <3> QED BY <3>1, <3>2 DEF Below
  <2>2. ASSUME NEW g \in asked \cap Groups, NEW x \in Below(g)
        PROVE  x \in picked
    <3>1. PICK h \in Reached({g}) : \E s \in Picks(h) : x \in match_selector(s)
      BY DEF Below
    <3>2. h \in reached
      BY <1>7
    <3> QED BY <3>1, <3>2
  <2> HIDE DEF picked
  <2> QED BY <2>1, <2>2
<1>10. \A s : match_selector(s) \subseteq Declared
  BY DEF match_selector
<1>11. picked \subseteq Declared
  BY <1>10
<1>12. fine /\ asked # {} => wanted = result
  <2> SUFFICES ASSUME fine, asked # {}
               PROVE  wanted = result
    OBVIOUS
  <2>1. \A g \in asked : answer(g).names = IF g = ALL THEN Declared ELSE Below(g)
    BY <1>6, <1>8
  <2>2. wanted = UNION {answer(g).names : g \in asked}
    OBVIOUS
  <2>3. \A g \in asked : g = ALL \/ g \in asked \cap Groups
    BY <1>8
  <2> HIDE DEF asked, answer, wanted, picked, fine
  <2>4. CASE ALL \in asked
    <3>1. \A g \in asked : answer(g).names \subseteq Declared
      BY <1>9, <1>11, <2>1, <2>3
    <3>2. answer(ALL).names = Declared
      BY <2>1, <2>4
    <3> QED BY <2>2, <2>4, <3>1, <3>2
  <2>5. CASE ALL \notin asked
    <3>1. \A g \in asked : answer(g).names = Below(g) /\ g \in asked \cap Groups
      BY <2>1, <2>3, <2>5
    <3>2. wanted = picked
      BY <1>9, <2>2, <3>1
    <3> QED BY <2>5, <3>2
  <2> QED BY <2>4, <2>5
<1>13. (\E f \in found : ~f.ok) <=> ~fine
  <2> HIDE DEF fine, answer
  <2> QED BY <1>6, <1>8
<1>14. selected = IF asked = {} THEN hosts ELSE IF ~fine THEN Err
                  ELSE Ok(Keep(list, wanted))
  <2>1. selected = IF file.asked = << >> THEN hosts
                   ELSE IF \E f \in found : ~f.ok THEN Err ELSE Ok(Keep(list, wanted))
    BY <1>1 DEF select
  <2> HIDE DEF fine, found, wanted, asked
  <2> QED BY <1>3, <1>13, <2>1
<1> HIDE DEF fine, found, wanted, asked, answer
<1>15. CASE asked = {}
  <2>1. selected = hosts /\ selected.state = "ok"
    BY <1>1, <1>14, <1>15
  <2>2. fine
    BY <1>8, <1>15
  <2>3. Named(selected.list) = result
    BY <1>15, <2>1 DEF Declared
  <2>4. inOrder
    BY <2>1
  <2> QED BY <2>1, <2>2, <2>3, <2>4
<1>16. CASE asked # {} /\ ~fine
  BY <1>14, <1>16 DEF Err
<1>17. CASE asked # {} /\ fine
  <2> DEFINE kept == Keep(list, wanted)
  <2>1. selected.state = "ok" /\ selected.list = kept
    BY <1>14, <1>17 DEF Ok
  <2>2. KeptSoFar(HostRecords, list, wanted, kept, Len(list))
    BY <1>2, KeepIs
  <2>3. inOrder
    BY <2>1, <2>2 DEF KeptSoFar
  <2> HIDE DEF kept, result, picked
  <2>4. Named(kept) = wanted
    <3>1. wanted \subseteq Declared
      BY <1>11, <1>12, <1>17 DEF result
    <3>2. Declared = {list[a].name : a \in 1..Len(list)}
      BY <1>2, NamedIs DEF Declared
    <3>3. Named(kept) = {kept[i].name : i \in 1..Len(kept)}
      BY <2>2, NamedIs DEF KeptSoFar
    <3>4. \A i \in 1..Len(kept) : kept[i].name \in wanted
      BY <2>2 DEF KeptSoFar
    <3>5. \A x \in wanted : \E i \in 1..Len(kept) : kept[i].name = x
      <4> TAKE x \in wanted
      <4>1. PICK a \in 1..Len(list) : list[a].name = x
        BY <3>1, <3>2
      <4>2. PICK i \in 1..Len(kept) : kept[i] = list[a]
        BY <2>2, <4>1 DEF KeptSoFar
      <4> QED BY <4>1, <4>2
    <3> QED BY <3>3, <3>4, <3>5
  <2> QED BY <1>12, <1>17, <2>1, <2>3, <2>4
<1> QED BY <1>15, <1>16, <1>17

-----------------------------------------------------------------------------
(* The listing of a selection *)

LEMMA ListedAsSelected ==
    ASSUME file \in Files, selected = Pending \/
               (hosts = parse /\ hosts.state = "ok" /\ selected = select)
    PROVE  ListedUnderItsHeader
<1> DEFINE list == selected.list
           headers == Headers(list)
<1> SUFFICES ASSUME selected.state = "ok", NEW n \in 1..Len(list)
             PROVE  /\ Len(Rows(list)[n]) = Len(headers)
                    /\ Rows(list)[n][1] = list[n].name
                    /\ \A k \in 2..Len(headers) :
                           Rows(list)[n][k] =
                               IF Sets(list[n].fields, headers[k])
                               THEN <<headers[k], list[n].fields[headers[k]]>>
                               ELSE <<"-">>
                    /\ DOMAIN list[n].fields \subseteq ToSet(headers)
  BY DEF ListedUnderItsHeader
<1>1. list \in Seq(HostRecords)
  BY SelectedTypes DEF Pending
<1> DEFINE host == list[n]
           row == Rows(list)[n]
<1>2. row = Cells(host, list)
  <2>1. n \in DOMAIN list
    BY <1>1, LenProperties
  <2> QED BY <2>1 DEF Rows
<1>3. host \in ToSet(list) /\ host \in HostRecords
  <2>1. DOMAIN list = 1..Len(list)
    BY <1>1, LenProperties
  <2> HIDE DEF list
  <2> QED BY <1>1, <2>1, ElementOfSeq DEF ToSet
<1>4. DOMAIN host.fields \subseteq ToSet(Columns) \ {"host"}
  <2> HIDE DEF host
  <2>1. PICK e \in ToSet(file.entries) : host.fields = e.fields
    BY <1>3 DEF HostRecords
  <2>2. PICK k \in 1..Len(file.entries) : e = file.entries[k]
    BY EntryTypes DEF ToSet
  <2> QED BY <2>1, <2>2, EntryTypes
<1> HIDE DEF headers, row, list, host
<1>5. /\ Len(headers) \in Nat \ {0} /\ Len(row) = Len(headers)
      /\ headers[1] = "host" /\ \A k \in 2..Len(headers) : headers[k] # "host"
      /\ \A k \in 1..Len(headers) : row[k] = Cell(host, headers[k])
      /\ \A column \in ToSet(Columns) : Shows(list, column) => column \in ToSet(headers)
  BY <1>2, RowsAreAligned DEF headers
<1>6. row[1] = host.name
  <2>1. 1 \in 1..Len(headers)
    BY <1>5
  <2>2. row[1] = Cell(host, "host")
    BY <1>5, <2>1
  <2> QED BY <2>2 DEF Cell
<1>7. \A k \in 2..Len(headers) :
          row[k] = IF Sets(host.fields, headers[k])
                   THEN <<headers[k], host.fields[headers[k]]>> ELSE <<"-">>
  BY <1>5 DEF Cell
<1>8. DOMAIN host.fields \subseteq ToSet(headers)
  BY <1>3, <1>4, <1>5 DEF Shows, Sets
<1> QED BY <1>5, <1>6, <1>7, <1>8 DEF headers, row, host, list

-----------------------------------------------------------------------------
(* The program *)

\* What is known of a run: the file does not change, what is loaded is what
\* parse makes of it, and what is selected is what select makes of that.
HostFileInv ==
    /\ file \in Files
    /\ hosts = Pending \/ hosts = parse
    /\ selected = Pending \/ (hosts = parse /\ hosts.state = "ok" /\ selected = select)

LEMMA ParseOfTheSame ==
    ASSUME file' = file
    PROVE  parse' = parse
BY DEF parse

LEMMA SelectOfTheSame ==
    ASSUME file' = file, hosts' = hosts
    PROVE  select' = select
BY DEF select, expand_group, ExpandGroup, TakeSelectors, TakeSelector, match_selector,
       NamesGroup, Declared, FoldLeft, MapThenFoldSet

LEMMA InitEstablishes ==
    ASSUME Init
    PROVE  HostFileInv
BY DEF Init, HostFileInv

LEMMA NextKeeps ==
    ASSUME HostFileInv, [Next]_vars
    PROVE  HostFileInv'
<1>1. CASE Parse
  <2>1. file' = file /\ hosts = Pending /\ hosts' = parse /\ selected' = selected
    BY <1>1 DEF Parse
  <2>2. parse' = parse
    BY <2>1, ParseOfTheSame
  <2>3. selected = Pending
    BY <2>1 DEF HostFileInv, Pending
  <2>4. Pending' = Pending
    BY DEF Pending
  <2> QED BY <2>1, <2>2, <2>3, <2>4 DEF HostFileInv
<1>2. CASE Select
  <2>1. file' = file /\ hosts' = hosts /\ hosts.state = "ok" /\ selected' = select
    BY <1>2 DEF Select
  <2>2. parse' = parse /\ select' = select
    BY <2>1, ParseOfTheSame, SelectOfTheSame
  <2>3. hosts = parse
    BY <2>1 DEF HostFileInv, Pending
  <2> QED BY <2>1, <2>2, <2>3 DEF HostFileInv
<1>3. CASE Answered \/ UNCHANGED vars
  <2>1. file' = file /\ hosts' = hosts /\ selected' = selected
    BY <1>3 DEF Answered, vars
  <2>2. parse' = parse /\ select' = select
    BY <2>1, ParseOfTheSame, SelectOfTheSame
  <2>3. Pending' = Pending
    BY DEF Pending
  <2> QED BY <2>1, <2>2, <2>3 DEF HostFileInv
<1> QED BY <1>1, <1>2, <1>3 DEF Next

\* A run is always of one file, and of what that file comes to.
THEOREM AlwaysOfTheFile == Spec => []HostFileInv
BY InitEstablishes, NextKeeps, PTL DEF Spec

\* HostFile::parse loads each Host that the file declares, once, with what its
\* own entry sets, and refuses a file only for a name that two places share, or
\* for an entry that cannot be expanded.
THEOREM AlwaysLoadedAsDeclared == Spec => []LoadedAsDeclared
<1>1. HostFileInv => LoadedAsDeclared
  BY ParsedAsDeclared DEF HostFileInv
<1> QED BY <1>1, AlwaysOfTheFile, PTL

\* HostFile::select answers the Hosts that the groups asked for reach, in the
\* order of the file, whatever the groups nest and share; it refuses a cycle, a
\* group that is not there and a selector that picks nothing, and nothing else.
THEOREM AlwaysSelectsWhatWasAsked == Spec => []SelectsWhatWasAsked
<1>1. HostFileInv => SelectsWhatWasAsked
  BY SelectedAsAsked DEF HostFileInv
<1> QED BY <1>1, AlwaysOfTheFile, PTL

\* The table of a listing has each field of each selected Host in the column of
\* that field, however many columns are left out.
THEOREM AlwaysListedUnderItsHeader == Spec => []ListedUnderItsHeader
<1>1. HostFileInv => ListedUnderItsHeader
  BY ListedAsSelected DEF HostFileInv
<1> QED BY <1>1, AlwaysOfTheFile, PTL
=============================================================================
