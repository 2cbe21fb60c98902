---------------------------- MODULE PaginationProof ----------------------------
(***************************************************************************)
(* For any table, any insertions and deletions between the pages and any   *)
(* page sizes: a walk that ends has skipped nothing unless a row was       *)
(* deleted below its offset, and repeats nothing unless one was inserted   *)
(* there.                                                                  *)
(*                                                                         *)
(* The first part counts: Before numbers the rows of a finite set from     *)
(* zero on without a gap, so that fetching one row too many tells whether  *)
(* there are more.  The second part is about the walk.                     *)
(***************************************************************************)
EXTENDS Pagination, FiniteSetTheorems, TLAPS

-----------------------------------------------------------------------------
\* The rows before r are finitely many.
LEMMA BeforeType ==
  ASSUME NEW s, IsFiniteSet(s), NEW r
  PROVE  /\ IsFiniteSet({q \in s : q < r})
         /\ Before(s, r) \in Nat
<1>1. {q \in s : q < r} \in SUBSET s  OBVIOUS
<1>2. IsFiniteSet({q \in s : q < r})  BY <1>1, FS_Subset
<1>. QED  BY <1>2, FS_CardinalityType DEF Before

\* A later row has more rows before it.
LEMMA BeforeMonotone ==
  ASSUME NEW s \in SUBSET Nat, IsFiniteSet(s), NEW q \in s, NEW r \in s
  PROVE  q < r <=> Before(s, q) < Before(s, r)
<1>1. ASSUME NEW x \in s, NEW y \in s, x < y  PROVE Before(s, x) < Before(s, y)
  <2>. x \in Nat /\ y \in Nat /\ \A z \in s : z \in Nat  OBVIOUS
  <2>1. {z \in s : z < x} \in SUBSET {z \in s : z < y}
    <3>1. ASSUME NEW z \in s, z < x  PROVE z < y  BY <3>1, <1>1
    <3>. QED  BY <3>1
  <2>2. x \in {z \in s : z < y} /\ x \notin {z \in s : z < x}  BY <1>1
  <2>3. Cardinality({z \in s : z < x}) <= Cardinality({z \in s : z < y})
    BY <2>1, BeforeType, FS_Subset
  <2>4. Cardinality({z \in s : z < x}) # Cardinality({z \in s : z < y})
    BY <2>1, <2>2, BeforeType, FS_Subset
  <2>. QED  BY <2>3, <2>4, BeforeType DEF Before
<1>2. /\ q \in Nat /\ r \in Nat
      /\ Before(s, q) \in Nat /\ Before(s, r) \in Nat
  BY BeforeType
<1>3. CASE q < r  BY <1>1, <1>3
<1>4. CASE q = r  BY <1>2, <1>4
<1>5. CASE r < q
  <2>1. Before(s, r) < Before(s, q)  BY <1>1, <1>5
  <2>. QED  BY <2>1, <1>2, <1>5
<1>. QED  BY <1>2, <1>3, <1>4, <1>5

\* The rows have the numbers from 0 to one less than their count, each once.
LEMMA BeforeOnto ==
  ASSUME NEW s \in SUBSET Nat, IsFiniteSet(s)
  PROVE  /\ Cardinality(s) \in Nat
         /\ \A r \in s : Before(s, r) \in 0..(Cardinality(s) - 1)
         /\ \A n \in 0..(Cardinality(s) - 1) : \E r \in s : Before(s, r) = n
<1>. DEFINE f == [r \in s |-> Before(s, r)]
            N == Cardinality(s)
<1>1. N \in Nat  BY FS_CardinalityType
<1>2. ASSUME NEW r \in s  PROVE Before(s, r) \in 0..(N - 1)
  <2>1. {q \in s : q < r} \in SUBSET s /\ r \notin {q \in s : q < r}  BY <1>2
  <2>2. /\ Cardinality({q \in s : q < r}) <= N
        /\ Cardinality({q \in s : q < r}) # N
    BY <2>1, FS_Subset
  <2>. QED  BY <2>2, <1>1, BeforeType DEF Before
<1>3. f \in Injection(s, 0..(N - 1))
  <2>1. f \in [s -> 0..(N - 1)]  BY <1>2
  <2>2. ASSUME NEW x \in s, NEW y \in s, f[x] = f[y]  PROVE x = y
    BY <2>2, BeforeMonotone, BeforeType
  <2>. QED  BY <2>1, <2>2 DEF Injection, IsInjective
<1>4. IsFiniteSet(0..(N - 1)) /\ Cardinality(0..(N - 1)) = N
  <2>. HIDE DEF N
  <2>1. N - 1 \in Int  BY <1>1
  <2>2. /\ IsFiniteSet(0..(N - 1))
        /\ Cardinality(0..(N - 1)) = IF 0 > N - 1 THEN 0 ELSE N - 1 - 0 + 1
    BY <2>1, FS_Interval
  <2>. QED  BY <2>2, <1>1
<1>5. f \in Surjection(s, 0..(N - 1))
  BY <1>3, <1>4, FS_Injection
<1>. QED  BY <1>1, <1>2, <1>5 DEF Surjection

\* A slice of the numbers has as many rows as numbers.
LEMMA Slice ==
  ASSUME NEW s \in SUBSET Nat, IsFiniteSet(s), NEW a \in Nat, NEW b \in Nat,
         a <= b, b <= Cardinality(s)
  PROVE  Cardinality({r \in s : Before(s, r) \in a..(b - 1)}) = b - a
<1>. DEFINE S == {r \in s : Before(s, r) \in a..(b - 1)}
            f == [r \in S |-> Before(s, r)]
<1>1. f \in Injection(S, a..(b - 1))
  <2>1. f \in [S -> a..(b - 1)]  OBVIOUS
  <2>2. ASSUME NEW x \in S, NEW y \in S, f[x] = f[y]  PROVE x = y
    BY <2>2, BeforeMonotone, BeforeType
  <2>. QED  BY <2>1, <2>2 DEF Injection, IsInjective
<1>2. f \in Surjection(S, a..(b - 1))
  <2>1. f \in [S -> a..(b - 1)]  OBVIOUS
  <2>2. ASSUME NEW n \in a..(b - 1)  PROVE \E r \in S : f[r] = n
    <3>1. n \in 0..(Cardinality(s) - 1)  BY BeforeOnto
    <3>2. PICK r \in s : Before(s, r) = n  BY <3>1, BeforeOnto
    <3>. QED  BY <3>2
  <2>. QED  BY <2>1, <2>2 DEF Surjection
<1>3. IsFiniteSet(a..(b - 1)) /\ Cardinality(a..(b - 1)) = b - a
  <2>1. b - 1 \in Int /\ a \in Int  OBVIOUS
  <2>2. /\ IsFiniteSet(a..(b - 1))
        /\ Cardinality(a..(b - 1)) = IF a > b - 1 THEN 0 ELSE b - 1 - a + 1
    BY <2>1, FS_Interval
  <2>. QED  BY <2>2
<1>. QED  BY <1>1, <1>2, <1>3, FS_Injection

\* Fewer rows before it: x in s has no more than y in t.
LEMMA BeforeSubset ==
  ASSUME NEW s, NEW t, IsFiniteSet(t), NEW x, NEW y,
         {q \in s : q < x} \subseteq {q \in t : q < y}
  PROVE  Before(s, x) <= Before(t, y)
<1>1. IsFiniteSet({q \in t : q < y})  BY BeforeType
<1>. QED  BY <1>1, FS_Subset DEF Before

\* An insertion moves no row down, and none below its own place up.
LEMMA BeforeInsert ==
  ASSUME NEW s \in SUBSET Nat, IsFiniteSet(s), NEW x \in Nat, NEW r \in s
  PROVE  /\ Before(s, r) <= Before(s \cup {x}, r)
         /\ Before(s, r) < Before(s, x) => Before(s \cup {x}, r) = Before(s, r)
<1>1. IsFiniteSet(s \cup {x})  BY FS_AddElement
<1>2. {q \in s : q < r} \subseteq {q \in s \cup {x} : q < r}  OBVIOUS
<1>3. Before(s, r) <= Before(s \cup {x}, r)  BY <1>1, <1>2, BeforeSubset
<1>4. ASSUME Before(s, r) < Before(s, x)  PROVE Before(s \cup {x}, r) = Before(s, r)
  <2>1. CASE x < r
    <3>. r \in Nat /\ \A q \in s : q \in Nat  OBVIOUS
    <3>1. ASSUME NEW q \in s, q < x  PROVE q < r  BY <2>1, <3>1
    <3>2. {q \in s : q < x} \subseteq {q \in s : q < r}  BY <3>1
    <3>3. Before(s, x) <= Before(s, r)  BY <3>2, BeforeSubset
    <3>4. Before(s, x) \in Nat /\ Before(s, r) \in Nat  BY BeforeType
    <3>. QED  BY <3>3, <3>4, <1>4
  <2>2. CASE ~(x < r)
    <3>1. {q \in s \cup {x} : q < r} = {q \in s : q < r}  BY <2>2
    <3>. QED  BY <3>1 DEF Before
  <2>. QED  BY <2>1, <2>2
<1>. QED  BY <1>3, <1>4

\* A deletion moves no row up, and none below its own place down.
LEMMA BeforeDelete ==
  ASSUME NEW s \in SUBSET Nat, IsFiniteSet(s), NEW x \in s, NEW r \in s \ {x}
  PROVE  /\ Before(s \ {x}, r) <= Before(s, r)
         /\ Before(s \ {x}, r) < Before(s, x) => Before(s \ {x}, r) = Before(s, r)
<1>1. IsFiniteSet(s \ {x})  BY FS_RemoveElement
<1>2. {q \in s \ {x} : q < r} \subseteq {q \in s : q < r}  OBVIOUS
<1>3. Before(s \ {x}, r) <= Before(s, r)  BY <1>2, BeforeSubset
<1>4. ASSUME Before(s \ {x}, r) < Before(s, x)  PROVE Before(s \ {x}, r) = Before(s, r)
  <2>1. CASE x < r
    <3>. r \in Nat /\ x \in Nat /\ \A q \in s : q \in Nat  OBVIOUS
    <3>1. ASSUME NEW q \in s, q < x  PROVE q \in s \ {x} /\ q < r  BY <2>1, <3>1
    <3>2. {q \in s : q < x} \subseteq {q \in s \ {x} : q < r}  BY <3>1
    <3>3. Before(s, x) <= Before(s \ {x}, r)  BY <1>1, <3>2, BeforeSubset
    <3>4. Before(s, x) \in Nat /\ Before(s \ {x}, r) \in Nat  BY <1>1, BeforeType
    <3>. QED  BY <3>3, <3>4, <1>4
  <2>2. CASE ~(x < r)
    <3>1. {q \in s \ {x} : q < r} = {q \in s : q < r}  BY <2>2
    <3>. QED  BY <3>1 DEF Before
  <2>. QED  BY <2>1, <2>2
<1>. QED  BY <1>3, <1>4

\* The first rows of what is fetched are the next ones of the table, and the
\* row fetched beyond them is missing exactly on the last page.
LEMMA FetchedRows ==
  ASSUME NEW s \in SUBSET Nat, IsFiniteSet(s), NEW k \in Nat, NEW size \in Nat \ {0}
  PROVE  LET fetched == {r \in s : Before(s, r) \in k..(k + (size + 1) - 1)}
         IN  /\ First(fetched, size) = {r \in s : Before(s, r) \in k..(k + size - 1)}
             /\ Cardinality(fetched) <= size => \A r \in s : Before(s, r) < k + size
<1>. DEFINE fetched == {r \in s : Before(s, r) \in k..(k + (size + 1) - 1)}
<1>. /\ \A r \in s : r \in Nat /\ Before(s, r) \in Nat
     /\ \A r \in s : Before(s, r) + 1 <= Cardinality(s)
     /\ Cardinality(s) \in Nat
  BY BeforeType, BeforeOnto
<1>1. ASSUME NEW r \in fetched  PROVE Before(fetched, r) = Before(s, r) - k
  <2>1. \A q \in s : q < r <=> Before(s, q) < Before(s, r)  BY BeforeMonotone
  <2>2. {q \in fetched : q < r} = {q \in s : Before(s, q) \in k..(Before(s, r) - 1)}
    <3>1. ASSUME NEW q \in s
          PROVE  q \in fetched /\ q < r <=> Before(s, q) \in k..(Before(s, r) - 1)
      BY <2>1, <3>1
    <3>. QED  BY <3>1
  <2>3. Cardinality({q \in s : Before(s, q) \in k..(Before(s, r) - 1)}) = Before(s, r) - k
    BY Slice
  <2>. QED  BY <2>2, <2>3 DEF Before
<1>2. First(fetched, size) = {r \in s : Before(s, r) \in k..(k + size - 1)}
  <2>1. ASSUME NEW r \in s
        PROVE  /\ r \in fetched => (Before(s, r) - k < size <=> Before(s, r) \in k..(k + size - 1))
               /\ Before(s, r) \in k..(k + size - 1) => r \in fetched
    OBVIOUS
  <2>2. First(fetched, size) = {r \in fetched : Before(s, r) - k < size}
    BY <1>1 DEF First
  <2>. QED  BY <2>1, <2>2
<1>3. ASSUME NEW r \in s, Before(s, r) >= k + size  PROVE Cardinality(fetched) > size
  <2>1. k + (size + 1) <= Cardinality(s)  BY <1>3
  <2>2. Cardinality(fetched) = k + (size + 1) - k  BY <2>1, Slice
  <2>. QED  BY <2>2
<1>4. Cardinality(fetched) <= size => \A r \in s : Before(s, r) < k + size
  <2>1. SUFFICES ASSUME Cardinality(fetched) <= size, NEW r \in s, Before(s, r) >= k + size
                 PROVE  FALSE
    OBVIOUS
  <2>2. IsFiniteSet(fetched)  BY FS_Subset
  <2>3. Cardinality(fetched) \in Nat  BY <2>2, FS_CardinalityType
  <2>4. Cardinality(fetched) > size  BY <2>1, <1>3
  <2>. HIDE DEF fetched
  <2>. QED  BY <2>1, <2>3, <2>4
<1>. QED  BY <1>2, <1>4

-----------------------------------------------------------------------------
\* What the walk has behind it.

\* A row that is still to be committed has not been listed.
PendingUnseen == pending \cap (table \cup seen) = {}

\* Before the walk nothing is recorded about it.
NotBegun == walk = "idle" => seen = {} /\ repeated = {} /\ fresh = {}

\* The rows below the offset have been returned or came later ...
Covered ==
  walk = "walking" /\ ~shrunk /\ start <= 0 =>
    \A r \in Selected : Before(Selected, r) < Position => r \in seen \cup fresh

\* ... and the rows returned are below the offset.
Behind ==
  walk = "walking" /\ ~grown /\ start >= 0 =>
    /\ decodePageToken(token) >= 0
    /\ \A r \in Selected \cap seen : Before(Selected, r) < Position

Inv ==
  /\ TypeOK /\ PendingUnseen /\ NotBegun /\ Covered /\ Behind
  /\ NothingSkipped /\ NothingRepeated

\* The rows of the walk are finitely many numbers.
LEMMA SelectedType ==
  ASSUME TypeOK
  PROVE  /\ Selected \in SUBSET Nat /\ IsFiniteSet(Selected)
         /\ decodePageToken(token) \in Int /\ Position \in Nat
<1>1. clock \in Nat  BY PaginationAssumption DEF TypeOK
<1>2. IsFiniteSet(1..clock)  BY <1>1, FS_Interval
<1>3. Selected \in SUBSET (1..clock)  BY DEF TypeOK, Selected, Matching
<1>4. IsFiniteSet(Selected)  BY <1>2, <1>3, FS_Subset
<1>. QED  BY <1>1, <1>3, <1>4 DEF TypeOK, Token, Position, Skipped, decodePageToken

\* A page returns the next rows, and ends the walk only with the last of them.
LEMMA PageStep ==
  ASSUME TypeOK, NEW size \in 1..MaxSize, ListResources(size)
  PROVE  LET page == {r \in Selected : Before(Selected, r) \in Position..(Position + size - 1)}
         IN  /\ seen' = seen \cup page /\ repeated' = repeated \cup (seen \cap page)
             /\ token' \in Token
             /\ \/ /\ walk' = "done"
                   /\ \A r \in Selected : Before(Selected, r) < Position + size
                \/ /\ walk' = "walking"
                   /\ decodePageToken(token)' = decodePageToken(token) + size
<1>. DEFINE offset  == decodePageToken(token)
            fetched == Fetch(offset, size + 1)
            page    == {r \in Selected : Before(Selected, r) \in Position..(Position + size - 1)}
<1>. size \in Nat \ {0}  BY PaginationAssumption
<1>. /\ Selected \in SUBSET Nat /\ IsFiniteSet(Selected)
     /\ offset \in Int /\ Position \in Nat
  BY SelectedType
<1>1. fetched = {r \in Selected : Before(Selected, r) \in Position..(Position + (size + 1) - 1)}
  BY DEF Fetch, Position
<1>2. /\ First(fetched, size) = page
      /\ Cardinality(fetched) <= size => \A r \in Selected : Before(Selected, r) < Position + size
  <2>. DEFINE F == {r \in Selected : Before(Selected, r) \in Position..(Position + (size + 1) - 1)}
  <2>1. /\ First(F, size) = page
        /\ Cardinality(F) <= size => \A r \in Selected : Before(Selected, r) < Position + size
    BY FetchedRows
  <2>2. fetched = F  BY <1>1
  <2>. HIDE DEF F, fetched, page
  <2>. QED  BY <2>1, <2>2
<1>3. seen' = seen \cup page /\ repeated' = repeated \cup (seen \cap page)
  BY <1>2 DEF ListResources
<1>4. /\ token' = generateNextPageToken(Cardinality(fetched), size, offset)
      /\ walk' = IF token' = NilToken THEN "done" ELSE "walking"
  BY DEF ListResources
<1>. HIDE DEF offset, fetched, page
<1>5. CASE Cardinality(fetched) <= size
  <2>1. token' = NilToken  BY <1>4, <1>5 DEF generateNextPageToken
  <2>. QED  BY <1>2, <1>3, <1>4, <1>5, <2>1 DEF Token, NilToken, page
<1>6. CASE ~(Cardinality(fetched) <= size)
  <2>1. token' = [kind |-> "number", offset |-> offset + size]
    BY <1>4, <1>6 DEF generateNextPageToken, encodePageToken
  <2>2. token' # NilToken /\ token' \in Token /\ decodePageToken(token)' = offset + size
    BY <2>1 DEF NilToken, Token, decodePageToken
  <2>. QED  BY <1>3, <1>4, <2>2 DEF page, offset
<1>. QED  BY <1>5, <1>6

LEMMA InitInv == Init => Inv
<1>. SUFFICES ASSUME Init PROVE Inv  OBVIOUS
<1>1. TypeOK
  <2>1. token \in Token  BY DEF Init, Token, NilToken
  <2>2. clock \in 0..MaxRows  BY PaginationAssumption DEF Init
  <2>3. /\ pending \subseteq 1..clock /\ table \subseteq 1..clock
        /\ seen \subseteq 1..clock /\ repeated \subseteq seen /\ fresh \subseteq 1..clock
    BY DEF Init
  <2>4. grown \in BOOLEAN /\ shrunk \in BOOLEAN  BY DEF Init
  <2>5. start \in Int /\ answer \in Answer /\ walk \in {"idle", "walking", "done"}
    BY DEF Init, Answer
  <2>. QED  BY <2>1, <2>2, <2>3, <2>4, <2>5 DEF TypeOK
<1>. QED
  BY <1>1 DEF Init, Inv, PendingUnseen, NotBegun, Covered, Behind, NothingSkipped, NothingRepeated

\* An insertion.
LEMMA InsertStep ==
  ASSUME Inv, NEW r \in pending, Insert(r)
  PROVE  Inv'
<1>. /\ Selected \in SUBSET Nat /\ IsFiniteSet(Selected) /\ Position \in Nat
     /\ \A q : Before(Selected, q) \in Nat
  BY SelectedType, BeforeType DEF Inv
<1>. r \in Nat
  BY PaginationAssumption DEF Inv, TypeOK
<1>1. TypeOK'  BY DEF Inv, Insert, TypeOK, walkVars
<1>2. /\ Position' = Position
      /\ Selected' = Selected \/ Selected' = Selected \cup {r}
      /\ r \notin seen /\ UNCHANGED <<walk, start, token, seen, repeated, shrunk>>
  BY DEF Inv, PendingUnseen, Insert, walkVars, Selected, Matching, Position
<1>3. \A q \in Selected : Before(Selected, q) <= Before(Selected', q)
  BY <1>2, BeforeInsert
<1>4. PendingUnseen' /\ NotBegun'
  BY DEF Inv, PendingUnseen, NotBegun, Insert, walkVars
<1>5. Covered'
  <2>1. SUFFICES ASSUME walk = "walking", ~shrunk, start <= 0, NEW q \in Selected',
                        Before(Selected', q) < Position, q # r
                 PROVE  q \in seen \cup fresh
    BY <1>2 DEF Covered, Insert
  <2>2. q \in Selected  BY <1>2, <2>1
  <2>3. Before(Selected', q) \in Nat  BY <1>2, <2>2, FS_AddElement, BeforeType
  <2>4. Before(Selected, q) < Position  BY <1>3, <2>1, <2>2, <2>3
  <2>. QED  BY <2>1, <2>2, <2>4 DEF Inv, Covered
<1>6. Behind'
  <2>1. SUFFICES ASSUME walk = "walking", ~grown', start >= 0
                 PROVE  /\ decodePageToken(token) >= 0
                        /\ \A q \in Selected' \cap seen : Before(Selected', q) < Position
    BY <1>2 DEF Behind
  <2>2. /\ ~grown
        /\ r \in Matching({r}, filter) => ~(Before(Selected, r) < Position)
    BY <2>1 DEF Insert
  <2>3. /\ decodePageToken(token) >= 0
        /\ \A q \in Selected \cap seen : Before(Selected, q) < Position
    BY <2>1, <2>2 DEF Inv, Behind
  <2>4. ASSUME NEW q \in Selected' \cap seen  PROVE Before(Selected', q) < Position
    <3>1. q \in Selected \cap seen  BY <1>2, <2>4
    <3>2. CASE r \in Matching({r}, filter)
      <4>1. Before(Selected, q) < Before(Selected, r)  BY <2>2, <2>3, <3>1, <3>2
      <4>2. Before(Selected', q) = Before(Selected, q)  BY <1>2, <3>1, <4>1, BeforeInsert
      <4>. QED  BY <2>3, <3>1, <4>2
    <3>3. CASE r \notin Matching({r}, filter)
      <4>1. Selected' = Selected  BY <3>3 DEF Insert, walkVars, Selected, Matching
      <4>. QED  BY <2>3, <3>1, <4>1
    <3>. QED  BY <3>2, <3>3
  <2>. QED  BY <2>3, <2>4
<1>7. NothingSkipped'
  <2>1. ~shrunk' => ~shrunk  BY <1>2
  <2>2. walk = "done" => fresh' = fresh \cup {r}  BY DEF Insert
  <2>. QED  BY <1>2, <2>1, <2>2 DEF Inv, NothingSkipped
<1>8. NothingRepeated'
  <2>1. ~grown' => ~grown  BY DEF Insert
  <2>. QED  BY <1>2, <2>1 DEF Inv, NothingRepeated
<1>. QED  BY <1>1, <1>4, <1>5, <1>6, <1>7, <1>8 DEF Inv

\* A deletion.
LEMMA DeleteStep ==
  ASSUME Inv, NEW r \in table, Delete(r)
  PROVE  Inv'
<1>. /\ Selected \in SUBSET Nat /\ IsFiniteSet(Selected) /\ Position \in Nat
     /\ \A q : Before(Selected, q) \in Nat
  BY SelectedType, BeforeType DEF Inv
<1>1. TypeOK'  BY DEF Inv, Delete, TypeOK, walkVars
<1>2. /\ Position' = Position
      /\ Selected' = Selected \ {r}
      /\ UNCHANGED <<walk, start, token, seen, repeated, fresh, grown>>
  BY DEF Delete, walkVars, Selected, Matching, Position
<1>3. PendingUnseen' /\ NotBegun'
  BY DEF Inv, PendingUnseen, NotBegun, Delete, walkVars
<1>4. \A q : Before(Selected', q) \in Nat
  BY <1>2, FS_RemoveElement, BeforeType
<1>5. CASE r \notin Selected
  <2>1. Selected' = Selected /\ shrunk' = shrunk  BY <1>2, <1>5 DEF Delete, Inv, TypeOK
  <2>. QED
    BY <1>1, <1>2, <1>3, <2>1 DEF Inv, Covered, Behind, NothingSkipped, NothingRepeated
<1>6. CASE r \in Selected
  <2>1. Covered'
    <3>1. SUFFICES ASSUME walk = "walking", ~shrunk', start <= 0, NEW q \in Selected',
                          Before(Selected', q) < Position
                   PROVE  q \in seen \cup fresh
      BY <1>2 DEF Covered
    <3>2. ~shrunk /\ ~(Before(Selected, r) < Position)  BY <1>6, <3>1 DEF Delete
    <3>3. Before(Selected', q) < Before(Selected, r)  BY <1>4, <3>1, <3>2
    <3>4. Before(Selected', q) = Before(Selected, q)  BY <1>2, <1>6, <3>3, BeforeDelete
    <3>. QED  BY <1>2, <3>1, <3>2, <3>4 DEF Inv, Covered
  <2>2. Behind'
    <3>1. \A q \in Selected' : Before(Selected', q) <= Before(Selected, q)
      BY <1>2, <1>6, BeforeDelete
    <3>2. SUFFICES ASSUME walk = "walking", ~grown, start >= 0
                   PROVE  /\ decodePageToken(token) >= 0
                          /\ \A q \in Selected' \cap seen : Before(Selected', q) < Position
      BY <1>2 DEF Behind
    <3>3. /\ decodePageToken(token) >= 0
          /\ \A q \in Selected \cap seen : Before(Selected, q) < Position
      BY <3>2 DEF Inv, Behind
    <3>4. ASSUME NEW q \in Selected' \cap seen  PROVE Before(Selected', q) < Position
      <4>1. q \in Selected \cap seen  BY <1>2, <3>4
      <4>. QED  BY <1>4, <3>1, <3>3, <4>1
    <3>. QED  BY <3>3, <3>4
  <2>3. NothingSkipped' /\ NothingRepeated'
    <3>1. ~shrunk' => ~shrunk  BY DEF Delete
    <3>2. ~grown' => ~grown  BY <1>2
    <3>. QED  BY <1>2, <3>1, <3>2 DEF Inv, NothingSkipped, NothingRepeated
  <2>. QED  BY <1>1, <1>3, <2>1, <2>2, <2>3 DEF Inv
<1>. QED  BY <1>5, <1>6

LEMMA BeginStep ==
  ASSUME Inv, Begin
  PROVE  Inv'
<1>. /\ Selected' \in SUBSET Nat /\ IsFiniteSet(Selected')
  <2>1. TypeOK'
    BY PaginationAssumption DEF Inv, TypeOK, Begin, FirstTokens, Token, tableVars, decodePageToken
  <2>2. clock' \in Nat  BY PaginationAssumption DEF Inv, TypeOK, Begin, tableVars
  <2>3. IsFiniteSet(1..clock')  BY <2>2, FS_Interval
  <2>4. Selected' \in SUBSET (1..clock')  BY <2>1 DEF TypeOK, Selected, Matching
  <2>5. IsFiniteSet(Selected')  BY <2>3, <2>4, FS_Subset
  <2>. QED  BY <2>2, <2>4, <2>5
<1>1. TypeOK'
  BY PaginationAssumption DEF Inv, TypeOK, Begin, FirstTokens, Token, tableVars, decodePageToken
<1>2. decodePageToken(token)' = start' /\ walk' = "walking"
  BY DEF Begin, decodePageToken
<1>3. seen' = {} /\ repeated' = {} /\ fresh' = {}  BY DEF Inv, NotBegun, Begin
<1>4. PendingUnseen' /\ NotBegun' /\ NothingSkipped' /\ NothingRepeated'
  BY <1>2, <1>3 DEF Inv, PendingUnseen, NotBegun, NothingSkipped, NothingRepeated, Begin, tableVars
<1>5. start' <= 0 => Position' = 0
  BY <1>1, <1>2 DEF Position, Skipped, TypeOK
<1>6. \A r \in Selected' : Before(Selected', r) \in Nat  BY BeforeType
<1>7. Covered'  BY <1>5, <1>6 DEF Covered
<1>8. Behind'  BY <1>2, <1>3 DEF Behind
<1>. QED  BY <1>1, <1>4, <1>7, <1>8 DEF Inv

\* A page.
LEMMA ListStep ==
  ASSUME Inv, NEW size \in 1..MaxSize, ListResources(size)
  PROVE  Inv'
<1>. DEFINE page == {r \in Selected : Before(Selected, r) \in Position..(Position + size - 1)}
<1>. size \in Nat \ {0}  BY PaginationAssumption
<1>. /\ Selected \in SUBSET Nat /\ Position \in Nat /\ decodePageToken(token) \in Int
     /\ \A q \in Selected : Before(Selected, q) \in Nat
  BY SelectedType, BeforeType DEF Inv
<1>1. /\ walk = "walking" /\ UNCHANGED <<tableVars, filter, start, fresh, grown, shrunk>>
      /\ Selected' = Selected
  BY DEF ListResources, tableVars, Selected, Matching
<1>2. /\ seen' = seen \cup page /\ repeated' = repeated \cup (seen \cap page)
      /\ token' \in Token
      /\ \/ /\ walk' = "done"
            /\ \A r \in Selected : Before(Selected, r) < Position + size
         \/ /\ walk' = "walking"
            /\ decodePageToken(token)' = decodePageToken(token) + size
  BY PageStep DEF Inv
<1>3. page \subseteq table  BY DEF Selected, Matching
<1>4. Position = Skipped(decodePageToken(token)) /\ Position' = Skipped(decodePageToken(token)')
  BY DEF Position
<1>. HIDE DEF page
<1>5. TypeOK'
  BY <1>1, <1>2, <1>3 DEF Inv, TypeOK, ListResources, tableVars, Answer
<1>6. PendingUnseen' /\ NotBegun'
  BY <1>1, <1>2, <1>3 DEF Inv, PendingUnseen, NotBegun, tableVars
<1>7. ASSUME ~shrunk, start <= 0, NEW r \in Selected, Before(Selected, r) < Position + size
      PROVE  r \in seen' \cup fresh
  <2>1. CASE Before(Selected, r) < Position
    BY <1>1, <1>2, <1>7, <2>1 DEF Inv, Covered
  <2>2. CASE Before(Selected, r) >= Position
    <3>1. r \in page  BY <1>7, <2>2 DEF page
    <3>. QED  BY <1>2, <3>1
  <2>. QED  BY <2>1, <2>2
<1>8. Covered'
  <2>1. SUFFICES ASSUME walk' = "walking", ~shrunk, start <= 0, NEW r \in Selected,
                        Before(Selected, r) < Position'
                 PROVE  r \in seen' \cup fresh
    BY <1>1 DEF Covered
  <2>2. Position' <= Position + size /\ Position' \in Int
    BY <1>2, <1>4, <2>1 DEF Skipped
  <2>. QED  BY <1>7, <2>1, <2>2
<1>9. NothingSkipped'
  BY <1>1, <1>2, <1>7 DEF NothingSkipped, Covered
<1>10. ASSUME ~grown, start >= 0
       PROVE  /\ decodePageToken(token) >= 0 /\ Position = decodePageToken(token)
              /\ \A r \in Selected \cap seen : Before(Selected, r) < Position
              /\ repeated = {}
  BY <1>1, <1>4, <1>10 DEF Inv, Behind, NothingRepeated, Skipped
<1>11. NothingRepeated'
  <2>1. SUFFICES ASSUME ~grown, start >= 0  PROVE seen \cap page = {}
    BY <1>1, <1>2, <1>10 DEF NothingRepeated
  <2>2. ASSUME NEW r \in seen \cap page  PROVE FALSE
    <3>1. r \in Selected /\ Before(Selected, r) >= Position  BY <2>2 DEF page
    <3>2. Before(Selected, r) < Position  BY <1>10, <2>1, <2>2, <3>1
    <3>. QED  BY <3>1, <3>2
  <2>. QED  BY <2>2
<1>12. Behind'
  <2>1. SUFFICES ASSUME walk' = "walking", ~grown, start >= 0
                 PROVE  /\ decodePageToken(token)' >= 0
                        /\ \A r \in Selected \cap seen' : Before(Selected, r) < Position'
    BY <1>1 DEF Behind
  <2>2. /\ decodePageToken(token)' = Position + size /\ Position' = Position + size
    BY <1>2, <1>4, <1>10, <2>1 DEF Skipped
  <2>3. ASSUME NEW r \in Selected \cap seen'  PROVE Before(Selected, r) < Position + size
    <3>1. CASE r \in seen  BY <1>10, <2>1, <2>3, <3>1
    <3>2. CASE r \in page  BY <3>2 DEF page
    <3>. QED  BY <1>2, <2>3, <3>1, <3>2
  <2>. QED  BY <2>2, <2>3
<1>. QED  BY <1>5, <1>6, <1>8, <1>9, <1>11, <1>12 DEF Inv

LEMMA StepInv == Inv /\ [Next]_vars => Inv'
<1>. SUFFICES ASSUME Inv, [Next]_vars PROVE Inv'  OBVIOUS
<1>1. CASE Stamp
  <2>1. TypeOK'
    BY <1>1, PaginationAssumption DEF Inv, TypeOK, Stamp, walkVars
  <2>2. PendingUnseen'
    BY <1>1, PaginationAssumption DEF Inv, PendingUnseen, TypeOK, Stamp, walkVars
  <2>. QED
    BY <1>1, <2>1, <2>2 DEF Inv, Stamp, walkVars, NotBegun, Covered, Behind, NothingSkipped,
      NothingRepeated, Selected, Matching, Position
<1>2. ASSUME NEW r \in pending, Insert(r)  PROVE Inv'  BY <1>2, InsertStep
<1>3. ASSUME NEW r \in pending, Abandon(r)  PROVE Inv'
  BY <1>3 DEF Inv, TypeOK, Abandon, walkVars, PendingUnseen, NotBegun, Covered, Behind,
    NothingSkipped, NothingRepeated, Selected, Matching, Position
<1>4. ASSUME NEW r \in table, Delete(r)  PROVE Inv'  BY <1>4, DeleteStep
<1>5. CASE Begin  BY <1>5, BeginStep
<1>6. CASE List  BY <1>6, ListStep DEF List
<1>7. CASE ListFails
  BY <1>7 DEF Inv, TypeOK, ListFails, tableVars, Answer, PendingUnseen, NotBegun, Covered,
    Behind, NothingSkipped, NothingRepeated, Selected, Matching, Position
<1>8. CASE UNCHANGED vars
  BY <1>8 DEF Inv, TypeOK, vars, tableVars, walkVars, PendingUnseen, NotBegun, Covered,
    Behind, NothingSkipped, NothingRepeated, Selected, Matching, Position
<1>. QED  BY <1>1, <1>2, <1>3, <1>4, <1>5, <1>6, <1>7, <1>8 DEF Next

LEMMA AlwaysInv == Spec => []Inv
<1>. QED  BY InitInv, StepInv, PTL DEF Spec

(***************************************************************************)
(* For any number of rows and pages of any sizes, a walk skips no row      *)
(* (resource.go:51-96) unless a row was deleted below its offset.          *)
(***************************************************************************)
THEOREM SkipsNothing == Spec => []NothingSkipped
<1>1. Inv => NothingSkipped  BY DEF Inv
<1>. QED  BY <1>1, AlwaysInv, PTL

(***************************************************************************)
(* And it returns no row twice unless one was inserted below its offset or *)
(* it began at a negative one.                                             *)
(***************************************************************************)
THEOREM RepeatsNothing == Spec => []NothingRepeated
<1>1. Inv => NothingRepeated  BY DEF Inv
<1>. QED  BY <1>1, AlwaysInv, PTL
=============================================================================
