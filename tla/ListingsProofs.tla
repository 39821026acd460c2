--------------------------- MODULE ListingsProofs ---------------------------
(***************************************************************************)
(* What holds of Listings, and so of every client that walks the pages of  *)
(* a listing or polls a conversation, for any number of rows, writers and  *)
(* changes and any limits: proofs for TLAPS.                               *)
(***************************************************************************)
EXTENDS Listings, FiniteSetTheorems, SequenceTheorems, TLAPS

-----------------------------------------------------------------------------
(* Sequences of the rows of a set, and the pages cut out of them. *)

\* Every element is there, once.
LEMMA InOneOrder ==
  ASSUME NEW S, IsFiniteSet(S), NEW seq \in SetToSeqs(S)
  PROVE  /\ seq \in Seq(S) /\ Len(seq) = Cardinality(S) /\ Cardinality(S) \in Nat
         /\ \A i, j \in 1 .. Len(seq) : seq[i] = seq[j] => i = j
         /\ \A x \in S : \E i \in 1 .. Len(seq) : seq[i] = x
<1>1. Cardinality(S) \in Nat
  BY FS_CardinalityType
<1>2. /\ seq \in [1 .. Cardinality(S) -> S]
      /\ \A i, j \in 1 .. Cardinality(S) : i # j => seq[i] # seq[j]
  BY DEF SetToSeqs
<1>3. seq \in Seq(S) /\ Len(seq) = Cardinality(S)
  BY <1>1, <1>2
<1>4. PICK I : I = 1 .. Cardinality(S)
  OBVIOUS
<1>5. seq \in Injection(I, S)
  BY <1>2, <1>4 DEF Injection, IsInjective
<1>6. IsFiniteSet(I) /\ Cardinality(I) = Cardinality(S)
  BY <1>1, <1>4, FS_Interval
<1>7. seq \in Surjection(I, S)
  BY <1>5, <1>6, FS_Injection
<1>8. \A x \in S : \E i \in I : seq[i] = x
  BY <1>7 DEF Surjection
<1> QED BY <1>1, <1>2, <1>3, <1>4, <1>8

LEMMA PageIs ==
  ASSUME NEW S, NEW seq \in Seq(S), NEW offset \in Nat, NEW limit \in Nat, NEW page,
         page = PageOf(seq, offset, limit)
  PROVE  /\ page \in Seq(S) /\ Len(page) \in Nat /\ Len(page) <= limit
         /\ \A k \in 1 .. Len(page) : offset + k \in 1 .. Len(seq) /\ page[k] = seq[offset + k]
         /\ \A i \in 1 .. Len(seq) : offset < i /\ i <= offset + limit =>
              i - offset \in 1 .. Len(page) /\ page[i - offset] = seq[i]
<1>1. Len(seq) \in Nat
  BY LenProperties
<1>2. PICK last : last = Min({offset + limit, Len(seq)})
  OBVIOUS
<1>3. /\ last \in {offset + limit, Len(seq)} /\ last <= offset + limit /\ last <= Len(seq)
      /\ last \in Nat
  <2>1. \E x \in {offset + limit, Len(seq)} : \A y \in {offset + limit, Len(seq)} : x =< y
    BY <1>1
  <2>2. /\ last \in {offset + limit, Len(seq)}
        /\ \A y \in {offset + limit, Len(seq)} : last =< y
    BY <1>2, <2>1 DEF Min
  <2> QED BY <1>1, <2>2
<1>4. page = SubSeq(seq, offset + 1, last)
  BY <1>2 DEF PageOf
<1>5. \A i \in offset + 1 .. last : seq[i] \in S
  BY <1>1, <1>3, ElementOfSeq
<1>6. /\ page \in Seq(S)
      /\ Len(page) = IF offset + 1 <= last THEN last - (offset + 1) + 1 ELSE 0
      /\ \A i \in 1 .. last - (offset + 1) + 1 : page[i] = seq[offset + 1 + i - 1]
  BY <1>3, <1>4, <1>5, SubSeqProperties
<1>7. Len(page) = IF offset < last THEN last - offset ELSE 0
  BY <1>3, <1>6
<1>8. \A i \in 1 .. last - offset : page[i] = seq[offset + i]
  <2> SUFFICES ASSUME NEW i \in 1 .. last - offset PROVE page[i] = seq[offset + i]
    OBVIOUS
  <2>1. i \in 1 .. last - (offset + 1) + 1 /\ offset + 1 + i - 1 = offset + i
    BY <1>3
  <2> QED BY <1>6, <2>1
<1>9. ASSUME NEW k \in 1 .. Len(page)
      PROVE  offset + k \in 1 .. Len(seq) /\ page[k] = seq[offset + k]
  BY <1>1, <1>3, <1>7, <1>8
<1>10. ASSUME NEW i \in 1 .. Len(seq), offset < i, i <= offset + limit
       PROVE  i - offset \in 1 .. Len(page) /\ page[i - offset] = seq[i]
  <2>1. i <= last
    BY <1>1, <1>3, <1>10
  <2>2. i - offset \in 1 .. Len(page) /\ i - offset \in 1 .. last - offset
    BY <1>1, <1>3, <1>7, <1>10, <2>1
  <2>3. offset + (i - offset) = i
    BY <1>1, <1>10
  <2> QED BY <1>8, <2>2, <2>3
<1> QED BY <1>3, <1>6, <1>7, <1>9, <1>10

-----------------------------------------------------------------------------
(* Places in an order. *)

Ahead(set, r) == {t \in set : Before(t, r)}

\* How many rows of the set come before r.
Rank(set, r) == Cardinality(Ahead(set, r))

LEMMA BeforeIsOrder ==
  ASSUME NEW r, NEW t, NEW u, r.key \in Int, t.key \in Int, u.key \in Int
  PROVE  /\ Before(r, t) /\ Before(t, u) => Before(r, u)
         /\ ~Before(r, r)
         /\ r.key # t.key => Before(r, t) \/ Before(t, r)
         /\ Before(r, t) => ~Before(t, r)
         /\ r.key = t.key => (Before(u, r) <=> Before(u, t)) /\ (Before(r, u) <=> Before(t, u))
  BY DEF Before

LEMMA RankTypes ==
  ASSUME NEW set, IsFiniteSet(set), NEW r
  PROVE  /\ IsFiniteSet(Ahead(set, r)) /\ Rank(set, r) \in Nat
         /\ \A T \in SUBSET Ahead(set, r) : IsFiniteSet(T) /\ Cardinality(T) <= Rank(set, r)
<1>1. Ahead(set, r) \in SUBSET set
  BY DEF Ahead
<1>2. IsFiniteSet(Ahead(set, r))
  BY <1>1, FS_Subset
<1> QED BY <1>2, FS_Subset, FS_CardinalityType DEF Rank

\* In a sorted sequence without ties a row's place tells how many come before it.
LEMMA PlaceIsRank ==
  ASSUME NEW set, IsFiniteSet(set), \A r \in set : r.key \in Int, ~Tied(set),
         This.order # "none", NEW seq \in Sorted(set), NEW i \in 1 .. Len(seq)
  PROVE  Rank(set, seq[i]) = i - 1
<1>1. /\ seq \in Seq(set) /\ Len(seq) \in Nat
      /\ \A j, k \in 1 .. Len(seq) : seq[j] = seq[k] => j = k
      /\ \A x \in set : \E j \in 1 .. Len(seq) : seq[j] = x
  BY InOneOrder DEF Sorted
<1>2. \A j \in 1 .. Len(seq) : seq[j] \in set /\ seq[j].key \in Int
  BY <1>1, ElementOfSeq
<1>3. \A j, k \in 1 .. Len(seq) : j < k => ~Before(seq[k], seq[j])
  BY DEF Sorted
<1>4. \A j, k \in 1 .. Len(seq) : j < k => Before(seq[j], seq[k])
  <2> SUFFICES ASSUME NEW j \in 1 .. Len(seq), NEW k \in 1 .. Len(seq), j < k
               PROVE  Before(seq[j], seq[k])
    OBVIOUS
  <2>1. seq[j] # seq[k]
    BY <1>1
  <2>2. seq[j].key # seq[k].key
    BY <1>2, <2>1 DEF Tied
  <2> QED BY <1>2, <1>3, <2>2, BeforeIsOrder
<1>5. PICK I : I = 1 .. i - 1
  OBVIOUS
<1>6. PICK f : f = [j \in I |-> seq[j]]
  OBVIOUS
<1>7. PICK A : A = Ahead(set, seq[i])
  OBVIOUS
<1>8. \A j \in I : j \in 1 .. Len(seq) /\ j < i /\ f[j] = seq[j]
  BY <1>1, <1>5, <1>6
<1>9. \A j \in I : f[j] \in A
  BY <1>2, <1>4, <1>7, <1>8 DEF Ahead
<1>10. \A x \in A : \E j \in I : f[j] = x
  <2> SUFFICES ASSUME NEW x \in A PROVE \E j \in I : f[j] = x
    OBVIOUS
  <2>1. x \in set /\ Before(x, seq[i])
    BY <1>7 DEF Ahead
  <2>2. PICK j \in 1 .. Len(seq) : seq[j] = x
    BY <1>1, <2>1
  <2>3. j # i
    BY <1>2, <2>1, <2>2, BeforeIsOrder
  <2>4. ~(i < j)
    BY <1>2, <1>3, <2>1, <2>2
  <2>5. j \in I
    BY <1>1, <1>5, <2>2, <2>3, <2>4
  <2> QED BY <1>8, <2>2, <2>5
<1>11. f \in Bijection(I, A)
  <2>1. f \in [I -> A]
    BY <1>6, <1>9
  <2>2. \A j, k \in I : f[j] = f[k] => j = k
    BY <1>1, <1>8
  <2> QED BY <1>10, <2>1, <2>2 DEF Bijection, Injection, Surjection, IsInjective
<1>12. IsFiniteSet(I) /\ Cardinality(I) = i - 1
  BY <1>1, <1>5, FS_Interval
<1>13. Cardinality(A) = Cardinality(I)
  BY <1>11, <1>12, FS_Bijection DEF ExistsBijection
<1> QED BY <1>7, <1>12, <1>13 DEF Rank

\* A row has others before it than itself.
LEMMA RankIsLess ==
  ASSUME NEW set, IsFiniteSet(set), NEW r \in set, r.key \in Int
  PROVE  Rank(set, r) < Cardinality(set)
<1>1. Ahead(set, r) \in SUBSET (set \ {r})
  BY BeforeIsOrder DEF Ahead
<1>2. IsFiniteSet(set \ {r}) /\ Cardinality(set \ {r}) = Cardinality(set) - 1
  BY FS_RemoveElement
<1>3. Rank(set, r) <= Cardinality(set) - 1
  BY <1>1, <1>2, FS_Subset DEF Rank
<1> QED BY <1>2, <1>3, FS_CardinalityType, RankTypes

\* Places after a row comes or goes elsewhere.
LEMMA RankWith ==
  ASSUME NEW set, IsFiniteSet(set), NEW x, x \notin set, NEW r
  PROVE  Rank(set \cup {x}, r) = IF Before(x, r) THEN Rank(set, r) + 1 ELSE Rank(set, r)
<1>1. PICK A : A = Ahead(set, r)
  OBVIOUS
<1>2. IsFiniteSet(A) /\ x \notin A
  BY <1>1, RankTypes DEF Ahead
<1>3. IsFiniteSet(A \cup {x}) /\ Cardinality(A \cup {x}) = Cardinality(A) + 1
  BY <1>2, FS_AddElement
<1>4. CASE Before(x, r)
  <2>1. Ahead(set \cup {x}, r) = A \cup {x}
    BY <1>1, <1>4 DEF Ahead
  <2> QED BY <1>1, <1>3, <1>4, <2>1 DEF Rank
<1>5. CASE ~Before(x, r)
  <2>1. Ahead(set \cup {x}, r) = A
    BY <1>1, <1>5 DEF Ahead
  <2> QED BY <1>1, <1>5, <2>1 DEF Rank
<1> QED BY <1>4, <1>5

Keyed(set) == \A t \in set : t.key \in Int

LEMMA RankGrows ==
  ASSUME NEW set, IsFiniteSet(set), Keyed(set),
         NEW x, NEW r, x.key \in Int, r.key \in Int
  PROVE  /\ Before(x, r) => Rank(set, x) <= Rank(set, r)
         /\ x.key = r.key => Rank(set, x) = Rank(set, r)
<1>1. ASSUME Before(x, r) PROVE Rank(set, x) <= Rank(set, r)
  <2>1. Ahead(set, x) \in SUBSET Ahead(set, r)
    BY <1>1, BeforeIsOrder DEF Ahead, Keyed
  <2> QED BY <2>1, RankTypes DEF Rank
<1>2. ASSUME x.key = r.key PROVE Rank(set, x) = Rank(set, r)
  <2>1. Ahead(set, x) = Ahead(set, r)
    BY <1>2, BeforeIsOrder DEF Ahead, Keyed
  <2> QED BY <2>1 DEF Rank
<1> QED BY <1>1, <1>2

\* What the one set has among its first rows, the other has among its.
KeepsPlaces(rest, from, to, passed) ==
  \A r \in rest : Rank(from, r) < passed => Rank(to, r) < passed

\* The rows that fit are rest and perhaps old, then rest and perhaps new.  Unless old left
\* from behind the place the walk has come to, what is behind it now was; unless new came
\* in behind it, what was behind it is.
LEMMA PlacesAfterChange ==
  ASSUME NEW rest, IsFiniteSet(rest), Keyed(rest), NEW old, NEW new, old \notin rest,
         new \notin rest, NEW were, were = rest \/ were = rest \cup {old},
         NEW are, are = rest \/ are = rest \cup {new},
         new.key \in Int, old \in were => old.key \in Int, NEW passed \in Nat
  PROVE  /\ ~(old \in were /\ ~(new \in are /\ old.key = new.key) /\ Rank(rest, old) < passed) =>
              KeepsPlaces(rest, are, were, passed)
         /\ ~(new \in are /\ ~(old \in were /\ old.key = new.key) /\ Rank(rest, new) < passed) =>
              KeepsPlaces(rest, were, are, passed)
         /\ old \in were /\ new \in are /\ old.key = new.key => Rank(were, old) = Rank(are, new)
<1>1. ASSUME NEW r \in rest
      PROVE  /\ Rank(rest, r) \in Nat
             /\ Rank(were, r) = Rank(rest, r) + IF old \in were /\ Before(old, r) THEN 1 ELSE 0
             /\ Rank(are, r) = Rank(rest, r) + IF new \in are /\ Before(new, r) THEN 1 ELSE 0
  <2>1. Rank(rest, r) \in Nat
    BY RankTypes
  <2>2. old \in were => Rank(were, r) = Rank(rest, r) + IF Before(old, r) THEN 1 ELSE 0
    BY <2>1, RankWith
  <2>3. new \in are => Rank(are, r) = Rank(rest, r) + IF Before(new, r) THEN 1 ELSE 0
    BY <2>1, RankWith
  <2> QED BY <2>1, <2>2, <2>3
<1>2. Rank(rest, old) \in Nat /\ Rank(rest, new) \in Nat
  BY RankTypes
<1>3. ASSUME ~(old \in were /\ ~(new \in are /\ old.key = new.key) /\ Rank(rest, old) < passed),
             NEW r \in rest, Rank(are, r) < passed
      PROVE  Rank(were, r) < passed
  <2>1. CASE ~(old \in were /\ Before(old, r))
    <3>1. Rank(were, r) = Rank(rest, r)
      BY <1>1, <2>1
    <3>2. Rank(rest, r) <= Rank(are, r) /\ Rank(are, r) \in Nat /\ Rank(rest, r) \in Nat
      BY <1>1
    <3> QED BY <1>3, <3>1, <3>2
  <2>2. CASE old \in were /\ Before(old, r)
    <3>1. Rank(rest, old) <= Rank(rest, r)
      BY <2>2, RankGrows DEF Keyed
    <3>2. Rank(rest, r) <= Rank(are, r)
      BY <1>1
    <3>3. new \in are /\ old.key = new.key
      BY <1>1, <1>2, <1>3, <2>2, <3>1, <3>2
    <3>4. Before(new, r)
      BY <2>2, <3>3, BeforeIsOrder DEF Keyed
    <3> QED BY <1>1, <1>3, <2>2, <3>3, <3>4
  <2> QED BY <2>1, <2>2
<1>4. ASSUME ~(new \in are /\ ~(old \in were /\ old.key = new.key) /\ Rank(rest, new) < passed),
             NEW r \in rest, Rank(were, r) < passed
      PROVE  Rank(are, r) < passed
  <2>1. CASE ~(new \in are /\ Before(new, r))
    <3>1. Rank(are, r) = Rank(rest, r)
      BY <1>1, <2>1
    <3>2. Rank(rest, r) <= Rank(were, r) /\ Rank(were, r) \in Nat /\ Rank(rest, r) \in Nat
      BY <1>1
    <3> QED BY <1>4, <3>1, <3>2
  <2>2. CASE new \in are /\ Before(new, r)
    <3>1. Rank(rest, new) <= Rank(rest, r)
      BY <2>2, RankGrows DEF Keyed
    <3>2. Rank(rest, r) <= Rank(were, r)
      BY <1>1
    <3>3. old \in were /\ old.key = new.key
      BY <1>1, <1>2, <1>4, <2>2, <3>1, <3>2
    <3>4. Before(old, r)
      BY <2>2, <3>3, BeforeIsOrder DEF Keyed
    <3> QED BY <1>1, <1>4, <2>2, <3>3, <3>4
  <2> QED BY <2>1, <2>2
<1>5. ASSUME old \in were, new \in are, old.key = new.key PROVE Rank(were, old) = Rank(are, new)
  <2>1. Rank(rest, old) = Rank(rest, new)
    BY <1>5, RankGrows
  <2>2. Rank(were, old) = Rank(rest, old) /\ Rank(are, new) = Rank(rest, new)
    <3>1. were = rest \cup {old} /\ are = rest \cup {new}
      BY <1>5
    <3>2. ~Before(old, old) /\ ~Before(new, new)
      BY <1>5 DEF Before
    <3> QED BY <3>1, <3>2, RankWith
  <2> QED BY <2>1, <2>2
<1> QED BY <1>3, <1>4, <1>5 DEF KeepsPlaces

-----------------------------------------------------------------------------
(* Limits and pages. *)

LEMMA UsedLimitTypes ==
  ASSUME NEW limit \in Nat
  PROVE  /\ UsedLimit(limit) \in Nat \ {0} /\ MetaLimit(limit) \in Nat
         /\ This.limits # "free" => UsedLimit(limit) <= Cap
  BY ListingsConstants DEF UsedLimit, MetaLimit

LEMMA OffsetIs ==
  ASSUME NEW page \in Nat \ {0}, NEW limit \in Nat
  PROVE  /\ Offset(page, limit) \in Nat
         /\ Offset(1, limit) = 0
         /\ Offset(page + 1, limit) = Offset(page, limit) + UsedLimit(limit)
<1>1. PICK L \in Nat \ {0} : L = UsedLimit(limit)
  BY UsedLimitTypes
<1>2. Offset(page, limit) = (page - 1) * L /\ Offset(1, limit) = (1 - 1) * L
        /\ Offset(page + 1, limit) = (page + 1 - 1) * L
  BY <1>1 DEF Offset
<1>3. page - 1 \in Nat /\ page + 1 - 1 = page /\ 1 - 1 = 0
  OBVIOUS
<1>4. (page - 1) * L \in Nat /\ 0 * L = 0 /\ page * L = (page - 1) * L + L
  BY <1>1, <1>3
<1> QED BY <1>1, <1>2, <1>3, <1>4

\* As many pages as it takes, and never more than rows.
LEMMA PagesCover ==
  ASSUME NEW total \in Nat, NEW limit \in Nat \ {0}
  PROVE  /\ TotalPages(total, limit) \in Nat /\ TotalPages(total, limit) <= total
         /\ \A page \in Nat : page >= TotalPages(total, limit) => total <= page * limit
<1>1. PICK q \in Nat, m \in Nat : q = total \div limit /\ m = total % limit
                                    /\ total = limit * q + m /\ m < limit
  OBVIOUS
<1>2. TotalPages(total, limit) = q + IF m > 0 THEN 1 ELSE 0
  BY <1>1 DEF TotalPages
<1>3. limit * q >= q
  BY <1>1
<1>4. ASSUME NEW page \in Nat, page >= TotalPages(total, limit) PROVE total <= page * limit
  <2>1. CASE m = 0
    <3>1. page >= q
      BY <1>2, <1>4, <2>1
    <3>2. page * limit >= q * limit
      BY <3>1
    <3> QED BY <1>1, <2>1, <3>2
  <2>2. CASE m > 0
    <3>1. page >= q + 1
      BY <1>2, <1>4, <2>2
    <3>2. page * limit >= (q + 1) * limit
      BY <3>1
    <3>3. (q + 1) * limit = q * limit + limit
      OBVIOUS
    <3> QED BY <1>1, <2>2, <3>2, <3>3
  <2> QED BY <1>1, <2>1, <2>2
<1> QED BY <1>1, <1>2, <1>3, <1>4

\* What the proofs need to know of single listings.
LEMMA CategoryHasNoOrder == list = "category" => This.order = "none"
  BY DEF This, Listings, CategoryProducts, Listing

LEMMA MessagesComeOldestFirst ==
  list = "messages" => This.order = "oldest" /\ list \in Fixed /\ list \notin Unchecked
  BY DEF This, Listings, Messages, Owned, Listing, Fixed, Unchecked

-----------------------------------------------------------------------------
(* The invariant *)

Active == walk.pc \in {"ask", "counted"}

RowsOK ==
  /\ list \in DOMAIN Listings
  /\ rows \subseteq Row /\ IsFiniteSet(rows) /\ Cardinality(rows) <= MaxRows
  /\ \A r \in rows : r.id <= Cardinality(rows)
  /\ \A r, t \in rows : r.id = t.id => r = t
  /\ changes \in 0 .. MaxChanges
  /\ causes \subseteq {"pulled", "pushed", "tied", "uncounted"}

TimesOK == clock \in 1 .. MaxKey /\ stamps \in [Writers -> 0 .. clock]

WalkTypes ==
  walk \in [pc : {"idle", "ask", "counted", "done", "failed"}, asked : {walk.asked},
            page : 0 .. 2 * MaxRows, limit : (0 .. MaxLimit) \cup {Default},
            total : 0 .. 2 * MaxRows, ids : SUBSET (1 .. MaxRows), seen : Seq(1 .. MaxRows),
            since : 0 .. MaxKey, polls : BOOLEAN]

\* A poll asks for the first page of messages for ever, a walk begins with nothing.
WalkOK ==
  /\ walk.pc = "idle" => walk.seen = <<>> /\ walk.total = 0 /\ ~walk.polls /\ stayed = {}
  /\ Active => walk.page >= 1
  /\ walk.polls => list = "messages" /\ Active /\ walk.page = 1 /\ walk.limit = Default
  /\ ~walk.polls \/ walk.seen = <<>> => walk.since = 0
  /\ ~walk.polls /\ Active /\ walk.page = 1 => walk.seen = <<>>
  /\ ~walk.polls /\ walk.pc = "ask" =>
       (walk.page = 1 => walk.total = 0) /\ (walk.page > 1 => walk.total > 0)
  /\ This.limits # "free" /\ ~walk.polls =>
       Len(walk.seen) <= Cap * walk.page /\ (Active => Len(walk.seen) <= Cap * (walk.page - 1))

\* What history speaks of is there, and what stayed fits.
HistoryOK ==
  /\ Seen \subseteq Ids(rows) /\ stayed \subseteq Ids(rows)
  /\ \A r \in rows : r.id \in stayed => Fits(r.data)

\* A walk without ties is where it says it is: the rows that stayed are shown exactly if
\* they are among the first it has passed, but for those pulled or pushed over its place.
PlacesOK ==
  ~walk.polls /\ Active /\ This.order # "none" /\ "tied" \notin causes =>
    /\ "pulled" \notin causes => \A r \in Fitting :
         r.id \in stayed /\ Rank(Fitting, r) < Passed => r.id \in Seen
    /\ "pushed" \notin causes => \A r \in Fitting :
         r.id \in stayed /\ r.id \in Seen => Rank(Fitting, r) < Passed

\* Between a request's two statements no row is more than were counted.
CountOK ==
  ~walk.polls /\ walk.pc = "counted" /\ This.order # "none" /\ "uncounted" \notin causes =>
    Cardinality(Fitting) <= walk.total

EndOK ==
  /\ walk.pc = "done" /\ causes \cap {"pulled", "tied", "uncounted"} = {}
  /\ This.order # "none" /\ MetaLimit(walk.limit) = UsedLimit(walk.limit)
  => stayed \subseteq Seen

\* A poll has nothing newer than the time it goes on from, and of what is not newer it has
\* whatever stayed, or its time.
PollOK ==
  walk.polls => \A r \in rows :
    /\ r.id \in Seen => r.key <= walk.since
    /\ r.id \in stayed /\ r.key <= walk.since =>
         r.id \in Seen \/ \E t \in rows : t.id \in Seen /\ t.key = r.key

Inv ==
  /\ RowsOK /\ TimesOK /\ WalkTypes /\ WalkOK /\ HistoryOK
  /\ PlacesOK /\ CountOK /\ EndOK /\ PollOK /\ NothingRepeated

-----------------------------------------------------------------------------
(* What follows from it. *)

LEMMA RowTypes ==
  ASSUME RowsOK
  PROVE  /\ \A r \in rows : r.id \in 1 .. MaxRows /\ r.id \in Nat /\ r.key \in 1 .. MaxKey
                              /\ r.key \in Int
         /\ Fitting \in SUBSET rows /\ IsFiniteSet(Fitting) /\ Cardinality(Fitting) \in Nat
         /\ Cardinality(Fitting) <= MaxRows /\ Cardinality(rows) \in Nat
<1>1. \A r \in rows : r.id \in 1 .. MaxRows /\ r.key \in 1 .. MaxKey
  BY DEF RowsOK, Row
<1>2. Fitting \in SUBSET rows
  BY DEF Fitting
<1>3. /\ IsFiniteSet(Fitting) /\ Cardinality(Fitting) <= Cardinality(rows)
      /\ Cardinality(Fitting) \in Nat /\ Cardinality(rows) \in Nat
  BY <1>2, FS_Subset, FS_CardinalityType DEF RowsOK
<1>4. Cardinality(Fitting) <= MaxRows
  BY <1>3, ListingsConstants DEF RowsOK
<1> QED BY <1>1, <1>2, <1>3, <1>4, ListingsConstants

\* As many rows as identities.
LEMMA OneIdEach ==
  ASSUME RowsOK
  PROVE  Cardinality(Ids(rows)) = Cardinality(rows)
<1>1. PICK f : f = [r \in rows |-> r.id]
  OBVIOUS
<1>2. PICK I : I = Ids(rows)
  OBVIOUS
<1>3. f \in [rows -> I]
  BY <1>1, <1>2 DEF Ids
<1>4. \A r, t \in rows : f[r] = f[t] => r = t
  BY <1>1 DEF RowsOK
<1>5. \A x \in I : \E r \in rows : f[r] = x
  BY <1>1, <1>2 DEF Ids
<1>6. f \in Bijection(rows, I)
  BY <1>3, <1>4, <1>5 DEF Bijection, Injection, Surjection, IsInjective
<1> QED BY <1>2, <1>6, FS_Bijection DEF ExistsBijection, RowsOK

LEMMA WalkFields ==
  ASSUME WalkTypes
  PROVE  /\ walk = [pc |-> walk.pc, asked |-> walk.asked, page |-> walk.page,
                    limit |-> walk.limit, total |-> walk.total, ids |-> walk.ids,
                    seen |-> walk.seen, since |-> walk.since, polls |-> walk.polls]
         /\ walk.polls \in BOOLEAN /\ walk.page \in Nat /\ walk.limit \in Nat
         /\ walk.total \in Nat /\ walk.since \in Nat /\ walk.seen \in Seq(1 .. MaxRows)
<1>1. PICK w : w = walk
  OBVIOUS
<1>2. w = [pc |-> w.pc, asked |-> w.asked, page |-> w.page, limit |-> w.limit,
           total |-> w.total, ids |-> w.ids, seen |-> w.seen, since |-> w.since,
           polls |-> w.polls]
  BY <1>1 DEF WalkTypes
<1>3. /\ walk.polls \in BOOLEAN /\ walk.page \in 0 .. 2 * MaxRows
      /\ walk.limit \in (0 .. MaxLimit) \cup {Default} /\ walk.total \in 0 .. 2 * MaxRows
      /\ walk.since \in 0 .. MaxKey /\ walk.seen \in Seq(1 .. MaxRows)
  BY DEF WalkTypes
<1>4. /\ walk.page \in Nat /\ walk.limit \in Nat /\ walk.total \in Nat /\ walk.since \in Nat
  BY <1>3, ListingsConstants
<1> QED BY <1>1, <1>2, <1>3, <1>4

LEMMA SameList ==
  ASSUME list' = list
  PROVE  /\ This' = This
         /\ \A r, t : Before(r, t)' = Before(r, t)
         /\ \A set, r : Rank(set, r)' = Rank(set, r)
         /\ \A limit : UsedLimit(limit)' = UsedLimit(limit) /\ MetaLimit(limit)' = MetaLimit(limit)
         /\ \A page, limit : Offset(page, limit)' = Offset(page, limit)
  BY DEF This, Before, Rank, Ahead, UsedLimit, MetaLimit, Offset

LEMMA InvGives == Inv => TypeOK /\ NothingSkipped /\ NothingRepeated
<1> SUFFICES ASSUME Inv PROVE TypeOK /\ NothingSkipped
  BY DEF Inv
<1> USE DEF Inv
<1>1. Ids(rows) \subseteq 1 .. MaxRows
  BY RowTypes DEF Ids
<1>2. walk.total \in 0 .. 2 * MaxRows /\ walk.seen \in Seq(1 .. MaxRows)
  BY DEF WalkTypes
<1>3. TypeOK
  BY <1>1, <1>2, OneIdEach DEF TypeOK, RowsOK, TimesOK, WalkTypes, WalkOK, HistoryOK
<1>4. NothingSkipped
  BY DEF NothingSkipped, EndOK, PollOK
<1> QED BY <1>3, <1>4

LEMMA InitInv == Init => Inv
<1> SUFFICES ASSUME Init PROVE Inv
  OBVIOUS
<1>1. rows = {} /\ IsFiniteSet(rows) /\ Cardinality(rows) = 0
  BY FS_EmptySet DEF Init
<1>2. RowsOK /\ TimesOK
  BY <1>1, ListingsConstants DEF Init, RowsOK, TimesOK
<1>3. walk = NoWalk /\ walk.pc = "idle" /\ walk.seen = <<>> /\ walk.total = 0
        /\ walk.polls = FALSE /\ walk.since = 0 /\ walk.page = 0 /\ stayed = {}
  BY DEF Init, NoWalk
<1>4. WalkTypes
  BY <1>3, ListingsConstants DEF NoWalk, WalkTypes
<1>5. Seen = {} /\ Len(walk.seen) = 0
  BY <1>3 DEF Seen
<1>6. WalkOK /\ HistoryOK
  BY <1>1, <1>3, <1>5, ListingsConstants DEF WalkOK, HistoryOK, Active
<1>7. PlacesOK /\ CountOK /\ EndOK /\ PollOK /\ NothingRepeated
  BY <1>3, <1>5 DEF PlacesOK, CountOK, EndOK, PollOK, NothingRepeated, Active
<1> QED BY <1>2, <1>4, <1>6, <1>7 DEF Inv

-----------------------------------------------------------------------------
(* The client's steps. *)

LEMMA StartKeeps ==
  ASSUME Inv, walk.pc = "idle", NEW asked, NEW limit \in (0 .. MaxLimit) \cup {Default},
         NEW polls \in BOOLEAN, polls => list = "messages" /\ limit = Default,
         walk' = [pc |-> "ask", asked |-> asked, page |-> 1, limit |-> limit, total |-> 0,
                  ids |-> {}, seen |-> <<>>, since |-> 0, polls |-> polls],
         UNCHANGED <<list, rows, clock, stamps, changes, stayed, causes>>
  PROVE  Inv'
<1> USE DEF Inv
<1>1. /\ walk'.pc = "ask" /\ walk'.asked = asked /\ walk'.page = 1 /\ walk'.limit = limit
      /\ walk'.total = 0 /\ walk'.ids = {} /\ walk'.seen = <<>> /\ walk'.since = 0
      /\ walk'.polls = polls /\ stayed = {}
  BY DEF WalkOK
<1>2. RowsOK' /\ TimesOK'
  BY DEF RowsOK, TimesOK, Row, This
<1>3. WalkTypes'
  <2>1. /\ 1 \in 0 .. 2 * MaxRows /\ 0 \in 0 .. 2 * MaxRows /\ 0 \in 0 .. MaxKey
        /\ {} \in SUBSET (1 .. MaxRows) /\ <<>> \in Seq(1 .. MaxRows)
    BY ListingsConstants
  <2> QED BY <1>1, <2>1 DEF WalkTypes
<1>4. Seen' = {} /\ stayed' = {} /\ Len(walk'.seen) = 0
  BY <1>1 DEF Seen
<1>5. WalkOK' /\ HistoryOK'
  BY <1>1, <1>4, ListingsConstants DEF WalkOK, HistoryOK, Active
<1>6. PlacesOK' /\ CountOK' /\ EndOK' /\ NothingRepeated'
  BY <1>1, <1>4 DEF PlacesOK, CountOK, EndOK, NothingRepeated, Active
<1>7. PollOK'
  BY <1>4 DEF PollOK
<1> QED BY <1>2, <1>3, <1>5, <1>6, <1>7

LEMMA WalksStart ==
  ASSUME Inv, NEW l, NEW first, Start(l, first) PROVE Inv'
<1>1. PICK asked \in first, limit \in 0 .. MaxLimit :
        walk' = [NoWalk EXCEPT !.pc = "ask", !.asked = asked, !.page = 1, !.limit = limit]
  BY DEF Start
<1>2. walk' = [pc |-> "ask", asked |-> asked, page |-> 1, limit |-> limit, total |-> 0,
               ids |-> {}, seen |-> <<>>, since |-> 0, polls |-> FALSE]
  BY <1>1 DEF NoWalk
<1>3. walk.pc = "idle" /\ UNCHANGED <<list, rows, clock, stamps, changes, stayed, causes>>
  BY DEF Start
<1> QED BY <1>2, <1>3, StartKeeps

LEMMA PollsStart ==
  ASSUME Inv, PollMessages PROVE Inv'
<1>1. walk' = [pc |-> "ask", asked |-> "ours", page |-> 1, limit |-> Default, total |-> 0,
               ids |-> {}, seen |-> <<>>, since |-> 0, polls |-> TRUE]
  BY DEF PollMessages, NoWalk
<1>2. /\ walk.pc = "idle" /\ list = "messages"
      /\ UNCHANGED <<list, rows, clock, stamps, changes, stayed, causes>>
  BY DEF PollMessages
<1> QED BY <1>1, <1>2, StartKeeps

\* A request's first statement, with the total it tells.
LEMMA CountedKeeps ==
  ASSUME Inv, walk.pc = "ask", NEW total \in 0 .. 2 * MaxRows, NEW ids \in SUBSET (1 .. MaxRows),
         walk' = [walk EXCEPT !.pc = "counted", !.total = total, !.ids = ids],
         stayed' = IF First THEN Ids(Fitting) ELSE stayed,
         ~First => causes \ {"uncounted"} \subseteq causes',
         causes' \subseteq {"pulled", "pushed", "tied", "uncounted"},
         This.order # "none" /\ "uncounted" \notin causes' => Cardinality(Fitting) <= total,
         UNCHANGED <<list, rows, clock, stamps, changes>>
  PROVE  Inv'
<1> USE DEF Inv
<1>1. /\ walk' = [pc |-> "counted", asked |-> walk.asked, page |-> walk.page,
                  limit |-> walk.limit, total |-> total, ids |-> ids, seen |-> walk.seen,
                  since |-> walk.since, polls |-> walk.polls]
      /\ walk.polls \in BOOLEAN /\ walk.page \in Nat /\ walk.limit \in Nat
      /\ walk.since \in Nat /\ walk.seen \in Seq(1 .. MaxRows)
  <2>1. PICK w : w = walk
    OBVIOUS
  <2>2. w = [pc |-> w.pc, asked |-> w.asked, page |-> w.page, limit |-> w.limit,
             total |-> w.total, ids |-> w.ids, seen |-> w.seen, since |-> w.since,
             polls |-> w.polls]
    BY <2>1, WalkFields
  <2>3. walk' = [w EXCEPT !.pc = "counted", !.total = total, !.ids = ids]
    BY <2>1
  <2>4. walk' = [pc |-> "counted", asked |-> walk.asked, page |-> walk.page,
                 limit |-> walk.limit, total |-> total, ids |-> ids, seen |-> walk.seen,
                 since |-> walk.since, polls |-> walk.polls]
    BY <2>1, <2>2, <2>3
  <2> QED BY <2>4, WalkFields
<1>2. RowsOK' /\ TimesOK'
  BY DEF RowsOK, TimesOK, Row, This
<1>3. WalkTypes'
  BY <1>1 DEF WalkTypes
<1>4. Seen' = Seen /\ Fitting' = Fitting /\ This' = This
  BY <1>1 DEF Seen, Fitting, Fits, Newer, This
<1>5. ASSUME First
      PROVE  /\ walk.seen = <<>> /\ Seen = {} /\ walk.since = 0 /\ Len(walk.seen) = 0
             /\ ~walk.polls => walk.page = 1
  <2>1. walk.seen = <<>> /\ Seen = {} /\ walk.since = 0 /\ Len(walk.seen) = 0
    BY <1>5 DEF First, WalkOK, Seen
  <2>2. ~walk.polls => walk.page = 1
    BY <1>1, <1>5 DEF First, WalkOK, Active
  <2> QED BY <2>1, <2>2
<1>6. WalkOK'
  BY <1>1, <1>4 DEF WalkOK, Active
<1>7. HistoryOK'
  <2>1. stayed' \subseteq Ids(rows)
    BY RowTypes DEF Ids, HistoryOK
  <2>2. Ids(rows)' = Ids(rows)
    BY DEF Ids
  <2>3. \A r \in rows : r.id \in stayed' => Fits(r.data)
    <3> SUFFICES ASSUME NEW r \in rows, r.id \in stayed' PROVE Fits(r.data)
      OBVIOUS
    <3>1. CASE ~First
      BY <3>1 DEF HistoryOK
    <3>2. CASE First
      <4>1. PICK t \in Fitting : t.id = r.id
        BY <3>2 DEF Ids
      <4>2. t \in rows /\ Fits(t.data)
        BY <4>1 DEF Fitting
      <4> QED BY <4>1, <4>2 DEF RowsOK
    <3> QED BY <3>1, <3>2
  <2>4. \A r \in rows : Fits(r.data)' = Fits(r.data)
    BY <1>1, <1>4 DEF Fits
  <2> QED BY <1>4, <2>1, <2>2, <2>3, <2>4 DEF HistoryOK
<1>8. PlacesOK'
  <2>1. PICK N : N = Fitting
    OBVIOUS
  <2>2. PICK passed : passed = Passed
    OBVIOUS
  <2>3. Passed' = passed
    BY <1>1, <2>2, SameList DEF Passed
  <2>4. \A r : Rank(N, r)' = Rank(N, r) /\ Rank(N, r) \in Nat
    BY <2>1, RowTypes, RankTypes, SameList
  <2>5. CASE First
    <3>1. ~walk.polls => passed = 0
      BY <1>1, <1>5, <2>2, <2>5, OffsetIs DEF Passed
    <3> QED BY <1>1, <1>4, <1>5, <2>1, <2>3, <2>4, <2>5, <3>1 DEF PlacesOK
  <2>6. CASE ~First
    <3>1. /\ stayed' = stayed
          /\ "tied" \notin causes' => "tied" \notin causes
          /\ "pulled" \notin causes' => "pulled" \notin causes
          /\ "pushed" \notin causes' => "pushed" \notin causes
      BY <2>6
    <3>2. walk'.polls = walk.polls /\ Active' /\ Active
      BY <1>1 DEF Active
    <3>3. ASSUME ~walk'.polls, This.order # "none", "tied" \notin causes'
          PROVE  /\ "pulled" \notin causes' => \A r \in N :
                      r.id \in stayed /\ Rank(N, r) < passed => r.id \in Seen
                 /\ "pushed" \notin causes' => \A r \in N :
                      r.id \in stayed /\ r.id \in Seen => Rank(N, r) < passed
      BY <2>1, <2>2, <3>1, <3>2, <3>3 DEF PlacesOK
    <3> QED BY <1>4, <2>1, <2>3, <2>4, <3>1, <3>3 DEF PlacesOK
  <2> QED BY <2>5, <2>6
<1>9. CountOK' /\ EndOK'
  BY <1>1, <1>4 DEF CountOK, EndOK
<1>10. PollOK'
  <2>1. CASE First
    <3>1. \A r \in rows : ~(r.key <= walk.since)
      BY <1>5, <2>1, RowTypes
    <3> QED BY <1>1, <1>4, <1>5, <2>1, <3>1 DEF PollOK
  <2>2. CASE ~First
    BY <1>1, <1>4, <2>2 DEF PollOK
  <2> QED BY <2>1, <2>2
<1>11. NothingRepeated'
  <2>1. CASE First
    BY <1>1, <1>5, <2>1 DEF NothingRepeated
  <2>2. CASE ~First
    <3>1. /\ stayed' = stayed
          /\ causes \cap {"pushed", "tied"} # {} => causes' \cap {"pushed", "tied"} # {}
      BY <2>2
    <3> QED BY <1>1, <1>4, <3>1 DEF NothingRepeated
  <2> QED BY <2>1, <2>2
<1> QED BY <1>2, <1>3, <1>6, <1>7, <1>8, <1>9, <1>10, <1>11

LEMMA CountKeeps == ASSUME Inv, Count PROVE Inv'
<1> USE DEF Inv
<1>1. Links(rows) \in 0 .. 2 * MaxRows
  <2>1. PICK one : one = {r \in rows : r.data.links > 0}
    OBVIOUS
  <2>2. PICK two : two = {r \in rows : r.data.links > 1}
    OBVIOUS
  <2>3. one \in SUBSET rows /\ two \in SUBSET rows
    BY <2>1, <2>2
  <2>4. /\ Cardinality(one) \in Nat /\ Cardinality(one) <= Cardinality(rows)
        /\ Cardinality(two) \in Nat /\ Cardinality(two) <= Cardinality(rows)
    BY <2>3, FS_Subset, FS_CardinalityType DEF RowsOK
  <2>5. Links(rows) = Cardinality(one) + Cardinality(two)
    BY <2>1, <2>2 DEF Links
  <2> QED BY <2>4, <2>5, RowTypes, ListingsConstants DEF RowsOK
<1>2. Counted \in 0 .. 2 * MaxRows
  BY <1>1, RowTypes, ListingsConstants DEF Counted
<1>3. This.order # "none" => Counted = Cardinality(Fitting)
  BY CategoryHasNoOrder DEF Counted
<1>4. Ids(Fitting) \in SUBSET (1 .. MaxRows)
  BY RowTypes DEF Ids
<1>5. /\ walk.pc = "ask"
      /\ walk' = [walk EXCEPT !.pc = "counted", !.total = Counted, !.ids = Ids(Fitting)]
      /\ stayed' = IF First THEN Ids(Fitting) ELSE stayed
      /\ causes' = IF First THEN {} ELSE causes \ {"uncounted"}
      /\ UNCHANGED <<list, rows, clock, stamps, changes>>
  BY DEF Count
<1>6. /\ causes' \subseteq {"pulled", "pushed", "tied", "uncounted"}
      /\ ~First => causes \ {"uncounted"} \subseteq causes'
  BY <1>5 DEF RowsOK
<1>7. This.order # "none" => Cardinality(Fitting) <= Counted
  BY <1>3, RowTypes
<1>8. PICK total \in 0 .. 2 * MaxRows : total = Counted
  BY <1>2
<1>9. PICK ids \in SUBSET (1 .. MaxRows) : ids = Ids(Fitting)
  BY <1>4
<1> QED BY <1>5, <1>6, <1>7, <1>8, <1>9, CountedKeeps

LEMMA CountFailsKeeps == ASSUME Inv, CountFails PROVE Inv'
<1> USE DEF Inv
<1>1. PICK w : w = walk
  OBVIOUS
<1>2. w = [pc |-> w.pc, asked |-> w.asked, page |-> w.page, limit |-> w.limit,
           total |-> w.total, ids |-> w.ids, seen |-> w.seen, since |-> w.since,
           polls |-> w.polls]
  BY <1>1, WalkFields
<1>3. walk.pc = "ask" /\ walk' = [w EXCEPT !.pc = "counted", !.total = 0]
  BY <1>1 DEF CountFails
<1>4. [w EXCEPT !.pc = "counted", !.total = 0]
        = [w EXCEPT !.pc = "counted", !.total = 0, !.ids = w.ids]
  BY <1>2
<1>5. PICK ids \in SUBSET (1 .. MaxRows) : ids = walk.ids
  BY DEF WalkTypes
<1>6. walk' = [walk EXCEPT !.pc = "counted", !.total = 0, !.ids = ids]
  BY <1>1, <1>3, <1>4, <1>5
<1>7. /\ stayed' = IF First THEN Ids(Fitting) ELSE stayed
      /\ causes' = (IF First THEN {} ELSE causes) \cup {"uncounted"}
      /\ UNCHANGED <<list, rows, clock, stamps, changes>>
  BY DEF CountFails
<1>8. /\ causes' \subseteq {"pulled", "pushed", "tied", "uncounted"}
      /\ ~First => causes \ {"uncounted"} \subseteq causes'
      /\ "uncounted" \in causes'
  BY <1>7 DEF RowsOK
<1>9. 0 \in 0 .. 2 * MaxRows
  BY ListingsConstants
<1> QED BY <1>3, <1>6, <1>7, <1>8, <1>9, CountedKeeps

\* A page cut out of a sequence without repetitions has none, and starts where it is cut.
LEMMA CutOut ==
  ASSUME NEW S, NEW seq \in Seq(S), NEW offset \in Nat, NEW used \in Nat,
         \A i, j \in 1 .. Len(seq) : seq[i] = seq[j] => i = j,
         NEW page, page = PageOf(seq, offset, used)
  PROVE  /\ page \in Seq(S) /\ Len(page) \in Nat /\ Len(page) <= used
         /\ \A k \in 1 .. Len(page) :
              page[k] \in S /\ offset + k \in 1 .. Len(seq) /\ page[k] = seq[offset + k]
         /\ \A i \in 1 .. Len(seq) : offset < i /\ i <= offset + used =>
              \E k \in 1 .. Len(page) : page[k] = seq[i]
         /\ \A j, k \in 1 .. Len(page) : page[j] = page[k] => j = k
<1>1. /\ page \in Seq(S) /\ Len(page) \in Nat /\ Len(page) <= used
      /\ \A k \in 1 .. Len(page) : offset + k \in 1 .. Len(seq) /\ page[k] = seq[offset + k]
      /\ \A i \in 1 .. Len(seq) : offset < i /\ i <= offset + used =>
           i - offset \in 1 .. Len(page) /\ page[i - offset] = seq[i]
  BY PageIs
<1>2. \A k \in 1 .. Len(page) : page[k] \in S
  BY <1>1, ElementOfSeq
<1>3. ASSUME NEW j \in 1 .. Len(page), NEW k \in 1 .. Len(page), page[j] = page[k]
      PROVE  j = k
  <2>1. PICK m : m = offset + j
    OBVIOUS
  <2>2. PICK n : n = offset + k
    OBVIOUS
  <2>3. m \in 1 .. Len(seq) /\ n \in 1 .. Len(seq) /\ seq[m] = seq[n]
    BY <1>1, <1>3, <2>1, <2>2
  <2>4. m = n
    BY <2>3
  <2> QED BY <1>1, <2>1, <2>2, <2>4
<1> QED BY <1>1, <1>2, <1>3

LEMMA ReadableRows ==
  ASSUME RowsOK
  PROVE  /\ Readable \in SUBSET rows /\ IsFiniteSet(Readable)
         /\ \A r \in Readable : r.key \in Int
         /\ This.order # "none" => Readable = Fitting
<1>1. Readable \in SUBSET rows
  BY RowTypes DEF Readable
<1>2. IsFiniteSet(Readable)
  BY <1>1, FS_Subset DEF RowsOK
<1>3. This.order # "none" => Readable = Fitting
  BY CategoryHasNoOrder DEF Readable
<1> QED BY <1>1, <1>2, <1>3, RowTypes

\* The rows of the page a request reads, and their identities.
LEMMA PageRows ==
  ASSUME RowsOK, NEW seq \in Sorted(Readable), NEW offset \in Nat, NEW used \in Nat,
         NEW page, page = PageOf(seq, offset, used),
         NEW ids, ids = [i \in DOMAIN page |-> page[i].id]
  PROVE  /\ page \in Seq(Readable) /\ Len(page) \in Nat /\ Len(page) <= used
         /\ ids \in Seq(1 .. MaxRows) /\ Len(ids) = Len(page)
         /\ \A k \in 1 .. Len(page) :
              page[k] \in Readable /\ page[k] \in rows /\ ids[k] = page[k].id
         /\ \A j, k \in 1 .. Len(page) : ids[j] = ids[k] => j = k
<1>1. PICK S : S = Readable
  OBVIOUS
<1>2. /\ seq \in Seq(S)
      /\ \A i, j \in 1 .. Len(seq) : seq[i] = seq[j] => i = j
  <2>1. seq \in SetToSeqs(S) /\ IsFiniteSet(S)
    BY <1>1, ReadableRows DEF Sorted
  <2> QED BY <2>1, InOneOrder
<1>3. /\ page \in Seq(S) /\ Len(page) \in Nat /\ Len(page) <= used
      /\ \A k \in 1 .. Len(page) : page[k] \in S
      /\ \A j, k \in 1 .. Len(page) : page[j] = page[k] => j = k
  BY <1>2, CutOut
<1>4. \A k \in 1 .. Len(page) : page[k] \in rows /\ page[k].id \in 1 .. MaxRows
  BY <1>1, <1>3, ReadableRows, RowTypes
<1>5. PICK n \in Nat : n = Len(page)
  BY <1>3
<1>6. ids = [k \in 1 .. n |-> page[k].id]
  BY <1>3, <1>5, LenProperties
<1>7. \A k \in 1 .. n : page[k].id \in 1 .. MaxRows
  BY <1>4, <1>5
<1>8. ids \in Seq(1 .. MaxRows) /\ Len(ids) = n /\ \A k \in 1 .. n : ids[k] = page[k].id
  BY <1>6, <1>7
<1>9. ASSUME NEW j \in 1 .. Len(page), NEW k \in 1 .. Len(page), ids[j] = ids[k]
      PROVE  j = k
  <2>1. page[j] = page[k]
    BY <1>4, <1>5, <1>8, <1>9 DEF RowsOK
  <2> QED BY <1>3, <2>1
<1> QED BY <1>1, <1>3, <1>4, <1>5, <1>8, <1>9

\* In a listing with an order they are the next ones in it.
LEMMA PagePlaces ==
  ASSUME RowsOK, This.order # "none", NEW seq \in Sorted(Fitting), NEW offset \in Nat,
         NEW used \in Nat, NEW page, page = PageOf(seq, offset, used)
  PROVE  /\ \A j, k \in 1 .. Len(page) : j < k => ~Before(page[k], page[j])
         /\ \A r \in Fitting : (\A k \in 1 .. Len(page) : page[k] # r) =>
              offset > 0 \/ \A k \in 1 .. Len(page) : ~Before(r, page[k])
         /\ ~Tied(Fitting) =>
              /\ \A k \in 1 .. Len(page) : Rank(Fitting, page[k]) = offset + k - 1
              /\ \A r \in Fitting :
                   offset <= Rank(Fitting, r) /\ Rank(Fitting, r) < offset + used =>
                     \E k \in 1 .. Len(page) : page[k] = r
<1>1. PICK S : S = Fitting
  OBVIOUS
<1>2. /\ seq \in Seq(S) /\ Len(seq) \in Nat
      /\ \A i, j \in 1 .. Len(seq) : seq[i] = seq[j] => i = j
      /\ \A x \in S : \E i \in 1 .. Len(seq) : seq[i] = x
  <2>1. seq \in SetToSeqs(S) /\ IsFiniteSet(S)
    BY <1>1, RowTypes DEF Sorted
  <2> QED BY <2>1, InOneOrder
<1>3. /\ page \in Seq(S) /\ Len(page) \in Nat /\ Len(page) <= used
      /\ \A k \in 1 .. Len(page) :
           page[k] \in S /\ offset + k \in 1 .. Len(seq) /\ page[k] = seq[offset + k]
      /\ \A i \in 1 .. Len(seq) : offset < i /\ i <= offset + used =>
           \E k \in 1 .. Len(page) : page[k] = seq[i]
      /\ \A j, k \in 1 .. Len(page) : page[j] = page[k] => j = k
  <2>1. seq \in Seq(S) /\ \A i, j \in 1 .. Len(seq) : seq[i] = seq[j] => i = j
    BY <1>2
  <2> HIDE <1>2
  <2> QED BY <2>1, CutOut
<1>4. \A i, j \in 1 .. Len(seq) : i < j => ~Before(seq[j], seq[i])
  BY DEF Sorted
<1>5. ASSUME NEW j \in 1 .. Len(page), NEW k \in 1 .. Len(page), j < k
      PROVE  ~Before(page[k], page[j])
  <2>1. PICK m \in 1 .. Len(seq) : m = offset + j /\ page[j] = seq[m]
    BY <1>3
  <2>2. PICK n \in 1 .. Len(seq) : n = offset + k /\ page[k] = seq[n]
    BY <1>3
  <2>3. m < n
    BY <1>3, <1>5, <2>1, <2>2
  <2> QED BY <1>4, <2>1, <2>2, <2>3
<1>6. ASSUME NEW r \in S, \A k \in 1 .. Len(page) : page[k] # r, offset = 0,
             NEW k \in 1 .. Len(page)
      PROVE  ~Before(r, page[k])
  <2>1. PICK i \in 1 .. Len(seq) : seq[i] = r
    BY <1>2
  <2>2. ~(offset < i /\ i <= offset + used)
    BY <1>3, <1>6, <2>1
  <2>3. used < i
    BY <1>2, <1>6, <2>2
  <2>4. PICK m \in 1 .. Len(seq) : m = offset + k /\ page[k] = seq[m]
    BY <1>3
  <2>5. m < i
    BY <1>2, <1>3, <1>6, <2>3, <2>4
  <2> QED BY <1>4, <2>1, <2>4, <2>5
<1>7. ASSUME ~Tied(S)
      PROVE  /\ \A k \in 1 .. Len(page) : Rank(S, page[k]) = offset + k - 1
             /\ \A r \in S : offset <= Rank(S, r) /\ Rank(S, r) < offset + used =>
                  \E k \in 1 .. Len(page) : page[k] = r
  <2>1. \A i \in 1 .. Len(seq) : Rank(S, seq[i]) = i - 1
    <3>1. IsFiniteSet(S) /\ \A r \in S : r.key \in Int
      BY <1>1, RowTypes
    <3> QED BY <1>1, <1>7, <3>1, PlaceIsRank
  <2>2. ASSUME NEW k \in 1 .. Len(page) PROVE Rank(S, page[k]) = offset + k - 1
    <3>1. PICK m \in 1 .. Len(seq) : m = offset + k /\ page[k] = seq[m]
      BY <1>3
    <3> QED BY <2>1, <3>1
  <2>3. ASSUME NEW r \in S, offset <= Rank(S, r), Rank(S, r) < offset + used
        PROVE  \E k \in 1 .. Len(page) : page[k] = r
    <3>1. PICK i \in 1 .. Len(seq) : seq[i] = r
      BY <1>2
    <3>2. Rank(S, r) = i - 1
      BY <2>1, <3>1
    <3>3. offset < i /\ i <= offset + used
      BY <1>2, <2>3, <3>2
    <3> QED BY <1>3, <3>1, <3>3
  <2> QED BY <2>2, <2>3
<1>8. offset > 0 \/ offset = 0
  OBVIOUS
<1> QED BY <1>1, <1>5, <1>6, <1>7, <1>8

Elements(seq) == {seq[i] : i \in 1 .. Len(seq)}

LEMMA Joined ==
  ASSUME NEW S, NEW s \in Seq(S), NEW t \in Seq(S), NEW u, u = s \o t
  PROVE  u \in Seq(S) /\ Len(u) = Len(s) + Len(t)
  BY ConcatProperties

TwiceIn(seq, x) == \E a, b \in 1 .. Len(seq) : a # b /\ seq[a] = x /\ seq[b] = x

InBoth(s, t, x) == \E a \in 1 .. Len(s), b \in 1 .. Len(t) : s[a] = x /\ t[b] = x

\* What is twice in two sequences joined.
LEMMA JoinedTwice ==
  ASSUME NEW S, NEW s \in Seq(S), NEW t \in Seq(S), NEW u, u = s \o t,
         NEW i \in 1 .. Len(u), NEW j \in 1 .. Len(u), i # j, u[i] = u[j]
  PROVE  TwiceIn(s, u[i]) \/ TwiceIn(t, u[i]) \/ InBoth(s, t, u[i])
<1>1. Len(s) \in Nat /\ Len(t) \in Nat
  BY LenProperties
<1>2. /\ u \in Seq(S) /\ Len(u) = Len(s) + Len(t)
      /\ \A k \in 1 .. Len(s) + Len(t) : u[k] = IF k <= Len(s) THEN s[k] ELSE t[k - Len(s)]
  BY ConcatProperties
<1>3. ASSUME NEW k \in 1 .. Len(u)
      PROVE  \/ k \in 1 .. Len(s) /\ u[k] = s[k]
             \/ k - Len(s) \in 1 .. Len(t) /\ u[k] = t[k - Len(s)]
  BY <1>1, <1>2
<1>4. CASE i \in 1 .. Len(s) /\ u[i] = s[i] /\ j \in 1 .. Len(s) /\ u[j] = s[j]
  BY <1>4 DEF TwiceIn
<1>5. CASE i \in 1 .. Len(s) /\ u[i] = s[i] /\ j - Len(s) \in 1 .. Len(t)
             /\ u[j] = t[j - Len(s)]
  BY <1>5 DEF InBoth
<1>6. CASE j \in 1 .. Len(s) /\ u[j] = s[j] /\ i - Len(s) \in 1 .. Len(t)
             /\ u[i] = t[i - Len(s)]
  BY <1>6 DEF InBoth
<1>7. CASE i - Len(s) \in 1 .. Len(t) /\ u[i] = t[i - Len(s)]
             /\ j - Len(s) \in 1 .. Len(t) /\ u[j] = t[j - Len(s)]
  <2>1. i - Len(s) # j - Len(s)
    BY <1>1, <1>2
  <2> QED BY <1>7, <2>1 DEF TwiceIn
<1> QED BY <1>3, <1>4, <1>5, <1>6, <1>7

LEMMA ShownWith ==
  ASSUME NEW s \in Seq(1 .. MaxRows), NEW t \in Seq(1 .. MaxRows), NEW u, u = s \o t
  PROVE  u \in Seq(1 .. MaxRows) /\ Elements(u) = Elements(s) \cup Elements(t)
<1>1. Len(s) \in Nat /\ Len(t) \in Nat
  BY LenProperties
<1>2. /\ u \in Seq(1 .. MaxRows) /\ Len(u) = Len(s) + Len(t)
      /\ \A i \in 1 .. Len(s) + Len(t) : u[i] = IF i <= Len(s) THEN s[i] ELSE t[i - Len(s)]
  BY ConcatProperties
<1>3. ASSUME NEW i \in 1 .. Len(u)
      PROVE  \/ i \in 1 .. Len(s) /\ u[i] = s[i]
             \/ i - Len(s) \in 1 .. Len(t) /\ u[i] = t[i - Len(s)]
  BY <1>1, <1>2
<1>4. \A a \in 1 .. Len(s) : a \in 1 .. Len(u) /\ u[a] = s[a]
  BY <1>1, <1>2
<1>5. ASSUME NEW b \in 1 .. Len(t) PROVE \E i \in 1 .. Len(u) : u[i] = t[b]
  <2>1. b + Len(s) \in 1 .. Len(u) /\ ~(b + Len(s) <= Len(s)) /\ b + Len(s) - Len(s) = b
    BY <1>1, <1>2
  <2> QED BY <1>2, <2>1
<1>6. ASSUME NEW x PROVE x \in Elements(u) <=> x \in Elements(s) \/ x \in Elements(t)
  <2>1. ASSUME x \in Elements(u) PROVE x \in Elements(s) \/ x \in Elements(t)
    BY <1>3, <2>1 DEF Elements
  <2>2. ASSUME x \in Elements(s) PROVE x \in Elements(u)
    BY <1>4, <2>2 DEF Elements
  <2>3. ASSUME x \in Elements(t) PROVE x \in Elements(u)
    BY <1>5, <2>3 DEF Elements
  <2> QED BY <2>1, <2>2, <2>3
<1> QED BY <1>2, <1>6

\* The four ways a request ends.
LEMMA AnswerIs ==
  ASSUME WalkTypes, NEW page, NEW ids, ids = [i \in DOMAIN page |-> page[i].id],
         NEW joined, joined = walk.seen \o ids, NEW w, w = Answered(page),
         NEW meta, meta = MetaLimit(walk.limit)
  PROVE  \/ /\ meta = 0
            /\ w = [pc |-> "failed", asked |-> walk.asked, page |-> walk.page,
                    limit |-> walk.limit, total |-> walk.total, ids |-> walk.ids,
                    seen |-> walk.seen, since |-> walk.since, polls |-> walk.polls]
         \/ /\ meta # 0 /\ walk.polls
            /\ w = [pc |-> "ask", asked |-> walk.asked, page |-> walk.page,
                    limit |-> walk.limit, total |-> walk.total, ids |-> walk.ids,
                    seen |-> joined, since |-> LastKey(page), polls |-> walk.polls]
         \/ /\ meta # 0 /\ ~walk.polls /\ walk.page >= TotalPages(walk.total, meta)
            /\ w = [pc |-> "done", asked |-> walk.asked, page |-> walk.page,
                    limit |-> walk.limit, total |-> walk.total, ids |-> walk.ids,
                    seen |-> joined, since |-> walk.since, polls |-> walk.polls]
         \/ /\ meta # 0 /\ ~walk.polls /\ ~(walk.page >= TotalPages(walk.total, meta))
            /\ w = [pc |-> "ask", asked |-> walk.asked, page |-> walk.page + 1,
                    limit |-> walk.limit, total |-> walk.total, ids |-> walk.ids,
                    seen |-> joined, since |-> walk.since, polls |-> walk.polls]
<1>1. PICK v : v = walk
  OBVIOUS
<1>2. v = [pc |-> v.pc, asked |-> v.asked, page |-> v.page, limit |-> v.limit,
           total |-> v.total, ids |-> v.ids, seen |-> v.seen, since |-> v.since,
           polls |-> v.polls]
  BY <1>1, WalkFields
<1>3. PICK next : next = [v EXCEPT !.seen = @ \o ids]
  OBVIOUS
<1>4. next = [pc |-> v.pc, asked |-> v.asked, page |-> v.page, limit |-> v.limit,
              total |-> v.total, ids |-> v.ids, seen |-> joined, since |-> v.since,
              polls |-> v.polls]
  BY <1>1, <1>2, <1>3
<1>5. w = IF meta = 0 THEN [v EXCEPT !.pc = "failed"]
          ELSE IF walk.polls THEN [next EXCEPT !.pc = "ask", !.since = LastKey(page)]
          ELSE IF walk.page >= TotalPages(walk.total, meta) THEN [next EXCEPT !.pc = "done"]
          ELSE [next EXCEPT !.pc = "ask", !.page = @ + 1]
  BY <1>1, <1>3 DEF Answered
<1>6. CASE meta = 0
  <2>1. w = [v EXCEPT !.pc = "failed"]
    BY <1>5, <1>6
  <2>2. w = [pc |-> "failed", asked |-> v.asked, page |-> v.page, limit |-> v.limit,
             total |-> v.total, ids |-> v.ids, seen |-> v.seen, since |-> v.since,
             polls |-> v.polls]
    BY <1>2, <2>1
  <2> QED BY <1>1, <1>6, <2>2
<1>7. CASE meta # 0 /\ walk.polls
  <2>1. w = [next EXCEPT !.pc = "ask", !.since = LastKey(page)]
    BY <1>5, <1>7
  <2>2. w = [pc |-> "ask", asked |-> v.asked, page |-> v.page, limit |-> v.limit,
             total |-> v.total, ids |-> v.ids, seen |-> joined, since |-> LastKey(page),
             polls |-> v.polls]
    BY <1>4, <2>1
  <2> QED BY <1>1, <1>7, <2>2
<1>8. CASE meta # 0 /\ ~walk.polls /\ walk.page >= TotalPages(walk.total, meta)
  <2>1. w = [next EXCEPT !.pc = "done"]
    BY <1>5, <1>8
  <2>2. w = [pc |-> "done", asked |-> v.asked, page |-> v.page, limit |-> v.limit,
             total |-> v.total, ids |-> v.ids, seen |-> joined, since |-> v.since,
             polls |-> v.polls]
    BY <1>4, <2>1
  <2> QED BY <1>1, <1>8, <2>2
<1>9. CASE meta # 0 /\ ~walk.polls /\ ~(walk.page >= TotalPages(walk.total, meta))
  <2>1. w = [next EXCEPT !.pc = "ask", !.page = @ + 1]
    BY <1>5, <1>9
  <2>2. w = [pc |-> "ask", asked |-> v.asked, page |-> v.page + 1, limit |-> v.limit,
             total |-> v.total, ids |-> v.ids, seen |-> joined, since |-> v.since,
             polls |-> v.polls]
    BY <1>4, <2>1
  <2> QED BY <1>1, <1>9, <2>2
<1> QED BY <1>6, <1>7, <1>8, <1>9

-----------------------------------------------------------------------------
(* What a page adds to what was shown. *)

\* The page has rows the request may read, each once.
HasRows(page, ids) ==
  /\ page \in Seq(Readable) /\ Len(page) \in Nat
  /\ ids \in Seq(1 .. MaxRows) /\ Len(ids) = Len(page)
  /\ \A k \in 1 .. Len(page) :
       page[k] \in Readable /\ page[k] \in rows /\ ids[k] = page[k].id
  /\ \A j, k \in 1 .. Len(page) : ids[j] = ids[k] => j = k

\* It has those that come next in the order of the listing.
InPlace(page, offset, used) ==
  /\ Readable = Fitting
  /\ \A j, k \in 1 .. Len(page) : j < k => ~Before(page[k], page[j])
  /\ \A r \in Fitting : (\A k \in 1 .. Len(page) : page[k] # r) =>
       offset > 0 \/ \A k \in 1 .. Len(page) : ~Before(r, page[k])
  /\ ~Tied(Fitting) =>
       /\ \A k \in 1 .. Len(page) : Rank(Fitting, page[k]) = offset + k - 1
       /\ \A r \in Fitting :
            offset <= Rank(Fitting, r) /\ Rank(Fitting, r) < offset + used =>
              \E k \in 1 .. Len(page) : page[k] = r

LEMMA PageIsThere ==
  ASSUME RowsOK, NEW seq \in Sorted(Readable), NEW offset \in Nat, NEW used \in Nat,
         NEW page, page = PageOf(seq, offset, used),
         NEW ids, ids = [i \in DOMAIN page |-> page[i].id]
  PROVE  /\ HasRows(page, ids) /\ Len(page) <= used
         /\ This.order # "none" => InPlace(page, offset, used)
<1>1. HasRows(page, ids) /\ Len(page) <= used
  BY PageRows DEF HasRows
<1>2. ASSUME This.order # "none" PROVE InPlace(page, offset, used)
  <2>1. Readable = Fitting /\ seq \in Sorted(Fitting)
    BY <1>2, ReadableRows
  <2> QED BY <1>2, <2>1, PagePlaces DEF InPlace
<1> QED BY <1>1, <1>2

\* Without ties, a page shows those that stayed and have the next places, and no other
\* that stayed.
LEMMA PageMovesOn ==
  ASSUME RowsOK, PlacesOK, walk.pc = "counted", ~walk.polls, This.order # "none",
         "tied" \notin causes, ~Tied(Readable),
         NEW page, NEW ids, HasRows(page, ids), NEW offset \in Nat, NEW used \in Nat,
         Len(page) <= used, InPlace(page, offset, used), offset = Passed,
         NEW shown, shown = Seen \cup Elements(ids)
  PROVE  /\ "pulled" \notin causes => \A r \in Fitting :
              r.id \in stayed /\ Rank(Fitting, r) < offset + used => r.id \in shown
         /\ "pushed" \notin causes => \A r \in Fitting :
              r.id \in stayed /\ r.id \in shown => Rank(Fitting, r) < offset + used
<1>1. PICK F : F = Fitting
  OBVIOUS
<1>2. /\ \A k \in 1 .. Len(page) : Rank(F, page[k]) = offset + k - 1
      /\ \A r \in F : offset <= Rank(F, r) /\ Rank(F, r) < offset + used =>
           \E k \in 1 .. Len(page) : page[k] = r
  BY <1>1 DEF InPlace
<1>3. \A r \in F : r \in rows /\ Rank(F, r) \in Nat
  BY <1>1, RowTypes, RankTypes
<1>4. /\ Len(page) \in Nat /\ Len(ids) = Len(page)
      /\ \A k \in 1 .. Len(page) : page[k] \in rows /\ ids[k] = page[k].id
  BY DEF HasRows
<1>5. /\ "pulled" \notin causes => \A r \in F :
           r.id \in stayed /\ Rank(F, r) < offset => r.id \in Seen
      /\ "pushed" \notin causes => \A r \in F :
           r.id \in stayed /\ r.id \in Seen => Rank(F, r) < offset
  BY <1>1 DEF PlacesOK, Active
<1>6. ASSUME "pulled" \notin causes, NEW r \in F, r.id \in stayed, Rank(F, r) < offset + used
      PROVE  r.id \in shown
  <2>1. CASE Rank(F, r) < offset
    BY <1>5, <1>6, <2>1
  <2>2. CASE ~(Rank(F, r) < offset)
    <3>1. PICK k \in 1 .. Len(page) : page[k] = r
      BY <1>2, <1>3, <1>6, <2>2
    <3> QED BY <1>4, <3>1 DEF Elements
  <2> QED BY <2>1, <2>2
<1>7. ASSUME "pushed" \notin causes, NEW r \in F, r.id \in stayed, r.id \in shown
      PROVE  Rank(F, r) < offset + used
  <2>1. CASE r.id \in Seen
    BY <1>3, <1>5, <1>7, <2>1
  <2>2. CASE r.id \notin Seen
    <3>1. PICK k \in 1 .. Len(page) : ids[k] = r.id
      BY <1>4, <1>7, <2>2 DEF Elements
    <3>2. page[k] = r
      BY <1>3, <1>4, <3>1 DEF RowsOK
    <3>3. Rank(F, r) = offset + k - 1
      BY <1>2, <3>2
    <3> QED BY <1>4, <3>3
  <2> QED BY <2>1, <2>2
<1> QED BY <1>1, <1>6, <1>7

\* What is noted of the table, with what this page finds.
NotedWith(after) == causes \subseteq after /\ ("tied" \notin after => ~Tied(Readable))

\* What NothingRepeated says of what was shown and what is noted.
RepeatsFew(seq, after) ==
  \A i, j \in 1 .. Len(seq) :
    i # j /\ seq[i] = seq[j] =>
      \/ ~walk.polls /\ seq[i] \notin stayed
      \/ ~walk.polls /\ (This.order = "none" \/ "pushed" \in after \/ "tied" \in after)

\* A page repeats, of what was shown, only what NothingRepeated says it may.
LEMMA PageRepeats ==
  ASSUME Inv, walk.pc = "counted",
         NEW page, NEW ids, HasRows(page, ids), NEW offset \in Nat, NEW used,
         This.order # "none" => InPlace(page, offset, used), offset = Passed,
         NEW joined, joined = walk.seen \o ids,
         NEW after, NotedWith(after)
  PROVE  RepeatsFew(joined, after)
<1> SUFFICES ASSUME NEW i \in 1 .. Len(joined), NEW j \in 1 .. Len(joined), i # j,
                    joined[i] = joined[j],
                    walk.polls \/ joined[i] \in stayed,
                    walk.polls \/ (This.order # "none" /\ "pushed" \notin after
                                     /\ "tied" \notin after)
             PROVE  FALSE
  BY DEF RepeatsFew
<1>1. RowsOK /\ PlacesOK /\ WalkTypes /\ PollOK /\ NothingRepeated /\ WalkOK
  BY DEF Inv
<1> HIDE DEF Inv
<1>2. This.order # "none"
  BY <1>1, MessagesComeOldestFirst DEF WalkOK
<1>3. /\ ids \in Seq(1 .. MaxRows) /\ Len(ids) = Len(page)
      /\ \A k \in 1 .. Len(page) :
           page[k] \in Fitting /\ page[k] \in rows /\ ids[k] = page[k].id
      /\ \A a, b \in 1 .. Len(ids) : ids[a] = ids[b] => a = b
  BY <1>2 DEF HasRows, InPlace
<1>4. walk.seen \in Seq(1 .. MaxRows)
  BY <1>1, WalkFields
<1>5. TwiceIn(walk.seen, joined[i]) \/ TwiceIn(ids, joined[i]) \/ InBoth(walk.seen, ids, joined[i])
  <2>1. PICK s : s = walk.seen
    OBVIOUS
  <2>2. PICK S : S = 1 .. MaxRows
    OBVIOUS
  <2>3. s \in Seq(S) /\ ids \in Seq(S) /\ joined = s \o ids
    BY <1>3, <1>4, <2>1, <2>2
  <2>4. TwiceIn(s, joined[i]) \/ TwiceIn(ids, joined[i]) \/ InBoth(s, ids, joined[i])
    BY <2>3, JoinedTwice
  <2> QED BY <2>1, <2>4
<1>6. ASSUME NEW a \in 1 .. Len(walk.seen), NEW b \in 1 .. Len(walk.seen), a # b,
             walk.seen[a] = walk.seen[b], joined[i] = walk.seen[a]
      PROVE  FALSE
  <2>1. \/ ~walk.polls /\ walk.seen[a] \notin stayed
        \/ ~walk.polls /\ (This.order = "none" \/ causes \cap {"pushed", "tied"} # {})
    BY <1>1, <1>6 DEF NothingRepeated
  <2> QED BY <1>6, <2>1 DEF NotedWith
<1>7. ASSUME NEW a \in 1 .. Len(walk.seen), NEW b \in 1 .. Len(ids),
             walk.seen[a] = ids[b], joined[i] = walk.seen[a]
      PROVE  FALSE
  <2>1. b \in 1 .. Len(page) /\ page[b] \in Fitting /\ page[b] \in rows /\ page[b].id \in Seen
    BY <1>3, <1>7 DEF Seen
  <2>2. CASE walk.polls
    <3>1. page[b].key <= walk.since /\ page[b].key > walk.since
      BY <1>1, <2>1, <2>2 DEF PollOK, Fitting, Newer
    <3>2. walk.since \in Int /\ page[b].key \in Int
      BY <1>1, <2>1, RowTypes, WalkFields
    <3> QED BY <3>1, <3>2
  <2>3. CASE ~walk.polls
    <3>1. page[b].id \in stayed /\ "pushed" \notin causes /\ "tied" \notin causes
            /\ ~Tied(Readable)
      BY <1>3, <1>7, <2>1, <2>3 DEF NotedWith
    <3>2. Rank(Fitting, page[b]) < offset
      BY <1>1, <1>2, <2>1, <2>3, <3>1 DEF PlacesOK, Active
    <3>3. PICK rank : rank = Rank(Fitting, page[b])
      OBVIOUS
    <3>4. rank = offset + b - 1 /\ rank < offset
      BY <1>2, <2>1, <3>1, <3>2, <3>3 DEF InPlace
    <3>5. b \in Nat /\ b >= 1
      BY <2>1
    <3> QED BY <3>4, <3>5
  <2> QED BY <2>2, <2>3
<1> QED BY <1>3, <1>5, <1>6, <1>7 DEF TwiceIn, InBoth

-----------------------------------------------------------------------------
(* The four ways a request ends keep the invariant. *)

LEMMA AfterPage ==
  ASSUME Inv, UNCHANGED <<list, rows, clock, stamps, changes, stayed>>,
         walk'.pc # "counted", walk'.polls = walk.polls, walk'.asked = walk.asked,
         causes' \subseteq {"pulled", "pushed", "tied", "uncounted"},
         Seen' \subseteq Ids(rows)
  PROVE  RowsOK' /\ TimesOK' /\ HistoryOK' /\ CountOK' /\ This' = This
<1>1. RowsOK /\ TimesOK /\ HistoryOK
  BY DEF Inv
<1>2. This' = This
  BY DEF This
<1>3. RowsOK' /\ TimesOK'
  BY <1>1, <1>2 DEF RowsOK, TimesOK, Row
<1>4. HistoryOK'
  BY <1>1, <1>2 DEF HistoryOK, Ids, Fits
<1>5. CountOK'
  BY DEF CountOK
<1> QED BY <1>2, <1>3, <1>4, <1>5

LEMMA ReadFails ==
  ASSUME Inv, ~walk.polls, UNCHANGED <<list, rows, clock, stamps, changes, stayed>>,
         walk' = [pc |-> "failed", asked |-> walk.asked, page |-> walk.page,
                  limit |-> walk.limit, total |-> walk.total, ids |-> walk.ids,
                  seen |-> walk.seen, since |-> walk.since, polls |-> walk.polls],
         causes' \subseteq {"pulled", "pushed", "tied", "uncounted"}, causes \subseteq causes'
  PROVE  Inv'
<1>1. WalkTypes /\ WalkOK /\ HistoryOK /\ NothingRepeated
  BY DEF Inv
<1>2. /\ walk.page \in 0 .. 2 * MaxRows /\ walk.seen \in Seq(1 .. MaxRows)
      /\ walk.since \in 0 .. MaxKey
  BY <1>1 DEF WalkTypes
<1>3. /\ walk'.pc = "failed" /\ walk'.page = walk.page /\ walk'.seen = walk.seen
      /\ walk'.since = walk.since /\ walk'.polls = walk.polls /\ walk'.asked = walk.asked
      /\ walk'.limit = walk.limit /\ walk'.total = walk.total /\ walk'.ids = walk.ids
  OBVIOUS
<1>4. WalkTypes' /\ Seen' \subseteq Ids(rows)
  BY <1>1, <1>3 DEF WalkTypes, Seen, HistoryOK
<1>5. RowsOK' /\ TimesOK' /\ WalkTypes' /\ HistoryOK' /\ CountOK' /\ This' = This
  BY <1>3, <1>4, AfterPage
<1>6. ~walk.polls
  OBVIOUS
<1>7. WalkOK'
  BY <1>1, <1>3, <1>5, <1>6 DEF WalkOK, Active
<1>8. PlacesOK' /\ EndOK' /\ PollOK'
  BY <1>3, <1>6 DEF PlacesOK, EndOK, PollOK, Active
<1>9. NothingRepeated'
  BY <1>1, <1>3, <1>5 DEF NothingRepeated
<1> QED BY <1>5, <1>7, <1>8, <1>9 DEF Inv

LEMMA PollReads ==
  ASSUME Inv, walk.pc = "counted", UNCHANGED <<list, rows, clock, stamps, changes, stayed>>,
         walk.polls, NEW page, NEW ids, HasRows(page, ids), NEW used, InPlace(page, 0, used),
         NEW joined \in Seq(1 .. MaxRows), joined = walk.seen \o ids,
         NEW shown, shown = Elements(joined), shown \subseteq Ids(rows),
         shown = Seen \cup Elements(ids),
         walk' = [pc |-> "ask", asked |-> walk.asked, page |-> walk.page,
                  limit |-> walk.limit, total |-> walk.total, ids |-> walk.ids,
                  seen |-> joined, since |-> LastKey(page), polls |-> walk.polls],
         causes' \subseteq {"pulled", "pushed", "tied", "uncounted"}, causes \subseteq causes',
         NothingRepeated'
  PROVE  Inv'
<1>1. RowsOK /\ WalkTypes /\ WalkOK /\ HistoryOK /\ PollOK
  BY DEF Inv
<1>2. PICK since : since = LastKey(page)
  OBVIOUS
<1>3. /\ page \in Seq(Readable) /\ Len(page) \in Nat /\ Len(ids) = Len(page)
      /\ ids \in Seq(1 .. MaxRows)
      /\ \A k \in 1 .. Len(page) : page[k] \in Fitting /\ page[k] \in rows /\ ids[k] = page[k].id
  BY DEF HasRows, InPlace
<1>4. walk.since \in 0 .. MaxKey /\ walk.seen \in Seq(1 .. MaxRows)
        /\ walk.page \in 0 .. 2 * MaxRows
  BY <1>1 DEF WalkTypes
<1>5. Len(page) = 0 => since = walk.since
  BY <1>2, <1>3, EmptySeq DEF LastKey
<1>6. Len(page) # 0 => since = page[Len(page)].key
  BY <1>2, <1>3 DEF LastKey, Last
<1>7. /\ since \in 0 .. MaxKey /\ since >= walk.since
      /\ \A k \in 1 .. Len(page) : page[k].key <= since /\ page[k].key > walk.since
  <2>1. \A k \in 1 .. Len(page) : page[k].key \in 1 .. MaxKey /\ page[k].key > walk.since
    BY <1>1, <1>3, RowTypes DEF Fitting, Newer
  <2>2. CASE Len(page) = 0
    BY <1>4, <1>5, <2>2
  <2>3. CASE Len(page) # 0
    <3>1. PICK n \in 1 .. Len(page) : n = Len(page) /\ since = page[n].key
      BY <1>3, <1>6, <2>3
    <3>2. ASSUME NEW k \in 1 .. Len(page) PROVE page[k].key <= since
      <4>1. CASE k = n
        BY <2>1, <3>1, <4>1
      <4>2. CASE k # n
        <5>1. k < n
          BY <1>3, <3>1, <4>2
        <5>2. ~Before(page[n], page[k])
          BY <5>1 DEF InPlace
        <5>3. ~(page[n].key < page[k].key)
          BY <1>1, <5>2, MessagesComeOldestFirst DEF WalkOK, Before
        <5> QED BY <2>1, <3>1, <5>3
      <4> QED BY <4>1, <4>2
    <3> QED BY <1>4, <2>1, <3>1, <3>2, ListingsConstants
  <2> QED BY <2>2, <2>3
<1>8. /\ RowsOK' /\ TimesOK' /\ WalkTypes' /\ HistoryOK' /\ CountOK' /\ This' = This
      /\ Seen' = shown
      /\ walk'.pc = "ask" /\ walk'.page = walk.page /\ walk'.limit = walk.limit
      /\ walk'.seen = joined /\ walk'.since = since /\ walk'.polls = walk.polls
  <2>1. /\ walk' = [pc |-> "ask", asked |-> walk.asked, page |-> walk.page,
                    limit |-> walk.limit, total |-> walk.total, ids |-> walk.ids,
                    seen |-> joined, since |-> since, polls |-> walk.polls]
        /\ walk'.pc = "ask" /\ walk'.page = walk.page /\ walk'.limit = walk.limit
        /\ walk'.seen = joined /\ walk'.since = since /\ walk'.polls = walk.polls
        /\ walk'.asked = walk.asked /\ walk'.total = walk.total /\ walk'.ids = walk.ids
    BY <1>2
  <2>2. WalkTypes' /\ Seen' = shown
    BY <1>1, <1>7, <2>1 DEF WalkTypes, Seen, Elements
  <2> QED BY <2>1, <2>2, AfterPage
<1>9. joined = <<>> => since = 0
  <2>1. Len(joined) = Len(walk.seen) + Len(ids) /\ Len(walk.seen) \in Nat
    BY <1>3, <1>4, Joined, LenProperties
  <2>2. SUFFICES ASSUME joined = <<>> PROVE since = 0
    OBVIOUS
  <2>3. Len(joined) = 0
    BY <2>2
  <2>4. Len(walk.seen) = 0 /\ Len(page) = 0
    BY <1>3, <2>1, <2>3
  <2>5. walk.seen = <<>>
    BY <1>4, <2>4, EmptySeq
  <2> QED BY <1>1, <1>5, <2>4, <2>5 DEF WalkOK
<1>10. WalkOK'
  BY <1>1, <1>8, <1>9 DEF WalkOK, Active
<1>11. PlacesOK' /\ EndOK'
  BY <1>8 DEF PlacesOK, EndOK
<1>12. PollOK'
  <2> SUFFICES ASSUME NEW r \in rows
               PROVE  /\ r.id \in shown => r.key <= since
                      /\ r.id \in stayed /\ r.key <= since =>
                           r.id \in shown \/ \E t \in rows : t.id \in shown /\ t.key = r.key
    BY <1>8 DEF PollOK
  <2>1. /\ r.id \in Seen => r.key <= walk.since
        /\ r.id \in stayed /\ r.key <= walk.since =>
             r.id \in Seen \/ \E t \in rows : t.id \in Seen /\ t.key = r.key
    BY <1>1 DEF PollOK
  <2>2. r.key \in Int /\ since \in Int /\ walk.since \in Int
    BY <1>1, <1>4, <1>7, RowTypes
  <2>3. ASSUME r.id \in shown PROVE r.key <= since
    <3>1. CASE r.id \in Seen
      BY <1>7, <2>1, <2>2, <3>1
    <3>2. CASE r.id \notin Seen
      <4>1. r.id \in Elements(ids)
        BY <2>3, <3>2
      <4>2. PICK k \in 1 .. Len(page) : ids[k] = r.id
        BY <1>3, <4>1 DEF Elements
      <4>3. page[k] = r
        BY <1>1, <1>3, <4>2 DEF RowsOK
      <4> QED BY <1>7, <4>3
    <3> QED BY <3>1, <3>2
  <2>4. ASSUME r.id \in stayed, r.key <= since
        PROVE  r.id \in shown \/ \E t \in rows : t.id \in shown /\ t.key = r.key
    <3>1. CASE r.key <= walk.since
      BY <2>1, <2>4, <3>1
    <3>2. CASE ~(r.key <= walk.since)
      <4>1. r \in Fitting
        BY <1>1, <2>2, <2>4, <3>2 DEF Fitting, Newer, HistoryOK
      <4>2. CASE \E k \in 1 .. Len(page) : page[k] = r
        BY <1>3, <4>2 DEF Elements
      <4>3. CASE \A k \in 1 .. Len(page) : page[k] # r
        <5>1. Len(page) # 0
          BY <1>5, <2>2, <2>4, <3>2
        <5>2. PICK n \in 1 .. Len(page) : n = Len(page) /\ since = page[n].key
          <6>1. Len(page) \in 1 .. Len(page)
            BY <1>3, <5>1
          <6> QED BY <1>6, <5>1, <6>1
        <5>3. ~Before(r, page[n])
          <6>1. \A t \in Fitting : (\A k \in 1 .. Len(page) : page[k] # t) =>
                  \A k \in 1 .. Len(page) : ~Before(t, page[k])
            BY DEF InPlace
          <6>2. \A k \in 1 .. Len(page) : ~Before(r, page[k])
            BY <4>1, <4>3, <6>1
          <6> QED BY <5>2, <6>2
        <5>4. ~(r.key < page[n].key)
          BY <1>1, <5>3, MessagesComeOldestFirst DEF WalkOK, Before
        <5>5. r.key = page[n].key
          BY <2>2, <2>4, <5>2, <5>4
        <5>6. page[n] \in rows /\ page[n].id \in shown
          BY <1>3 DEF Elements
        <5> QED BY <5>5, <5>6
      <4> QED BY <4>2, <4>3
    <3> QED BY <3>1, <3>2
  <2> QED BY <2>3, <2>4
<1> QED BY <1>8, <1>10, <1>11, <1>12 DEF Inv

\* Listings that bound their limit show no more than Cap rows a page.
LEMMA ShownIsBounded ==
  ASSUME WalkTypes, WalkOK, walk.pc = "counted", ~walk.polls, This.limits # "free",
         NEW ids \in Seq(1 .. MaxRows), Len(ids) <= UsedLimit(walk.limit),
         NEW joined, joined = walk.seen \o ids
  PROVE  /\ Len(joined) <= Cap * walk.page
         /\ Len(joined) <= Cap * (walk.page + 1)
<1>1. PICK p \in Nat \ {0} : p = walk.page
  BY WalkFields DEF WalkOK, Active
<1>2. UsedLimit(walk.limit) \in Nat /\ UsedLimit(walk.limit) <= Cap
  BY WalkFields, UsedLimitTypes
<1>3. walk.seen \in Seq(1 .. MaxRows) /\ Len(walk.seen) \in Nat /\ Len(ids) \in Nat
  BY WalkFields, LenProperties
<1>4. Len(joined) = Len(walk.seen) + Len(ids)
  BY <1>3, Joined
<1>5. Len(walk.seen) <= Cap * (p - 1)
  BY <1>1 DEF WalkOK, Active
<1>6. /\ Cap * (p - 1) + Cap = Cap * p /\ Cap * p <= Cap * (p + 1)
      /\ Cap * (p - 1) \in Nat /\ Cap * p \in Nat /\ Cap * (p + 1) \in Nat /\ Cap \in Nat
  <2>1. Cap \in Nat
    BY ListingsConstants
  <2>2. Cap * (p - 1) = Cap * p - Cap /\ Cap * (p + 1) = Cap * p + Cap
    BY <2>1
  <2>3. Cap * p \in Nat /\ p - 1 \in Nat
    BY <2>1
  <2>4. Cap * (p - 1) \in Nat
    BY <2>1, <2>3
  <2> QED BY <2>1, <2>2, <2>3, <2>4
<1>7. Len(joined) <= Cap * p
  BY <1>2, <1>3, <1>4, <1>5, <1>6
<1>8. Len(joined) <= Cap * (p + 1)
  <2>1. Len(joined) \in Nat
    BY <1>3, <1>4
  <2> QED BY <1>6, <1>7, <2>1
<1> QED BY <1>1, <1>7, <1>8

LEMMA WalkEnds ==
  ASSUME Inv, walk.pc = "counted", UNCHANGED <<list, rows, clock, stamps, changes, stayed>>,
         ~walk.polls, NEW page, NEW ids, HasRows(page, ids),
         NEW offset \in Nat, offset = Offset(walk.page, walk.limit),
         NEW used \in Nat \ {0}, used = UsedLimit(walk.limit), Len(page) <= used,
         This.order # "none" => InPlace(page, offset, used),
         NEW joined \in Seq(1 .. MaxRows), joined = walk.seen \o ids,
         NEW shown, shown = Elements(joined), shown \subseteq Ids(rows),
         shown = Seen \cup Elements(ids),
         walk.page >= TotalPages(walk.total, MetaLimit(walk.limit)),
         walk' = [pc |-> "done", asked |-> walk.asked, page |-> walk.page,
                  limit |-> walk.limit, total |-> walk.total, ids |-> walk.ids,
                  seen |-> joined, since |-> walk.since, polls |-> walk.polls],
         causes' \subseteq {"pulled", "pushed", "tied", "uncounted"}, causes \subseteq causes',
         "tied" \notin causes' => ~Tied(Readable),
         NothingRepeated'
  PROVE  Inv'
<1>1. RowsOK /\ WalkTypes /\ WalkOK /\ HistoryOK /\ PlacesOK /\ CountOK
  BY DEF Inv
<1>2. /\ walk'.pc = "done" /\ walk'.page = walk.page /\ walk'.limit = walk.limit
      /\ walk'.seen = joined /\ walk'.since = walk.since /\ walk'.polls = walk.polls
      /\ walk'.asked = walk.asked /\ walk'.total = walk.total /\ walk'.ids = walk.ids
  OBVIOUS
<1>3. WalkTypes' /\ Seen' = shown
  BY <1>1, <1>2 DEF WalkTypes, Seen, Elements
<1>4. RowsOK' /\ TimesOK' /\ HistoryOK' /\ CountOK' /\ This' = This
  BY <1>2, <1>3, AfterPage
<1>5. This.limits # "free" => Len(joined) <= Cap * walk.page
  BY <1>1, ShownIsBounded DEF HasRows
<1>6. WalkOK'
  BY <1>1, <1>2, <1>4, <1>5 DEF WalkOK, Active
<1>7. PlacesOK' /\ PollOK'
  BY <1>2 DEF PlacesOK, PollOK, Active
<1>8. EndOK'
  <2>1. MetaLimit(walk.limit)' = MetaLimit(walk.limit)
          /\ UsedLimit(walk.limit)' = UsedLimit(walk.limit)
    BY <1>2, SameList DEF MetaLimit, UsedLimit, This
  <2> SUFFICES ASSUME causes' \cap {"pulled", "tied", "uncounted"} = {}, This.order # "none",
                      MetaLimit(walk.limit) = used, NEW x \in stayed
               PROVE  x \in shown
    BY <1>2, <1>3, <1>4, <2>1 DEF EndOK
  <2>2. "pulled" \notin causes /\ "tied" \notin causes /\ "uncounted" \notin causes
          /\ ~Tied(Readable)
    OBVIOUS
  <2>3. \A r \in Fitting : r.id \in stayed /\ Rank(Fitting, r) < offset + used => r.id \in shown
    <3>1. offset = Passed
      BY DEF Passed
    <3>2. InPlace(page, offset, used) /\ used \in Nat
      OBVIOUS
    <3>3. /\ "pulled" \notin causes => \A r \in Fitting :
              r.id \in stayed /\ Rank(Fitting, r) < offset + used => r.id \in shown
          /\ "pushed" \notin causes => \A r \in Fitting :
              r.id \in stayed /\ r.id \in shown => Rank(Fitting, r) < offset + used
      BY <1>1, <2>2, <3>1, <3>2, PageMovesOn
    <3> QED BY <2>2, <3>3
  <2>4. Cardinality(Fitting) <= offset + used
    <3>1. walk.total \in Nat /\ walk.page \in Nat
      BY <1>1, WalkFields
    <3>2. walk.total <= walk.page * used
      BY <3>1, PagesCover
    <3>3. walk.page \in Nat \ {0} /\ walk.limit \in Nat
      BY <1>1, WalkFields DEF WalkOK, Active
    <3>4. offset + used = walk.page * used
      <4>1. offset = (walk.page - 1) * used
        BY DEF Offset
      <4> QED BY <3>3, <4>1
    <3>5. Cardinality(Fitting) <= walk.total /\ Cardinality(Fitting) \in Nat
      BY <1>1, <2>2, RowTypes DEF CountOK
    <3>6. walk.page * used \in Nat
      BY <3>1
    <3> QED BY <3>1, <3>2, <3>4, <3>5, <3>6
  <2>5. PICK r \in rows : r.id = x
    BY <1>1 DEF HistoryOK, Ids
  <2>6. r \in Fitting
    <3>1. Fits(r.data) /\ walk.since = 0 /\ r.key > 0
      BY <1>1, <2>5, RowTypes, ListingsConstants DEF HistoryOK, WalkOK
    <3> QED BY <3>1 DEF Fitting, Newer
  <2>7. Rank(Fitting, r) < Cardinality(Fitting) /\ Rank(Fitting, r) \in Nat
    BY <1>1, <2>5, <2>6, RowTypes, RankTypes, RankIsLess
  <2>8. Rank(Fitting, r) < offset + used
    BY <1>1, <2>4, <2>7, RowTypes
  <2> QED BY <2>3, <2>5, <2>6, <2>8
<1> QED BY <1>3, <1>4, <1>6, <1>7, <1>8 DEF Inv

LEMMA WalkGoesOn ==
  ASSUME Inv, walk.pc = "counted", UNCHANGED <<list, rows, clock, stamps, changes, stayed>>,
         ~walk.polls, NEW page, NEW ids, HasRows(page, ids),
         NEW offset \in Nat, offset = Offset(walk.page, walk.limit),
         NEW used \in Nat \ {0}, used = UsedLimit(walk.limit), Len(page) <= used,
         This.order # "none" => InPlace(page, offset, used),
         NEW joined \in Seq(1 .. MaxRows), joined = walk.seen \o ids,
         NEW shown, shown = Elements(joined), shown \subseteq Ids(rows),
         shown = Seen \cup Elements(ids),
         MetaLimit(walk.limit) # 0,
         ~(walk.page >= TotalPages(walk.total, MetaLimit(walk.limit))),
         walk' = [pc |-> "ask", asked |-> walk.asked, page |-> walk.page + 1,
                  limit |-> walk.limit, total |-> walk.total, ids |-> walk.ids,
                  seen |-> joined, since |-> walk.since, polls |-> walk.polls],
         causes' \subseteq {"pulled", "pushed", "tied", "uncounted"}, causes \subseteq causes',
         causes' \subseteq causes \cup {"tied"}, "tied" \notin causes' => ~Tied(Readable),
         NothingRepeated'
  PROVE  Inv'
<1>1. RowsOK /\ WalkTypes /\ WalkOK /\ HistoryOK /\ PlacesOK
  BY DEF Inv
<1>2. /\ walk'.pc = "ask" /\ walk'.page = walk.page + 1 /\ walk'.limit = walk.limit
      /\ walk'.seen = joined /\ walk'.since = walk.since /\ walk'.polls = walk.polls
      /\ walk'.asked = walk.asked /\ walk'.total = walk.total /\ walk'.ids = walk.ids
  OBVIOUS
<1>3. walk.page \in Nat \ {0} /\ walk.limit \in Nat /\ walk.total \in 0 .. 2 * MaxRows
  BY <1>1, WalkFields DEF WalkOK, Active, WalkTypes
<1>4. walk.page < walk.total /\ walk.page + 1 \in 0 .. 2 * MaxRows
  <2>1. MetaLimit(walk.limit) \in Nat \ {0} /\ walk.total \in Nat
    <3>1. MetaLimit(walk.limit) \in Nat
      BY <1>3, UsedLimitTypes
    <3> QED BY <1>1, <3>1, WalkFields
  <2>2. /\ TotalPages(walk.total, MetaLimit(walk.limit)) \in Nat
        /\ TotalPages(walk.total, MetaLimit(walk.limit)) <= walk.total
    BY <2>1, PagesCover
  <2> QED BY <1>3, <2>1, <2>2, ListingsConstants
<1>5. WalkTypes' /\ Seen' = shown
  BY <1>1, <1>2, <1>4 DEF WalkTypes, Seen, Elements
<1>6. RowsOK' /\ TimesOK' /\ HistoryOK' /\ CountOK' /\ This' = This
  BY <1>2, <1>5, AfterPage
<1>7. This.limits # "free" =>
        Len(joined) <= Cap * walk.page /\ Len(joined) <= Cap * (walk.page + 1)
  BY <1>1, ShownIsBounded DEF HasRows
<1>8. WalkOK'
  <2>1. walk.page + 1 - 1 = walk.page /\ walk.page + 1 >= 1 /\ walk.page + 1 # 1
          /\ walk.total > 0
    BY <1>3, <1>4
  <2>2. This.limits # "free" =>
          Len(walk'.seen) <= Cap * walk'.page /\ Len(walk'.seen) <= Cap * (walk'.page - 1)
    <3>1. walk'.page - 1 = walk.page
      <4>1. PICK p \in Nat : p = walk.page
        BY <1>3
      <4>2. PICK n : n = walk'.page
        OBVIOUS
      <4>3. n = p + 1
        BY <1>2, <4>1, <4>2
      <4> QED BY <4>1, <4>2, <4>3
    <3> QED BY <1>2, <1>7, <3>1
  <2>3. walk'.pc = "ask" /\ walk'.page >= 1 /\ walk'.page # 1 /\ walk'.total > 0
          /\ ~walk'.polls /\ walk'.since = 0
    BY <1>1, <1>2, <2>1 DEF WalkOK
  <2> QED BY <1>6, <2>2, <2>3 DEF WalkOK, Active
<1>9. EndOK' /\ PollOK'
  BY <1>2 DEF EndOK, PollOK
<1>10. PlacesOK'
  <2>1. PICK N : N = Fitting
    OBVIOUS
  <2>2. Fitting' = N
    BY <1>2, <1>6, <2>1 DEF Fitting, Fits, Newer
  <2>3. \A r : Rank(N, r)' = Rank(N, r)
    BY SameList
  <2>4. Passed' = offset + used
    <3>1. Passed' = Offset(walk.page + 1, walk.limit)
      <4>1. PICK p : p = walk.page + 1
        OBVIOUS
      <4>2. PICK limit : limit = walk.limit
        OBVIOUS
      <4>3. walk'.page = p /\ walk'.limit = limit /\ walk'.pc = "ask"
        BY <1>2, <4>1, <4>2
      <4>4. Passed' = Offset(p, limit)'
        BY <4>3 DEF Passed, Offset, UsedLimit
      <4> QED BY <4>1, <4>2, <4>4, SameList
    <3> QED BY <1>3, <3>1, OffsetIs
  <2>5. ASSUME This.order # "none", "tied" \notin causes'
        PROVE  /\ "pulled" \notin causes' => \A r \in N :
                    r.id \in stayed /\ Rank(N, r) < offset + used => r.id \in shown
               /\ "pushed" \notin causes' => \A r \in N :
                    r.id \in stayed /\ r.id \in shown => Rank(N, r) < offset + used
    <3>1. offset = Passed
      BY DEF Passed
    <3>2. /\ "tied" \notin causes /\ ~Tied(Readable)
          /\ InPlace(page, offset, used) /\ used \in Nat
      BY <2>5
    <3>3. /\ "pulled" \notin causes => \A r \in Fitting :
              r.id \in stayed /\ Rank(Fitting, r) < offset + used => r.id \in shown
          /\ "pushed" \notin causes => \A r \in Fitting :
              r.id \in stayed /\ r.id \in shown => Rank(Fitting, r) < offset + used
      BY <1>1, <2>5, <3>1, <3>2, PageMovesOn
    <3> QED BY <2>1, <3>3
  <2> QED BY <1>5, <1>6, <2>2, <2>3, <2>4, <2>5 DEF PlacesOK
<1> QED BY <1>5, <1>6, <1>8, <1>9, <1>10 DEF Inv

LEMMA FilterFailsKeeps == ASSUME Inv, FilterFails PROVE Inv'
<1>1. PICK w : w = walk
  OBVIOUS
<1>2. w = [pc |-> w.pc, asked |-> w.asked, page |-> w.page, limit |-> w.limit,
           total |-> w.total, ids |-> w.ids, seen |-> w.seen, since |-> w.since,
           polls |-> w.polls]
  BY <1>1, WalkFields DEF Inv
<1>3. walk' = [w EXCEPT !.pc = "failed"]
      /\ UNCHANGED <<list, rows, clock, stamps, changes, stayed, causes>>
  BY <1>1 DEF FilterFails
<1>4. [w EXCEPT !.pc = "failed"]
        = [pc |-> "failed", asked |-> w.asked, page |-> w.page, limit |-> w.limit,
           total |-> w.total, ids |-> w.ids, seen |-> w.seen, since |-> w.since,
           polls |-> w.polls]
  BY <1>2
<1>5. ~walk.polls
  BY DEF FilterFails, Filtered, Inv, WalkOK
<1>6. causes' \subseteq {"pulled", "pushed", "tied", "uncounted"} /\ causes \subseteq causes'
  BY <1>3 DEF Inv, RowsOK
<1> QED BY <1>1, <1>3, <1>4, <1>5, <1>6, ReadFails

LEMMA ReadPageKeeps == ASSUME Inv, ReadPage PROVE Inv'
<1>1. /\ walk.pc = "counted" /\ UNCHANGED <<list, rows, clock, stamps, changes, stayed>>
      /\ causes' = causes \cup IF Tied(Readable) THEN {"tied"} ELSE {}
  BY DEF ReadPage
<1>2. PICK seq \in Sorted(Readable) :
        walk' = Answered(PageOf(seq, Offset(walk.page, walk.limit), UsedLimit(walk.limit)))
  BY DEF ReadPage
<1>3. RowsOK /\ WalkTypes /\ WalkOK /\ HistoryOK
  BY DEF Inv
<1>4. walk.page \in Nat \ {0} /\ walk.limit \in Nat
  BY <1>1, <1>3, WalkFields DEF WalkOK, Active
<1>5. PICK offset \in Nat : offset = Offset(walk.page, walk.limit)
  BY <1>4, OffsetIs
<1>6. PICK used \in Nat \ {0} : used = UsedLimit(walk.limit)
  BY <1>4, UsedLimitTypes
<1>7. PICK page : page = PageOf(seq, offset, used)
  OBVIOUS
<1>8. PICK ids : ids = [i \in DOMAIN page |-> page[i].id]
  OBVIOUS
<1>9. /\ HasRows(page, ids) /\ Len(page) <= used
      /\ This.order # "none" => InPlace(page, offset, used)
  <2>1. used \in Nat
    BY <1>6
  <2> QED BY <1>3, <1>7, <1>8, <2>1, PageIsThere
<1>10. ids \in Seq(1 .. MaxRows) /\ Elements(ids) \subseteq Ids(rows)
  BY <1>9 DEF HasRows, Elements, Ids
<1>11. PICK joined : joined = walk.seen \o ids
  OBVIOUS
<1>12. joined \in Seq(1 .. MaxRows) /\ Elements(joined) = Seen \cup Elements(ids)
  <2>1. walk.seen \in Seq(1 .. MaxRows)
    BY <1>3, WalkFields
  <2>2. PICK s : s = walk.seen
    OBVIOUS
  <2>3. Elements(s) = Seen
    BY <2>2 DEF Elements, Seen
  <2>4. s \in Seq(1 .. MaxRows) /\ ids \in Seq(1 .. MaxRows) /\ joined = s \o ids
    BY <1>10, <1>11, <2>1, <2>2
  <2>5. /\ joined \in Seq(1 .. MaxRows)
        /\ Elements(joined) = Elements(s) \cup Elements(ids)
    BY <2>4, ShownWith
  <2> QED BY <2>3, <2>5
<1>13. PICK shown : shown = Elements(joined)
  OBVIOUS
<1>14. shown = Seen \cup Elements(ids) /\ shown \subseteq Ids(rows)
  BY <1>3, <1>10, <1>12, <1>13 DEF HistoryOK
<1>15. /\ causes' \subseteq {"pulled", "pushed", "tied", "uncounted"}
       /\ causes \subseteq causes' /\ causes' \subseteq causes \cup {"tied"}
       /\ "tied" \notin causes' => ~Tied(Readable)
  BY <1>1, <1>3 DEF RowsOK
<1>16. offset = Passed
  BY <1>1, <1>5 DEF Passed
<1>17. PICK after : after = causes'
  OBVIOUS
<1>18. RepeatsFew(joined, after)
  <2>1. NotedWith(after)
    BY <1>15, <1>17 DEF NotedWith
  <2>2. walk.pc = "counted"
    BY <1>1
  <2>3. HasRows(page, ids) /\ (This.order # "none" => InPlace(page, offset, used))
    BY <1>9
  <2>4. offset \in Nat /\ offset = Passed /\ joined = walk.seen \o ids
    BY <1>11, <1>16
  <2> QED BY <2>1, <2>2, <2>3, <2>4, PageRepeats
<1>19. This' = This
  BY <1>1 DEF This
<1>20. walk'.seen = joined /\ walk'.polls = walk.polls => NothingRepeated'
  BY <1>1, <1>17, <1>18, <1>19 DEF NothingRepeated, RepeatsFew
<1>21. PICK meta : meta = MetaLimit(walk.limit)
  OBVIOUS
<1>22. walk' = Answered(page)
  BY <1>2, <1>5, <1>6, <1>7
<1>23. CASE meta = 0
  <2>1. walk' = [pc |-> "failed", asked |-> walk.asked, page |-> walk.page,
                 limit |-> walk.limit, total |-> walk.total, ids |-> walk.ids,
                 seen |-> walk.seen, since |-> walk.since, polls |-> walk.polls]
    BY <1>3, <1>8, <1>11, <1>21, <1>22, <1>23, AnswerIs
  <2>2. ~walk.polls
    <3>1. SUFFICES ASSUME walk.polls PROVE FALSE
      OBVIOUS
    <3>2. walk.limit = Default /\ list = "messages"
      BY <1>3, <3>1 DEF WalkOK
    <3> QED BY <1>21, <1>23, <3>2, ListingsConstants DEF MetaLimit
  <2> QED BY <1>1, <1>15, <2>1, <2>2, ReadFails
<1>24. CASE meta # 0 /\ walk.polls
  <2>1. walk' = [pc |-> "ask", asked |-> walk.asked, page |-> walk.page,
                 limit |-> walk.limit, total |-> walk.total, ids |-> walk.ids,
                 seen |-> joined, since |-> LastKey(page), polls |-> walk.polls]
    BY <1>3, <1>8, <1>11, <1>21, <1>22, <1>24, AnswerIs
  <2>2. NothingRepeated'
    BY <1>20, <2>1
  <2>3. InPlace(page, 0, used)
    <3>1. walk.page = 1 /\ This.order = "oldest"
      BY <1>3, <1>24, MessagesComeOldestFirst DEF WalkOK
    <3>2. offset = 0
      BY <1>4, <1>5, <3>1, OffsetIs
    <3> QED BY <1>9, <3>1, <3>2
  <2> QED BY <1>1, <1>9, <1>11, <1>12, <1>13, <1>14, <1>15, <1>24, <2>1, <2>2, <2>3, PollReads
<1>25. CASE meta # 0 /\ ~walk.polls /\ walk.page >= TotalPages(walk.total, meta)
  <2>1. walk' = [pc |-> "done", asked |-> walk.asked, page |-> walk.page,
                 limit |-> walk.limit, total |-> walk.total, ids |-> walk.ids,
                 seen |-> joined, since |-> walk.since, polls |-> walk.polls]
    BY <1>3, <1>8, <1>11, <1>21, <1>22, <1>25, AnswerIs
  <2>2. NothingRepeated'
    BY <1>20, <2>1
  <2>3. walk.page >= TotalPages(walk.total, MetaLimit(walk.limit))
    BY <1>21, <1>25
  <2> QED BY <1>1, <1>5, <1>6, <1>9, <1>11, <1>12, <1>13, <1>14, <1>15, <1>25, <2>1, <2>2,
             <2>3, WalkEnds
<1>26. CASE meta # 0 /\ ~walk.polls /\ ~(walk.page >= TotalPages(walk.total, meta))
  <2>1. walk' = [pc |-> "ask", asked |-> walk.asked, page |-> walk.page + 1,
                 limit |-> walk.limit, total |-> walk.total, ids |-> walk.ids,
                 seen |-> joined, since |-> walk.since, polls |-> walk.polls]
    BY <1>3, <1>8, <1>11, <1>21, <1>22, <1>26, AnswerIs
  <2>2. NothingRepeated'
    BY <1>20, <2>1
  <2>3. /\ MetaLimit(walk.limit) # 0
        /\ ~(walk.page >= TotalPages(walk.total, MetaLimit(walk.limit)))
    BY <1>21, <1>26
  <2> QED BY <1>1, <1>5, <1>6, <1>9, <1>11, <1>12, <1>13, <1>14, <1>15, <1>26, <2>1, <2>2,
             <2>3, WalkGoesOn
<1> QED BY <1>23, <1>24, <1>25, <1>26

-----------------------------------------------------------------------------
(* What other requests do to the table keeps the invariant. *)

LEMMA TakeTimeKeeps == ASSUME Inv, NEW w \in Writers, TakeTime(w) PROVE Inv'
<1>1. UNCHANGED <<list, rows, changes, walk, stayed, causes>>
  BY DEF TakeTime
<1>2. TimesOK'
  <2>1. clock \in 1 .. MaxKey /\ stamps \in [Writers -> 0 .. clock]
    BY DEF Inv, TimesOK
  <2>2. /\ stamps' = [stamps EXCEPT ![w] = clock]
        /\ clock' \in {clock, clock + 1} /\ clock' <= MaxKey
    BY DEF TakeTime
  <2>3. clock' \in 1 .. MaxKey /\ clock <= clock'
    BY <2>1, <2>2, ListingsConstants
  <2>4. \A v \in Writers : stamps'[v] \in 0 .. clock'
    BY <2>1, <2>2, <2>3, ListingsConstants
  <2> QED BY <2>1, <2>2, <2>3, <2>4 DEF TimesOK
<1>3. RowsOK' /\ WalkTypes' /\ WalkOK' /\ HistoryOK'
  BY <1>1 DEF Inv, RowsOK, Row, This, WalkTypes, WalkOK, Active, HistoryOK, Ids, Seen, Fits
<1>4. PICK N : N = Fitting
  OBVIOUS
<1>5. Fitting' = N /\ Passed' = Passed /\ This' = This
  BY <1>1, <1>4 DEF Fitting, Fits, Newer, This, Passed, Offset, UsedLimit
<1>6. \A r : Rank(N, r)' = Rank(N, r)
  BY <1>1, SameList
<1>7. PlacesOK'
  BY <1>1, <1>4, <1>5, <1>6 DEF Inv, PlacesOK, Active, Seen
<1>8. CountOK'
  BY <1>1, <1>4, <1>5 DEF Inv, CountOK
<1>9. EndOK'
  BY <1>1, <1>5 DEF Inv, EndOK, Seen, MetaLimit, UsedLimit, This
<1>10. PollOK' /\ NothingRepeated'
  BY <1>1, <1>5 DEF Inv, PollOK, NothingRepeated, Seen
<1> QED BY <1>2, <1>3, <1>7, <1>8, <1>9, <1>10 DEF Inv

\* A row that comes is another than those there; one that changes keeps its identity.
LEMMA BecameKeeps ==
  ASSUME Inv, TimesOK', NEW old, NEW new \in Row, Became(old, new), UNCHANGED <<list, walk>>,
         changes' \in 0 .. MaxChanges,
         \/ old = None /\ new.id = Cardinality(rows) + 1 /\ new.id <= MaxRows
         \/ old \in rows /\ new.id = old.id /\ ~walk.polls
  PROVE  Inv'
<1>1. RowsOK /\ WalkTypes /\ WalkOK /\ HistoryOK
  BY DEF Inv
<1> DEFINE comes == old = None /\ new.id = Cardinality(rows) + 1 /\ new.id <= MaxRows
           changesRow == old \in rows /\ new.id = old.id /\ ~walk.polls
<1>2. new.id \in Nat /\ new.key \in Int /\ new.key \in 1 .. MaxKey
  BY ListingsConstants DEF Row
<1>3. /\ \A r \in rows : r.id \in Nat /\ r.key \in 1 .. MaxKey /\ r.key \in Int
      /\ Fitting \in SUBSET rows /\ IsFiniteSet(Fitting) /\ Cardinality(rows) \in Nat
      /\ IsFiniteSet(rows)
  BY <1>1, RowTypes DEF RowsOK
<1>4. None \notin rows
  <2>1. rows \subseteq [id : Nat, key : Nat, data : Listings[list].data]
    <3>1. 1 .. MaxRows \subseteq Nat /\ 1 .. MaxKey \subseteq Nat
      BY ListingsConstants
    <3> QED BY <1>1, <3>1 DEF RowsOK, Row, This
  <2> QED BY <1>1, <2>1, NoneConstant DEF RowsOK
<1>5. comes => \A r \in rows : r.id # new.id
  BY <1>1, <1>2, <1>3 DEF RowsOK
<1>6. PICK rest : rest = Fitting \ {old}
  OBVIOUS
<1>7. PICK left \in BOOLEAN : left <=> old # None /\ old \in Fitting
  OBVIOUS
<1>8. PICK came \in BOOLEAN : came <=> Fits(new.data) /\ Newer(new)
  OBVIOUS
<1>9. PICK passed \in Nat : passed = Passed
  <2>1. Active => walk.page \in Nat \ {0} /\ walk.limit \in Nat
    BY <1>1, WalkFields DEF WalkOK
  <2> QED BY <2>1, OffsetIs DEF Passed, Active
<1>10. PICK gone \in BOOLEAN : gone <=> left /\ ~(came /\ old.key = new.key)
  OBVIOUS
<1>11. PICK arrived \in BOOLEAN : arrived <=> came /\ ~(left /\ old.key = new.key)
  OBVIOUS
<1>12. rows' = (rows \ {old}) \cup {new}
  BY DEF Became
<1>13. stayed' = (IF gone THEN stayed \ {old.id} ELSE stayed)
                   \cup IF walk.polls /\ came THEN {new.id} ELSE {}
  BY <1>7, <1>8, <1>10 DEF Became
<1>14. causes' = causes \cup (IF gone /\ Rank(rest, old) < passed THEN {"pulled"} ELSE {})
                  \cup (IF arrived /\ Rank(rest, new) < passed THEN {"pushed"} ELSE {})
                  \cup (IF came /\ ~left /\ walk.pc = "counted" THEN {"uncounted"} ELSE {})
  <2>1. \A r : Cardinality({t \in Fitting \ {old} : Before(t, r)}) = Rank(rest, r)
    BY <1>6 DEF Rank, Ahead
  <2> QED BY <1>7, <1>8, <1>9, <1>10, <1>11, <2>1 DEF Became
<1>15. causes \subseteq causes' /\ causes' \subseteq {"pulled", "pushed", "tied", "uncounted"}
  BY <1>1, <1>14 DEF RowsOK
<1>16. ~walk.polls => stayed' \subseteq stayed
  BY <1>13
<1>17. /\ rest \in SUBSET rows /\ IsFiniteSet(rest) /\ \A t \in rest : t.key \in Int
       /\ old \notin rest /\ new \notin rest
       /\ left => old.key \in Int
  <2>1. rest \in SUBSET Fitting /\ old \notin rest
    BY <1>6
  <2>2. new \notin rest
    BY <1>1, <1>3, <1>5, <2>1 DEF RowsOK
  <2> QED BY <1>3, <1>7, <2>1, <2>2, FS_Subset
<1>18. PICK were : were = Fitting
  OBVIOUS
<1>19. were = IF left THEN rest \cup {old} ELSE rest
  BY <1>3, <1>4, <1>6, <1>7, <1>18
<1>20. This' = This /\ Passed' = passed /\ Seen' = Seen /\ (Active' <=> Active)
  BY <1>9 DEF This, Passed, Offset, UsedLimit, Seen, Active
<1>21. PICK are : are = IF came THEN rest \cup {new} ELSE rest
  OBVIOUS
<1>22. Fitting' = are
  <2>1. \A r : (Fits(r.data) /\ Newer(r))' <=> Fits(r.data) /\ Newer(r)
    BY <1>20 DEF Fits, Newer
  <2>2. \A r : r \in Fitting' <=> r \in rows' /\ Fits(r.data) /\ Newer(r)
    BY <2>1 DEF Fitting
  <2>3. \A r : r \in rest <=> r \in rows \ {old} /\ Fits(r.data) /\ Newer(r)
    BY <1>6 DEF Fitting
  <2> QED BY <1>8, <1>12, <1>21, <2>2, <2>3
<1>23. RowsOK'
  <2>1. rows' \subseteq Row /\ list' \in DOMAIN Listings /\ Row' = Row
    BY <1>1, <1>12, <1>20 DEF RowsOK, Row
  <2>2. /\ IsFiniteSet(rows') /\ Cardinality(rows') <= MaxRows
        /\ Cardinality(rows) <= Cardinality(rows') /\ new.id <= Cardinality(rows')
        /\ Cardinality(rows') \in Nat
    <3>1. CASE comes
      <4>1. rows' = rows \cup {new} /\ new \notin rows
        BY <1>4, <1>5, <1>12, <3>1
      <4>2. IsFiniteSet(rows') /\ Cardinality(rows') = Cardinality(rows) + 1
        BY <1>3, <4>1, FS_AddElement
      <4> QED BY <1>3, <3>1, <4>2
    <3>2. CASE changesRow
      <4>1. /\ IsFiniteSet(rows \ {old}) /\ Cardinality(rows \ {old}) = Cardinality(rows) - 1
        BY <1>3, <3>2, FS_RemoveElement
      <4>2. new \notin rows \ {old}
        BY <1>1, <3>2 DEF RowsOK
      <4>3. IsFiniteSet(rows') /\ Cardinality(rows') = Cardinality(rows) - 1 + 1
        BY <1>12, <4>1, <4>2, FS_AddElement
      <4> QED BY <1>1, <1>3, <3>2, <4>3 DEF RowsOK
    <3> QED BY <3>1, <3>2
  <2>3. \A r \in rows' : r.id <= Cardinality(rows')
    BY <1>1, <1>2, <1>3, <1>12, <2>2 DEF RowsOK
  <2>4. \A r, t \in rows' : r.id = t.id => r = t
    BY <1>1, <1>5, <1>12 DEF RowsOK
  <2> QED BY <1>15, <2>1, <2>2, <2>3, <2>4 DEF RowsOK
<1>24. WalkTypes'
  BY <1>1 DEF WalkTypes
<1>25. WalkOK'
  BY <1>1, <1>16, <1>20 DEF WalkOK
<1>26. \A r \in rows : r.id \in stayed /\ ~walk.polls => r \in Fitting
  <2> SUFFICES ASSUME NEW r \in rows, r.id \in stayed, ~walk.polls PROVE r \in Fitting
    OBVIOUS
  <2>1. Fits(r.data) /\ walk.since = 0
    BY <1>1 DEF HistoryOK, WalkOK
  <2>2. r.key > 0
    BY <1>3, ListingsConstants
  <2> QED BY <2>1, <2>2 DEF Fitting, Newer
<1>27. ASSUME new.id \in stayed', ~walk.polls
       PROVE  changesRow /\ left /\ came /\ old.key = new.key /\ old.id \in stayed
  <2>1. new.id \in stayed /\ stayed \subseteq Ids(rows)
    BY <1>1, <1>16, <1>27 DEF HistoryOK
  <2>2. changesRow
    BY <1>5, <2>1 DEF Ids
  <2>3. left
    BY <1>4, <1>7, <1>26, <1>27, <2>1, <2>2
  <2>4. ~gone
    BY <1>13, <1>27, <2>2
  <2> QED BY <1>10, <2>1, <2>2, <2>3, <2>4
<1>28. ASSUME NEW r \in rows, r # old, r.id \in stayed' PROVE r.id \in stayed
  BY <1>1, <1>5, <1>13, <1>28 DEF RowsOK
<1>29. HistoryOK'
  <2>1. Ids(rows) \subseteq Ids(rows')
    BY <1>4, <1>12 DEF Ids
  <2>2. Seen' \subseteq Ids(rows')
    BY <1>1, <1>20, <2>1 DEF HistoryOK
  <2>3. new.id \in Ids(rows') /\ stayed' \subseteq Ids(rows')
    BY <1>1, <1>12, <1>13, <2>1 DEF HistoryOK, Ids
  <2>4. ASSUME NEW r \in rows', r.id \in stayed' PROVE Fits(r.data)
    <3>1. CASE r \in rows /\ r # old
      BY <1>1, <1>28, <2>4, <3>1 DEF HistoryOK
    <3>2. CASE r = new
      <4>1. CASE walk.polls
        <5>1. new.id \notin stayed
          BY <1>1, <1>5, <4>1 DEF HistoryOK, Ids
        <5> QED BY <1>8, <1>13, <2>4, <3>2, <5>1
      <4>2. CASE ~walk.polls
        BY <1>8, <1>27, <2>4, <3>2, <4>2
      <4> QED BY <4>1, <4>2
    <3> QED BY <1>12, <2>4, <3>1, <3>2
  <2>5. \A r : Fits(r.data)' <=> Fits(r.data)
    BY <1>20 DEF Fits
  <2>6. \A r \in rows' : r.id \in stayed' => Fits(r.data)'
    BY <2>4, <2>5
  <2> QED BY <2>2, <2>3, <2>6 DEF HistoryOK, Ids
<1>30. \A r : Rank(are, r)' = Rank(are, r)
  BY SameList
<1>31. /\ ~(gone /\ Rank(rest, old) < passed) => KeepsPlaces(rest, are, were, passed)
       /\ ~(arrived /\ Rank(rest, new) < passed) => KeepsPlaces(rest, were, are, passed)
       /\ left /\ came /\ old.key = new.key => Rank(were, old) = Rank(are, new)
  <2>1. /\ IsFiniteSet(rest) /\ Keyed(rest) /\ old \notin rest /\ new \notin rest
        /\ new.key \in Int
    BY <1>2, <1>17 DEF Keyed
  <2>2. /\ were = rest \/ were = rest \cup {old}
        /\ are = rest \/ are = rest \cup {new}
        /\ old \in were => old.key \in Int
    BY <1>17, <1>19, <1>21
  <2>3. (left <=> old \in were) /\ (came <=> new \in are)
    BY <1>17, <1>19, <1>21
  <2>4. /\ ~(old \in were /\ ~(new \in are /\ old.key = new.key) /\ Rank(rest, old) < passed) =>
             KeepsPlaces(rest, are, were, passed)
        /\ ~(new \in are /\ ~(old \in were /\ old.key = new.key) /\ Rank(rest, new) < passed) =>
             KeepsPlaces(rest, were, are, passed)
        /\ old \in were /\ new \in are /\ old.key = new.key => Rank(were, old) = Rank(are, new)
    BY <2>1, <2>2, PlacesAfterChange
  <2> QED BY <1>10, <1>11, <2>3, <2>4
<1>32. PlacesOK'
  <2> SUFFICES ASSUME ~walk.polls, Active, This.order # "none", "tied" \notin causes'
               PROVE  /\ "pulled" \notin causes' => \A r \in are :
                           r.id \in stayed' /\ Rank(are, r) < passed => r.id \in Seen
                      /\ "pushed" \notin causes' => \A r \in are :
                           r.id \in stayed' /\ r.id \in Seen => Rank(are, r) < passed
    BY <1>20, <1>22, <1>30 DEF PlacesOK
  <2>1. /\ "pulled" \notin causes => \A r \in were :
             r.id \in stayed /\ Rank(were, r) < passed => r.id \in Seen
        /\ "pushed" \notin causes => \A r \in were :
             r.id \in stayed /\ r.id \in Seen => Rank(were, r) < passed
    BY <1>9, <1>15, <1>18 DEF Inv, PlacesOK
  <2>2. \A r \in rest : r \in were /\ (r.id \in stayed' => r.id \in stayed)
    BY <1>16, <1>19
  <2>3. \A r \in are : r \in rest \/ r = new
    BY <1>21
  <2>4. new.id \in stayed' =>
          old \in were /\ old.id = new.id /\ old.id \in stayed
            /\ Rank(were, old) = Rank(are, new)
    BY <1>7, <1>18, <1>27, <1>31
  <2>5. ASSUME "pulled" \notin causes', NEW r \in are, r.id \in stayed', Rank(are, r) < passed
        PROVE  r.id \in Seen
    <3>1. "pulled" \notin causes /\ ~(gone /\ Rank(rest, old) < passed)
      BY <1>14, <2>5
    <3>2. CASE r \in rest
      BY <1>31, <2>1, <2>2, <2>5, <3>1, <3>2 DEF KeepsPlaces
    <3>3. CASE r = new
      BY <2>1, <2>4, <2>5, <3>1, <3>3
    <3> QED BY <2>3, <2>5, <3>2, <3>3
  <2>6. ASSUME "pushed" \notin causes', NEW r \in are, r.id \in stayed', r.id \in Seen
        PROVE  Rank(are, r) < passed
    <3>1. "pushed" \notin causes /\ ~(arrived /\ Rank(rest, new) < passed)
      BY <1>14, <2>6
    <3>2. CASE r \in rest
      BY <1>31, <2>1, <2>2, <2>6, <3>1, <3>2 DEF KeepsPlaces
    <3>3. CASE r = new
      BY <2>1, <2>4, <2>6, <3>1, <3>3
    <3> QED BY <2>3, <2>6, <3>2, <3>3
  <2> QED BY <2>5, <2>6
<1>33. CountOK'
  <2> SUFFICES ASSUME ~walk.polls, walk.pc = "counted", This.order # "none",
                      "uncounted" \notin causes'
               PROVE  Cardinality(are) <= walk.total
    BY <1>20, <1>22 DEF CountOK
  <2>1. Cardinality(were) <= walk.total
    BY <1>15, <1>18 DEF Inv, CountOK
  <2>2. came => left
    BY <1>14
  <2>3. Cardinality(are) <= Cardinality(were)
    <3>1. IsFiniteSet(rest) /\ old \notin rest /\ new \notin rest
      BY <1>17
    <3>2. Cardinality(rest) \in Nat
      BY <3>1, FS_CardinalityType
    <3>3. /\ Cardinality(rest \cup {old}) = Cardinality(rest) + 1
          /\ Cardinality(rest \cup {new}) = Cardinality(rest) + 1
      BY <3>1, FS_AddElement
    <3> QED BY <1>19, <1>21, <2>2, <3>2, <3>3
  <2>4. /\ Cardinality(were) \in Nat /\ Cardinality(are) \in Nat /\ walk.total \in Nat
    <3>1. Cardinality(rest \cup {new}) \in Nat /\ Cardinality(rest) \in Nat
      <4>1. IsFiniteSet(rest) /\ IsFiniteSet(rest \cup {new})
        BY <1>17, FS_AddElement
      <4> QED BY <4>1, FS_CardinalityType
    <3>2. Cardinality(were) \in Nat
      BY <1>3, <1>18, FS_CardinalityType
    <3> QED BY <1>1, <1>21, <3>1, <3>2, WalkFields
  <2> QED BY <2>1, <2>3, <2>4
<1>34. EndOK'
  <2>1. MetaLimit(walk.limit)' = MetaLimit(walk.limit)
          /\ UsedLimit(walk.limit)' = UsedLimit(walk.limit)
    BY <1>20 DEF MetaLimit, UsedLimit
  <2>2. walk.pc = "done" => ~walk.polls
    BY <1>1 DEF WalkOK, Active
  <2> QED BY <1>15, <1>16, <1>20, <2>1, <2>2 DEF Inv, EndOK
<1>35. PollOK'
  <2> SUFFICES ASSUME walk.polls, NEW r \in rows'
               PROVE  /\ r.id \in Seen => r.key <= walk.since
                      /\ r.id \in stayed' /\ r.key <= walk.since =>
                           r.id \in Seen \/ \E t \in rows' : t.id \in Seen /\ t.key = r.key
    BY <1>20 DEF PollOK
  <2>1. comes /\ rows' = rows \cup {new}
    BY <1>4, <1>12
  <2>2. CASE r \in rows
    <3>1. /\ r.id \in Seen => r.key <= walk.since
          /\ r.id \in stayed /\ r.key <= walk.since =>
               r.id \in Seen \/ \E t \in rows : t.id \in Seen /\ t.key = r.key
      BY <2>2 DEF Inv, PollOK
    <3>2. r # old
      BY <1>4, <2>1, <2>2
    <3> QED BY <1>28, <2>1, <2>2, <3>1, <3>2
  <2>3. CASE r = new
    <3>1. r.id \notin Seen /\ r.id \notin stayed
      BY <1>1, <1>5, <2>1, <2>3 DEF HistoryOK, Ids
    <3>2. r.id \in stayed' => r.key > walk.since
      BY <1>8, <1>13, <2>3, <3>1 DEF Newer
    <3>3. walk.since \in Nat /\ r.key \in Int
      BY <1>1, <1>2, <2>3, WalkFields
    <3> QED BY <3>1, <3>2, <3>3
  <2> QED BY <2>1, <2>2, <2>3
<1>36. NothingRepeated'
  BY <1>15, <1>16, <1>20 DEF Inv, NothingRepeated
<1> QED BY <1>23, <1>24, <1>25, <1>29, <1>32, <1>33, <1>34, <1>35, <1>36 DEF Inv

LEMMA InsertKeeps ==
  ASSUME Inv, NEW w \in Writers, NEW data \in This.data, Insert(w, data) PROVE Inv'
<1>1. RowsOK /\ TimesOK
  BY DEF Inv
<1>2. PICK key \in 1 .. MaxKey : Became(None, [id |-> NextId, key |-> key, data |-> data])
  <2>1. CASE list \in Timed
    <3>1. /\ stamps[w] > 0
          /\ Became(None, [id |-> NextId, key |-> stamps[w], data |-> data])
      BY <2>1 DEF Insert
    <3>2. stamps[w] \in 1 .. MaxKey
      BY <1>1, <3>1, ListingsConstants DEF TimesOK
    <3> QED BY <3>1, <3>2
  <2>2. CASE list \notin Timed
    BY <2>2 DEF Insert
  <2> QED BY <2>1, <2>2
<1>3. PICK new : new = [id |-> NextId, key |-> key, data |-> data]
  OBVIOUS
<1>4. NextId <= MaxRows /\ UNCHANGED <<list, clock, changes, walk>>
        /\ stamps' = [stamps EXCEPT ![w] = 0]
  BY DEF Insert
<1>5. NextId \in 1 .. MaxRows /\ NextId = Cardinality(rows) + 1
  BY <1>1, <1>4, RowTypes, ListingsConstants DEF NextId
<1>6. new \in Row /\ new.id = Cardinality(rows) + 1 /\ new.id <= MaxRows
  BY <1>3, <1>4, <1>5 DEF Row
<1>7. TimesOK'
  BY <1>1, <1>4, ListingsConstants DEF TimesOK
<1>8. changes' \in 0 .. MaxChanges /\ UNCHANGED <<list, walk>>
  BY <1>1, <1>4 DEF RowsOK
<1>9. Became(None, new)
  BY <1>2, <1>3
<1> QED BY <1>6, <1>7, <1>8, <1>9, BecameKeeps

LEMMA ChangeKeeps ==
  ASSUME Inv, NEW r \in rows, NEW data \in This.data, NEW key \in 1 .. MaxKey,
         Change(r, data, key)
  PROVE  Inv'
<1>1. RowsOK /\ TimesOK /\ WalkOK
  BY DEF Inv
<1>2. PICK new : new = [r EXCEPT !.data = data, !.key = key]
  OBVIOUS
<1>3. /\ list \notin Fixed /\ changes < MaxChanges /\ Became(r, new) /\ changes' = changes + 1
      /\ UNCHANGED <<list, clock, stamps, walk>>
  BY <1>2 DEF Change
<1>4. new \in Row /\ new.id = r.id
  BY <1>1, <1>2 DEF RowsOK, Row
<1>5. ~walk.polls
  BY <1>1, <1>3, MessagesComeOldestFirst DEF WalkOK
<1>6. TimesOK' /\ changes' \in 0 .. MaxChanges
  BY <1>1, <1>3, ListingsConstants DEF TimesOK, RowsOK
<1> QED BY <1>3, <1>4, <1>5, <1>6, BecameKeeps

-----------------------------------------------------------------------------
(* Every step. *)

LEMMA ReadKeeps == ASSUME Inv, Read PROVE Inv'
<1>1. CASE \E l, first : Start(l, first)
  BY <1>1, WalksStart
<1>2. CASE PollMessages
  BY <1>2, PollsStart
<1>3. CASE Count
  BY <1>3, CountKeeps
<1>4. CASE CountFails
  BY <1>4, CountFailsKeeps
<1>5. CASE ReadPage
  BY <1>5, ReadPageKeeps
<1>7. CASE FilterFails
  BY <1>7, FilterFailsKeeps
<1>6. \/ (\E l, first : Start(l, first)) \/ PollMessages
      \/ Count \/ CountFails \/ FilterFails \/ ReadPage
  BY DEF Read, GetOrders, GetAllOrders, GetMovements, GetLowStock, GetReviews, GetQuoteLines,
         GetQuotes, GetBookings, GetMechanicBookings, GetMessages, GetVerified, GetMechanics,
         GetNotifications, GetQuestions, GetProductQuestions, GetInbox, GetProducts, GetSearch,
         GetCategoryProducts, GetVehicles
<1> QED BY <1>1, <1>2, <1>3, <1>4, <1>5, <1>6, <1>7

LEMMA WriteKeeps == ASSUME Inv, Write PROVE Inv'
<1>1. ASSUME NEW w \in Writers, TakeTime(w) PROVE Inv'
  BY <1>1, TakeTimeKeeps
<1>2. ASSUME NEW w \in Writers, NEW data \in This.data, Insert(w, data) PROVE Inv'
  BY <1>2, InsertKeeps
<1>3. ASSUME NEW r \in rows, NEW data \in This.data, NEW key \in 1 .. MaxKey,
             Change(r, data, key)
      PROVE  Inv'
  BY <1>3, ChangeKeeps
<1> QED BY <1>1, <1>2, <1>3 DEF Write

LEMMA StutterKeeps == ASSUME Inv, UNCHANGED vars PROVE Inv'
<1>1. UNCHANGED <<list, rows, clock, stamps, changes, walk, stayed, causes>>
  BY DEF vars
<1>2. RowsOK' /\ TimesOK' /\ WalkTypes' /\ WalkOK' /\ HistoryOK'
  BY <1>1 DEF Inv, RowsOK, TimesOK, Row, This, WalkTypes, WalkOK, Active, HistoryOK, Ids, Seen,
              Fits
<1>3. PICK N : N = Fitting
  OBVIOUS
<1>4. Fitting' = N /\ Passed' = Passed /\ This' = This
  BY <1>1, <1>3 DEF Fitting, Fits, Newer, This, Passed, Offset, UsedLimit
<1>5. \A r : Rank(N, r)' = Rank(N, r)
  BY <1>1, SameList
<1>6. PlacesOK'
  BY <1>1, <1>3, <1>4, <1>5 DEF Inv, PlacesOK, Active, Seen
<1>7. CountOK' /\ EndOK' /\ PollOK' /\ NothingRepeated'
  BY <1>1, <1>3, <1>4 DEF Inv, CountOK, EndOK, Seen, MetaLimit, UsedLimit, This, PollOK,
                          NothingRepeated
<1> QED BY <1>2, <1>6, <1>7 DEF Inv

-----------------------------------------------------------------------------
\* In every state a walk is where its page number says, and what it missed or repeated is
\* accounted for by what happened to the table since it began.
THEOREM InvHolds == Spec => []Inv
<1>1. ASSUME Inv, [Next]_vars PROVE Inv'
  BY <1>1, ReadKeeps, WriteKeeps, StutterKeeps DEF Next
<1> QED BY <1>1, InitInv, PTL DEF Spec

\* Rows keep to their bound and to one identity each, and no listing that caps the limit
\* shows more than Cap rows a page.
THEOREM TypesHold == Spec => []TypeOK
<1>1. Inv => TypeOK
  BY InvGives
<1> QED BY <1>1, InvHolds, PTL

\* A walk that came to its end has shown every row that was there all the time, and a poll
\* every message up to the time it goes on from, unless something NothingSkipped names
\* happened.
THEOREM NothingIsSkipped == Spec => []NothingSkipped
<1>1. Inv => NothingSkipped
  BY InvGives
<1> QED BY <1>1, InvHolds, PTL

\* No row is shown twice but for the reasons NothingRepeated names, and by a poll never.
THEOREM NothingIsRepeated == Spec => []NothingRepeated
<1>1. Inv => NothingRepeated
  BY InvGives
<1> QED BY <1>1, InvHolds, PTL
=============================================================================
