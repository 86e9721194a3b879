------------------------ MODULE CitizenListing_proofs ------------------------
(***************************************************************************)
(* Proofs about CitizenListing, for lists and pages of every size: what a   *)
(* reader who pages through a list is bound to see.                        *)
(***************************************************************************)
EXTENDS CitizenListing, CitizenRegistry_proofs, FiniteSetTheorems

(* A PATCH writes the created_at back that the row has.                     *)
CreatedIsKept ==
  \A k \in Calls : ask[k].does = "update" /\ pc[k] \in {"apply", "write"} =>
    /\ citizens[Of(k)] # NoRow
    /\ copy[k].created = citizens[Of(k)].created

(* The reader has nothing before its first page, and has been given what    *)
(* was there and has not left, or is not past it: a page's worth of rows    *)
(* for every page it has read is still before it.                           *)
Ahead(x) == {y \in Listed : Before(y, x)}
Ties(x) == \E y \in Listed \ {x} : ~Before(x, y) /\ ~Before(y, x)
Overtaken(x) == \E y \in left : ~Before(x, y)
ReaderGoesOn ==
  /\ page = 0 => ~ended /\ early = {} /\ left = {}
  /\ early \ left \subseteq Listed
  /\ \A x \in early \ left :
       x \in seen \/ Overtaken(x) \/ Ties(x)
         \/ (~ended /\ page * PageSize <= Cardinality(Ahead(x)))

LInv == TypeOK /\ RInv /\ CreatedIsKept /\ ReaderGoesOn

-----------------------------------------------------------------------------
(* Lists and pages *)

LEMMA ListsAreFinite ==
  ASSUME RegistryTypeOK
  PROVE  IsFiniteSet(Listed) /\ \A S \in SUBSET Listed : IsFiniteSet(S)
  <1>1. IsFiniteSet(Listed)
    <2>1. IsFiniteSet(DOMAIN audit)
      <3>1. Len(audit) \in Nat /\ DOMAIN audit = 1 .. Len(audit)
        BY DEF RegistryTypeOK
      <3>2. QED
        BY <3>1, FS_Interval
    <2>2. \A S \in SUBSET Citizens : IsFiniteSet(S)
      BY TablesAreFinite, FS_Subset
    <2>3. {c \in Citizens : Live(c) /\ query.filter \in {Keep, citizens[c].place}}
            \in SUBSET Citizens
      OBVIOUS
    <2>4. IsFiniteSet(DOMAIN audit \cup SeedLog[ask])
      <3>1. SeedLog[ask] \in SUBSET {0} /\ IsFiniteSet({0})
        BY QueriesAreQueries, FS_Singleton DEF RegistryTypeOK
      <3>2. IsFiniteSet(SeedLog[ask])
        BY <3>1, FS_Subset
      <3>3. QED
        BY <2>1, <3>2, FS_Union
    <2>5. QED
      BY <2>2, <2>3, <2>4, FS_EmptySet DEF Listed
  <1>2. QED
    BY <1>1, FS_Subset

(* And so they are after a step. *)
LEMMA ListsStayFinite == (RegistryTypeOK => IsFiniteSet(Listed))'
  <1>1. RegistryTypeOK => IsFiniteSet(Listed)
    BY ListsAreFinite
  <1>2. QED
    BY <1>1, PTL

LEMMA PagesAreSomeRows ==
  ASSUME TypeOK
  PROVE  PageSize \in Nat \ {0} /\ page * PageSize \in Nat
         /\ (page + 1) * PageSize = page * PageSize + PageSize
  <1>1. query.size \in Nat /\ page \in Nat /\ ask \in Scenarios
    BY QueriesAreQueries DEF TypeOK, RegistryTypeOK
  <1>2. PageSize \in Nat \ {0}
    BY <1>1, QueriesAreQueries DEF PageSize
  <1>3. QED
    BY <1>1, <1>2

(* What is or was on the list has its place in the order.                   *)
Placed(x) == IF query.list = "audit" THEN x \in DOMAIN audit \cup SeedLog[ask]
             ELSE x \in Citizens /\ citizens[x] # NoRow

LEMMA StampsAreNumbers ==
  ASSUME RegistryTypeOK, query.list = "audit", NEW x, Placed(x)
  PROVE  /\ ChangedAt(x) \in Nat
         /\ x \notin DOMAIN audit => x = 0
         /\ x \in DOMAIN audit => x # 0 /\ ChangedAt(x) = audit[x].at
  <1>1. SeedLog[ask] \in SUBSET {0} /\ audit \in Seq(Entries)
    BY QueriesAreQueries DEF RegistryTypeOK
  <1>2. 0 \notin DOMAIN audit
    BY <1>1
  <1>3. x \in DOMAIN audit => audit[x].at \in Nat
    BY EntriesAreOfCitizens DEF Entries
  <1>4. QED
    BY <1>1, <1>2, <1>3 DEF Placed, ChangedAt

LEMMA OrderIsStrict ==
  ASSUME RegistryTypeOK, NEW x, Placed(x)
  PROVE  ~Before(x, x)
  <1>1. CASE query.list = "audit"
    BY <1>1, StampsAreNumbers DEF Before
  <1>2. CASE query.list # "audit"
    BY <1>2 DEF Placed, Before, RegistryTypeOK, Rows
  <1>3. QED
    BY <1>1, <1>2

LEMMA ListedArePlaced ==
  ASSUME RegistryTypeOK, NEW x \in Listed
  PROVE  Placed(x)
  BY DEF Listed, Placed, Live

(* A reader not past x, who is not given x by a page, is not past it after. *)
LEMMA PageServes ==
  ASSUME TypeOK, NEW x \in Listed, ~Ties(x), page * PageSize <= Cardinality(Ahead(x)),
         NEW rows \in Page(Offset, PageSize), x \notin rows
  PROVE  rows # {} /\ (page + 1) * PageSize <= Cardinality(Ahead(x))
  <1> DEFINE n == Cardinality(Listed)
             skip == page * PageSize
             size == PageSize
             skipped == IF skip < n THEN skip ELSE n
             taken == IF skipped + size < n THEN size ELSE n - skipped
  <1>1. RegistryTypeOK /\ n \in Nat /\ skip \in Nat /\ size \in Nat \ {0}
        /\ (page + 1) * PageSize = skip + size
    BY PagesAreSomeRows, ListsAreFinite, FS_CardinalityType DEF TypeOK
  <1>2. PICK first \in kSubset(skipped, Listed \ rows) :
          /\ \A u \in first, y \in Listed \ first : ~Before(y, u)
          /\ \A u \in rows, y \in Listed \ (first \cup rows) : ~Before(y, u)
    BY DEF Page, Offset
  <1>3. /\ rows \subseteq Listed /\ Cardinality(rows) = taken
        /\ first \subseteq Listed \ rows /\ Cardinality(first) = skipped
    BY DEF Page, Offset, kSubset
  <1>4. IsFiniteSet(rows) /\ IsFiniteSet(first) /\ IsFiniteSet(Listed)
        /\ IsFiniteSet(Ahead(x)) /\ Ahead(x) \subseteq Listed
    BY <1>1, <1>3, ListsAreFinite DEF Ahead
  <1>5. Cardinality(Ahead(x)) \in Nat
    BY <1>4, FS_CardinalityType
  <1>6. x \notin first
    <2> SUFFICES ASSUME x \in first PROVE FALSE
      OBVIOUS
    <2>1. Ahead(x) \in SUBSET (first \ {x})
      BY <1>1, <1>2, OrderIsStrict, ListedArePlaced DEF Ahead
    <2>2. IsFiniteSet(first \ {x}) /\ Cardinality(first \ {x}) = skipped - 1
      BY <1>3, <1>4, FS_RemoveElement
    <2>3. Cardinality(Ahead(x)) <= skipped - 1
      BY <2>1, <2>2, FS_Subset
    <2>4. skipped <= skip /\ skipped \in Nat
      BY <1>1
    <2> HIDE DEF skipped, skip
    <2>5. QED
      BY <1>1, <1>5, <2>3, <2>4 DEF skip
  <1>7. first \cup rows \in SUBSET Ahead(x)
    BY <1>2, <1>3, <1>6 DEF Ties, Ahead
  <1>8. IsFiniteSet(first \cup rows) /\ Cardinality(first \cup rows) = skipped + taken
    <2>1. first \cap rows = {}
      BY <1>3
    <2>2. IsFiniteSet(first \cup rows)
          /\ Cardinality(first \cup rows)
               = Cardinality(first) + Cardinality(rows) - Cardinality(first \cap rows)
      BY <1>4, FS_Union
    <2>3. skipped \in Nat /\ taken \in Int
      BY <1>1
    <2>4. Cardinality(first \cap rows) = 0
      BY <2>1, FS_EmptySet
    <2> HIDE DEF skipped, taken
    <2>5. QED
      BY <1>3, <2>2, <2>3, <2>4
  <1>9. skipped + taken <= Cardinality(Ahead(x))
    BY <1>4, <1>7, <1>8, FS_Subset
  <1>10. skipped + taken <= n - 1
    <2>1. first \cup rows \in SUBSET (Listed \ {x})
      BY <1>3, <1>6
    <2>2. IsFiniteSet(Listed \ {x}) /\ Cardinality(Listed \ {x}) = n - 1
      BY <1>4, FS_RemoveElement
    <2>3. QED
      BY <1>8, <2>1, <2>2, FS_Subset
  <1> HIDE DEF n, skip, size
  <1>11. skipped = skip /\ taken = size
    BY <1>1, <1>10
  <1> HIDE DEF skipped, taken
  <1>12. rows # {}
    BY <1>1, <1>3, <1>11, FS_EmptySet
  <1>13. QED
    BY <1>1, <1>5, <1>9, <1>11, <1>12

-----------------------------------------------------------------------------
(* created_at: what a PATCH writes back is what the row has *)

LEMMA CreatedStays ==
  ASSUME RegistryTypeOK, CallsAreReady, CreatedIsKept, [RegistryNext]_vars,
         NEW c \in Citizens, citizens[c] # NoRow
  PROVE  citizens'[c] # NoRow /\ citizens'[c].created = citizens[c].created
  <1>1. ASSUME NEW k \in Calls, Write(k) \/ WriteUnheard(k)
        PROVE  citizens'[c] # NoRow /\ citizens'[c].created = citizens[c].created
    <2>1. Written(k) /\ pc[k] = "write"
      BY <1>1 DEF Write, WriteUnheard, Written
    <2>2. CASE c # Of(k) \/ ask[k].does = "delete"
      BY <2>1, <2>2, WhatIsWritten
    <2>3. CASE c = Of(k) /\ ask[k].does = "update"
      <3>1. citizens'[c] = copy[k] /\ copy[k] \in Rows
        BY <2>1, <2>3, WhatIsWritten
      <3>2. QED
        BY <2>1, <2>3, <3>1, NoRowIsNone DEF CreatedIsKept
    <2>4. CASE c = Of(k) /\ ask[k].does = "create"
      BY <2>1, <2>4, WhatIsWritten
    <2>5. QED
      BY <2>2, <2>3, <2>4, AsksAreAsks DEF Asks
  <1>2. ASSUME NEW d \in Movers, NEW place \in Places, UpdateResidence(d, place)
        PROVE  citizens'[c] # NoRow /\ citizens'[c].created = citizens[c].created
    <2>1. d \in Citizens /\ citizens' = [citizens EXCEPT ![d].place = place]
      BY <1>2, MoversAreCitizens DEF UpdateResidence
    <2>2. c # d => citizens'[c] = citizens[c]
      BY <2>1 DEF RegistryTypeOK
    <2>3. CASE c = d
      <3>1. citizens[c] \in Rows
        BY DEF RegistryTypeOK
      <3>2. citizens'[c] = [citizens[c] EXCEPT !.place = place]
        BY <2>1, <2>3 DEF RegistryTypeOK
      <3>3. citizens'[c] \in Rows /\ citizens'[c].created = citizens[c].created
        BY <1>2, <3>1, <3>2 DEF Rows
      <3>4. QED
        BY <3>3, NoRowIsNone
    <2>4. QED
      BY <2>2, <2>3
  <1>3. CASE citizens' = citizens
    BY <1>3
  <1>4. QED
    BY <1>1, <1>2, <1>3, StepKinds DEF CreateLook, ReadRow, applyUpdates, Refuses, Refuse,
       writeAuditLog, Insert, AuditFails, database, history, vars

LEMMA CreatedStep ==
  ASSUME RegistryTypeOK, CallsAreReady, CreatedIsKept, [RegistryNext]_vars
  PROVE  CreatedIsKept'
  <1> USE DEF database, history
  <1> SUFFICES ASSUME NEW k \in Calls, ask'[k].does = "update", pc'[k] \in {"apply", "write"}
               PROVE  citizens'[Of(k)'] # NoRow /\ copy'[k].created = citizens'[Of(k)'].created
    BY DEF CreatedIsKept
  <1>1. ask' = ask /\ Of(k)' = Of(k) /\ Of(k) \in Citizens
    BY StepKinds, AsksAreAsks DEF CreateLook, ReadRow, applyUpdates, Refuses, Refuse, Write,
       WriteUnheard, Written, writeAuditLog, Insert, AuditFails, UpdateResidence, vars, Of
  <1>2. ASSUME pc[k] \in {"apply", "write"}, copy'[k].created = copy[k].created
        PROVE  citizens'[Of(k)] # NoRow /\ copy'[k].created = citizens'[Of(k)].created
    <2>1. citizens[Of(k)] # NoRow /\ copy[k].created = citizens[Of(k)].created
      BY <1>1, <1>2 DEF CreatedIsKept
    <2>2. citizens'[Of(k)] # NoRow /\ citizens'[Of(k)].created = citizens[Of(k)].created
      BY <1>1, <2>1, CreatedStays
    <2>3. QED
      BY <1>2, <2>1, <2>2
  <1>3. ASSUME NEW j \in Calls, ReadRow(j) PROVE CreatedIsKept!(k)'
    <2>1. CASE j = k
      BY <1>1, <1>3, <2>1, NoRowIsNone DEF ReadRow, GetByID, Live, RegistryTypeOK, Of
    <2>2. CASE j # k
      BY <1>1, <1>2, <1>3, <2>2 DEF ReadRow, Goto, RegistryTypeOK
    <2>3. QED
      BY <2>1, <2>2
  <1>4. ASSUME NEW j \in Calls, applyUpdates(j) PROVE CreatedIsKept!(k)'
    <2>1. copy'[k].created = copy[k].created
      BY <1>4, UpdatedRows
    <2>2. pc[k] \in {"apply", "write"}
      BY <1>4 DEF applyUpdates, Goto, RegistryTypeOK
    <2>3. QED
      BY <1>1, <1>2, <2>1, <2>2
  <1>5. ASSUME NEW j \in Calls, CreateLook(j) PROVE CreatedIsKept!(k)'
    <2>1. j # k
      BY <1>1, <1>5 DEF CreateLook
    <2>2. copy'[k] = copy[k] /\ pc'[k] = pc[k]
      BY <1>5, <2>1 DEF CreateLook, Goto, RegistryTypeOK
    <2>3. QED
      BY <1>1, <1>2, <2>2
  <1>6. ASSUME NEW j \in Calls, \/ Refuses(j) \/ Write(j) \/ WriteUnheard(j)
                                \/ writeAuditLog(j) \/ Insert(j) \/ AuditFails(j)
        PROVE  CreatedIsKept!(k)'
    <2>1. copy' = copy /\ (pc'[k] = pc[k] \/ pc'[k] \in {"audit", "done"})
      BY <1>6 DEF Refuses, Refuse, Write, WriteUnheard, Written, writeAuditLog, Insert, AuditFails,
         Goto, RegistryTypeOK
    <2>2. QED
      BY <1>1, <1>2, <2>1
  <1>7. ASSUME UNCHANGED <<pc, copy>> PROVE CreatedIsKept!(k)'
    BY <1>1, <1>2, <1>7
  <1>8. QED
    BY <1>1, <1>3, <1>4, <1>5, <1>6, <1>7, StepKinds DEF UpdateResidence, vars

(* Rows keep their places, and the log is only added to at its end.         *)
LEMMA PlacesStay ==
  ASSUME RegistryTypeOK, RegistryTypeOK', CallsAreReady, CreatedIsKept,
         [RegistryNext]_vars, UNCHANGED query
  PROVE  /\ \A x : Placed(x) => Placed(x)'
         /\ \A x, y : Placed(x) /\ Placed(y) => (Before(x, y)' <=> Before(x, y))
  <1>1. CASE query.list = "audit"
    <2>1. ask' = ask
      BY StepKinds DEF CreateLook, ReadRow, applyUpdates, Refuses, Refuse, Write, WriteUnheard,
         Written, writeAuditLog, Insert, AuditFails, UpdateResidence, database, vars
    <2>2. DOMAIN audit \subseteq DOMAIN audit' /\ \A i \in DOMAIN audit : audit'[i] = audit[i]
      <3>1. ASSUME NEW k \in Calls, Insert(k)
            PROVE  /\ DOMAIN audit \subseteq DOMAIN audit'
                   /\ \A i \in DOMAIN audit : audit'[i] = audit[i]
        BY <3>1, LogGrows, LogIsKept
      <3>2. QED
        BY <3>1, StepKinds DEF CreateLook, ReadRow, applyUpdates, Refuses, Refuse, Write,
           WriteUnheard, Written, writeAuditLog, AuditFails, UpdateResidence, database, vars
    <2>3. \A x : Placed(x) => Placed(x)'
      BY <1>1, <2>1, <2>2 DEF Placed
    <2>4. \A x : Placed(x) => ChangedAt(x)' = ChangedAt(x)
      BY <1>1, <2>2, StampsAreNumbers DEF ChangedAt
    <2>5. QED
      BY <1>1, <2>3, <2>4 DEF Before
  <1>2. CASE query.list # "audit"
    BY <1>2, CreatedStays DEF Placed, Before
  <1>3. QED
    BY <1>1, <1>2

-----------------------------------------------------------------------------
(* Steps of the calls, seen by the reader *)

LEMMA ChangeTypes ==
  ASSUME TypeOK, RInv, CreatedIsKept, Change
  PROVE  TypeOK'
  <1>1. RegistryTypeOK /\ CallsAreReady /\ RegistryTypeOK'
    BY RegistryTypeStep DEF RInv, Change
  <1>2. ask' = ask
    BY StepKinds DEF CreateLook, ReadRow, applyUpdates, Refuses, Refuse, Write, WriteUnheard,
       Written, writeAuditLog, Insert, AuditFails, UpdateResidence, database, Change
  <1>3. \A x : Placed(x) => Placed(x)'
    BY <1>1, PlacesStay DEF Change
  <1>4. \A x \in seen \cup early \cup left : Placed(x)
    BY DEF TypeOK, Placed
  <1>5. \A x \in Listed : Placed(x)
    BY <1>1, ListedArePlaced
  <1>6. \A x \in (seen \cup early \cup left)' : Placed(x)'
    BY <1>3, <1>4, <1>5 DEF Change
  <1>7. QED
    BY <1>1, <1>2, <1>6 DEF TypeOK, Change, Placed

(* What is ahead of x stays ahead of it, unless x is overtaken.             *)
LEMMA ChangeGoesOn ==
  ASSUME TypeOK, RInv, CreatedIsKept, ReaderGoesOn, Change
  PROVE  ReaderGoesOn'
  <1>1. /\ RegistryTypeOK /\ CallsAreReady /\ RegistryTypeOK'
        /\ UNCHANGED <<query, page, ended, seen, early>>
        /\ left' = IF page = 0 THEN left ELSE left \cup (Listed \ Listed')
    BY RegistryTypeStep DEF RInv, Change
  <1>2. /\ \A x : Placed(x) => Placed(x)'
        /\ \A x, y : Placed(x) /\ Placed(y) => (Before(x, y)' <=> Before(x, y))
    BY <1>1, PlacesStay DEF Change
  <1>3. /\ \A x \in seen \cup early \cup left : Placed(x)
        /\ \A x \in Listed : Placed(x)
    BY <1>1, ListedArePlaced DEF TypeOK, Placed
  <1>4. CASE page = 0
    BY <1>1, <1>4 DEF ReaderGoesOn
  <1>5. CASE page # 0
    <2>1. left' = left \cup (Listed \ Listed')
      BY <1>1, <1>5
    <2>2. early' \ left' \subseteq Listed'
      BY <1>1, <2>1 DEF ReaderGoesOn
    <2>3. ASSUME NEW x \in early' \ left'
          PROVE  x \in seen' \/ Overtaken(x)' \/ Ties(x)'
                   \/ (~ended' /\ page' * PageSize' <= Cardinality(Ahead(x)'))
      <3>1. x \in early \ left /\ x \in Listed /\ x \in Listed' /\ Placed(x)
        BY <1>1, <1>3, <2>1, <2>2, <2>3 DEF ReaderGoesOn
      <3>2. \A y \in left' : Placed(y)
        BY <1>3, <2>1
      <3>3. ASSUME ~Overtaken(x)' PROVE \A y \in left' : Before(x, y)
        BY <1>2, <3>1, <3>2, <3>3 DEF Overtaken
      <3>4. CASE x \in seen
        BY <1>1, <3>4
      <3>5. CASE Overtaken(x)
        BY <1>2, <2>1, <3>1, <3>2, <3>5 DEF Overtaken
      <3>6. CASE Ties(x) /\ ~Overtaken(x)'
        <4>1. PICK y \in Listed \ {x} : ~Before(x, y) /\ ~Before(y, x)
          BY <3>6 DEF Ties
        <4>2. y \in Listed'
          BY <2>1, <3>3, <3>6, <4>1
        <4>3. ~Before(x, y)' /\ ~Before(y, x)'
          BY <1>2, <1>3, <3>1, <4>1
        <4>4. QED
          BY <4>1, <4>2, <4>3 DEF Ties
      <3>7. CASE ~Overtaken(x)' /\ ~ended /\ page * PageSize <= Cardinality(Ahead(x))
        <4>1. Ahead(x) \subseteq Ahead(x)'
          <5> SUFFICES ASSUME NEW y \in Listed, Before(y, x) PROVE y \in Listed' /\ Before(y, x)'
            BY DEF Ahead
          <5>1. ~Before(x, y)
            BY <1>1, <1>3, <3>1, StampsAreNumbers DEF Before, Placed, RegistryTypeOK, Rows
          <5>2. y \in Listed'
            BY <2>1, <3>3, <3>7, <5>1
          <5>3. QED
            BY <1>2, <1>3, <3>1, <5>2
        <4>2. IsFiniteSet(Listed') /\ Ahead(x)' \subseteq Listed'
          BY <1>1, ListsStayFinite DEF Ahead
        <4>3. IsFiniteSet(Ahead(x)')
          BY <4>2, FS_Subset
        <4>4. /\ Cardinality(Ahead(x)) <= Cardinality(Ahead(x)')
              /\ Cardinality(Ahead(x)') \in Nat /\ Cardinality(Ahead(x)) \in Nat
          BY <4>1, <4>3, FS_Subset, FS_CardinalityType
        <4>5. page' * PageSize' = page * PageSize /\ page * PageSize \in Nat
          BY <1>1, PagesAreSomeRows DEF PageSize
        <4> DEFINE p == page * PageSize
        <4> HIDE DEF p
        <4>6. p <= Cardinality(Ahead(x)')
          BY <3>7, <4>4, <4>5 DEF p
        <4>7. QED
          BY <1>1, <3>7, <4>5, <4>6 DEF p
      <3>8. QED
        BY <3>1, <3>4, <3>5, <3>6, <3>7 DEF ReaderGoesOn
    <2>4. QED
      BY <1>1, <1>5, <2>2, <2>3 DEF ReaderGoesOn
  <1>6. QED
    BY <1>4, <1>5

-----------------------------------------------------------------------------
(* Pages *)

LEMMA PageTypes ==
  ASSUME TypeOK, ReadPage
  PROVE  TypeOK'
  <1>1. UNCHANGED <<citizens, deleted, audit, ask, query, left>> /\ RegistryTypeOK'
    BY DEF TypeOK, ReadPage, vars, database, history, RegistryTypeOK
  <1>2. PICK rows \in Page(Offset, PageSize) :
          seen' = seen \cup rows /\ ended' = (rows = {})
    BY DEF ReadPage
  <1>3. rows \subseteq Listed
    BY <1>2 DEF Page, kSubset
  <1>4. \A x \in Listed : Placed(x)
    BY ListedArePlaced DEF TypeOK
  <1>5. \A x \in (seen \cup early \cup left)' : Placed(x)
    BY <1>1, <1>2, <1>3, <1>4 DEF TypeOK, Placed, ReadPage
  <1>6. page' \in Nat /\ {ended, failed}' \subseteq BOOLEAN /\ query' \in Queries[ask']
    BY <1>1, <1>2 DEF TypeOK, ReadPage
  <1>7. QED
    BY <1>1, <1>5, <1>6 DEF TypeOK, Placed

LEMMA PageGoesOn ==
  ASSUME TypeOK, ReaderGoesOn, ReadPage
  PROVE  ReaderGoesOn'
  <1>1. /\ UNCHANGED <<vars, query, left>> /\ page' = page + 1
        /\ early' = IF page = 0 THEN Listed ELSE early
        /\ ~ended
    BY DEF ReadPage, Reads
  <1>2. /\ Listed' = Listed /\ PageSize' = PageSize /\ left' = left
        /\ \A x, y : Before(x, y)' <=> Before(x, y)
    BY <1>1 DEF Listed, Live, PageSize, Before, ChangedAt, vars, database
  <1>3. PICK rows \in Page(Offset, PageSize) :
          seen' = seen \cup rows /\ ended' = (rows = {})
    BY DEF ReadPage
  <1>4. page \in Nat /\ page' # 0
    BY <1>1 DEF TypeOK
  <1>5. early' \ left' \subseteq Listed'
    BY <1>1, <1>2 DEF ReaderGoesOn
  <1>6. ASSUME NEW x \in early' \ left'
        PROVE  x \in seen' \/ Overtaken(x)' \/ Ties(x)'
                 \/ (~ended' /\ page' * PageSize' <= Cardinality(Ahead(x)'))
    <2>1. x \in Listed /\ Ahead(x)' = Ahead(x) /\ (Ties(x)' <=> Ties(x))
          /\ (Overtaken(x)' <=> Overtaken(x))
      BY <1>2, <1>5, <1>6 DEF Ahead, Ties, Overtaken
    <2>2. x \in seen \/ Overtaken(x) \/ Ties(x) \/ page * PageSize <= Cardinality(Ahead(x))
      <3>1. CASE page = 0
        <4>1. RegistryTypeOK /\ Ahead(x) \in SUBSET Listed
          BY DEF TypeOK, Ahead
        <4>2. Cardinality(Ahead(x)) \in Nat /\ PageSize \in Nat
          BY <4>1, ListsAreFinite, FS_CardinalityType, PagesAreSomeRows
        <4>3. page * PageSize = 0
          BY <3>1, <4>2
        <4>4. QED
          BY <4>2, <4>3
      <3>2. CASE page # 0
        BY <1>1, <1>2, <1>6, <3>2 DEF ReaderGoesOn
      <3>3. QED
        BY <3>1, <3>2
    <2>3. CASE x \notin seen /\ ~Ties(x) /\ page * PageSize <= Cardinality(Ahead(x))
                 /\ x \notin rows
      <3>1. rows # {} /\ (page + 1) * PageSize <= Cardinality(Ahead(x))
        BY <2>1, <2>3, PageServes
      <3>2. QED
        BY <1>1, <1>2, <1>3, <2>1, <3>1
    <2>4. QED
      BY <1>3, <2>1, <2>2, <2>3
  <1>7. QED
    BY <1>4, <1>5, <1>6 DEF ReaderGoesOn

-----------------------------------------------------------------------------
(* The invariant *)

LEMMA InitLInv == ListInit => LInv
  <1> SUFFICES ASSUME ListInit PROVE LInv
    OBVIOUS
  <1>1. RInv
    BY InitRInv DEF ListInit
  <1>2. TypeOK
    BY <1>1 DEF ListInit, TypeOK, RInv
  <1>3. CreatedIsKept
    BY DEF ListInit, Init, CreatedIsKept
  <1>4. ReaderGoesOn
    BY DEF ListInit, ReaderGoesOn
  <1>5. QED
    BY <1>1, <1>2, <1>3, <1>4 DEF LInv

(* A reader's page changes nothing of the registry, and a call is a step of *)
(* it.                                                                      *)
LEMMA ReadersOnlyRead == [ListNext]_allVars => [RegistryNext]_vars
  BY DEF ListNext, Change, ReadPage, PageFails, allVars

LEMMA ListStep == LInv /\ [ListNext]_allVars => LInv'
  <1> SUFFICES ASSUME LInv, [ListNext]_allVars PROVE LInv'
    OBVIOUS
  <1>1. [RegistryNext]_vars
    BY ReadersOnlyRead
  <1>2. RInv'
    BY <1>1, RegistryTypeStep, ReadyStep, TakenStep, SeededStep, SnapshotsStep,
       AloneStep, RowsStep, StampsStep, LogStep DEF RInv, LInv
  <1>3. CreatedIsKept'
    BY <1>1, CreatedStep DEF LInv, RInv
  <1>4. TypeOK' /\ ReaderGoesOn'
    <2>1. CASE Change
      BY <2>1, ChangeTypes, ChangeGoesOn DEF LInv
    <2>2. CASE ReadPage
      BY <2>2, PageTypes, PageGoesOn DEF LInv
    <2>3. CASE PageFails
      <3>1. UNCHANGED vars /\ UNCHANGED <<query, page, ended, seen, early, left>> /\ failed' = TRUE
        BY <2>3 DEF PageFails
      <3>2. TypeOK'
        BY <3>1 DEF LInv, TypeOK, RegistryTypeOK, vars, database, history
      <3>3. ReaderGoesOn'
        BY <3>1 DEF LInv, ReaderGoesOn, Ahead, Ties, Overtaken, Listed, Live, Before, PageSize,
           ChangedAt, vars, database
      <3>4. QED
        BY <3>2, <3>3
    <2>4. CASE UNCHANGED allVars
      <3>1. UNCHANGED vars /\ UNCHANGED reader
        BY <2>4 DEF allVars
      <3>2. TypeOK'
        BY <3>1 DEF LInv, TypeOK, RegistryTypeOK, vars, reader, database, history
      <3>3. ReaderGoesOn'
        BY <3>1 DEF LInv, ReaderGoesOn, Ahead, Ties, Overtaken, Listed, Live, Before, PageSize,
           ChangedAt, vars, reader, database
      <3>4. QED
        BY <3>2, <3>3
    <2>5. QED
      BY <2>1, <2>2, <2>3, <2>4 DEF ListNext
  <1>5. QED
    BY <1>2, <1>3, <1>4 DEF LInv

LEMMA ListInvariance == ListSpec => []LInv
  BY InitLInv, ListStep, PTL DEF ListSpec

-----------------------------------------------------------------------------
(* The theorems *)

(* The registry a reader looks at is the registry: what holds of            *)
(* RegistrySpec holds while lists are read.                                 *)
THEOREM ReadersDoNotDisturb == ListSpec => RegistrySpec
  <1>1. ListInit => Init
    BY DEF ListInit
  <1>2. QED
    BY <1>1, ReadersOnlyRead, PTL DEF ListSpec, RegistrySpec

(* Every variable keeps its type, and the rows a reader knows are rows.     *)
THEOREM ListTypesHold == ListSpec => []TypeOK
  <1>1. LInv => TypeOK
    BY DEF LInv
  <1>2. QED
    BY ListInvariance, <1>1, PTL

(* Who reads to the end misses no row but those that left, were overtaken   *)
(* by one that left, or tie with another.                                   *)
THEOREM ReadersMissNothing == ListSpec => []PagesMissNothing
  <1>1. LInv => PagesMissNothing
    BY DEF LInv, ReaderGoesOn, PagesMissNothing, Overtaken, Ties
  <1>2. QED
    BY ListInvariance, <1>1, PTL
=============================================================================
