--------------------------- MODULE CitizenListing ---------------------------
(***************************************************************************)
(* Paging through a list while calls change the registry: GET /citizens    *)
(* (oldest first, filtered by a column) and GET /audit-logs (newest        *)
(* first).  A page is one SELECT with LIMIT and OFFSET and nothing else    *)
(* carries over to the next, so rows that come or go shift the rest.  The  *)
(* reader asks for page after page until one is empty, or fails.           *)
(***************************************************************************)
EXTENDS CitizenRegistry, FiniteSets, FiniteSetsExt

CONSTANTS Queries,          \* Queries[s]: what is read while the calls of s run
          SeedLog,          \* SeedLog[s]: {0} when the seed script has left its audit row
                            \* with a NULL snapshot, the oldest of all; else {}
          MaxPageSize,      \* 100
          DefaultPageSize   \* 20

ASSUME QueriesAreQueries ==
  /\ Queries \in [Scenarios -> SUBSET [list : {"citizens", "audit", "nothing"},
                                      filter : Places \cup {Keep}, size : Nat]]
  /\ SeedLog \in [Scenarios -> SUBSET {0}]
  /\ {MaxPageSize, DefaultPageSize} \subseteq Nat \ {0}
ASSUME TablesAreFinite == IsFiniteSet(Citizens)

VARIABLES
  query,  \* which list, filter and page_size the reader asks for
  page,   \* pages it has read
  ended,  \* the last one was empty
  failed, \* the last one could not be read
  seen,   \* rows it has been given
  early,  \* rows on the list when it read its first page
  left    \* rows that have left the list since (history variable)

reader == <<query, page, ended, failed, seen, early, left>>
allVars == <<vars, reader>>

Listed ==
  IF query.list = "audit" THEN DOMAIN audit \cup SeedLog[ask]
  ELSE IF query.list = "nothing" THEN {}
  ELSE {c \in Citizens : Live(c) /\ query.filter \in {Keep, citizens[c].place}}

ChangedAt(x) == IF x = 0 THEN 0 ELSE audit[x].at

(* ORDER BY created_at ASC, or changed_at DESC: x may not come after y.     *)
Before(x, y) == IF query.list = "audit" THEN ChangedAt(x) > ChangedAt(y)
                ELSE citizens[x].created < citizens[y].created

ListInit ==
  /\ Init
  /\ query \in Queries[ask]
  /\ page = 0 /\ ended = FALSE /\ failed = FALSE
  /\ seen = {} /\ early = {} /\ left = {}

(* A page_size out of range is not cut to the maximum: the default is taken. *)
PageSize == IF query.size < 1 \/ query.size > MaxPageSize THEN DefaultPageSize
            ELSE query.size

OffsetAsAsked == page * query.size
Offset == page * PageSize

(* The pages PostgreSQL may answer: rows that tie have no order among them, *)
(* and another one in every SELECT.                                         *)
Page(skip, size) ==
  LET n == Cardinality(Listed)
      skipped == IF skip < n THEN skip ELSE n
      taken == IF skipped + size < n THEN size ELSE n - skipped
  IN  {rows \in kSubset(taken, Listed) :
         \E first \in kSubset(skipped, Listed \ rows) :
           /\ \A x \in first, y \in Listed \ first : ~Before(y, x)
           /\ \A x \in rows, y \in Listed \ (first \cup rows) : ~Before(y, x)}

(* json.RawMessage cannot be scanned from a NULL. *)
Scans(rows) == query.list = "audit" => 0 \notin rows

Reads == ~ended /\ ~failed /\ query.list # "nothing"

ReadPage ==
  /\ Reads
  /\ \E rows \in Page(Offset, PageSize) :
       /\ Scans(rows)
       /\ seen' = seen \cup rows
       /\ ended' = (rows = {})
  /\ page' = page + 1
  /\ early' = IF page = 0 THEN Listed ELSE early
  /\ UNCHANGED <<vars, query, failed, left>>

PageFails ==
  /\ Reads
  /\ \E rows \in Page(Offset, PageSize) : ~Scans(rows)
  /\ failed' = TRUE
  /\ UNCHANGED <<vars, query, page, ended, seen, early, left>>

Change ==
  /\ RegistryNext
  /\ UNCHANGED <<query, page, ended, failed, seen, early>>
  /\ left' = IF page = 0 THEN left ELSE left \cup (Listed \ Listed')

ListNext == Change \/ ReadPage \/ PageFails

(* Nobody has to read on. *)
ListSpec == ListInit /\ [][ListNext]_allVars /\ Fairness

-----------------------------------------------------------------------------

TypeOK ==
  /\ RegistryTypeOK
  /\ query \in Queries[ask]
  /\ page \in Nat /\ ended \in BOOLEAN /\ failed \in BOOLEAN
  /\ seen \cup early \cup left \subseteq
       IF query.list = "audit" THEN DOMAIN audit \cup SeedLog[ask]
       ELSE {c \in Citizens : citizens[c] # NoRow}

(* A reader who has come to the end has been given every row that was on    *)
(* the list when it began, although rows were added, moved and deleted      *)
(* while it read, except for a row that left, one that a row before it left *)
(* behind, and one that shares its created_at with another.                 *)
PagesMissNothing ==
  ended =>
    \A x \in early \ left :
      x \in seen \/ (\E y \in left : ~Before(x, y))
                 \/ (\E y \in Listed \ {x} : ~Before(x, y) /\ ~Before(y, x))

=============================================================================
