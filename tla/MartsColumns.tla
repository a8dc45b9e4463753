----------------------------- MODULE MartsColumns -----------------------------
(***************************************************************************)
(* The columns of marts_ecommerce the loaders may name in their SQL.       *)
(* getMartsColumns reads them once from information_schema and keeps the   *)
(* map for the life of the process; pickStatusColumn and pickGeoColumn     *)
(* take the first of some candidates that is in it.  The map is looked up  *)
(* again for every pick, the lock is not held while Postgres is asked, and *)
(* whatever was read is kept: after an error, an empty map.                *)
(*                                                                         *)
(* information_schema is asked for every table named marts_ecommerce, not  *)
(* only for the one the SQL will find, and the names come in lower case.   *)
(***************************************************************************)
EXTENDS Naturals, Sequences

CONSTANTS
  Requests,     \* request goroutines
  Own,          \* the columns of the table the SQL finds
  Others,       \* those of tables of that name in other schemas
  Candidates,   \* of each pick of a loader: the columns it tries, in order
  None          \* no map yet; no column, the pick falls back on a constant

\* LOWER(column_name) of every table of that name.  A column is its name in
\* lower case, and whether it is stored with capitals.
Listed == {c.name : c \in Own \cup Others}

\* What a name in the SQL finds: it is not quoted, so Postgres folds it to lower
\* case and looks in the table at hand.
Usable == {c.name : c \in {d \in Own : ~d.capitals}}

ASSUME ColumnsAssumption ==
  /\ Candidates \in Seq(Seq(STRING)) /\ Len(Candidates) > 0
  /\ Own \subseteq [name : STRING, capitals : BOOLEAN]
  /\ Others \subseteq [name : STRING, capitals : BOOLEAN]
  /\ None \notin Listed
  /\ \A S \in SUBSET Listed : S # None

VARIABLES
  cache,    \* martsColumnCache
  pc,       \* of each request: "idle", "look", "ask", "store" or "query"
  seen,     \* the columns it read from information_schema
  picked,   \* the columns it has picked so far
  lost      \* history: has an introspection failed, or lost rows? "no" or "yes"

vars == <<cache, pc, seen, picked, lost>>

Init ==
  /\ cache = None
  /\ pc = [r \in Requests |-> "idle"]
  /\ seen = [r \in Requests |-> {}]
  /\ picked = [r \in Requests |-> <<>>]
  /\ lost = "no"

\* (Seeded fault: when no candidate is there, the last one is named.)
PickLast(columns, names) ==
  LET there == {n \in 1..Len(names) : names[n] \in columns}
  IN  IF there = {} THEN names[Len(names)]
      ELSE names[CHOOSE n \in there : \A m \in there : n <= m]

\* The first candidate that is a column, or the fallback.
Pick(columns, names) ==
  LET there == {n \in 1..Len(names) : names[n] \in columns}
  IN  IF there = {} THEN None
      ELSE names[CHOOSE n \in there : \A m \in there : n <= m]

\* The pick is made, and the next one begins, or the query.
PickFrom(r, columns) ==
  LET n == Len(picked[r]) + 1
  IN  /\ picked' = [picked EXCEPT ![r] = Append(@, Pick(columns, Candidates[n]))]
      /\ pc' = [pc EXCEPT ![r] = IF n = Len(Candidates) THEN "query" ELSE "look"]

Start(r) ==
  /\ pc[r] = "idle"
  /\ pc' = [pc EXCEPT ![r] = "look"]
  /\ UNCHANGED <<cache, seen, picked, lost>>

\* Under the read lock, the map is there.
Hit(r) ==
  /\ pc[r] = "look" /\ cache # None
  /\ PickFrom(r, cache)
  /\ UNCHANGED <<cache, seen, lost>>

\* (Seeded fault: an empty map counts as none.)
MissEmpty(r) ==
  /\ pc[r] = "look" /\ cache \in {None, {}}
  /\ pc' = [pc EXCEPT ![r] = "ask"]
  /\ UNCHANGED <<cache, seen, picked, lost>>

Miss(r) ==
  /\ pc[r] = "look" /\ cache = None
  /\ pc' = [pc EXCEPT ![r] = "ask"]
  /\ UNCHANGED <<cache, seen, picked, lost>>

\* (Seeded fault: the map is published first and filled afterwards.)
AskPublishes(r) ==
  /\ pc[r] = "ask"
  /\ cache' = {}
  /\ seen' = [seen EXCEPT ![r] = Listed]
  /\ pc' = [pc EXCEPT ![r] = "store"]
  /\ UNCHANGED <<picked, lost>>

\* The introspection.  An error leaves the map empty; a row that does not scan
\* is skipped, and rows.Err is not looked at when they end early.
Ask(r) ==
  /\ pc[r] = "ask"
  /\ \E columns \in SUBSET Listed :
       /\ seen' = [seen EXCEPT ![r] = columns]
       /\ lost' = IF columns = Listed THEN lost ELSE "yes"
  /\ pc' = [pc EXCEPT ![r] = "store"]
  /\ UNCHANGED <<cache, picked>>

\* Under the write lock the map is replaced, even if there is one by now, and
\* the pick is made from the map just read.
Store(r) ==
  /\ pc[r] = "store"
  /\ cache' = seen[r]
  /\ PickFrom(r, seen[r])
  /\ UNCHANGED <<seen, lost>>

\* The SQL with the columns picked is run, and the loader returns.
Query(r) ==
  /\ pc[r] = "query"
  /\ pc' = [pc EXCEPT ![r] = "idle"]
  /\ picked' = [picked EXCEPT ![r] = <<>>]
  /\ UNCHANGED <<cache, seen, lost>>

Step(r) == Start(r) \/ Hit(r) \/ Miss(r) \/ Ask(r) \/ Store(r) \/ Query(r)
Next == \E r \in Requests : Step(r)
Spec == Init /\ [][Next]_vars

-----------------------------------------------------------------------------
(* Properties.                                                             *)

\* Types; a request that still picks has a pick left to make.
ColumnsTypeOK ==
  /\ cache \in {None} \cup SUBSET Listed
  /\ pc \in [Requests -> {"idle", "look", "ask", "store", "query"}]
  /\ seen \in [Requests -> SUBSET Listed]
  /\ picked \in [Requests -> Seq(STRING \cup {None})]
  /\ lost \in {"no", "yes"}
  /\ \A r \in Requests : Len(picked[r]) <= Len(Candidates)
  /\ \A r \in Requests : pc[r] \in {"look", "ask", "store"} => Len(picked[r]) < Len(Candidates)
  /\ \A r \in Requests : pc[r] = "idle" => picked[r] = <<>>

\* However partial the maps a request saw, its SQL names a column its table
\* does not have, and the whole answer fails, only if a table of that name in
\* another schema has the column, or its own has it in capitals
\* (metrik.go:313-317, 338-346).
QueryIsValid ==
  \A r \in Requests : \A n \in 1..Len(picked[r]) :
    picked[r][n] \in Usable \cup {None} \/
      \E c \in Others \cup {d \in Own : d.capitals} : c.name = picked[r][n]

\* As long as no introspection has failed, every request picks what is listed
\* first, also the ones that race to fill the map: nobody ever sees a map under
\* construction, and all of them query the same columns.
AllBest ==
  \A r \in Requests : \A n \in 1..Len(picked[r]) :
    picked[r][n] = Pick(Listed, Candidates[n])

BestPicked == lost = "no" => AllBest

\* Once a map is stored and nobody is reading another, it is final: columns a
\* failed introspection lost stay lost for the life of the process, and no
\* invalidation brings them back (metrik.go:304-309, 318-323).
Reading == \E r \in Requests : pc[r] \in {"ask", "store"}

MapIsFinal ==
  [][cache # None /\ ~Reading => cache' = cache /\ ~Reading']_vars

=============================================================================
