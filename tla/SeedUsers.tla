------------------------------- MODULE SeedUsers -------------------------------
(***************************************************************************)
(* The boot of the service: main connects to Postgres, seeds the users     *)
(* table and serves.  Several instances may boot against one database (a   *)
(* new deployment beside the old one, replicas behind the probe of         *)
(* HandleHealth), each statement commits on its own, and an instance may   *)
(* die between two of them and be started again.  A statement that was     *)
(* under way when its session was lost may be carried out much later, or   *)
(* never.                                                                  *)
(***************************************************************************)
EXTENDS Naturals, FiniteSets

CONSTANTS
  Instances,   \* processes of the service
  Users        \* how many users are seeded, in order (4 in the code)

ASSUME SeedAssumption ==
  /\ IsFiniteSet(Instances)
  /\ Users \in Nat \ {0}

VARIABLES
  table,   \* the users table: "absent" or "present"
  rows,    \* the users in it
  pc,      \* of each instance: what it does next
  next,    \* of each instance: the user it inserts next
  wire,    \* statements whose session was lost: n > 0 inserts user n, 0 is
           \* the CREATE TABLE
  trouble  \* history: has a statement failed or an instance died? "none" or "some"

vars == <<table, rows, pc, next, wire, trouble>>

Init ==
  /\ table = "absent"
  /\ rows = {}
  /\ pc = [i \in Instances |-> "down"]
  /\ next = [i \in Instances |-> 1]
  /\ wire = {}
  /\ trouble = "none"

\* InitDB: sql.Open and Ping succeed.  If they do not, log.Fatalf exits.
Connect(i) ==
  /\ pc[i] = "down"
  /\ pc' = [pc EXCEPT ![i] = "lookup"]
  /\ UNCHANGED <<table, rows, next, wire, trouble>>

\* (Seeded fault: SeedUsers starts with the count.)
LookupSkips(i) ==
  /\ pc[i] = "lookup"
  /\ pc' = [pc EXCEPT ![i] = "count"]
  /\ UNCHANGED <<table, rows, next, wire, trouble>>

\* CREATE TABLE IF NOT EXISTS: Postgres looks the name up ...
Lookup(i) ==
  /\ pc[i] = "lookup"
  /\ pc' = [pc EXCEPT ![i] = IF table = "present" THEN "count" ELSE "create"]
  /\ UNCHANGED <<table, rows, next, wire, trouble>>

\* ... and creates the table, an error if another session just did.  SeedUsers
\* returns it, main logs it, and the instance serves.
Create(i) ==
  /\ pc[i] = "create"
  /\ table' = "present"
  /\ pc' = [pc EXCEPT ![i] = IF table = "present" THEN "serve" ELSE "count"]
  /\ UNCHANGED <<rows, next, wire, trouble>>

\* (Seeded fault: the table counts as seeded even when it is empty.)
CountAny(i) ==
  /\ pc[i] = "count"
  /\ pc' = [pc EXCEPT ![i] = "serve"]
  /\ UNCHANGED <<table, rows, next, wire, trouble>>

\* SELECT COUNT( * ): a table with any user in it is left as it is.
Count(i) ==
  /\ pc[i] = "count"
  /\ pc' = [pc EXCEPT ![i] = IF rows # {} THEN "serve" ELSE "insert"]
  /\ next' = [next EXCEPT ![i] = 1]
  /\ UNCHANGED <<table, rows, wire, trouble>>

\* (Seeded fault: the error of an INSERT does not end the loop.)
InsertGoesOn(i) ==
  /\ pc[i] = "insert"
  /\ rows' = rows \cup {next[i]}
  /\ IF next[i] = Users
       THEN pc' = [pc EXCEPT ![i] = "serve"] /\ UNCHANGED next
       ELSE next' = [next EXCEPT ![i] = @ + 1] /\ UNCHANGED pc
  /\ UNCHANGED <<table, wire, trouble>>

\* INSERT of the next user.  The email is UNIQUE: a user that is there already
\* is an error, and SeedUsers returns.
Insert(i) ==
  /\ pc[i] = "insert"
  /\ rows' = rows \cup {next[i]}
  /\ IF next[i] \in rows \/ next[i] = Users
       THEN pc' = [pc EXCEPT ![i] = "serve"] /\ UNCHANGED next
       ELSE next' = [next EXCEPT ![i] = @ + 1] /\ UNCHANGED pc
  /\ UNCHANGED <<table, wire, trouble>>

\* (Seeded fault: a failed INSERT is skipped.)
FailSkips(i) ==
  /\ pc[i] = "insert" /\ next[i] < Users
  /\ next' = [next EXCEPT ![i] = @ + 1]
  /\ trouble' = "some"
  /\ UNCHANGED <<table, rows, pc, wire>>

\* A statement that had been sent is lost, or stays on its way to the server.
LosesSession(i) ==
  \/ UNCHANGED wire
  \/ pc[i] = "create" /\ wire' = wire \cup {0}
  \/ pc[i] = "insert" /\ wire' = wire \cup {next[i]}

\* A statement fails: SeedUsers returns the error, and the instance serves.
Fail(i) ==
  /\ pc[i] \in {"lookup", "create", "count", "insert"}
  /\ pc' = [pc EXCEPT ![i] = "serve"]
  /\ LosesSession(i)
  /\ trouble' = "some"
  /\ UNCHANGED <<table, rows, next>>

Boot(i) == Connect(i) \/ Lookup(i) \/ Create(i) \/ Count(i) \/ Insert(i)

\* The process dies, and the platform starts it again.
Crash(i) ==
  /\ pc[i] # "down"
  /\ pc' = [pc EXCEPT ![i] = "down"]
  /\ LosesSession(i)
  /\ trouble' = "some"
  /\ UNCHANGED <<table, rows, next>>

\* The server carries out what nobody waits for any more: a second table or a
\* second user of one email is an error that nobody sees.
Land(n) ==
  /\ n \in wire /\ wire' = wire \ {n}
  /\ \/ n = 0 /\ table' = "present" /\ UNCHANGED rows
     \/ n > 0 /\ rows' = rows \cup {n} /\ UNCHANGED table
  /\ UNCHANGED <<pc, next, trouble>>

Serving == (\A i \in Instances : pc[i] = "serve") /\ UNCHANGED vars

Next ==
  \/ \E i \in Instances : Boot(i) \/ Fail(i) \/ Crash(i)
  \/ \E n \in wire : Land(n)
  \/ Serving

Spec == Init /\ [][Next]_vars

-----------------------------------------------------------------------------
(* Properties.                                                             *)

\* Types; users are counted and inserted only when there is a table for them,
\* whoever else was creating it.
SeedTypeOK ==
  /\ table \in {"absent", "present"}
  /\ rows \subseteq 1..Users
  /\ pc \in [Instances -> {"down", "lookup", "create", "count", "insert", "serve"}]
  /\ next \in [Instances -> 1..Users]
  /\ wire \subseteq 0..Users
  /\ trouble \in {"none", "some"}
  /\ (\E i \in Instances : pc[i] \in {"count", "insert"}) \/ wire \ {0} # {} => table = "present"

\* An instance that is past its first INSERT: it alone is seeding.
Seeding(i) == pc[i] = "insert" /\ next[i] > 1
UnderWay   == \E i \in Instances : Seeding(i)

\* Whoever loses the race for the first user gives up, so no two instances
\* ever interleave their inserts (seeder.go:27, 47-51).
OneSeeder == \A i, j \in Instances : Seeding(i) /\ Seeding(j) => i = j

\* The users present are the first few of the list, whatever fails or dies: a
\* manager account is never there without the administrator's.
SeededInOrder == \A u \in rows : 1..u \subseteq rows

\* The users that are there, and those whose INSERT may still come.
Sent == (rows \cup wire) \ {0}

\* A table its seeder abandoned after the first user stays as it is for ever,
\* but for the INSERT that was under way at that time: every later boot counts a
\* user and leaves (seeder.go:27-29), and nobody who counted none before gets
\* further than the first INSERT.
AbandonedForGood ==
  [][rows # {} /\ ~UnderWay => Sent' = Sent /\ ~UnderWay']_vars

\* Unless a statement fails or an instance dies, every user is seeded in the
\* end, whichever instance wins and however many lose.
EveryUserSeeded == <>(rows = 1..Users \/ trouble = "some")

=============================================================================
