-------------------------------- MODULE FanOut --------------------------------
(***************************************************************************)
(* The two loaders that fan out.  GetSalesPerformance starts one goroutine *)
(* per section of the dashboard, GetDropdownOptions one per column; each   *)
(* queries Postgres over a pool of connections the whole process shares,   *)
(* stores what it found under a mutex, and the loader waits for them all.  *)
(*                                                                         *)
(* The sections that run a single query are "plain"; the geographic ones   *)
(* among them may first have to ask which columns the table has.  Hero     *)
(* products may run a second query for the total, and the new-product      *)
(* series falls back on two searches for recent launches when none of its  *)
(* codes was sold.  The rows a query returns are abstracted to which query *)
(* they are from, and to the refresh of marts_ecommerce they were read     *)
(* after.                                                                  *)
(***************************************************************************)
EXTENDS Integers, FiniteSets

CONSTANTS
  SalesCalls,    \* concurrent runs of GetSalesPerformance
  OptionsCalls,  \* concurrent runs of GetDropdownOptions
  Plain,         \* sections with one query; also the columns of the options
  Geo,           \* the plain sections by place: cities and provinces
  Hero, Npl,     \* the two other sections
  Pool,          \* DB.SetMaxOpenConns: 50 in the code
  MaxRefresh,    \* bound: refreshes of marts_ecommerce by the ETL
  Faults         \* may a query fail?

Calls == SalesCalls \cup OptionsCalls
Sections == Plain \cup {Hero, Npl}

ASSUME FanOutAssumption ==
  /\ IsFiniteSet(SalesCalls) /\ IsFiniteSet(OptionsCalls) /\ IsFiniteSet(Plain)
  /\ SalesCalls \cap OptionsCalls = {}
  /\ Hero # Npl /\ {Hero, Npl} \cap Plain = {}
  /\ Geo \subseteq Plain
  /\ Pool \in Nat \ {0} /\ MaxRefresh \in Nat
  /\ Faults \in BOOLEAN

VARIABLES
  main,     \* of each call: "spawn", "wait", "answered" or "refused"
  wg,       \* its WaitGroup
  at,       \* of each of its goroutines: where it is
  query,    \* and which of its queries, 1 to 3, it is at, or 0: the columns
  found,    \* what it has found so far
  result,   \* the variable it assigns: "nil" until it does
  answer,   \* what the call returned
  open,     \* connections in use
  version,  \* refreshes of marts_ecommerce so far
  from      \* history: what it has found consists of, and of which versions

history == <<version, from>>
vars == <<main, wg, at, query, found, result, answer, open, history>>

\* A goroutine is either not started, asking for a connection, reading rows
\* over one, about to assign its result, about to leave, or gone.
Stages == {"off", "ask", "read", "assign", "leave", "gone"}

\* What a section can hold: nothing, an empty list, or rows of a query.
Contents == {"nil", "empty", "first", "second", "third"}

\* What is shown of it: rows, the word that there are none, a total.
Parts == {"rows", "none", "total"}

Workers(c) == IF c \in SalesCalls THEN Sections ELSE Plain

Init ==
  /\ main = [c \in Calls |-> "spawn"]
  /\ wg = [c \in Calls |-> 0]
  /\ at = [c \in Calls |-> [s \in Sections |-> "off"]]
  /\ query = [c \in Calls |-> [s \in Sections |-> 1]]
  /\ found = [c \in Calls |-> [s \in Sections |-> "nil"]]
  /\ result = [c \in Calls |-> [s \in Sections |->
       IF c \in OptionsCalls /\ s \in Plain THEN "empty" ELSE "nil"]]
  /\ answer = [c \in Calls |-> [s \in Sections |-> "nil"]]
  /\ open = 0
  /\ version = 0
  /\ from = [c \in Calls |-> [s \in Sections |-> {}]]

\* The dates of the request do not parse: an error, before anything is started.
Refuse(c) ==
  /\ main[c] = "spawn" /\ c \in SalesCalls
  /\ \A s \in Sections : at[c][s] = "off"
  /\ main' = [main EXCEPT ![c] = "refused"]
  /\ UNCHANGED <<wg, at, query, found, result, answer, open, history>>

\* Where a section begins: pickGeoColumn asks for the columns of the table
\* unless the process has them already.
FirstQuery(c, s) == IF c \in SalesCalls /\ s \in Geo THEN {0, 1} ELSE {1}

\* (Seeded fault: wg.Add(1) is left to the goroutine.)
SpawnUncounted(c, s) ==
  /\ main[c] = "spawn" /\ s \in Workers(c) /\ at[c][s] = "off"
  /\ at' = [at EXCEPT ![c][s] = "ask"]
  /\ main' = [main EXCEPT ![c] =
       IF \A t \in Workers(c) \ {s} : at[c][t] # "off" THEN "wait" ELSE @]
  /\ UNCHANGED <<wg, query, found, result, answer, open, history>>

\* run(fn): wg.Add(1), then the goroutine is started.
Spawn(c, s) ==
  /\ main[c] = "spawn" /\ s \in Workers(c) /\ at[c][s] = "off"
  /\ wg' = [wg EXCEPT ![c] = @ + 1]
  /\ at' = [at EXCEPT ![c][s] = "ask"]
  /\ \E q \in FirstQuery(c, s) : query' = [query EXCEPT ![c][s] = q]
  /\ main' = [main EXCEPT ![c] =
       IF \A t \in Workers(c) \ {s} : at[c][t] # "off" THEN "wait" ELSE @]
  /\ UNCHANGED <<found, result, answer, open, history>>

\* DB.Query: a free connection is taken, or the goroutine waits for one.
Connect(c, s) ==
  /\ at[c][s] = "ask" /\ open < Pool
  /\ open' = open + 1
  /\ at' = [at EXCEPT ![c][s] = "read"]
  /\ UNCHANGED <<main, wg, query, found, result, answer, history>>

\* Goes on to the next query, to the assignment, or leaves without one.
AskNext(c, s) ==
  /\ at' = [at EXCEPT ![c][s] = "ask"]
  /\ query' = [query EXCEPT ![c][s] = @ + 1]
Assign(c, s) == at' = [at EXCEPT ![c][s] = "assign"] /\ UNCHANGED query
Leave(c, s)  == at' = [at EXCEPT ![c][s] = "leave"] /\ UNCHANGED query

\* (Seeded fault: the list of a failed column is returned before it is made.)
FailNil(c, s) ==
  /\ at[c][s] = "ask" /\ Faults /\ query[c][s] = 1
  /\ Assign(c, s)
  /\ UNCHANGED <<main, wg, found, result, answer, open, history>>

\* A query fails.  Whether that is the first or a later one decides what the
\* section loses: all of it, or only what the later query would have added.
\* Without the columns a section by place falls back on a constant.
Fail(c, s) ==
  /\ at[c][s] = "ask" /\ Faults
  /\ IF query[c][s] = 1
       THEN IF c \in OptionsCalls
              THEN Assign(c, s) /\ found' = [found EXCEPT ![c][s] = "empty"]
              ELSE Leave(c, s) /\ UNCHANGED found
       ELSE /\ IF query[c][s] = 0 \/ (s = Npl /\ query[c][s] = 2)
                 THEN AskNext(c, s) ELSE Assign(c, s)
            /\ UNCHANGED found
  /\ UNCHANGED <<main, wg, result, answer, open, history>>

\* Parts of what a query returns now.
Now(parts) == {[part |-> p, of |-> version] : p \in parts}

\* What a section shows from now on, in place of what it showed so far.
Show(c, s, nth, parts) ==
  /\ found' = [found EXCEPT ![c][s] = nth]
  /\ from' = [from EXCEPT ![c][s] = Now(parts)]

\* A total is shown beside what there is.
ShowTotal(c, s) ==
  /\ found' = [found EXCEPT ![c][s] = "second"]
  /\ from' = [from EXCEPT ![c][s] = @ \cup Now({"total"})]

\* The columns of the table have been read; the rows are asked for next.
ReadColumns(c, s) == query[c][s] = 0 /\ AskNext(c, s) /\ UNCHANGED <<found, from>>

\* The rows of a plain section have been read.
ReadPlain(c, s) ==
  s \in Plain /\ query[c][s] = 1 /\ Assign(c, s) /\ Show(c, s, "first", {"rows"})

\* (Seeded fault: the total is queried on its own whatever products there are.)
ReadHeroTotal(c, s) ==
  /\ s = Hero
  /\ \/ query[c][s] = 1 /\ AskNext(c, s) /\ Show(c, s, "first", {"rows"})
     \/ query[c][s] = 2 /\ Assign(c, s) /\ ShowTotal(c, s)

\* Hero products come with the total of their query.  When no product has more
\* than a fifth of it, the list is empty, no row carries the total, and it is
\* queried on its own.
ReadHero(c, s) ==
  /\ s = Hero
  /\ \/ query[c][s] = 1 /\ Assign(c, s) /\ Show(c, s, "first", {"rows", "total"})
     \/ query[c][s] = 1 /\ AskNext(c, s) /\ Show(c, s, "first", {"none"})
     \/ query[c][s] = 2 /\ Assign(c, s) /\ ShowTotal(c, s)

\* queryNPLSeries: one row per code, some of them found or none.
ReadCodes(c, s) ==
  /\ s = Npl /\ query[c][s] = 1
  /\ \/ Assign(c, s) /\ Show(c, s, "first", {"rows"})
     \/ AskNext(c, s) /\ Show(c, s, "first", {"none"})

\* discoverRecentLaunches, with the filters and then without: the first search
\* that returns something replaces the codes; if neither does, they stay.
ReadLaunches(c, s) ==
  /\ s = Npl /\ query[c][s] \in {2, 3}
  /\ \/ /\ Assign(c, s)
        /\ Show(c, s, IF query[c][s] = 2 THEN "second" ELSE "third", {"rows"})
     \/ /\ IF query[c][s] = 2 THEN AskNext(c, s) ELSE Assign(c, s)
        /\ UNCHANGED <<found, from>>

\* What a goroutine does with the rows it has read.
Take(c, s) ==
  \/ ReadColumns(c, s) \/ ReadPlain(c, s)
  \/ ReadHero(c, s) \/ ReadCodes(c, s) \/ ReadLaunches(c, s)

\* (Seeded fault: the rows are closed when the function returns, so a second
\* query is made while the first still holds its connection.)
ReadHolding(c, s) ==
  /\ at[c][s] = "read"
  /\ Take(c, s)
  /\ open' = IF query[c][s] = 0 THEN open - 1
             ELSE IF at'[c][s] = "ask" THEN open ELSE open - query[c][s]
  /\ UNCHANGED <<main, wg, result, answer, version>>

\* rows.Next returns false, which closes the rows and frees the connection,
\* before anything else is queried.
Read(c, s) ==
  /\ at[c][s] = "read"
  /\ Take(c, s)
  /\ open' = open - 1
  /\ UNCHANGED <<main, wg, result, answer, version>>

\* mu.Lock(); the shared variable is assigned; mu.Unlock().
Publish(c, s) ==
  /\ at[c][s] = "assign"
  /\ result' = [result EXCEPT ![c][s] = found[c][s]]
  /\ at' = [at EXCEPT ![c][s] = "leave"]
  /\ UNCHANGED <<main, wg, query, found, answer, open, history>>

\* (Seeded fault: wg.Done() runs before the result is assigned.)
DoneEarly(c, s) ==
  /\ at[c][s] \in {"assign", "leave"}
  /\ wg' = [wg EXCEPT ![c] = @ - 1]
  /\ at' = [at EXCEPT ![c][s] = "gone"]
  /\ UNCHANGED <<main, query, found, result, answer, open, history>>

\* defer wg.Done().
Done(c, s) ==
  /\ at[c][s] = "leave"
  /\ wg' = [wg EXCEPT ![c] = @ - 1]
  /\ at' = [at EXCEPT ![c][s] = "gone"]
  /\ UNCHANGED <<main, query, found, result, answer, open, history>>

\* wg.Wait() returns; the response is put together and returned without error.
Answer(c) ==
  /\ main[c] = "wait" /\ wg[c] = 0
  /\ main' = [main EXCEPT ![c] = "answered"]
  /\ answer' = [answer EXCEPT ![c] = result[c]]
  /\ UNCHANGED <<wg, at, query, found, result, open, history>>

\* The ETL refreshes marts_ecommerce, between any two queries.
Refresh ==
  /\ version < MaxRefresh
  /\ version' = version + 1
  /\ UNCHANGED <<main, wg, at, query, found, result, answer, open, from>>

Finished ==
  /\ \A c \in Calls : main[c] \in {"answered", "refused"}
  /\ UNCHANGED vars

Work(c, s) == Connect(c, s) \/ Read(c, s) \/ Publish(c, s) \/ Done(c, s)

Next ==
  \/ \E c \in Calls, s \in Sections : Spawn(c, s) \/ Work(c, s) \/ Fail(c, s)
  \/ \E c \in Calls : Refuse(c) \/ Answer(c)
  \/ Refresh \/ Finished

Spec == Init /\ [][Next]_vars

\* Goroutines are scheduled, and a query that has a connection ends.  Nobody
\* may count on a query to fail.
Fairness ==
  /\ \A c \in Calls, s \in Sections : WF_vars(Spawn(c, s)) /\ WF_vars(Work(c, s))
  /\ \A c \in Calls : WF_vars(Answer(c))

FairSpec == Spec /\ Fairness

-----------------------------------------------------------------------------
(* Properties.                                                             *)

\* Types; the WaitGroup never goes negative, which would panic, and the pool
\* never hands out more connections than it has.
FanOutTypeOK ==
  /\ main \in [Calls -> {"spawn", "wait", "answered", "refused"}]
  /\ wg \in [Calls -> Nat]
  /\ at \in [Calls -> [Sections -> Stages]]
  /\ query \in [Calls -> [Sections -> 0..3]]
  /\ found \in [Calls -> [Sections -> Contents]]
  /\ result \in [Calls -> [Sections -> Contents]]
  /\ answer \in [Calls -> [Sections -> Contents]]
  /\ open \in 0..Pool
  /\ version \in 0..MaxRefresh
  /\ from \in [Calls -> [Sections -> SUBSET [part : Parts, of : 0..MaxRefresh]]]

Running(c) == {s \in Sections : at[c][s] \in {"ask", "read", "assign", "leave"}}
Reading    == {w \in Calls \X Sections : at[w[1]][w[2]] = "read"}

\* The WaitGroup counts the goroutines under way and the pool the connections
\* being read over: neither is ever off by a goroutine that left too early,
\* failed, or asked for a second connection while it held one.
Accounts ==
  /\ \A c \in Calls : wg[c] = Cardinality(Running(c))
  /\ open = Cardinality(Reading)

\* A response is put together only when every goroutine is done with it: what
\* each one found is in it, and it changes no more afterwards.
AnswerComplete ==
  \A c \in Calls : main[c] = "answered" =>
    \A s \in Workers(c) :
      /\ at[c][s] = "gone"
      /\ found[c][s] # "nil" => answer[c][s] = found[c][s]

\* However a column's query fails, the options carry a list for it, never null.
OptionsNeverNull ==
  \A c \in OptionsCalls : main[c] = "answered" => \A s \in Plain : answer[c][s] # "nil"

\* The queries of an answer run one by one, and a refresh may come between any
\* two of them.  Whatever rows a section shows, it shows nothing of another
\* version beside them: hero products are shown with the total their shares are
\* of, and launches never beside other codes (sales_performance.go:239-256,
\* 573-585).  What may not fit is an empty list of hero products and its total.
RowsOfOneVersion ==
  \A c \in SalesCalls, s \in Sections : \A u, v \in from[c][s] :
    u.of # v.of => s = Hero /\ u.part # "rows" /\ v.part # "rows"

\* No call hangs, however few connections there are: nobody waits for a
\* connection while holding one.
EveryCallReturns == \A c \in Calls : <>(main[c] \in {"answered", "refused"})

=============================================================================
