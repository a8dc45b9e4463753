-------------------------------- MODULE Startup --------------------------------
(***************************************************************************)
(* The boot of an instance as main runs it: InitDB, InitRedis, SeedUsers,  *)
(* and then it serves.  SeedUsers is the composition of all instances over *)
(* one users table; RedisLink is the link of one of them, Self, and exists *)
(* only between its InitRedis and its death.  The links of the others are  *)
(* left out: no instance sees another's.                                   *)
(***************************************************************************)
EXTENDS SeedUsers

CONSTANTS
  Self,       \* the instance whose link to Redis is looked at
  Requests    \* its request goroutines

ASSUME SelfAssumption == Self \in Instances

VARIABLES server, client, alive, loop, call

Link == INSTANCE RedisLink
linkVars == <<server, client, alive, loop, call>>
allVars  == <<vars, linkVars>>

StartupInit == Init /\ Link!Init

\* (Seeded fault: Redis is pinged until it answers, before anything else.)
LinkUpWaits == pc[Self] = "lookup" /\ server = "up" /\ Link!InitRedis /\ UNCHANGED vars

\* main waits for InitRedis before it seeds, whatever InitRedis finds.
LinkUp == pc[Self] = "lookup" /\ Link!InitRedis /\ UNCHANGED vars

Booting(i) ==
  /\ i = Self => pc[i] = "down" \/ loop # "boot"
  /\ Boot(i)
  /\ UNCHANGED linkVars

Failing(i) ==
  /\ i = Self => loop # "boot"
  /\ Fail(i)
  /\ UNCHANGED linkVars

\* Only an instance that serves has requests that come to the gate.
Serve(r) == pc[Self] = "serve" /\ Link!Gate(r) /\ UNCHANGED vars
Talk(r)  == (Link!Use(r) \/ Link!Return(r)) /\ UNCHANGED vars

\* What an instance knew of Redis dies with it.
Dying(i) == Crash(i) /\ IF i = Self THEN Link!Restart ELSE UNCHANGED linkVars

Landing(n) == Land(n) /\ UNCHANGED linkVars

StartupNext ==
  \/ \E i \in Instances : Booting(i) \/ Failing(i) \/ Dying(i)
  \/ \E n \in wire : Landing(n)
  \/ LinkUp
  \/ \E r \in Requests : Serve(r) \/ Talk(r)
  \/ (Link!Ping \/ Link!Mark \/ Link!ServerChange) /\ UNCHANGED vars
  \/ Serving /\ UNCHANGED linkVars

\* Every instance the platform runs gets to run and the database answers; the
\* ticker of the health loop ticks, and a call of Redis that has begun ends,
\* for it has a timeout.
StartupSpec ==
  /\ StartupInit /\ [][StartupNext]_allVars
  /\ \A i \in Instances : WF_allVars(Booting(i))
  /\ WF_allVars(LinkUp)
  /\ WF_allVars(Link!Ping /\ UNCHANGED vars) /\ WF_allVars(Link!Mark /\ UNCHANGED vars)
  /\ \A r \in Requests : WF_allVars(Talk(r))

-----------------------------------------------------------------------------
(* Properties.  Those of SeedUsers and of RedisLink hold of the two        *)
(* together; the last is about both.                                       *)

\* RedisClient is never used while it is nil, from boot to death.
LinkTypeOK == Link!LinkTypeOK

\* The link only goes up and down between two boots, as ReadThrough lets it.
LinkGoesUpAndDown == Link!LinkGoesUpAndDown

\* Once Redis is down for good, no request goes on waiting for its timeouts.
StopsCalling == Link!StopsCalling

\* Once it is up for good, a process with a client comes to use it again.
ComesBack == Link!ComesBack

\* redis.go:54-55: a failure of Redis does not stop the application.  Nor does
\* anything SeedUsers meets: an instance that reached its database comes to
\* serve, without Redis, without users, or behind another that seeds.
ServesAnyway ==
  \A i \in Instances : pc[i] = "lookup" ~> pc[i] \in {"serve", "down"}

=============================================================================
