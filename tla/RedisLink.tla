------------------------------- MODULE RedisLink -------------------------------
(***************************************************************************)
(* The link to Redis: InitRedis at boot, redisHealthLoop, and the gate     *)
(* every use of Redis passes (RedisAvailable).  ReadThrough abstracts all  *)
(* this to one variable that may change at any moment; here the loop that  *)
(* changes it samples the server first and stores what it saw later, while *)
(* requests read the gate and call past it.                                *)
(***************************************************************************)
EXTENDS Naturals

CONSTANT Requests   \* request goroutines, and the invalidation webhook

VARIABLES
  server,   \* the Redis server: "up" or "down"
  client,   \* RedisClient: "nil" or "set"
  alive,    \* redisAlive: 0 or 1
  loop,     \* redisHealthLoop: "boot" before InitRedis, "off" when it does not
            \* run, "sleep" until the next tick, else the answer to its ping
  call      \* of each request: "idle", "past" the gate, or "waiting" for Redis

vars == <<server, client, alive, loop, call>>

Available == client # "nil" /\ alive = 1        \* RedisAvailable()

Init ==
  /\ server \in {"up", "down"}
  /\ client = "nil" /\ alive = 0 /\ loop = "boot"
  /\ call = [r \in Requests |-> "idle"]

\* (Seeded fault: the client is kept although its ping failed.)
InitRedisKeeps ==
  /\ loop = "boot"
  /\ client' = "set"
  /\ IF server = "up" THEN alive' = 1 /\ loop' = "sleep"
                      ELSE loop' = "off" /\ UNCHANGED alive
  /\ UNCHANGED <<server, call>>

\* Redis is configured and answers the ping; or it is not configured, or does
\* not answer, and then there is neither a client nor a loop.
InitRedis ==
  /\ loop = "boot"
  /\ \/ server = "up" /\ client' = "set" /\ alive' = 1 /\ loop' = "sleep"
     \/ loop' = "off" /\ UNCHANGED <<client, alive>>
  /\ UNCHANGED <<server, call>>

\* A tick of the loop: the ping is answered, or times out after a second.
Ping ==
  /\ loop = "sleep"
  /\ loop' = server
  /\ UNCHANGED <<server, client, alive, call>>

\* (Seeded fault: a failed ping is logged and nothing else.)
MarkNothing ==
  /\ loop \in {"up", "down"}
  /\ alive' = IF loop = "up" THEN 1 ELSE alive
  /\ loop' = "sleep"
  /\ UNCHANGED <<server, client, call>>

\* (Seeded fault: the loop returns after a failed ping.)
MarkLast ==
  /\ loop \in {"up", "down"}
  /\ alive' = IF loop = "up" THEN 1 ELSE 0
  /\ loop' = IF loop = "up" THEN "sleep" ELSE "off"
  /\ UNCHANGED <<server, client, call>>

\* What the ping saw is stored, whatever the server is by now.
Mark ==
  /\ loop \in {"up", "down"}
  /\ alive' = IF loop = "up" THEN 1 ELSE 0
  /\ loop' = "sleep"
  /\ UNCHANGED <<server, client, call>>

\* RedisGetJSON, RedisSetJSON, RedisInvalidatePrefix: a request that finds Redis
\* unavailable goes on without it.
Gate(r) ==
  /\ call[r] = "idle" /\ Available
  /\ call' = [call EXCEPT ![r] = "past"]
  /\ UNCHANGED <<server, client, alive, loop>>

Use(r) ==
  /\ call[r] = "past"
  /\ call' = [call EXCEPT ![r] = "waiting"]
  /\ UNCHANGED <<server, client, alive, loop>>

\* Redis answers, or the timeout of the call expires.
Return(r) ==
  /\ call[r] = "waiting"
  /\ call' = [call EXCEPT ![r] = "idle"]
  /\ UNCHANGED <<server, client, alive, loop>>

ServerChange ==
  /\ server' = IF server = "up" THEN "down" ELSE "up"
  /\ UNCHANGED <<client, alive, loop, call>>

\* The process dies and boots again.
Restart ==
  /\ client' = "nil" /\ alive' = 0 /\ loop' = "boot"
  /\ call' = [r \in Requests |-> "idle"]
  /\ UNCHANGED server

Next ==
  \/ InitRedis \/ Ping \/ Mark
  \/ \E r \in Requests : Gate(r) \/ Use(r) \/ Return(r)
  \/ ServerChange \/ Restart

Spec == Init /\ [][Next]_vars

-----------------------------------------------------------------------------
(* Properties.                                                             *)

\* Types; nobody is past the gate, and nothing is marked up, without a client
\* the loop looks after: RedisClient is never used while it is nil.
LinkTypeOK ==
  /\ server \in {"up", "down"}
  /\ client \in {"nil", "set"}
  /\ alive \in {0, 1}
  /\ loop \in {"boot", "off", "sleep", "up", "down"}
  /\ call \in [Requests -> {"idle", "past", "waiting"}]
  /\ (client = "set") <=> (loop \in {"sleep", "up", "down"})
  /\ client = "nil" => alive = 0 /\ \A r \in Requests : call[r] = "idle"

\* The part of the state ReadThrough keeps, and what it lets happen to it: the
\* link only goes up and down, so a process that boots without Redis never uses
\* it (redis.go:91-95), and one that boots with it never drops the client.
Link == IF client = "nil" THEN "nil" ELSE IF alive = 1 THEN "up" ELSE "down"

LinkGoesUpAndDown ==
  [][Link' # Link => loop = "boot" \/ loop' = "boot" \/ "nil" \notin {Link, Link'}]_vars

\* redis.go:108-109: once Redis is down for good, there comes a time from which
\* no request waits for a network timeout.
StopsCalling ==
  <>[](server = "down") => <>[](\A r \in Requests : call[r] = "idle")

\* Once Redis is up for good, a process that has a client comes to use it
\* again, however often it was marked down before and by how stale a ping.
ComesBack == <>[](server = "up" /\ client = "set") => <>[]Available

=============================================================================
