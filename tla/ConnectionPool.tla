--------------------------- MODULE ConnectionPool ---------------------------
(***************************************************************************)
(* The asyncpg pool of app/db/pool.py as its users see it: whoever enters  *)
(* "async with pool.acquire()" waits in line, without a time limit, until  *)
(* one of the max_size connections is free, and gives it back on leaving.  *)
(***************************************************************************)
EXTENDS Naturals, Sequences, FiniteSets

CONSTANT max_size

ASSUME PoolAssumption == max_size \in Nat \ {0}

VARIABLES
    queue,    \* who waits for a connection, in order
    holders   \* who has one

poolVars == <<queue, holders>>

NewPool == queue = <<>> /\ holders = {}

Enqueue(user) == queue' = Append(queue, user) /\ UNCHANGED holders

Acquire(user) ==
    /\ queue # <<>> /\ user = Head(queue)
    /\ Cardinality(holders) < max_size
    /\ queue' = Tail(queue) /\ holders' = holders \cup {user}

\* Leaving the block, with an exception or without one.
Release(user) == holders' = holders \ {user} /\ UNCHANGED queue
=============================================================================
