------------------------------- MODULE ClientPool -------------------------------
(***************************************************************************)
(* mongoc_client_pool_t: threads that take clients from a pool of bounded   *)
(* size and give them back, under one mutex and one condition variable.     *)
(* Each thread takes and returns a client Uses times.                       *)
(***************************************************************************)
EXTENDS Naturals, Sequences, FiniteSets

CONSTANTS
  Threads,         \* the threads that share the pool
  max_pool_size,   \* of the URI, at least 1
  Uses,            \* bound: how often a thread takes a client
  MaxSslChanges    \* bound: calls of set_ssl_opts

NoThread == "no thread"

ASSUME PoolConstants ==
  /\ IsFiniteSet(Threads) /\ NoThread \notin Threads
  /\ max_pool_size \in Nat \ {0}
  /\ Uses \in Nat /\ MaxSslChanges \in Nat

VARIABLES
  place,     \* where each thread is
  held,      \* the client that a thread uses, 0 for none
  left,      \* how often a thread will still take a client
  mutex,     \* the thread in the critical section, or NoThread
  woken,     \* threads that left cond_wait and want the mutex back
  queue,     \* the idle clients
  size,      \* pool->size: clients created so far
  ssl,       \* the options of the pool: how often they were set
  options,   \* the options of each client
  gone       \* clients destroyed with the pool

poolVars == <<place, held, left, mutex, woken, queue, size, ssl, options, gone>>

Clients == 1..max_pool_size
Idle == {queue[i] : i \in 1..Len(queue)}
Waiting == {t \in Threads : place[t] = "wait"}

\* mongoc_client_pool_new
PoolInit ==
  /\ place = [t \in Threads |-> "out"]
  /\ held = [t \in Threads |-> 0]
  /\ left = [t \in Threads |-> Uses]
  /\ mutex = NoThread /\ woken = {}
  /\ queue = <<>> /\ size = 0
  /\ ssl = 0 /\ options = [c \in Clients |-> 0]
  /\ gone = {}

-----------------------------------------------------------------------------

\* mongoc_mutex_lock at the start of pop, try_pop and push.
Lock(t, from, to) ==
  /\ place[t] = from /\ mutex = NoThread
  /\ mutex' = t
  /\ place' = [place EXCEPT ![t] = to]
  /\ UNCHANGED <<held, left, woken, queue, size, ssl, options, gone>>

Leave(t, to) == mutex' = NoThread /\ place' = [place EXCEPT ![t] = to]

\* _mongoc_queue_pop_head
pop_head(t) ==
  /\ queue # <<>>
  /\ queue' = Tail(queue) /\ held' = [held EXCEPT ![t] = Head(queue)]
  /\ UNCHANGED <<size, options>>

\* The pool is not full: mongoc_client_new_from_uri, with the pool's options.
new_client(t) ==
  /\ queue = <<>> /\ size < max_pool_size
  /\ size' = size + 1 /\ held' = [held EXCEPT ![t] = size + 1]
  /\ options' = [options EXCEPT ![size + 1] = ssl]
  /\ UNCHANGED queue

\* pop and try_pop got a client.
take(t) ==
  /\ place[t] \in {"pop", "try_pop"}
  /\ pop_head(t) \/ new_client(t)
  /\ Leave(t, "use")
  /\ left' = [left EXCEPT ![t] = @ - 1]
  /\ UNCHANGED <<woken, ssl, gone>>

NoneLeft == queue = <<>> /\ size >= max_pool_size

\* mongoc_cond_wait: the mutex is given up and the thread sleeps.
cond_wait(t) ==
  /\ place[t] = "pop" /\ NoneLeft
  /\ Leave(t, "wait")
  /\ UNCHANGED <<held, left, woken, queue, size, ssl, options, gone>>

\* mongoc_cond_wait returns with the mutex: goto again.
pop_again(t) ==
  /\ place[t] = "wait" /\ t \in woken /\ mutex = NoThread
  /\ woken' = woken \ {t} /\ mutex' = t
  /\ place' = [place EXCEPT ![t] = "pop"]
  /\ UNCHANGED <<held, left, queue, size, ssl, options, gone>>

\* A condition variable may also wake a thread for no reason.
spurious(t) ==
  /\ place[t] = "wait" /\ t \notin woken
  /\ woken' = woken \cup {t}
  /\ UNCHANGED <<place, held, left, mutex, queue, size, ssl, options, gone>>

\* Mutant: the mutex is not released.
NullKeepsMutex(t) ==
  /\ place[t] = "try_pop" /\ NoneLeft
  /\ place' = [place EXCEPT ![t] = "out"] /\ left' = [left EXCEPT ![t] = @ - 1]
  /\ UNCHANGED <<held, woken, mutex, queue, size, ssl, options, gone>>

\* mongoc_client_pool_try_pop returns NULL.
try_pop_null(t) ==
  /\ place[t] = "try_pop" /\ NoneLeft
  /\ Leave(t, "out") /\ left' = [left EXCEPT ![t] = @ - 1]
  /\ UNCHANGED <<held, woken, queue, size, ssl, options, gone>>

\* Mutant: push forgets the threads that sleep.
SignalNobody == woken' = woken

\* mongoc_cond_signal wakes one of the threads that sleep, if there is one.
signal ==
  IF Waiting \ woken = {} THEN woken' = woken
  ELSE \E w \in Waiting \ woken : woken' = woken \cup {w}

\* mongoc_client_pool_push, with _mongoc_queue_push_head.
push(t) ==
  /\ place[t] = "push"
  /\ queue' = <<held[t]>> \o queue /\ held' = [held EXCEPT ![t] = 0]
  /\ signal
  /\ Leave(t, "out")
  /\ UNCHANGED <<left, size, ssl, options, gone>>

\* mongoc_client_pool_set_ssl_opts; a caller must not do so once it has
\* retrieved a client.
set_ssl_opts ==
  /\ mutex = NoThread /\ ssl < MaxSslChanges /\ size = 0
  /\ ssl' = ssl + 1
  /\ UNCHANGED <<place, held, left, mutex, woken, queue, size, options, gone>>

Finished == \A t \in Threads : place[t] = "out" /\ left[t] = 0

\* mongoc_client_pool_destroy, once no thread uses the pool.
destroy ==
  /\ Finished /\ queue # <<>>
  /\ gone' = gone \cup Idle /\ queue' = <<>>
  /\ UNCHANGED <<place, held, left, mutex, woken, size, ssl, options>>

EnterPop(t) == left[t] > 0 /\ (Lock(t, "out", "pop") \/ Lock(t, "out", "try_pop"))

PoolThread(t) ==
  EnterPop(t) \/ take(t) \/ cond_wait(t) \/ pop_again(t) \/ try_pop_null(t)
    \/ Lock(t, "use", "push") \/ push(t)

PoolNext ==
  \/ \E t \in Threads : PoolThread(t) \/ spurious(t)
  \/ set_ssl_opts \/ destroy

\* Each thread goes on with its work and gets the mutex when it is free again
\* and again; nobody has to set options or to destroy the pool.
PoolFairness == \A t \in Threads : SF_poolVars(PoolThread(t))
PoolSpec == PoolInit /\ [][PoolNext]_poolVars /\ PoolFairness

-----------------------------------------------------------------------------

\* The kinds of the variables; the pool never creates more than max_pool_size
\* clients (mongoc-client-pool.c:141).
PoolTypeOK ==
  /\ place \in [Threads -> {"out", "pop", "try_pop", "wait", "use", "push"}]
  /\ held \in [Threads -> 0..max_pool_size]
  /\ left \in [Threads -> 0..Uses]
  /\ mutex \in Threads \cup {NoThread} /\ woken \subseteq Waiting
  /\ queue \in Seq(Clients) /\ size \in 0..max_pool_size
  /\ ssl \in 0..MaxSslChanges /\ options \in [Clients -> 0..ssl]
  /\ gone \subseteq Clients

\* A client is in one place at a time: used by one thread, idle once in the
\* queue, or destroyed.  A mongoc_client_t is not thread safe.
OneOwner ==
  /\ \A s, t \in Threads : s # t /\ held[s] = held[t] => held[s] = 0
  /\ \A t \in Threads : held[t] \notin Idle \cup gone
  /\ Cardinality(Idle) = Len(queue)

\* While clients are idle and threads sleep in pop, as many threads have been
\* woken or look at the queue as there are clients for them: each push signals
\* (mongoc-client-pool.c:211).
NoLostWakeup ==
  Waiting \ woken # {} =>
    Len(queue) <= Cardinality(woken) + Cardinality({t \in Threads : place[t] \in {"pop", "try_pop"}})

\* Once every thread has returned its client and the pool is destroyed, so is
\* every client it created.
NothingLeaks == Finished => Idle \cup gone = 1..size

\* Every thread gets its clients and finishes, although the pool is smaller
\* than the number of threads: nobody sleeps in pop for ever.
EveryThreadFinishes == <>[]Finished

\* All clients retrieved from the pool have the options that were set last,
\* whichever thread created them (mongoc-client-pool.c:144).
SameOptions == \A t \in Threads : held[t] # 0 => options[held[t]] = ssl

\* Threads share the clients of a pool without losing one, losing a wake-up or
\* using one together.
ClientsShared ==
  PoolTypeOK /\ OneOwner /\ NoLostWakeup /\ NothingLeaks /\ SameOptions
=============================================================================
