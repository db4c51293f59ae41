---------------------------- MODULE NamespaceWatch ----------------------------
(***************************************************************************)
(* NamespaceWatchManager: in external mode a worker that has claimed       *)
(* Hardware makes sure that an informer cache watches the Workflows, Tasks *)
(* and Jobs of the Hardware's namespace (src/pkg/cluster/watch.go).        *)
(*                                                                         *)
(* Workers call EnsureWatch concurrently.  Its steps are the sections      *)
(* under m.mu, the singleflight, and the calls of startAndRegister between *)
(* them; each cache has a goroutine that cleans up when the cache stops.   *)
(* SetController and SetContext come before the manager starts.            *)
(***************************************************************************)
EXTENDS Naturals

CONSTANTS
  Workers,      \* the callers of EnsureWatch
  Namespaces,
  Caches,       \* the informer caches there can be: bounds the starts
  None,
  backoffBase,
  backoffMax,
  MaxTime       \* bound on the clock

ASSUME WatchNoneAssumption == None \notin Workers \cup Caches
ASSUME TimeAssumption == {backoffBase, backoffMax, MaxTime} \subseteq Nat

VARIABLES
  namespaces,  \* m.namespaces: the cache whose cancel function is kept
  failures,    \* m.failures
  flight,      \* the leader of the singleflight call for a namespace
  caches,      \* the caches and their goroutines
  pc,          \* where a worker is in EnsureWatch
  arg,         \* the namespace it asked for
  mine,        \* the cache a leader is starting
  answer,      \* what its last call returned, or the one it leads will
  clock

watchVars == <<namespaces, failures, flight, caches, pc, arg, mine, answer, clock>>

NoFailure == [count |-> 0, lastAttempt |-> 0]

\* A cache runs, is cancelled, or has stopped by itself: "failing" until its
\* goroutine has cleaned up, "stopped" from then on.
CacheStates == {"unused", "running", "cancelled", "failing", "stopped"}
CacheRec == [state : CacheStates, of : Namespaces \cup {None}, watched : BOOLEAN]
NoCache == [state |-> "unused", of |-> None, watched |-> FALSE]

WatchInit ==
  /\ namespaces = [n \in Namespaces |-> None]
  /\ failures = [n \in Namespaces |-> NoFailure]
  /\ flight = [n \in Namespaces |-> None]
  /\ caches = [k \in Caches |-> NoCache]
  /\ pc = [w \in Workers |-> "idle"]
  /\ arg = [w \in Workers |-> None]
  /\ mine = [w \in Workers |-> None]
  /\ answer = [w \in Workers |-> "none"]
  /\ clock = 0

backoffDuration(count) ==
  IF count >= 6 \/ 2^count * backoffBase > backoffMax
  THEN backoffMax
  ELSE 2^count * backoffBase

InBackoff(n) ==
  /\ failures[n].count > 0
  /\ clock - failures[n].lastAttempt < backoffDuration(failures[n].count)

Goto(w, step) == pc' = [pc EXCEPT ![w] = step]

\* cacheCancel: a goroutine that has found its context alive cleans up anyway.
Cancelled(k) == IF caches[k].state = "running" THEN [caches[k] EXCEPT !.state = "cancelled"]
                                               ELSE caches[k]

\* The function that singleflight.Do runs returns.
Decide(w, what) ==
  /\ answer' = [answer EXCEPT ![w] = what]
  /\ Goto(w, "return")

-------------------------------------------------------------------------------
\* The first section of EnsureWatch: done already, in back-off, or go on.
EnsureWatch(w, n) ==
  /\ pc[w] = "idle"
  /\ arg' = [arg EXCEPT ![w] = n]
  /\ \/ /\ namespaces[n] # None
        /\ answer' = [answer EXCEPT ![w] = "ok"]
        /\ UNCHANGED pc
     \/ /\ namespaces[n] = None /\ InBackoff(n)
        /\ answer' = [answer EXCEPT ![w] = "backoff"]
        /\ UNCHANGED pc
     \/ /\ namespaces[n] = None /\ ~InBackoff(n)
        /\ Goto(w, "do")
        /\ UNCHANGED answer
  /\ UNCHANGED <<namespaces, failures, flight, caches, mine, clock>>

\* A slip: who finds a call in flight does not wait for it.
EnterWithoutWaiting(w) ==
  /\ pc[w] = "do"
  /\ LET n == arg[w] IN
     \/ /\ flight[n] = None
        /\ flight' = [flight EXCEPT ![n] = w]
        /\ Goto(w, "recheck")
        /\ UNCHANGED answer
     \/ /\ flight[n] # None
        /\ Goto(w, "idle")
        /\ answer' = [answer EXCEPT ![w] = "ok"]
        /\ UNCHANGED flight
  /\ UNCHANGED <<namespaces, failures, caches, arg, mine, clock>>

\* A slip: every caller leads a call of its own.
EnterUnshared(w) ==
  /\ pc[w] = "do"
  /\ flight' = [flight EXCEPT ![arg[w]] = w]
  /\ Goto(w, "recheck")
  /\ UNCHANGED <<namespaces, failures, caches, arg, mine, answer, clock>>

\* m.sf.Do: lead the call for the namespace, or join the one in flight.
Enter(w) ==
  /\ pc[w] = "do"
  /\ LET n == arg[w] IN
     \/ /\ flight[n] = None
        /\ flight' = [flight EXCEPT ![n] = w]
        /\ Goto(w, "recheck")
     \/ /\ flight[n] # None
        /\ Goto(w, "wait")
        /\ UNCHANGED flight
  /\ UNCHANGED <<namespaces, failures, caches, arg, mine, answer, clock>>

\* The leader looks again, for a call that ended before it entered.
Recheck(w) ==
  /\ pc[w] = "recheck"
  /\ \/ /\ namespaces[arg[w]] # None
        /\ Decide(w, "ok")
     \/ /\ namespaces[arg[w]] = None
        /\ Goto(w, "start")
        /\ UNCHANGED answer
  /\ UNCHANGED <<namespaces, failures, flight, caches, arg, mine, clock>>

\* startAndRegister makes a cache and starts its goroutine, or fails to.
Start(w) ==
  /\ pc[w] = "start"
  /\ \/ /\ Goto(w, "fail")
        /\ UNCHANGED <<caches, mine>>
     \/ \E k \in Caches :
          /\ caches[k] = NoCache
          /\ caches' = [caches EXCEPT ![k] =
                         [state |-> "running", of |-> arg[w], watched |-> FALSE]]
          /\ mine' = [mine EXCEPT ![w] = k]
          /\ Goto(w, "sync")
  /\ UNCHANGED <<namespaces, failures, flight, arg, answer, clock>>

\* A slip: a cache that does not sync is left running.
SyncWithoutCancel(w) ==
  /\ pc[w] = "sync"
  /\ \/ caches[mine[w]].state = "running" /\ Goto(w, "watch")
     \/ Goto(w, "fail")
  /\ UNCHANGED <<namespaces, failures, flight, caches, arg, mine, answer, clock>>

\* WaitForCacheSync, which a failure of follows by cacheCancel.
Sync(w) ==
  /\ pc[w] = "sync"
  /\ \/ /\ caches[mine[w]].state = "running"
        /\ Goto(w, "watch")
        /\ UNCHANGED caches
     \/ /\ caches' = [caches EXCEPT ![mine[w]] = Cancelled(mine[w])]
        /\ Goto(w, "fail")
  /\ UNCHANGED <<namespaces, failures, flight, arg, mine, answer, clock>>

\* The three calls of ctrl.Watch, of which one may fail.
Watch(w) ==
  /\ pc[w] = "watch"
  /\ \/ /\ caches' = [caches EXCEPT ![mine[w]].watched = TRUE]
        /\ Goto(w, "record")
     \/ /\ caches' = [caches EXCEPT ![mine[w]] = Cancelled(mine[w])]
        /\ Goto(w, "fail")
  /\ UNCHANGED <<namespaces, failures, flight, arg, mine, answer, clock>>

\* The section that keeps the cancel function, and the one that counts a failure.
Record(w) ==
  /\ pc[w] = "record"
  /\ namespaces' = [namespaces EXCEPT ![arg[w]] = mine[w]]
  /\ failures' = [failures EXCEPT ![arg[w]] = NoFailure]
  /\ mine' = [mine EXCEPT ![w] = None]
  /\ Decide(w, "ok")
  /\ UNCHANGED <<flight, caches, arg, clock>>

Fail(w) ==
  /\ pc[w] = "fail"
  /\ failures' = [failures EXCEPT ![arg[w]] =
                   [count |-> @.count + 1, lastAttempt |-> clock]]
  /\ mine' = [mine EXCEPT ![w] = None]
  /\ Decide(w, "error")
  /\ UNCHANGED <<namespaces, flight, caches, arg, clock>>

\* singleflight.Do returns: the leader and all who joined get the leader's
\* answer.
Return(w) ==
  LET n == arg[w]
      Returns(x) == x = w \/ (pc[x] = "wait" /\ arg[x] = n)
  IN /\ pc[w] = "return"
     /\ flight' = [flight EXCEPT ![n] = None]
     /\ pc' = [x \in Workers |-> IF Returns(x) THEN "idle" ELSE pc[x]]
     /\ answer' = [x \in Workers |-> IF Returns(x) THEN answer[w] ELSE answer[x]]
     /\ UNCHANGED <<namespaces, failures, caches, arg, mine, clock>>

-------------------------------------------------------------------------------
\* A cache stops by itself; its goroutine finds its context alive.
CacheStops(k) ==
  /\ caches[k].state = "running"
  /\ caches' = [caches EXCEPT ![k].state = "failing"]
  /\ UNCHANGED <<namespaces, failures, flight, pc, arg, mine, answer, clock>>

\* The goroutine then forgets the namespace, whatever cache is kept for it.
CleanUp(k) ==
  /\ caches[k].state = "failing"
  /\ caches' = [caches EXCEPT ![k].state = "stopped"]
  /\ namespaces' = [namespaces EXCEPT ![caches[k].of] = None]
  /\ UNCHANGED <<failures, flight, pc, arg, mine, answer, clock>>

StopWatch(n) ==
  /\ namespaces[n] # None \/ failures[n] # NoFailure
  /\ caches' = [k \in Caches |-> IF k = namespaces[n] THEN Cancelled(k) ELSE caches[k]]
  /\ namespaces' = [namespaces EXCEPT ![n] = None]
  /\ failures' = [failures EXCEPT ![n] = NoFailure]
  /\ UNCHANGED <<flight, pc, arg, mine, answer, clock>>

StopAll ==
  /\ \E n \in Namespaces : namespaces[n] # None \/ failures[n] # NoFailure
  /\ caches' = [k \in Caches |-> IF \E n \in Namespaces : k = namespaces[n]
                                 THEN Cancelled(k) ELSE caches[k]]
  /\ namespaces' = [n \in Namespaces |-> None]
  /\ failures' = [n \in Namespaces |-> NoFailure]
  /\ UNCHANGED <<flight, pc, arg, mine, answer, clock>>

Tick ==
  /\ clock < MaxTime
  /\ clock' = clock + 1
  /\ UNCHANGED <<namespaces, failures, flight, caches, pc, arg, mine, answer>>

WatchNext ==
  \/ \E w \in Workers :
       \/ \E n \in Namespaces : EnsureWatch(w, n)
       \/ Enter(w) \/ Recheck(w) \/ Start(w) \/ Sync(w) \/ Watch(w) \/ Record(w) \/ Fail(w)
       \/ Return(w)
  \/ \E k \in Caches : CacheStops(k) \/ CleanUp(k)
  \/ \E n \in Namespaces : StopWatch(n)
  \/ StopAll
  \/ Tick

WatchSpec == WatchInit /\ [][WatchNext]_watchVars

-------------------------------------------------------------------------------
(* Properties *)

\* Every variable holds values of its kind, and who starts a cache leads the
\* call for its namespace.
WatchTypeOK ==
  /\ namespaces \in [Namespaces -> Caches \cup {None}]
  /\ failures \in [Namespaces -> [count : Nat, lastAttempt : 0..MaxTime]]
  /\ flight \in [Namespaces -> Workers \cup {None}]
  /\ caches \in [Caches -> CacheRec]
  /\ pc \in [Workers -> {"idle", "do", "wait", "recheck", "start", "sync", "watch",
                         "record", "fail", "return"}]
  /\ arg \in [Workers -> Namespaces \cup {None}]
  /\ mine \in [Workers -> Caches \cup {None}]
  /\ answer \in [Workers -> {"none", "ok", "backoff", "error"}]
  /\ clock \in 0..MaxTime
  /\ \A w \in Workers :
       pc[w] \in {"recheck", "start", "sync", "watch", "record", "fail", "return"}
         => flight[arg[w]] = w

\* A leader decides for nil only when the namespace has a cache with all its
\* watches, and whoever goes through the singleflight returns nil only with such
\* a leader: nobody returns success "before the watch is actually established"
\* (StopWatch may end the watch before the call has returned).
SuccessMeansEstablished ==
  [][\A w \in Workers :
       /\ pc[w] # "return" /\ pc'[w] = "return" /\ answer'[w] = "ok"
            => /\ namespaces'[arg[w]] # None
               /\ caches'[namespaces'[arg[w]]].watched
       /\ pc[w] # "idle" /\ pc'[w] = "idle" /\ answer'[w] = "ok"
            => \E x \in Workers :
                 arg[x] = arg[w] /\ pc[x] = "return" /\ answer[x] = "ok"]_watchVars

\* As long as no cache stops by itself, every cache that runs can be stopped:
\* it is the one kept for its namespace, or a leader is still starting it.
RunningCachesAreKept ==
  (\A k \in Caches : caches[k].state \notin {"failing", "stopped"}) =>
    \A k \in Caches :
      caches[k].state = "running" =>
        \/ namespaces[caches[k].of] = k
        \/ \E w \in Workers : mine[w] = k /\ pc[w] \in {"sync", "watch", "record"}

\* A namespace that counts as watched has a cache that runs, or one whose
\* goroutine is about to forget it: "remove the namespace so the next
\* EnsureWatch call re-creates it".
WatchedNamespaceIsAlive ==
  \A n \in Namespaces :
    namespaces[n] # None => caches[namespaces[n]].state \in {"running", "failing"}
===============================================================================
