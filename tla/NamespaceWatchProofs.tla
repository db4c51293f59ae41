------------------------- MODULE NamespaceWatchProofs -------------------------
(***************************************************************************)
(* EnsureWatch returns success only when the watch is established, and no  *)
(* cache is lost as long as none stops by itself: for every number of      *)
(* workers, namespaces and caches, and every back-off.                     *)
(***************************************************************************)
EXTENDS NamespaceWatch, TLAPS

Leading == {"recheck", "start", "sync", "watch", "record", "fail", "return"}
Starting == {"sync", "watch", "record"}

\* A leader's namespace stays without a cache until the leader records one: that
\* is what the singleflight and the second look are for.  The cache it starts is
\* for its namespace, and has its watches when it is recorded.
CallAgrees(w) ==
  /\ pc[w] # "idle" => arg[w] \in Namespaces
  /\ pc[w] \in Starting \cup {"start"} => namespaces[arg[w]] = None
  /\ pc[w] \in Starting =>
       /\ mine[w] \in Caches
       /\ caches[mine[w]].state # "unused"
       /\ caches[mine[w]].of = arg[w]
       /\ pc[w] = "record" => caches[mine[w]].watched

CallsAgree == \A w \in Workers : CallAgrees(w)

\* The cache that is kept for a namespace is one for it, with its watches.
CachesAgree ==
  /\ \A k \in Caches : caches[k].state # "unused" => caches[k].of \in Namespaces
  /\ \A n \in Namespaces :
       namespaces[n] # None => /\ caches[namespaces[n]].state # "unused"
                               /\ caches[namespaces[n]].of = n
                               /\ caches[namespaces[n]].watched

WatchInv == WatchTypeOK /\ CallsAgree /\ CachesAgree /\ RunningCachesAreKept

\* The steps of the call that w leads, or is about to.
CallStep(w) ==
  \/ Enter(w) \/ Recheck(w) \/ Start(w) \/ Sync(w) \/ Watch(w) \/ Record(w) \/ Fail(w)
  \/ Return(w)

\* The steps of everybody else.
OtherStep ==
  \/ \E k \in Caches : CacheStops(k) \/ CleanUp(k)
  \/ \E n \in Namespaces : StopWatch(n)
  \/ StopAll
  \/ Tick

-------------------------------------------------------------------------------
(* What the helpers do *)

\* The cases of a step.
LEMMA StepCases ==
  ASSUME [WatchNext]_watchVars
  PROVE  \/ \E w \in Workers : \E n \in Namespaces : EnsureWatch(w, n)
         \/ \E w \in Workers : CallStep(w)
         \/ OtherStep
         \/ UNCHANGED watchVars
BY DEF WatchNext, CallStep, OtherStep

\* A cancelled cache is the same cache, and does not run.
LEMMA CancelledCache ==
  ASSUME caches \in [Caches -> CacheRec], NEW k \in Caches
  PROVE  /\ Cancelled(k) \in CacheRec
         /\ Cancelled(k).of = caches[k].of
         /\ Cancelled(k).watched = caches[k].watched
         /\ Cancelled(k).state # "running"
         /\ Cancelled(k).state = "unused" <=> caches[k].state = "unused"
         /\ Cancelled(k).state \in {"failing", "stopped"}
              <=> caches[k].state \in {"failing", "stopped"}
<1>1. caches[k] \in CacheRec
  OBVIOUS
<1>2. CASE caches[k].state = "running"
  <2>1. Cancelled(k) = [caches[k] EXCEPT !.state = "cancelled"]
    BY <1>2 DEF Cancelled
  <2> QED BY <1>1, <1>2, <2>1 DEF CacheRec, CacheStates
<1>3. CASE caches[k].state # "running"
  BY <1>1, <1>3 DEF Cancelled, CacheRec, CacheStates
<1> QED BY <1>2, <1>3

\* A call that ends lets its namespace go, and everybody who waited for it.
LEMMA ReturnEnds ==
  ASSUME WatchTypeOK, NEW w \in Workers, arg[w] \in Namespaces, Return(w)
  PROVE  /\ flight' \in [Namespaces -> Workers \cup {None}]
         /\ pc' \in [Workers -> {"idle", "do", "wait"} \cup Leading]
         /\ answer' \in [Workers -> {"none", "ok", "backoff", "error"}]
         /\ \A n \in Namespaces \ {arg[w]} : flight'[n] = flight[n]
         /\ \A x \in Workers : pc'[x] # "idle" => pc'[x] = pc[x] /\ x # w
         /\ \A x \in Workers : pc'[x] # pc[x] =>
              /\ pc'[x] = "idle" /\ answer'[x] = answer[w]
              /\ arg[x] = arg[w]
         /\ \A x \in Workers : pc[x] \in Leading /\ x # w => pc'[x] = pc[x]
<1> USE DEF WatchTypeOK, Leading
<1>1. pc' = [x \in Workers |-> IF x = w \/ (pc[x] = "wait" /\ arg[x] = arg[w]) THEN "idle" ELSE pc[x]]
  BY DEF Return
<1>2. answer' = [x \in Workers |-> IF x = w \/ (pc[x] = "wait" /\ arg[x] = arg[w])
                                    THEN answer[w] ELSE answer[x]]
  BY DEF Return
<1>3. flight' = [flight EXCEPT ![arg[w]] = None]
  BY DEF Return
<1>4. pc[w] = "return"
  BY DEF Return
<1> QED BY <1>1, <1>2, <1>3, <1>4

-------------------------------------------------------------------------------
(* The types *)

\* The first section of EnsureWatch keeps the types.
LEMMA EnsureWatchKeepsTypes ==
  ASSUME WatchTypeOK, NEW w \in Workers, NEW n \in Namespaces, EnsureWatch(w, n)
  PROVE  WatchTypeOK'
<1>1. /\ pc' = pc \/ pc' = [pc EXCEPT ![w] = "do"]
      /\ answer' = answer \/ answer' = [answer EXCEPT ![w] = "ok"]
           \/ answer' = [answer EXCEPT ![w] = "backoff"]
      /\ arg' = [arg EXCEPT ![w] = n]
      /\ pc[w] = "idle"
  BY DEF EnsureWatch, Goto
<1>2. /\ pc' \in [Workers -> {"idle", "do", "wait"} \cup Leading]
      /\ arg' \in [Workers -> Namespaces \cup {None}]
  BY <1>1 DEF Leading, WatchTypeOK
<1>3. answer' \in [Workers -> {"none", "ok", "backoff", "error"}]
  BY <1>1 DEF WatchTypeOK
<1>4. \A x \in Workers : pc'[x] \in Leading => x # w /\ pc'[x] = pc[x] /\ arg'[x] = arg[x]
  BY <1>1 DEF Leading, WatchTypeOK
<1>5. \A x \in Workers : pc'[x] \in Leading => flight'[arg'[x]] = x
  BY <1>4 DEF EnsureWatch, Leading, WatchTypeOK
<1> QED BY <1>2, <1>3, <1>5 DEF EnsureWatch, WatchTypeOK, Leading

\* So do the steps of a call, of which only one is led per namespace.
LEMMA CallKeepsTypes ==
  ASSUME WatchTypeOK, CallsAgree, NEW w \in Workers, CallStep(w)
  PROVE  WatchTypeOK'
<1> USE WatchNoneAssumption, TimeAssumption
<1>0. pc[w] # "idle" /\ arg[w] \in Namespaces
  BY DEF CallStep, Enter, Recheck, Start, Sync, Watch, Record, Fail, Return, CallsAgree,
     CallAgrees
<1>a. \A x \in Workers : pc[x] \in Leading => flight[arg[x]] = x /\ arg[x] \in Namespaces
  BY DEF WatchTypeOK, Leading, CallsAgree, CallAgrees
<1>c. \A k \in Caches : Cancelled(k) \in CacheRec
  BY CancelledCache DEF WatchTypeOK
<1>1. CASE Enter(w)
  <2>1. pc' \in [Workers -> {"idle", "do", "wait"} \cup Leading]
    BY <1>0, <1>1 DEF Enter, Goto, WatchTypeOK, Leading
  <2>3. flight' \in [Namespaces -> Workers \cup {None}]
    BY <1>0, <1>1 DEF Enter, WatchTypeOK
  <2>2. \A x \in Workers : pc'[x] \in Leading => flight'[arg'[x]] = x
    BY <1>0, <1>1, <1>a DEF Enter, Goto, WatchTypeOK, Leading
  <2> QED BY <1>1, <2>1, <2>2, <2>3 DEF Enter, WatchTypeOK, Leading
<1>2. CASE Recheck(w)
  BY <1>2 DEF Recheck, Decide, Goto, WatchTypeOK, Leading
<1>3. CASE Start(w)
  <2>1. CASE Goto(w, "fail") /\ UNCHANGED <<caches, mine>>
    BY <1>3, <2>1 DEF Start, Goto, WatchTypeOK, Leading
  <2>2. ASSUME NEW k \in Caches, Goto(w, "sync"), mine' = [mine EXCEPT ![w] = k],
               caches' = [caches EXCEPT ![k] =
                           [state |-> "running", of |-> arg[w], watched |-> FALSE]]
        PROVE  WatchTypeOK'
    <3>1. caches' \in [Caches -> CacheRec]
      BY <1>0, <2>2 DEF WatchTypeOK, CacheRec, CacheStates
    <3> QED BY <1>3, <2>2, <3>1 DEF Start, Goto, WatchTypeOK, Leading
  <2> QED BY <1>3, <2>1, <2>2 DEF Start
<1>4. CASE Sync(w)
  <2>1. caches' \in [Caches -> CacheRec]
    BY <1>4, <1>c DEF Sync, WatchTypeOK
  <2> QED BY <1>4, <2>1 DEF Sync, Goto, WatchTypeOK, Leading
<1>5. CASE Watch(w)
  <2>0. mine[w] \in Caches
    BY <1>5 DEF Watch, CallsAgree, CallAgrees, Starting
  <2>a. [caches[mine[w]] EXCEPT !.watched = TRUE] \in CacheRec
    <3>1. caches[mine[w]] \in CacheRec
      BY <2>0 DEF WatchTypeOK
    <3> QED BY <3>1 DEF CacheRec
  <2>1. caches' \in [Caches -> CacheRec]
    BY <1>5, <1>c, <2>0, <2>a DEF Watch, WatchTypeOK
  <2> QED BY <1>5, <2>1 DEF Watch, Goto, WatchTypeOK, Leading
<1>6. CASE Record(w)
  <2>1. mine[w] \in Caches
    BY <1>6 DEF Record, CallsAgree, CallAgrees, Starting
  <2>2. /\ namespaces' \in [Namespaces -> Caches \cup {None}]
        /\ failures' \in [Namespaces -> [count : Nat, lastAttempt : 0..MaxTime]]
    <3>1. NoFailure \in [count : Nat, lastAttempt : 0..MaxTime]
      BY DEF NoFailure
    <3> QED BY <1>0, <1>6, <2>1, <3>1 DEF Record, WatchTypeOK
  <2> QED BY <1>6, <2>2 DEF Record, Decide, Goto, WatchTypeOK, Leading
<1>7. CASE Fail(w)
  <2>1. failures' \in [Namespaces -> [count : Nat, lastAttempt : 0..MaxTime]]
    BY <1>0, <1>7 DEF Fail, WatchTypeOK
  <2> QED BY <1>7, <2>1 DEF Fail, Decide, Goto, WatchTypeOK, Leading
<1>8. CASE Return(w)
  <2>1. \A x \in Workers : pc'[x] \in Leading => flight'[arg'[x]] = x
    <3> SUFFICES ASSUME NEW x \in Workers, pc'[x] \in Leading
                 PROVE  flight'[arg'[x]] = x
      OBVIOUS
    <3>1. pc[x] \in Leading /\ x # w /\ pc[w] \in Leading /\ arg' = arg
      BY <1>0, <1>8, ReturnEnds DEF Leading, Return
    <3>2. flight[arg[x]] = x /\ flight[arg[w]] = w /\ arg[x] \in Namespaces \ {arg[w]}
      BY <1>a, <3>1
    <3> QED BY <1>0, <1>8, <3>1, <3>2, ReturnEnds
  <2> QED BY <1>0, <1>8, <2>1, ReturnEnds DEF Return, WatchTypeOK, Leading
<1> QED BY <1>1, <1>2, <1>3, <1>4, <1>5, <1>6, <1>7, <1>8 DEF CallStep

\* So do the caches, those who stop watching, and the clock.
LEMMA OthersKeepTypes ==
  ASSUME WatchTypeOK, CachesAgree, OtherStep
  PROVE  WatchTypeOK'
<1> USE WatchNoneAssumption, TimeAssumption DEF WatchTypeOK
<1>c. \A k \in Caches : Cancelled(k) \in CacheRec
  BY CancelledCache
<1>1. ASSUME NEW k \in Caches, CacheStops(k)
      PROVE  WatchTypeOK'
  BY <1>1 DEF CacheStops, CacheRec, CacheStates
<1>2. ASSUME NEW k \in Caches, CleanUp(k)
      PROVE  WatchTypeOK'
  <2>1. caches[k].of \in Namespaces
    BY <1>2 DEF CleanUp, CachesAgree
  <2> QED BY <1>2, <2>1 DEF CleanUp, CacheRec, CacheStates
<1>3. ASSUME NEW n \in Namespaces, StopWatch(n)
      PROVE  WatchTypeOK'
  <2>1. caches' \in [Caches -> CacheRec]
    BY <1>3, <1>c DEF StopWatch
  <2> QED BY <1>3, <2>1 DEF StopWatch, NoFailure
<1>4. CASE StopAll
  <2>1. caches' \in [Caches -> CacheRec]
    BY <1>4, <1>c DEF StopAll
  <2> QED BY <1>4, <2>1 DEF StopAll, NoFailure
<1>5. CASE Tick
  BY <1>5 DEF Tick
<1> QED BY <1>1, <1>2, <1>3, <1>4, <1>5 DEF OtherStep

-------------------------------------------------------------------------------
(* What a step may do to the caches and to the namespaces *)

\* A cache that has been started stays what it is, and does not run again once
\* it does not run.
LEMMA CachesLiveOn ==
  ASSUME WatchTypeOK, CallsAgree, [WatchNext]_watchVars, NEW k \in Caches,
         caches[k].state # "unused"
  PROVE  /\ caches'[k].state # "unused"
         /\ caches'[k].of = caches[k].of
         /\ caches[k].watched => caches'[k].watched
         /\ caches'[k].state = "running" => caches[k].state = "running"
         /\ caches[k].state \in {"failing", "stopped"}
              => caches'[k].state \in {"failing", "stopped"}
<1>0. caches \in [Caches -> CacheRec] /\ caches[k] \in CacheRec
  BY DEF WatchTypeOK
<1>c. /\ Cancelled(k).of = caches[k].of
      /\ Cancelled(k).watched = caches[k].watched
      /\ Cancelled(k).state # "running"
      /\ Cancelled(k).state # "unused"
      /\ Cancelled(k).state \in {"failing", "stopped"}
           <=> caches[k].state \in {"failing", "stopped"}
  BY <1>0, CancelledCache
<1>1. ASSUME NEW w \in Workers, CallStep(w)
      PROVE  \/ caches'[k] = caches[k]
             \/ caches'[k] = Cancelled(k)
             \/ caches'[k] = [caches[k] EXCEPT !.watched = TRUE]
  <2>1. CASE Start(w)
    <3>1. ASSUME NEW j \in Caches, caches[j] = NoCache,
                 caches' = [caches EXCEPT ![j] =
                             [state |-> "running", of |-> arg[w], watched |-> FALSE]]
          PROVE  caches'[k] = caches[k]
      BY <1>0, <3>1 DEF NoCache
    <3> QED BY <2>1, <3>1 DEF Start
  <2>2. CASE Sync(w) \/ Watch(w)
    BY <1>0, <2>2 DEF Sync, Watch
  <2>3. CASE Enter(w) \/ Recheck(w) \/ Record(w) \/ Fail(w) \/ Return(w)
    BY <2>3 DEF Enter, Recheck, Record, Fail, Return
  <2> QED BY <1>1, <2>1, <2>2, <2>3 DEF CallStep
<1>2. ASSUME OtherStep
      PROVE  \/ caches'[k] = caches[k]
             \/ caches'[k] = Cancelled(k)
             \/ caches'[k] = [caches[k] EXCEPT !.state = "failing"]
             \/ caches'[k] = [caches[k] EXCEPT !.state = "stopped"]
  BY <1>0, <1>2 DEF OtherStep, CacheStops, CleanUp, StopWatch, StopAll, Tick
<1>3. caches' = caches
      \/ caches'[k] = Cancelled(k)
      \/ caches'[k] = caches[k]
      \/ caches'[k] = [caches[k] EXCEPT !.watched = TRUE]
      \/ caches'[k] = [caches[k] EXCEPT !.state = "failing"]
      \/ caches'[k] = [caches[k] EXCEPT !.state = "stopped"]
  BY <1>1, <1>2, StepCases DEF EnsureWatch, watchVars
<1> QED BY <1>0, <1>c, <1>3 DEF CacheRec

\* A cache that was not used has been started by a leader, for its namespace.
LEMMA CacheIsStarted ==
  ASSUME WatchTypeOK, CallsAgree, [WatchNext]_watchVars, NEW k \in Caches,
         caches[k].state = "unused", caches'[k].state # "unused"
  PROVE  \E w \in Workers : /\ Start(w) /\ caches'[k].of = arg[w]
                            /\ pc'[w] = "sync" /\ mine'[w] = k
<1>1. ASSUME NEW w \in Workers, CallStep(w)
      PROVE  /\ Start(w) /\ caches'[k].of = arg[w]
             /\ pc'[w] = "sync" /\ mine'[w] = k
  <2>1. CASE Start(w)
    BY <2>1 DEF Start, Goto, WatchTypeOK
  <2>2. CASE Sync(w) \/ Watch(w)
    <3>1. caches[mine[w]].state # "unused"
      BY <2>2 DEF CallsAgree, CallAgrees, Starting, Sync, Watch
    <3>2. caches'[k] = caches[k]
      BY <2>2, <3>1 DEF Sync, Watch, WatchTypeOK
    <3> QED BY <3>2
  <2>3. CASE Enter(w) \/ Recheck(w) \/ Record(w) \/ Fail(w) \/ Return(w)
    BY <2>3 DEF Enter, Recheck, Record, Fail, Return
  <2> QED BY <1>1, <2>1, <2>2, <2>3 DEF CallStep
<1>2. ASSUME OtherStep
      PROVE  caches'[k] = caches[k]
  BY <1>2 DEF OtherStep, CacheStops, CleanUp, StopWatch, StopAll, Tick, Cancelled, WatchTypeOK
<1> QED BY <1>1, <1>2, StepCases DEF EnsureWatch, watchVars

\* A namespace gets a cache when the leader of its call records one, and in no
\* other way; it may lose it at any time.
LEMMA NamespaceChanges ==
  ASSUME WatchTypeOK, [WatchNext]_watchVars, NEW n \in Namespaces
  PROVE  \/ namespaces'[n] \in {namespaces[n], None}
         \/ \E w \in Workers : Record(w) /\ arg[w] = n /\ namespaces'[n] = mine[w]
<1> USE DEF WatchTypeOK
<1>1. ASSUME NEW w \in Workers, CallStep(w)
      PROVE  \/ namespaces'[n] = namespaces[n]
             \/ Record(w) /\ arg[w] = n /\ namespaces'[n] = mine[w]
  BY <1>1 DEF CallStep, Enter, Recheck, Start, Sync, Watch, Record, Fail, Return
<1>2. ASSUME OtherStep
      PROVE  namespaces'[n] \in {namespaces[n], None}
  BY <1>2 DEF OtherStep, CacheStops, CleanUp, StopWatch, StopAll, Tick
<1> QED BY <1>1, <1>2, StepCases DEF EnsureWatch, watchVars

-------------------------------------------------------------------------------
(* The invariant *)

\* Who leads a call is the only one to, so nobody records a cache for its
\* namespace meanwhile.
LEMMA CallsKeepAgreeing ==
  ASSUME WatchInv, [WatchNext]_watchVars
  PROVE  CallsAgree'
<1> USE WatchNoneAssumption
<1>0. WatchTypeOK /\ CallsAgree /\ CachesAgree
  BY DEF WatchInv
<1> SUFFICES ASSUME NEW x \in Workers
             PROVE  CallAgrees(x)'
  BY DEF CallsAgree
<1>x. CallAgrees(x)
  BY <1>0 DEF CallsAgree
<1>t. \A w \in Workers : pc[w] \in Leading => flight[arg[w]] = w
  BY <1>0 DEF WatchTypeOK, Leading
\* Whoever goes on as before.
<1>s. ASSUME pc'[x] = pc[x], arg'[x] = arg[x], pc[x] \in Starting => mine'[x] = mine[x],
             ~Record(x)
      PROVE  CallAgrees(x)'
  <2>1. /\ pc[x] # "idle" => arg[x] \in Namespaces
        /\ pc[x] \in Starting \cup {"start"} => namespaces[arg[x]] = None
        /\ pc[x] \in Starting =>
             /\ mine[x] \in Caches
             /\ caches[mine[x]].state # "unused"
             /\ caches[mine[x]].of = arg[x]
             /\ pc[x] = "record" => caches[mine[x]].watched
    BY <1>x DEF CallAgrees
  <2>2. ASSUME pc[x] \in Starting \cup {"start"}
        PROVE  namespaces'[arg[x]] = None
    <3>1. arg[x] \in Namespaces /\ namespaces[arg[x]] = None /\ flight[arg[x]] = x
      BY <1>0, <2>1, <2>2 DEF WatchTypeOK, Starting
    <3>2. ASSUME NEW w \in Workers, Record(w), arg[w] = arg[x]
          PROVE  FALSE
      <4>1. flight[arg[w]] = w
        BY <1>0, <3>2 DEF WatchTypeOK, Record
      <4> QED BY <1>s, <3>1, <3>2, <4>1
    <3> QED BY <1>0, <3>1, <3>2, NamespaceChanges
  <2>3. ASSUME pc[x] \in Starting
        PROVE  /\ caches'[mine[x]].state # "unused"
               /\ caches'[mine[x]].of = caches[mine[x]].of
               /\ caches[mine[x]].watched => caches'[mine[x]].watched
    BY <1>0, <2>1, <2>3, CachesLiveOn
  <2> QED BY <1>s, <2>1, <2>2, <2>3 DEF Starting, CallAgrees
\* Whoever does not: x has asked, has moved on, or its call has ended.
<1>1. ASSUME NEW n \in Namespaces, EnsureWatch(x, n)
      PROVE  CallAgrees(x)'
  BY <1>0, <1>1 DEF EnsureWatch, Goto, CallAgrees, Starting, WatchTypeOK
<1>2. ASSUME CallStep(x)
      PROVE  CallAgrees(x)'
  <2>1. arg[x] \in Namespaces /\ arg' = arg
    BY <1>2, <1>x DEF CallAgrees, CallStep, Enter, Recheck, Start, Sync, Watch, Record, Fail,
                      Return
  <2>2. ASSUME pc'[x] \in {"idle", "do", "wait", "recheck", "fail", "return"}
        PROVE  CallAgrees(x)'
    BY <2>1, <2>2 DEF CallAgrees, Starting
  <2>3. CASE Recheck(x)
    BY <1>0, <2>1, <2>2, <2>3 DEF Recheck, Decide, Goto, CallAgrees, Starting, WatchTypeOK
  <2>4. CASE Start(x)
    <3>1. ASSUME NEW k \in Caches, caches[k] = NoCache, Goto(x, "sync"),
                 mine' = [mine EXCEPT ![x] = k],
                 caches' = [caches EXCEPT ![k] =
                             [state |-> "running", of |-> arg[x], watched |-> FALSE]]
          PROVE  CallAgrees(x)'
      <4>1. pc'[x] = "sync" /\ mine'[x] = k
            /\ caches'[k].state = "running" /\ caches'[k].of = arg[x]
        BY <1>0, <3>1 DEF Goto, WatchTypeOK
      <4>2. namespaces'[arg[x]] = None
        BY <1>x, <2>4 DEF Start, CallAgrees
      <4> QED BY <2>1, <4>1, <4>2 DEF CallAgrees
    <3>2. Goto(x, "fail") => pc'[x] = "fail"
      BY <1>0 DEF Goto, WatchTypeOK
    <3> QED BY <2>2, <2>4, <3>1, <3>2 DEF Start
  <2>5. CASE Sync(x) \/ Watch(x)
    <3>1. pc'[x] = "fail"
          \/ (pc[x] = "sync" /\ pc'[x] = "watch")
          \/ (pc[x] = "watch" /\ pc'[x] = "record" /\ caches'[mine[x]].watched)
      BY <1>0, <1>x, <2>5 DEF Sync, Watch, Goto, WatchTypeOK, CallAgrees, Starting, CacheRec
    <3>2. pc[x] \in Starting /\ mine' = mine /\ namespaces' = namespaces
      BY <2>5 DEF Sync, Watch, Starting
    <3>3. mine[x] \in Caches /\ caches[mine[x]].state # "unused"
          /\ caches[mine[x]].of = arg[x] /\ namespaces[arg[x]] = None
      BY <1>x, <3>2 DEF CallAgrees
    <3>4. caches'[mine[x]].state # "unused" /\ caches'[mine[x]].of = arg[x]
      BY <1>0, <3>3, CachesLiveOn
    <3> QED BY <2>1, <2>2, <3>1, <3>2, <3>3, <3>4 DEF CallAgrees
  <2>6. CASE Enter(x)
    BY <1>0, <2>2, <2>6 DEF Enter, Goto, WatchTypeOK
  <2>7. CASE Record(x) \/ Fail(x) \/ Return(x)
    <3>1. pc'[x] \in {"idle", "return"}
      BY <1>0, <2>7 DEF Record, Fail, Decide, Goto, Return, WatchTypeOK
    <3> QED BY <2>2, <3>1
  <2> QED BY <1>2, <2>3, <2>4, <2>5, <2>6, <2>7 DEF CallStep
<1>3. ASSUME NEW w \in Workers, w # x, CallStep(w)
      PROVE  CallAgrees(x)'
  <2>1. arg[w] \in Namespaces /\ arg' = arg
    BY <1>0, <1>3 DEF CallsAgree, CallAgrees, CallStep, Enter, Recheck, Start, Sync, Watch,
                      Record, Fail, Return
  <2>2. pc'[x] = "idle" \/ (pc'[x] = pc[x] /\ mine'[x] = mine[x])
    <3>1. CASE ~Return(w)
      BY <1>0, <1>3, <3>1 DEF CallStep, Enter, Recheck, Start, Sync, Watch, Record, Fail, Decide,
                              Goto, WatchTypeOK
    <3>2. CASE Return(w)
      BY <1>0, <1>3, <2>1, <3>2, ReturnEnds DEF Return
    <3> QED BY <1>3, <3>1, <3>2 DEF CallStep
  <2>3. ~Record(x)
    BY <1>0, <1>3 DEF Record, Decide, Goto, CallStep, Enter, Recheck, Start, Sync, Watch, Fail,
                      Return, WatchTypeOK
  <2>4. pc'[x] = "idle" => CallAgrees(x)'
    BY DEF CallAgrees, Starting
  <2> QED BY <1>s, <2>1, <2>2, <2>3, <2>4
<1>4. ASSUME NEW w \in Workers, NEW n \in Namespaces, EnsureWatch(w, n), w # x
      PROVE  CallAgrees(x)'
  <2>1. pc'[x] = pc[x] /\ arg'[x] = arg[x] /\ mine' = mine
    BY <1>0, <1>4 DEF EnsureWatch, Goto, WatchTypeOK
  <2>2. ~Record(x)
    BY <1>0, <1>4, <2>1 DEF Record, Decide, Goto, WatchTypeOK
  <2> QED BY <1>s, <2>1, <2>2
<1>5. ASSUME OtherStep \/ UNCHANGED watchVars
      PROVE  CallAgrees(x)'
  <2>1. pc' = pc /\ arg' = arg /\ mine' = mine
    BY <1>5 DEF OtherStep, CacheStops, CleanUp, StopWatch, StopAll, Tick, watchVars
  <2>2. ~Record(x)
    BY <1>0, <2>1 DEF Record, Decide, Goto, WatchTypeOK
  <2> QED BY <1>s, <2>1, <2>2
<1> QED BY <1>1, <1>2, <1>3, <1>4, <1>5, StepCases

\* A namespace only gets a cache of its own, with its watches, and a cache that
\* has been started stays what it is.
LEMMA CachesKeepAgreeing ==
  ASSUME WatchInv, [WatchNext]_watchVars
  PROVE  CachesAgree'
<1> USE WatchNoneAssumption
<1>0. WatchTypeOK /\ CallsAgree /\ CachesAgree
  BY DEF WatchInv
<1>1. ASSUME NEW k \in Caches, caches'[k].state # "unused"
      PROVE  caches'[k].of \in Namespaces
  <2>1. CASE caches[k].state # "unused"
    BY <1>0, <2>1, CachesLiveOn DEF CachesAgree
  <2>2. CASE caches[k].state = "unused"
    <3>1. PICK w \in Workers : Start(w) /\ caches'[k].of = arg[w]
      BY <1>0, <1>1, <2>2, CacheIsStarted
    <3> QED BY <1>0, <3>1 DEF CallsAgree, CallAgrees, Start
  <2> QED BY <2>1, <2>2
<1>2. ASSUME NEW n \in Namespaces, namespaces'[n] # None
      PROVE  /\ caches'[namespaces'[n]].state # "unused"
             /\ caches'[namespaces'[n]].of = n
             /\ caches'[namespaces'[n]].watched
  <2>1. CASE namespaces'[n] = namespaces[n]
    <3>1. namespaces[n] \in Caches
      BY <1>0, <1>2, <2>1 DEF WatchTypeOK
    <3> QED BY <1>0, <1>2, <2>1, <3>1, CachesLiveOn DEF CachesAgree
  <2>2. ASSUME NEW w \in Workers, Record(w), arg[w] = n, namespaces'[n] = mine[w]
        PROVE  /\ caches'[namespaces'[n]].state # "unused"
               /\ caches'[namespaces'[n]].of = n
               /\ caches'[namespaces'[n]].watched
    BY <1>0, <2>2 DEF Record, CallsAgree, CallAgrees, Starting
  <2> QED BY <1>0, <1>2, <2>1, <2>2, NamespaceChanges
<1> QED BY <1>1, <1>2 DEF CachesAgree

\* A leader that ends without recording its cache has cancelled it, and a cache
\* that is not kept any more has been, too.
LEMMA RunningCachesStayKept ==
  ASSUME WatchInv, [WatchNext]_watchVars
  PROVE  RunningCachesAreKept'
<1> USE WatchNoneAssumption
<1>0. WatchTypeOK /\ CallsAgree /\ CachesAgree /\ RunningCachesAreKept
  BY DEF WatchInv
<1> SUFFICES ASSUME \A k \in Caches : caches'[k].state \notin {"failing", "stopped"},
                    NEW k \in Caches, caches'[k].state = "running"
             PROVE  \/ namespaces'[caches'[k].of] = k
                    \/ \E w \in Workers : mine'[w] = k /\ pc'[w] \in {"sync", "watch", "record"}
  BY DEF RunningCachesAreKept
<1>1. CASE caches[k].state = "unused"
  BY <1>0, <1>1, CacheIsStarted
<1>2. CASE caches[k].state # "unused"
  <2>1. /\ caches[k].state = "running"
        /\ caches'[k].of = caches[k].of /\ caches[k].of \in Namespaces
    BY <1>0, <1>2, CachesLiveOn DEF CachesAgree
  <2>2. \A j \in Caches : caches[j].state \notin {"failing", "stopped"}
    BY <1>0, CachesLiveOn
  <2>3. caches'[k] # Cancelled(k)
    BY <1>0, CancelledCache DEF WatchTypeOK
  <2>4. CASE namespaces[caches[k].of] = k
    <3>1. ASSUME namespaces'[caches[k].of] = None
          PROVE  FALSE
      <4>1. ASSUME NEW w \in Workers, CallStep(w)
            PROVE  namespaces'[caches[k].of] = k
        <5>1. CASE Record(w)
          <6>1. arg[w] \in Namespaces /\ namespaces[arg[w]] = None
            BY <1>0, <5>1 DEF CallsAgree, CallAgrees, Record, Starting
          <6>2. arg[w] # caches[k].of
            BY <2>4, <6>1
          <6> QED BY <1>0, <2>1, <2>4, <5>1, <6>2 DEF Record, WatchTypeOK
        <5>2. CASE ~Record(w)
          BY <2>4, <4>1, <5>2 DEF CallStep, Enter, Recheck, Start, Sync, Watch, Fail, Return
        <5> QED BY <5>1, <5>2
      <4>2. ASSUME OtherStep
            PROVE  namespaces'[caches[k].of] = k
        <5>1. ASSUME NEW j \in Caches, CleanUp(j)
              PROVE  FALSE
          BY <2>2, <5>1 DEF CleanUp
        <5>2. ASSUME NEW n \in Namespaces, StopWatch(n)
              PROVE  namespaces'[caches[k].of] = k
          BY <1>0, <2>1, <2>3, <2>4, <5>2 DEF StopWatch, WatchTypeOK
        <5>3. ~StopAll
          BY <2>1, <2>3, <2>4 DEF StopAll
        <5> QED BY <2>4, <4>2, <5>1, <5>2, <5>3 DEF OtherStep, CacheStops, Tick
      <4>3. namespaces'[caches[k].of] = k
        BY <2>4, <4>1, <4>2, StepCases DEF EnsureWatch, watchVars
      <4> QED BY <3>1, <4>3
    <3>2. ASSUME NEW w \in Workers, Record(w), arg[w] = caches[k].of
          PROVE  FALSE
      BY <1>0, <2>4, <3>2 DEF CallsAgree, CallAgrees, Record, Starting
    <3> QED BY <1>0, <2>1, <2>4, <3>1, <3>2, NamespaceChanges
  <2>5. ASSUME NEW w \in Workers, mine[w] = k, pc[w] \in {"sync", "watch", "record"}
        PROVE  \/ namespaces'[caches[k].of] = k
               \/ mine'[w] = k /\ pc'[w] \in {"sync", "watch", "record"}
    <3>1. caches[k].of = arg[w]
      BY <1>0, <2>5 DEF CallsAgree, CallAgrees, Starting
    <3>2. CASE CallStep(w)
      <4>1. CASE Record(w)
        BY <1>0, <2>1, <2>5, <3>1, <4>1 DEF Record, WatchTypeOK
      <4>2. CASE Sync(w) \/ Watch(w)
        BY <1>0, <2>3, <2>5, <4>2 DEF Sync, Watch, Goto, WatchTypeOK
      <4> QED BY <2>5, <3>2, <4>1, <4>2 DEF CallStep, Enter, Recheck, Start, Fail, Return
    <3>3. ASSUME NEW x \in Workers, x # w, CallStep(x)
          PROVE  pc'[w] = pc[w] /\ mine'[w] = mine[w]
      <4>1. arg[x] \in Namespaces
        BY <1>0, <3>3 DEF CallsAgree, CallAgrees, CallStep, Enter, Recheck, Start, Sync, Watch,
                          Record, Fail, Return
      <4>2. CASE ~Return(x)
        BY <1>0, <3>3, <4>2 DEF CallStep, Enter, Recheck, Start, Sync, Watch, Record, Fail, Decide,
                                Goto, WatchTypeOK
      <4>3. CASE Return(x)
        BY <1>0, <2>5, <3>3, <4>1, <4>3, ReturnEnds DEF Return, Leading
      <4> QED BY <3>3, <4>2, <4>3 DEF CallStep
    <3>4. ASSUME NEW x \in Workers, NEW n \in Namespaces, EnsureWatch(x, n)
          PROVE  pc'[w] = pc[w] /\ mine'[w] = mine[w]
      BY <1>0, <2>5, <3>4 DEF EnsureWatch, Goto, WatchTypeOK
    <3>5. ASSUME OtherStep \/ UNCHANGED watchVars
          PROVE  pc'[w] = pc[w] /\ mine'[w] = mine[w]
      BY <3>5 DEF OtherStep, CacheStops, CleanUp, StopWatch, StopAll, Tick, watchVars
    <3> QED BY <2>5, <3>2, <3>3, <3>4, <3>5, StepCases
  <2> QED BY <1>0, <2>1, <2>2, <2>4, <2>5 DEF RunningCachesAreKept
<1> QED BY <1>1, <1>2

\* WatchInv holds of the initial states.
LEMMA InitEstablishesWatchInv == WatchInit => WatchInv
<1> USE WatchNoneAssumption, TimeAssumption
<1> SUFFICES ASSUME WatchInit PROVE WatchInv
  OBVIOUS
<1>1. WatchTypeOK
  BY DEF WatchInit, WatchTypeOK, NoFailure, NoCache, CacheRec, CacheStates
<1>2. CallsAgree
  BY DEF WatchInit, CallsAgree, CallAgrees, Starting
<1>3. CachesAgree /\ RunningCachesAreKept
  BY DEF WatchInit, CachesAgree, RunningCachesAreKept, NoCache
<1> QED BY <1>1, <1>2, <1>3 DEF WatchInv

\* Every step keeps WatchInv.
LEMMA StepKeepsWatchInv == WatchInv /\ [WatchNext]_watchVars => WatchInv'
<1> SUFFICES ASSUME WatchInv, [WatchNext]_watchVars PROVE WatchInv'
  OBVIOUS
<1>1. WatchTypeOK'
  <2>1. CASE UNCHANGED watchVars
    BY <2>1 DEF WatchInv, WatchTypeOK, watchVars
  <2> QED BY <2>1, StepCases, EnsureWatchKeepsTypes, CallKeepsTypes, OthersKeepTypes DEF WatchInv
<1> QED BY <1>1, CallsKeepAgreeing, CachesKeepAgreeing, RunningCachesStayKept DEF WatchInv

\* EnsureWatch and the goroutines of the caches keep types and calls in order:
\* one leader per namespace, each at work on a cache of its own.
THEOREM WatchCorrect == WatchSpec => []WatchInv
BY InitEstablishesWatchInv, StepKeepsWatchInv, PTL DEF WatchSpec

\* Every variable holds values of its kind, and whoever starts a cache leads the
\* call for its namespace.
THEOREM WatchTypesCorrect == WatchSpec => []WatchTypeOK
<1>1. WatchInv => WatchTypeOK
  BY DEF WatchInv
<1> QED BY <1>1, WatchCorrect, PTL

\* As long as no cache stops by itself, none that runs is out of reach of
\* StopWatch and StopAll.
THEOREM NoCacheIsLost == WatchSpec => []RunningCachesAreKept
<1>1. WatchInv => RunningCachesAreKept
  BY DEF WatchInv
<1> QED BY <1>1, WatchCorrect, PTL

\* A leader decides for nil only when its namespace has a cache with all its
\* watches, and nobody returns nil from the singleflight without such a leader.
THEOREM SuccessIsEstablished == WatchSpec => SuccessMeansEstablished
<1> DEFINE Established(n) == namespaces'[n] # None /\ caches'[namespaces'[n]].watched
           Led(w) == \E x \in Workers : arg[x] = arg[w] /\ pc[x] = "return" /\ answer[x] = "ok"
<1>1. ASSUME WatchInv, WatchInv', [WatchNext]_watchVars, NEW w \in Workers
      PROVE  /\ pc[w] # "return" /\ pc'[w] = "return" /\ answer'[w] = "ok" => Established(arg[w])
             /\ pc[w] # "idle" /\ pc'[w] = "idle" /\ answer'[w] = "ok" => Led(w)
  <2>0. WatchTypeOK /\ CallsAgree /\ CachesAgree'
    BY <1>1 DEF WatchInv
  <2>1. ASSUME NEW x \in Workers, NEW n \in Namespaces, EnsureWatch(x, n)
        PROVE  /\ pc[w] # "idle" => pc'[w] = pc[w]
               /\ pc'[w] # "return" \/ pc'[w] = pc[w]
    BY <2>0, <2>1 DEF EnsureWatch, Goto, WatchTypeOK
  <2>2. ASSUME OtherStep \/ UNCHANGED watchVars
        PROVE  pc' = pc
    BY <2>2 DEF OtherStep, CacheStops, CleanUp, StopWatch, StopAll, Tick, watchVars
  <2>3. ASSUME NEW x \in Workers, CallStep(x), ~Return(x)
        PROVE  /\ pc[x] # "idle" /\ pc'[x] # "idle"
               /\ w # x => pc'[w] = pc[w]
               /\ pc'[x] = "return" => Recheck(x) \/ Record(x) \/ Fail(x)
    BY <2>0, <2>3 DEF CallStep, Enter, Recheck, Start, Sync, Watch, Record, Fail, Decide, Goto,
                      WatchTypeOK
  <2>4. ASSUME NEW x \in Workers, Return(x)
        PROVE  /\ pc'[w] # "return" \/ pc'[w] = pc[w]
               /\ pc'[w] # pc[w] /\ answer'[w] = "ok" => Led(w)
    <3>1. arg[x] \in Namespaces /\ pc[x] = "return"
      BY <2>0, <2>4 DEF CallsAgree, CallAgrees, Return
    <3> QED BY <2>0, <2>4, <3>1, ReturnEnds
  <2>5. ASSUME pc[w] # "return", pc'[w] = "return", answer'[w] = "ok"
        PROVE  Established(arg[w])
    <3>1. PICK x \in Workers : CallStep(x) /\ ~Return(x)
      BY <1>1, <2>1, <2>2, <2>4, <2>5, StepCases
    <3>2. w = x /\ (Recheck(w) \/ Record(w) \/ Fail(w))
      BY <2>3, <2>5, <3>1
    <3>3. arg[w] \in Namespaces
      BY <2>0, <3>2 DEF CallsAgree, CallAgrees, Recheck, Record, Fail
    <3>4. CASE Fail(w)
      BY <2>0, <2>5, <3>4 DEF Fail, Decide, WatchTypeOK
    <3>5. CASE Recheck(w)
      <4>1. namespaces[arg[w]] # None /\ namespaces' = namespaces
        BY <2>0, <2>5, <3>5 DEF Recheck, Goto, WatchTypeOK
      <4> QED BY <2>0, <3>3, <4>1 DEF CachesAgree
    <3>6. CASE Record(w)
      <4>1. mine[w] \in Caches
        BY <2>0, <3>6 DEF CallsAgree, CallAgrees, Record, Starting
      <4>2. namespaces'[arg[w]] # None
        BY <2>0, <3>3, <3>6, <4>1, WatchNoneAssumption DEF Record, WatchTypeOK
      <4> QED BY <2>0, <3>3, <4>2 DEF CachesAgree
    <3> QED BY <3>2, <3>4, <3>5, <3>6
  <2>6. ASSUME pc[w] # "idle", pc'[w] = "idle", answer'[w] = "ok"
        PROVE  Led(w)
    <3> HIDE DEF Led
    <3> QED BY <1>1, <2>1, <2>2, <2>3, <2>4, <2>6, StepCases
  <2> QED BY <2>5, <2>6
<1>2. WatchInv /\ WatchInv' /\ [WatchNext]_watchVars =>
        [\A w \in Workers :
           /\ pc[w] # "return" /\ pc'[w] = "return" /\ answer'[w] = "ok"
                => /\ namespaces'[arg[w]] # None
                   /\ caches'[namespaces'[arg[w]]].watched
           /\ pc[w] # "idle" /\ pc'[w] = "idle" /\ answer'[w] = "ok"
                => \E x \in Workers :
                     arg[x] = arg[w] /\ pc[x] = "return" /\ answer[x] = "ok"]_watchVars
  BY <1>1
<1> QED BY <1>2, WatchCorrect, PTL DEF WatchSpec, SuccessMeansEstablished
===============================================================================
