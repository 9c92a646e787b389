-------------------------- MODULE QueryCacheProofs --------------------------
(***************************************************************************)
(* Theorems about QueryCache, for every number of workers and texts.  The  *)
(* inductive invariant adds to mutual exclusion that the payload a writer  *)
(* read is still the content of the file: nobody else can replace it.      *)
(***************************************************************************)
EXTENDS QueryCache, TLAPS

PayloadIsCurrent ==
  \A p \in Procs : proc[p].pc \in {"dump", "replace"} => proc[p].payload = entries

Inv == TypeOK /\ WriterHoldsLock /\ PayloadIsCurrent

USE DEF Fault, Writing, Steps, Worker

LEMMA InitInv == Init => Inv
BY CacheAssumption DEF Init, Inv, TypeOK, WriterHoldsLock, PayloadIsCurrent

\* A step of p replaces p's own record and no other.
LEMMA StepInv ==
  ASSUME Inv, [Next]_vars
  PROVE  Inv'
<1>. USE CacheAssumption DEF Inv, TypeOK, WriterHoldsLock, PayloadIsCurrent, Goto
<1>1. CASE UNCHANGED vars
  BY <1>1 DEF vars
<1>2. ASSUME NEW p \in Procs, NEW t \in Texts, Request(p, t)
      PROVE  Inv'
  BY <1>2 DEF Request
<1>3. ASSUME NEW p \in Procs, Lookup(p)
      PROVE  Inv'
  BY <1>3 DEF Lookup
<1>4. ASSUME NEW p \in Procs, Compute(p)
      PROVE  Inv'
  BY <1>4 DEF Compute
<1>5. ASSUME NEW p \in Procs, Acquire(p)
      PROVE  Inv'
  BY <1>5 DEF Acquire
<1>6. ASSUME NEW p \in Procs, TimeOut(p)
      PROVE  Inv'
  BY <1>6 DEF TimeOut
<1>7. ASSUME NEW p \in Procs, ReadPayload(p)
      PROVE  Inv'
  BY <1>7 DEF ReadPayload
<1>8. ASSUME NEW p \in Procs, Dump(p)
      PROVE  Inv'
  BY <1>8 DEF Dump
<1>9. ASSUME NEW p \in Procs, Replace(p)
      PROVE  Inv'
  BY <1>9 DEF Replace
<1>10. ASSUME NEW p \in Procs, Release(p)
       PROVE  Inv'
  BY <1>10 DEF Release
<1>11. ASSUME NEW p \in Procs, AcquireFails(p)
       PROVE  Inv'
  BY <1>11 DEF AcquireFails
<1>12. ASSUME NEW p \in Procs, WriteFails(p)
       PROVE  Inv'
  BY <1>12 DEF WriteFails
<1>13. ASSUME NEW p \in Procs, Kill(p)
       PROVE  Inv'
  BY <1>13 DEF Kill
<1>. QED
  BY <1>1, <1>2, <1>3, <1>4, <1>5, <1>6, <1>7, <1>8, <1>9, <1>10, <1>11, <1>12, <1>13
  DEF Next, Progress

\* At most one worker rewrites query_cache.json at a time, and the lock file on
\* disk is its own: the O_EXCL protocol of _ProcessFileLock is a mutex.
THEOREM LockIsMutex == Spec => []WriterHoldsLock
BY InitInv, StepInv, PTL DEF Spec, Inv

\* put_query never drops an embedding another worker has stored.
THEOREM NoUpdateLost == Spec => EntriesNeverLost
<1>1. ASSUME Inv, [Next]_vars
      PROVE  [entries \subseteq entries']_vars
  <2>1. ASSUME NEW p \in Procs, Replace(p)
        PROVE  entries \subseteq entries'
    BY <1>1, <2>1 DEF Inv, PayloadIsCurrent, Replace
  <2>2. (\A p \in Procs : ~Replace(p)) => entries' = entries
    BY <1>1 DEF Next, Progress, Request, Lookup, Compute, Acquire, TimeOut, ReadPayload, Dump,
       Release, AcquireFails, WriteFails, Kill, vars
  <2>. QED
    BY <2>1, <2>2
<1>. QED
  BY <1>1, InitInv, StepInv, PTL DEF Spec, EntriesNeverLost

\* A lock file without a living writer behind it stays, and with it the cache.
THEOREM StaleLockIsForever == Spec => StaleLockFreezesCache
<1>1. ASSUME Inv, [Next]_vars, lock # NoProc, proc[lock].pc \notin Writing
      PROVE  entries' = entries /\ lock' = lock
  <2>1. \A p \in Procs : proc[p].pc \notin Writing
    BY <1>1 DEF Inv, WriterHoldsLock
  <2>. QED
    BY <1>1, <2>1 DEF Next, Progress, Request, Lookup, Compute, Acquire, TimeOut, ReadPayload,
       Dump, Replace, Release, AcquireFails, WriteFails, Kill, vars
<1>. QED
  BY <1>1, InitInv, StepInv, PTL DEF Spec, StaleLockFreezesCache
=============================================================================
