----------------------------- MODULE QueryCache -----------------------------
(***************************************************************************)
(* The runtime query-embedding cache of hybrid_text mode: embed_query_raw  *)
(* looks the text up, computes the embedding on a miss and stores it with  *)
(* put_query, a read-modify-write of query_cache.json under an O_EXCL lock *)
(* file.  Readers take no lock: the file is replaced in one step.  The     *)
(* processes are API workers; a worker can be killed anywhere, and then a  *)
(* lock it held stays on disk.                                             *)
(***************************************************************************)
EXTENDS Naturals, FiniteSets

CONSTANTS
  Procs,      \* API worker threads and processes sharing the artifacts volume
  Texts,      \* (model revision, query text) pairs: the cache keys
  NoProc,     \* "nobody"
  MaxFaults   \* bound: kills and I/O errors

ASSUME CacheAssumption == NoProc \notin Procs /\ MaxFaults \in Nat

VARIABLES
  entries,   \* the keys in query_cache.json (none while there is no file)
  lock,      \* whose lock file exists, or NoProc
  proc,      \* per worker: program counter, key of its request, payload read
  faults     \* how much of MaxFaults is used up

vars == <<entries, lock, proc, faults>>

\* Inside put_query's with block, from the read of the payload to __exit__.
Writing == {"read", "dump", "replace", "release"}
Steps == {"idle", "lookup", "compute", "acquire"} \cup Writing

Worker(pc, text, payload) == [pc |-> pc, text |-> text, payload |-> payload]

TypeOK ==
  /\ entries \subseteq Texts
  /\ lock \in Procs \cup {NoProc}
  /\ proc \in [Procs -> [pc : Steps, text : Texts, payload : SUBSET Texts]]
  /\ faults \in 0..MaxFaults

Init ==
  /\ entries = {}
  /\ lock = NoProc
  /\ proc \in [Procs -> {Worker("idle", t, {}) : t \in Texts}]
  /\ faults = 0

Goto(p, step) == proc' = [proc EXCEPT ![p].pc = step]
Fault == faults < MaxFaults /\ faults' = faults + 1

-----------------------------------------------------------------------------
Request(p, t) ==
  /\ proc[p].pc = "idle"
  /\ proc' = [proc EXCEPT ![p] = Worker("lookup", t, {})]
  /\ UNCHANGED <<entries, lock, faults>>

\* query_or_none: the request ends on a hit.
Lookup(p) ==
  /\ proc[p].pc = "lookup"
  /\ Goto(p, IF proc[p].text \in entries THEN "idle" ELSE "compute")
  /\ UNCHANGED <<entries, lock, faults>>

\* text_cpu.embed_text: long, and other workers may compute the same text.
Compute(p) ==
  /\ proc[p].pc = "compute"
  /\ Goto(p, "acquire")
  /\ UNCHANGED <<entries, lock, faults>>

\* Mutant of Acquire: os.open without O_EXCL.
AcquireShared(p) ==
  /\ proc[p].pc = "acquire"
  /\ lock' = p
  /\ Goto(p, "read")
  /\ UNCHANGED <<entries, faults>>

\* __enter__: os.open(O_CREAT | O_EXCL).
Acquire(p) ==
  /\ proc[p].pc = "acquire" /\ lock = NoProc
  /\ lock' = p
  /\ Goto(p, "read")
  /\ UNCHANGED <<entries, faults>>

\* The file was created but writing the pid into it failed: __enter__ raises,
\* __exit__ does not run and the lock file stays.
AcquireFails(p) ==
  /\ proc[p].pc = "acquire" /\ lock = NoProc /\ Fault
  /\ lock' = p
  /\ Goto(p, "idle")
  /\ UNCHANGED entries

\* Mutants of TimeOut: the waiter also removes the lock it waited for, or it
\* has no deadline.
TimeOutUnlinks(p) ==
  /\ proc[p].pc = "acquire" /\ lock # NoProc
  /\ lock' = NoProc
  /\ Goto(p, "idle")
  /\ UNCHANGED <<entries, faults>>

TimeOutNever(p) == proc[p].pc = "acquire" /\ FALSE

\* The deadline passes while the file exists: TimeoutError ends the request,
\* although its embedding has been computed.
TimeOut(p) ==
  /\ proc[p].pc = "acquire" /\ lock # NoProc
  /\ Goto(p, "idle")
  /\ UNCHANGED <<entries, lock, faults>>

ReadPayload(p) ==
  /\ proc[p].pc = "read"
  /\ proc' = [proc EXCEPT ![p].pc = "dump", ![p].payload = entries]
  /\ UNCHANGED <<entries, lock, faults>>

\* The new payload goes to a temporary file of the worker's own.
Dump(p) ==
  /\ proc[p].pc = "dump"
  /\ Goto(p, "replace")
  /\ UNCHANGED <<entries, lock, faults>>

\* An I/O error on the way (a full disk, an unreadable file): the temporary
\* file is removed, the lock is released and the request fails.
WriteFails(p) ==
  /\ proc[p].pc \in {"read", "dump", "replace"} /\ Fault
  /\ Goto(p, "release")
  /\ UNCHANGED <<entries, lock>>

\* os.replace.
Replace(p) ==
  /\ proc[p].pc = "replace"
  /\ entries' = proc[p].payload \cup {proc[p].text}
  /\ Goto(p, "release")
  /\ UNCHANGED <<lock, faults>>

\* __exit__ unlinks the path, whoever created it.
Release(p) ==
  /\ proc[p].pc = "release"
  /\ lock' = NoProc
  /\ Goto(p, "idle")
  /\ UNCHANGED <<entries, faults>>

\* The worker is killed and started again; nothing on disk changes.
Kill(p) ==
  /\ proc[p].pc # "idle" /\ Fault
  /\ Goto(p, "idle")
  /\ UNCHANGED <<entries, lock>>

Progress(p) ==
  Lookup(p) \/ Compute(p) \/ Acquire(p) \/ TimeOut(p) \/ ReadPayload(p) \/ Dump(p)
    \/ Replace(p) \/ Release(p)

Next ==
  \E p \in Procs :
    \/ \E t \in Texts : Request(p, t)
    \/ Progress(p) \/ AcquireFails(p) \/ WriteFails(p) \/ Kill(p)

Spec == Init /\ [][Next]_vars

\* A worker that is running keeps running.
FairSpec == Spec /\ \A p \in Procs : WF_vars(Progress(p))

-----------------------------------------------------------------------------
(* Properties.                                                             *)

\* Only one worker is between the payload's read and the end of the with block,
\* and it is the one whose lock file exists, so nobody's unlink can remove the
\* lock of another.
WriterHoldsLock == \A p \in Procs : proc[p].pc \in Writing => lock = p

\* No update is lost: an embedding that reached the file stays there, whatever
\* the writers, the time-outs and the killed workers do.
EntriesNeverLost == [][entries \subseteq entries']_vars

\* The lock file left by a killed worker, or by a failed __enter__, is never
\* removed: from then on nothing is added to the cache.
StaleLockFreezesCache ==
  [][lock # NoProc /\ proc[lock].pc \notin Writing =>
       entries' = entries /\ lock' = lock]_vars

\* Every request ends, also behind a lock nobody will release.
RequestsEnd == \A p \in Procs : (proc[p].pc = "acquire") ~> (proc[p].pc = "idle")
=============================================================================
