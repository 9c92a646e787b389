----------------------------- MODULE MediaCache -----------------------------
(***************************************************************************)
(* The clip cache (media.get_clip, media.prune_cache): threads of the API  *)
(* answer requests for clips from one directory.  A miss encodes into a    *)
(* temporary file of its own, renames it and then prunes the directory; a  *)
(* hit touches the file.  Nothing locks the directory, and the pattern of  *)
(* the prune also matches the temporary files.                             *)
(***************************************************************************)
EXTENDS Naturals, FiniteSets

CONSTANTS
  Workers,     \* request threads
  Clips,       \* cache keys
  Size,        \* clip -> size of its encoded file
  Limit,       \* MEDIA_CACHE_MAX_GB
  Retention,   \* MEDIA_CACHE_RETENTION_HOURS, in ticks of the clock
  MaxClock,    \* bound: ticks of the clock
  MaxKills,    \* bound: threads that die with their process
  MaxErrors    \* bound: encodings that fail

ASSUME MediaAssumption ==
  /\ Size \in [Clips -> Nat \ {0}] /\ Limit \in Nat \ {0} /\ Retention \in Nat
  /\ MaxClock \in Nat /\ MaxKills \in Nat /\ MaxErrors \in Nat

Temporaries == [by : Workers]
Published == [clip : Clips]
Names == Temporaries \cup Published

\* What a directory entry says: no file, or its size and modification time,
\* and whether it is a whole clip.
NoFile == [size |-> 0, mtime |-> 0, whole |-> FALSE, present |-> FALSE]
File(n, whole) == [size |-> n, mtime |-> 0, whole |-> whole, present |-> TRUE]

VARIABLES
  dir,      \* the directory: name -> file
  worker,   \* program counter and locals of each thread
  clock,    \* time.time()
  kills, errors

vars == <<dir, worker, clock, kills, errors>>

\* get_clip and prune_cache of one thread: the clip asked for, the listed names not
\* done with yet, the one of them that is to be unlinked, the entries kept so far and
\* the size of those that are left, the exception on its way ("no", "encoder" or
\* "gone"), and whether no other thread has worked meanwhile.
Idle == [pc |-> "idle", clip |-> CHOOSE c \in Clips : TRUE, todo |-> {}, doomed |-> {},
         entries |-> {}, total |-> 0, failed |-> "no", alone |-> TRUE]

Init ==
  /\ dir = [n \in Names |-> NoFile]
  /\ worker = [w \in Workers |-> Idle]
  /\ clock = 0 /\ kills = 0 /\ errors = 0

-----------------------------------------------------------------------------
Busy(ws) == {w \in Workers : ws[w].pc \notin {"idle", "lost", "dead"}}
Working(w) == w \in Busy(worker)

\* Thread w continues as state s; two threads at work are not alone.
Continue(w, s) ==
  LET after == [worker EXCEPT ![w] = s]
  IN  worker' = [x \in Workers |->
        [after[x] EXCEPT !.alone = @ /\ (x \in Busy(after) => Busy(after) = {x})]]

Goto(w, pc) == Continue(w, [worker[w] EXCEPT !.pc = pc])

At(w, pc) == worker[w].pc = pc

\* Mutant of Temp: the name has no uuid, so requests for a clip share it.
TempShared(w) == [by |-> CHOOSE x \in Workers : worker[x].clip = worker[w].clip]

\* The temporary file of w's request, named with a fresh uuid.
Temp(w) == [by |-> w]

Target(w) == [clip |-> worker[w].clip]

\* write and unlink.
Write(name, f) == dir' = [dir EXCEPT ![name] = [f EXCEPT !.mtime = clock]]
Unlink(name) == dir' = [dir EXCEPT ![name] = NoFile]

-----------------------------------------------------------------------------
(* get_clip.                                                               *)

\* A request for a clip of an existing segment.
Request(w) ==
  /\ worker[w].pc \in {"idle", "lost"} /\ ~dir[Temp(w)].present
  /\ \E c \in Clips : Continue(w, [Idle EXCEPT !.pc = "look", !.clip = c])
  /\ UNCHANGED dir

\* target.is_file() with a size: a hit goes on to utime, a miss to ffmpeg.
Look(w) ==
  /\ At(w, "look")
  /\ Goto(w, IF dir[Target(w)].present /\ dir[Target(w)].size > 0 THEN "touch" ELSE "encode")
  /\ UNCHANGED dir

\* os.utime: the file may be gone by now, and the exception is not handled.
Touch(w) ==
  /\ At(w, "touch")
  /\ IF dir[Target(w)].present
     THEN /\ dir' = [dir EXCEPT ![Target(w)].mtime = clock]
          /\ Goto(w, "send")
     ELSE /\ Continue(w, [worker[w] EXCEPT !.pc = "lost", !.failed = "gone"])
          /\ UNCHANGED dir

\* ffmpeg -y creates or truncates the temporary file and writes part of it.
EncodeStarts(w) ==
  /\ At(w, "encode")
  /\ \E n \in 0..Size[worker[w].clip] - 1 : Write(Temp(w), File(n, FALSE))
  /\ Goto(w, "encoding")

\* ffmpeg is done.  A file that was unlinked under it stays without a name.
EncodeEnds(w) ==
  /\ At(w, "encoding")
  /\ IF dir[Temp(w)].present
     THEN Write(Temp(w), File(Size[worker[w].clip], TRUE))
     ELSE UNCHANGED dir
  /\ Goto(w, "encoded")

\* A bad exit status (422), a time-out (504) or no ffmpeg at all (503).
EncodeFails(w) ==
  /\ worker[w].pc \in {"encode", "encoding"} /\ errors < MaxErrors
  /\ errors' = errors + 1
  /\ Continue(w, [worker[w] EXCEPT !.pc = "clean", !.failed = "encoder"])
  /\ UNCHANGED <<dir, clock, kills>>

\* "clip generation produced no media" when the file is not there.
CheckMedia(w) ==
  /\ At(w, "encoded")
  /\ IF dir[Temp(w)].present /\ dir[Temp(w)].size > 0
     THEN Goto(w, "rename")
     ELSE Continue(w, [worker[w] EXCEPT !.pc = "clean", !.failed = "gone"])
  /\ UNCHANGED dir

\* temporary.replace(target); a missing source is reported as a missing ffmpeg.
Rename(w) ==
  /\ At(w, "rename")
  /\ IF dir[Temp(w)].present
     THEN /\ dir' = [dir EXCEPT ![Target(w)] = dir[Temp(w)], ![Temp(w)] = NoFile]
          /\ Goto(w, "clean")
     ELSE /\ Continue(w, [worker[w] EXCEPT !.pc = "clean", !.failed = "gone"])
          /\ UNCHANGED dir

\* finally: the temporary file goes; a failure is then raised to the caller.
Clean(w) ==
  /\ At(w, "clean")
  /\ Unlink(Temp(w))
  /\ Goto(w, IF worker[w].failed = "no" THEN "list" ELSE "lost")

-----------------------------------------------------------------------------
(* prune_cache(cache, preserve=target), and the answer.                    *)

Present == {n \in Names : dir[n].present}

\* Mutant of Listed: the request's own clip is missing from the listing.
ListedOthers(w) == Present \ {Target(w)}

\* cache.glob("*.mp4"): the directory is read in one go, dot files included.
Listed(w) == Present

List(w) ==
  /\ At(w, "list")
  /\ Continue(w, [worker[w] EXCEPT !.pc = "stat", !.todo = Listed(w), !.entries = {}])
  /\ UNCHANGED dir

Expired(w, n) == n # Target(w) /\ clock - dir[n].mtime > Retention

Kept(n) == [name |-> n, size |-> dir[n].size, mtime |-> dir[n].mtime]

\* One turn of the first loop: stat, then what it says of the file.  A file that is
\* gone is passed over; one that is too old is unlinked next.
Stat(w, n) ==
  LET me   == worker[w]
      done == [me EXCEPT !.todo = @ \ {n}]
  IN  /\ At(w, "stat") /\ me.doomed = {} /\ n \in me.todo
      /\ Continue(w, CASE ~dir[n].present -> done
                       [] dir[n].present /\ Expired(w, n) -> [me EXCEPT !.doomed = {n}]
                       [] OTHER -> [done EXCEPT !.entries = @ \cup {Kept(n)}])
      /\ UNCHANGED dir

\* path.unlink: the file may have been touched or published anew since its stat.
UnlinkExpired(w, n) ==
  /\ At(w, "stat") /\ n \in worker[w].doomed
  /\ Unlink(n)
  /\ Continue(w, [worker[w] EXCEPT !.todo = @ \ {n}, !.doomed = {}])

\* Each entry counts as many units as its file has: the sum of the sizes.
Units(entries) == UNION {{<<e, k>> : k \in 1..e.size} : e \in entries}
Total(entries) == Cardinality(Units(entries))

AllStatted(w) ==
  /\ At(w, "stat") /\ worker[w].todo = {}
  /\ Continue(w, [worker[w] EXCEPT !.pc = "evict", !.total = Total(worker[w].entries)])
  /\ UNCHANGED dir

\* Mutant of Evictable: the request's own clip is taken as well.
EvictableAny(w, e) == \A f \in worker[w].entries : e.mtime <= f.mtime

\* The next entry to go, oldest first, is never the one to be served.
Evictable(w, e) ==
  /\ e.name # Target(w)
  /\ \A f \in worker[w].entries : f.name # Target(w) => e.mtime <= f.mtime

TooLarge(w) == worker[w].total > Limit

\* One turn of the second loop, by the sizes and times found in the first.
Evict(w, e) ==
  /\ At(w, "evict") /\ TooLarge(w) /\ e \in worker[w].entries /\ Evictable(w, e)
  /\ Unlink(e.name)
  /\ Continue(w, [worker[w] EXCEPT !.entries = @ \ {e}, !.total = @ - e.size])

\* break, or the end of the loop.
Pruned(w) ==
  /\ At(w, "evict")
  /\ TooLarge(w) => \A e \in worker[w].entries : e.name = Target(w)
  /\ Continue(w, [worker[w] EXCEPT !.pc = "send", !.entries = {}, !.total = 0])
  /\ UNCHANGED dir

\* FileResponse opens the file when the answer is sent.
Send(w) ==
  /\ At(w, "send")
  /\ Continue(w, IF dir[Target(w)].present
                 THEN Idle
                 ELSE [worker[w] EXCEPT !.pc = "lost", !.failed = "gone"])
  /\ UNCHANGED dir

-----------------------------------------------------------------------------
\* The process dies; a temporary file stays behind and its name never returns.
Kill(w) ==
  /\ Working(w) /\ kills < MaxKills
  /\ kills' = kills + 1
  /\ Continue(w, [Idle EXCEPT !.pc = "dead"])
  /\ UNCHANGED <<dir, clock, errors>>

Tick ==
  /\ clock < MaxClock
  /\ clock' = clock + 1
  /\ UNCHANGED <<dir, worker, kills, errors>>

Step(w) ==
  \/ Request(w) \/ Look(w) \/ Touch(w) \/ EncodeStarts(w) \/ EncodeEnds(w)
  \/ CheckMedia(w) \/ Rename(w) \/ Clean(w) \/ List(w) \/ AllStatted(w)
  \/ (\E n \in Names : Stat(w, n) \/ UnlinkExpired(w, n))
  \/ (\E e \in worker[w].entries : Evict(w, e)) \/ Pruned(w) \/ Send(w)

Next ==
  \/ \E w \in Workers : Step(w) /\ UNCHANGED <<clock, kills, errors>>
  \/ \E w \in Workers : EncodeFails(w) \/ Kill(w)
  \/ Tick

Spec == Init /\ [][Next]_vars

-----------------------------------------------------------------------------
(* Properties.                                                             *)

\* Whoever encodes what at the same time, fails or dies: under a clip's own name
\* there is never anything but the whole clip.
OnlyWholeClipsPublished ==
  \A c \in Clips : dir[[clip |-> c]].present =>
    dir[[clip |-> c]].whole /\ dir[[clip |-> c]].size = Size[c]

\* A request nobody works beside is answered with its clip unless the encoder
\* failed: its own prune does not take it away, however small the limits are.
UndisturbedAnswered ==
  \A w \in Workers : At(w, "lost") /\ worker[w].alone => worker[w].failed = "encoder"

\* When nobody is at work, overlapping prunes have left no more than the limit,
\* or nothing but one clip larger than it; a prune that was killed is excused.
SizeBoundedAtRest ==
  kills = 0 /\ Busy(worker) = {} =>
    \/ Total({Kept(n) : n \in Present}) <= Limit
    \/ Cardinality(Present) = 1
=============================================================================
