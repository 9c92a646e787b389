-------------------------- MODULE MediaCacheProofs --------------------------
(***************************************************************************)
(* MediaCache publishes whole clips only, answers whoever works alone, and *)
(* keeps its size when it comes to rest, for any number of threads, clips  *)
(* and sizes.  A temporary file has one writer, but every prune may unlink *)
(* it at any time; so what is known of it holds only while it is there,    *)
(* and it stays for sure only while its thread has the directory to itself.*)
(***************************************************************************)
EXTENDS MediaCache, FiniteSetTheorems, TLAPS

WholeClip(f, c) == f.whole /\ f.size = Size[c]

\* Once ffmpeg has ended, the thread's temporary file is its whole clip, or gone.
TemporaryInv ==
  \A w \in Workers :
    worker[w].pc \in {"encoded", "rename"} /\ dir[Temp(w)].present =>
      WholeClip(dir[Temp(w)], worker[w].clip)

PublishedInv ==
  \A c \in Clips : dir[[clip |-> c]].present => WholeClip(dir[[clip |-> c]], c)

Locals == {"pc", "clip", "todo", "doomed", "entries", "total", "failed", "alone"}

\* A thread at work has been asked for a clip, and is not about to unlink it.
State(s) ==
  /\ DOMAIN s = Locals
  /\ s.pc \notin {"idle", "lost", "dead"} => s.clip \in Clips /\ [clip |-> s.clip] \notin s.doomed

WorkerInv ==
  /\ DOMAIN worker = Workers
  /\ \A w \in Workers : State(worker[w])

DirectoryInv == DOMAIN dir = Names /\ \A n \in Names : DOMAIN dir[n] = DOMAIN NoFile

Inv == DirectoryInv /\ WorkerInv /\ TemporaryInv /\ PublishedInv

\* Temporary and published names differ, and each names one thread or one clip.
LEMMA NamesApart ==
  /\ \A w \in Workers : Temp(w) \in Names
  /\ \A c \in Clips : [clip |-> c] \in Names
  /\ \A w, x \in Workers : Temp(w) = Temp(x) => w = x
  /\ \A c, d \in Clips : [clip |-> c] = [clip |-> d] => c = d
  /\ \A w \in Workers, c \in Clips : Temp(w) # [clip |-> c]
<1>1. \A w \in Workers : Temp(w) \in Names /\ Temp(w).by = w /\ DOMAIN Temp(w) = {"by"}
  BY DEF Temp, Names, Temporaries
<1>2. \A c \in Clips : [clip |-> c] \in Names /\ [clip |-> c].clip = c /\ DOMAIN [clip |-> c] = {"clip"}
  BY DEF Names, Published
<1>. QED
  BY <1>1, <1>2

\* What a step leaves and makes of the threads.
LEMMA ContinueEffect ==
  ASSUME WorkerInv, NEW w \in Workers, NEW s, State(s), Continue(w, s)
  PROVE  /\ WorkerInv'
         /\ worker'[w].pc = s.pc /\ worker'[w].clip = s.clip
         /\ \A x \in Workers \ {w} : worker'[x].pc = worker[x].pc /\ worker'[x].clip = worker[x].clip
<1>. DEFINE after == [worker EXCEPT ![w] = s]
            lone(x) == after[x].alone /\ (x \in Busy(after) => Busy(after) = {x})
<1>1. worker' = [x \in Workers |-> [after[x] EXCEPT !.alone = lone(x)]]
  BY DEF Continue
<1>2. \A x \in Workers : after[x] = IF x = w THEN s ELSE worker[x]
  BY DEF WorkerInv
<1>3. \A x \in Workers : State(after[x])
  BY <1>2 DEF WorkerInv
<1>. HIDE DEF after, lone
<1>4. \A x \in Workers : /\ DOMAIN worker'[x] = Locals
                         /\ worker'[x].pc = after[x].pc /\ worker'[x].clip = after[x].clip
                         /\ worker'[x].doomed = after[x].doomed
  BY <1>1, <1>3 DEF State, Locals
<1>5. DOMAIN worker' = Workers
  BY <1>1
<1>. QED
  BY <1>2, <1>3, <1>4, <1>5 DEF WorkerInv, State

\* A file that is left was there, with the same content.
Left(f, g) == g.present => f.present /\ g.whole = f.whole /\ g.size = f.size

\* A step that adds nothing to the directory but a temporary file of the acting
\* thread: all but Rename.
LEMMA Unpublished ==
  ASSUME Inv, NEW w \in Workers, NEW s, State(s), Continue(w, s), DirectoryInv',
         \A n \in Names \ {Temp(w)} : Left(dir[n], dir'[n]),
         s.pc \in {"encoded", "rename"} /\ dir'[Temp(w)].present => WholeClip(dir'[Temp(w)], s.clip)
  PROVE  Inv'
<1>1. /\ WorkerInv'
      /\ worker'[w].pc = s.pc /\ worker'[w].clip = s.clip
      /\ \A x \in Workers \ {w} : worker'[x].pc = worker[x].pc /\ worker'[x].clip = worker[x].clip
  BY ContinueEffect DEF Inv
<1>2. \A x \in Workers : Temp(x)' = Temp(x)
  BY DEF Temp
<1>3. TemporaryInv'
  <2>. SUFFICES ASSUME NEW x \in Workers, worker'[x].pc \in {"encoded", "rename"},
                       dir'[Temp(x)].present
                PROVE  WholeClip(dir'[Temp(x)], worker'[x].clip)
    BY <1>2 DEF TemporaryInv, WholeClip
  <2>1. CASE x = w
    BY <1>1, <2>1
  <2>2. CASE x # w
    <3>1. Temp(x) \in Names \ {Temp(w)}
      BY <2>2, NamesApart
    <3>. QED
      BY <1>1, <2>2, <3>1 DEF Left, Inv, TemporaryInv, WholeClip
  <2>. QED
    BY <2>1, <2>2
<1>4. PublishedInv'
  <2>1. \A c \in Clips : [clip |-> c] \in Names \ {Temp(w)}
    BY NamesApart
  <2>. QED
    BY <2>1 DEF Left, Inv, PublishedInv, WholeClip
<1>. QED
  BY <1>1, <1>3, <1>4 DEF Inv

\* The next state of a thread that goes on with its request.
LEMMA GoesOn ==
  ASSUME WorkerInv, NEW w \in Workers, Working(w), NEW pc
  PROVE  /\ State([worker[w] EXCEPT !.pc = pc]) /\ worker[w].clip \in Clips
         /\ Target(w) \notin worker[w].doomed
BY DEF WorkerInv, State, Locals, Working, Busy, Target

LEMMA IdleState == State(Idle) /\ State([Idle EXCEPT !.pc = "dead"])
BY DEF State, Locals, Idle

\* get_clip up to the encoder.
LEMMA BeforeEncoding ==
  ASSUME Inv, NEW w \in Workers, Request(w) \/ Look(w) \/ Touch(w) \/ EncodeStarts(w)
  PROVE  Inv'
<1>. USE DEF Inv
<1>1. CASE Request(w)
  <2>1. PICK c \in Clips : Continue(w, [Idle EXCEPT !.pc = "look", !.clip = c])
    BY <1>1 DEF Request
  <2>2. State([Idle EXCEPT !.pc = "look", !.clip = c])
    BY DEF State, Locals, Idle
  <2>. QED
    BY <1>1, <2>1, <2>2, Unpublished DEF Request, Left, Idle, DirectoryInv
<1>2. CASE Look(w)
  <2>. DEFINE s == [worker[w] EXCEPT !.pc = IF dir[Target(w)].present /\ dir[Target(w)].size > 0
                                            THEN "touch" ELSE "encode"]
  <2>1. Working(w) /\ Continue(w, s) /\ dir' = dir
    BY <1>2 DEF Look, At, Goto, Working, Busy
  <2>2. State(s) /\ s.pc \notin {"encoded", "rename"}
    BY <2>1, GoesOn DEF State, Locals
  <2>. QED
    BY <2>1, <2>2, Unpublished DEF Left, DirectoryInv
<1>3. CASE Touch(w)
  <2>1. Working(w) /\ DirectoryInv'
    BY <1>3 DEF Touch, At, Working, Busy, DirectoryInv, NoFile
  <2>2. \A n \in Names : Left(dir[n], dir'[n])
    BY <1>3 DEF Touch, Left, DirectoryInv, NoFile
  <2>. DEFINE hit == [worker[w] EXCEPT !.pc = "send"]
              miss == [worker[w] EXCEPT !.pc = "lost", !.failed = "gone"]
  <2>3. State(hit) /\ State(miss) /\ hit.pc = "send" /\ miss.pc = "lost"
    BY <2>1, GoesOn DEF State, Locals
  <2>4. Continue(w, hit) \/ Continue(w, miss)
    BY <1>3 DEF Touch, Goto
  <2>. QED
    BY <2>1, <2>2, <2>3, <2>4, Unpublished
<1>4. CASE EncodeStarts(w)
  <2>. DEFINE s == [worker[w] EXCEPT !.pc = "encoding"]
  <2>1. Working(w) /\ Continue(w, s) /\ DirectoryInv'
    BY <1>4 DEF EncodeStarts, Write, File, At, Goto, Working, Busy, DirectoryInv, NoFile
  <2>2. State(s) /\ s.pc = "encoding"
    BY <2>1, GoesOn DEF State, Locals
  <2>3. \A n \in Names \ {Temp(w)} : Left(dir[n], dir'[n])
    BY <1>4 DEF EncodeStarts, Write, Left, DirectoryInv
  <2>. QED
    BY <2>1, <2>2, <2>3, Unpublished
<1>. QED
  BY <1>1, <1>2, <1>3, <1>4

\* The encoder's end, and what get_clip makes of it.
LEMMA AfterEncoding ==
  ASSUME Inv, NEW w \in Workers, EncodeEnds(w) \/ CheckMedia(w) \/ Clean(w) \/ EncodeFails(w)
  PROVE  Inv'
<1>. USE DEF Inv
<1>1. CASE EncodeEnds(w)
  <2>. DEFINE s == [worker[w] EXCEPT !.pc = "encoded"]
  <2>1. Working(w) /\ Continue(w, s) /\ DirectoryInv'
    BY <1>1 DEF EncodeEnds, Write, File, At, Goto, Working, Busy, DirectoryInv, NoFile
  <2>2. State(s) /\ s.pc = "encoded" /\ s.clip = worker[w].clip
    BY <2>1, GoesOn DEF State, Locals
  <2>3. \A n \in Names \ {Temp(w)} : Left(dir[n], dir'[n])
    BY <1>1 DEF EncodeEnds, Write, Left, DirectoryInv
  <2>4. dir'[Temp(w)].present => WholeClip(dir'[Temp(w)], worker[w].clip)
    BY <1>1, NamesApart DEF EncodeEnds, Write, File, WholeClip, DirectoryInv
  <2>. QED
    BY <2>1, <2>2, <2>3, <2>4, Unpublished
<1>2. CASE CheckMedia(w)
  <2>1. Working(w) /\ dir' = dir /\ worker[w].pc = "encoded"
    BY <1>2 DEF CheckMedia, At, Working, Busy
  <2>. DEFINE good == [worker[w] EXCEPT !.pc = "rename"]
              bad == [worker[w] EXCEPT !.pc = "clean", !.failed = "gone"]
  <2>2. State(good) /\ State(bad) /\ good.clip = worker[w].clip /\ bad.pc = "clean"
    BY <2>1, GoesOn DEF State, Locals
  <2>3. dir[Temp(w)].present => WholeClip(dir[Temp(w)], worker[w].clip)
    BY <2>1 DEF TemporaryInv
  <2>4. Continue(w, good) \/ Continue(w, bad)
    BY <1>2 DEF CheckMedia, Goto
  <2>. QED
    BY <2>1, <2>2, <2>3, <2>4, Unpublished DEF Left, DirectoryInv
<1>3. CASE Clean(w)
  <2>1. Working(w) /\ DirectoryInv'
    BY <1>3 DEF Clean, Unlink, At, Working, Busy, DirectoryInv, NoFile
  <2>. DEFINE next == IF worker[w].failed = "no" THEN "list" ELSE "lost"
              s == [worker[w] EXCEPT !.pc = next]
  <2>2. State(s) /\ Continue(w, s) /\ s.pc \notin {"encoded", "rename"}
    <3>1. Continue(w, s)
      BY <1>3 DEF Clean, Goto
    <3>2. State(s)
      BY <2>1, GoesOn
    <3>3. s.pc = next
      BY <3>2 DEF WorkerInv, State, Locals
    <3>. QED
      BY <3>1, <3>2, <3>3
  <2>3. \A n \in Names : Left(dir[n], dir'[n])
    BY <1>3 DEF Clean, Unlink, NoFile, Left, DirectoryInv
  <2>. QED
    BY <2>1, <2>2, <2>3, Unpublished
<1>4. CASE EncodeFails(w)
  <2>. DEFINE s == [worker[w] EXCEPT !.pc = "clean", !.failed = "encoder"]
  <2>1. Working(w) /\ Continue(w, s) /\ dir' = dir
    BY <1>4 DEF EncodeFails, Working, Busy
  <2>2. State(s) /\ s.pc = "clean"
    BY <2>1, GoesOn DEF State, Locals
  <2>. QED
    BY <2>1, <2>2, Unpublished DEF Left, DirectoryInv
<1>. QED
  BY <1>1, <1>2, <1>3, <1>4

\* The rename, the one step that publishes.
LEMMA RenameSound ==
  ASSUME Inv, NEW w \in Workers, Rename(w)
  PROVE  Inv'
<1>. DEFINE good == [worker[w] EXCEPT !.pc = "clean"]
            bad == [worker[w] EXCEPT !.pc = "clean", !.failed = "gone"]
            clip == worker[w].clip
<1>1. Working(w) /\ worker[w].pc = "rename" /\ clip \in Clips
  <2>1. Working(w) /\ worker[w].pc = "rename"
    BY DEF Rename, At, Working, Busy
  <2>. QED
    BY <2>1, GoesOn DEF Inv
<1>2. State(good) /\ State(bad) /\ good.pc = "clean" /\ bad.pc = "clean"
  BY <1>1, GoesOn DEF State, Locals, Inv
<1>3. CASE ~dir[Temp(w)].present
  <2>1. dir' = dir /\ Continue(w, bad)
    BY <1>3 DEF Rename
  <2>. QED
    BY <1>2, <2>1, Unpublished DEF Left, DirectoryInv, Inv
<1>4. CASE dir[Temp(w)].present
  <2>1. /\ dir' = [dir EXCEPT ![[clip |-> clip]] = dir[Temp(w)], ![Temp(w)] = NoFile]
        /\ Continue(w, good)
    BY <1>4 DEF Rename, Target, Goto
  <2>2. WholeClip(dir[Temp(w)], clip)
    BY <1>1, <1>4 DEF Inv, TemporaryInv
  <2>3. /\ WorkerInv' /\ worker'[w].pc = "clean"
        /\ \A x \in Workers \ {w} : worker'[x].pc = worker[x].pc /\ worker'[x].clip = worker[x].clip
    BY <1>2, <2>1, ContinueEffect DEF Inv
  <2>4. DirectoryInv'
    BY <1>1, <2>1, NamesApart DEF Inv, DirectoryInv
  <2>5. PublishedInv'
    <3>1. ASSUME NEW c \in Clips
          PROVE  dir'[[clip |-> c]] = IF c = clip THEN dir[Temp(w)] ELSE dir[[clip |-> c]]
      BY <1>1, <2>1, NamesApart DEF Inv, DirectoryInv
    <3>. QED
      BY <2>2, <3>1 DEF Inv, PublishedInv, WholeClip
  <2>6. TemporaryInv'
    <3>1. ASSUME NEW x \in Workers \ {w}
          PROVE  Temp(x)' = Temp(x) /\ dir'[Temp(x)] = dir[Temp(x)]
      BY <1>1, <2>1, NamesApart DEF Inv, DirectoryInv, Temp
    <3>. QED
      BY <2>3, <3>1 DEF Inv, TemporaryInv, WholeClip
  <2>. QED
    BY <2>3, <2>4, <2>5, <2>6 DEF Inv
<1>. QED
  BY <1>3, <1>4

\* prune_cache and the answer.
LEMMA PruneSound ==
  ASSUME Inv, NEW w \in Workers,
         \/ List(w) \/ AllStatted(w) \/ Pruned(w) \/ Send(w)
         \/ (\E n \in Names : Stat(w, n) \/ UnlinkExpired(w, n))
         \/ (\E e \in worker[w].entries : Evict(w, e))
  PROVE  Inv'
<1>1. DirectoryInv' /\ \A n \in Names : Left(dir[n], dir'[n])
  <2>1. dir' = dir \/ \E n : dir' = [dir EXCEPT ![n] = NoFile]
    BY DEF List, AllStatted, Pruned, Send, Stat, UnlinkExpired, Evict, Unlink
  <2>. QED
    BY <2>1 DEF NoFile, Left, Inv, DirectoryInv
<1>2. Working(w)
  BY DEF List, AllStatted, Pruned, Send, Stat, UnlinkExpired, Evict, At, Working, Busy
<1>3. ASSUME NEW s, State(s), s.pc \notin {"encoded", "rename"}, Continue(w, s)
      PROVE  Inv'
  BY <1>1, <1>3, Unpublished
<1>. USE DEF Inv
<1>4. CASE List(w)
  <2>. DEFINE s == [worker[w] EXCEPT !.pc = "stat", !.todo = Listed(w), !.entries = {}]
  <2>1. State(s) /\ s.pc = "stat"
    BY <1>2, GoesOn DEF State, Locals
  <2>. QED
    BY <1>3, <1>4, <2>1 DEF List
<1>5. CASE AllStatted(w)
  <2>. DEFINE s == [worker[w] EXCEPT !.pc = "evict", !.total = Total(worker[w].entries)]
  <2>1. State(s) /\ s.pc = "evict"
    BY <1>2, GoesOn DEF State, Locals
  <2>. QED
    BY <1>3, <1>5, <2>1 DEF AllStatted
<1>6. CASE Pruned(w)
  <2>. DEFINE s == [worker[w] EXCEPT !.pc = "send", !.entries = {}, !.total = 0]
  <2>1. State(s) /\ s.pc = "send"
    BY <1>2, GoesOn DEF State, Locals
  <2>. QED
    BY <1>3, <1>6, <2>1 DEF Pruned
<1>7. CASE Send(w)
  <2>. DEFINE s == [worker[w] EXCEPT !.pc = "lost", !.failed = "gone"]
  <2>1. State(s) /\ s.pc = "lost"
    BY <1>2, GoesOn DEF State, Locals
  <2>2. State(Idle) /\ Idle.pc = "idle"
    BY IdleState DEF Idle
  <2>3. Continue(w, s) \/ Continue(w, Idle)
    BY <1>7 DEF Send
  <2>. QED
    BY <1>3, <2>1, <2>2, <2>3
<1>8. ASSUME NEW n \in Names, Stat(w, n)
      PROVE  Inv'
  <2>. DEFINE done == [worker[w] EXCEPT !.todo = @ \ {n}]
              old  == [worker[w] EXCEPT !.doomed = {n}]
              more == [done EXCEPT !.entries = @ \cup {Kept(n)}]
  <2>1. State(done) /\ done.pc = "stat" /\ State(more) /\ more.pc = "stat"
    BY <1>2, <1>8, GoesOn DEF State, Locals, Stat, At, WorkerInv
  <2>2. Expired(w, n) => State(old) /\ old.pc = "stat"
    BY <1>2, <1>8, GoesOn DEF State, Locals, Stat, At, WorkerInv, Expired, Target
  <2>3. Continue(w, done) \/ (Expired(w, n) /\ Continue(w, old)) \/ Continue(w, more)
    BY <1>8 DEF Stat
  <2>. QED
    BY <1>3, <2>1, <2>2, <2>3
<1>10. ASSUME NEW n \in Names, UnlinkExpired(w, n)
       PROVE  Inv'
  <2>. DEFINE s == [worker[w] EXCEPT !.todo = @ \ {n}, !.doomed = {}]
  <2>1. State(s) /\ s.pc = "stat"
    BY <1>2, <1>10, GoesOn DEF State, Locals, UnlinkExpired, At, WorkerInv
  <2>. QED
    BY <1>3, <1>10, <2>1 DEF UnlinkExpired
<1>9. ASSUME NEW e \in worker[w].entries, Evict(w, e)
      PROVE  Inv'
  <2>. DEFINE s == [worker[w] EXCEPT !.entries = @ \ {e}, !.total = @ - e.size]
  <2>1. State(s) /\ s.pc = "evict"
    BY <1>2, <1>9, GoesOn DEF State, Locals, Evict, At, WorkerInv
  <2>. QED
    BY <1>3, <1>9, <2>1 DEF Evict
<1>. QED
  BY <1>4, <1>5, <1>6, <1>7, <1>8, <1>9, <1>10

LEMMA InvHolds == Spec => []Inv
<1>1. Init => Inv
  <2>. SUFFICES ASSUME Init PROVE Inv
    OBVIOUS
  <2>1. DirectoryInv /\ \A n \in Names : ~dir[n].present
    BY DEF Init, DirectoryInv, NoFile
  <2>2. WorkerInv
    BY IdleState DEF Init, WorkerInv
  <2>. QED
    BY <2>1, <2>2, NamesApart DEF Inv, TemporaryInv, PublishedInv
<1>2. Inv /\ [Next]_vars => Inv'
  <2>. SUFFICES ASSUME Inv, [Next]_vars PROVE Inv'
    OBVIOUS
  <2>1. ASSUME NEW w \in Workers, Step(w)
        PROVE  Inv'
    BY <2>1, BeforeEncoding, AfterEncoding, RenameSound, PruneSound DEF Step
  <2>2. ASSUME NEW w \in Workers, Kill(w)
        PROVE  Inv'
    <3>. DEFINE s == [Idle EXCEPT !.pc = "dead"]
    <3>1. State(s) /\ s.pc = "dead" /\ Continue(w, s) /\ dir' = dir
      BY <2>2, IdleState DEF Kill, Idle
    <3>. QED
      BY <3>1, Unpublished DEF Left, Inv, DirectoryInv
  <2>3. CASE Tick \/ UNCHANGED vars
    BY <2>3 DEF Tick, vars, Inv, DirectoryInv, WorkerInv, TemporaryInv, PublishedInv, WholeClip, State, Temp, Names,
      Temporaries, Published
  <2>. QED
    BY <2>1, <2>2, <2>3, AfterEncoding DEF Next
<1>. QED
  BY <1>1, <1>2, PTL DEF Spec

\* For any number of request threads, clips and sizes, whichever prunes, failures and
\* deaths come between: nothing but a whole clip is ever found under a clip's name.
THEOREM ClipsAreWhole == Spec => []OnlyWholeClipsPublished
<1>1. Inv => OnlyWholeClipsPublished
  BY DEF Inv, PublishedInv, WholeClip, OnlyWholeClipsPublished
<1>. QED
  BY <1>1, InvHolds, PTL

-----------------------------------------------------------------------------
(* A request nobody works beside.  While its thread is alone nobody else      *)
(* unlinks anything, and its own prune passes over the clip it is to send; so *)
(* the file it needs next is there at each of its steps.                      *)

\* What thread w, in state k, finds in directory d.
Fine(w, k, d) ==
  /\ k.pc \in {"touch", "list", "stat", "evict", "send"} \/ (k.pc = "clean" /\ k.failed = "no") =>
       d[[clip |-> k.clip]].present
  /\ k.pc \in {"encoding", "encoded", "rename"} => d[Temp(w)].present
  /\ k.failed \in {"no", "encoder"}
  /\ k.pc # "clean" => k.failed = "no"

AnsweredInv ==
  \A w \in Workers : worker[w].alone =>
    /\ At(w, "lost") => worker[w].failed = "encoder"
    /\ Working(w) => Busy(worker) = {w} /\ Fine(w, worker[w], dir)

LEMMA AloneEffect ==
  ASSUME WorkerInv, NEW w \in Workers, NEW s, State(s), Continue(w, s)
  PROVE  /\ worker'[w].failed = s.failed
         /\ worker'[w].alone => s.alone
         /\ \A x \in Workers \ {w} : /\ worker'[x].failed = worker[x].failed
                                     /\ worker'[x].alone => worker[x].alone
         /\ \A x \in Workers : worker'[x].alone /\ Working(x)' => Busy(worker)' = {x}
<1>. DEFINE after == [worker EXCEPT ![w] = s]
            lone(x) == after[x].alone /\ (x \in Busy(after) => Busy(after) = {x})
<1>1. worker' = [x \in Workers |-> [after[x] EXCEPT !.alone = lone(x)]]
  BY DEF Continue
<1>2. \A x \in Workers : after[x] = IF x = w THEN s ELSE worker[x]
  BY DEF WorkerInv
<1>3. \A x \in Workers : State(after[x])
  BY <1>2 DEF WorkerInv
<1>. HIDE DEF after
<1>4. \A x \in Workers : /\ worker'[x].pc = after[x].pc /\ worker'[x].failed = after[x].failed
                         /\ worker'[x].alone => lone(x)
  BY <1>1, <1>3 DEF State, Locals
<1>5. Busy(after) = Busy(worker)'
  BY <1>4 DEF Busy
<1>. QED
  BY <1>2, <1>4, <1>5 DEF Working

\* A step of a thread at work, or the start of a request.
LEMMA Attended ==
  ASSUME Inv, AnsweredInv, NEW w \in Workers, NEW s, State(s), Continue(w, s),
         Working(w) \/ s.pc \notin {"idle", "lost", "dead"},
         s.alone => /\ s.pc = "lost" => s.failed = "encoder"
                    /\ s.pc \notin {"idle", "lost", "dead"} => Fine(w, s, dir')
  PROVE  AnsweredInv'
<1>1. /\ worker'[w].pc = s.pc /\ worker'[w].clip = s.clip
      /\ \A x \in Workers \ {w} : worker'[x].pc = worker[x].pc /\ worker'[x].clip = worker[x].clip
  BY ContinueEffect DEF Inv
<1>2. /\ worker'[w].failed = s.failed
      /\ worker'[w].alone => s.alone
      /\ \A x \in Workers \ {w} : /\ worker'[x].failed = worker[x].failed
                                  /\ worker'[x].alone => worker[x].alone
      /\ \A x \in Workers : worker'[x].alone /\ Working(x)' => Busy(worker)' = {x}
  BY AloneEffect DEF Inv
<1>3. ASSUME NEW x \in Workers \ {w}, worker'[x].alone, Working(x)'
      PROVE  FALSE
  <2>1. Working(x) /\ worker[x].alone
    BY <1>1, <1>2, <1>3 DEF Working, Busy
  <2>2. Busy(worker) = {x} /\ Busy(worker)' = {x}
    BY <1>2, <1>3, <2>1 DEF AnsweredInv
  <2>. QED
    BY <1>1, <2>2 DEF Working, Busy
<1>4. ASSUME NEW x \in Workers, worker'[x].alone
      PROVE  /\ worker'[x].pc = "lost" => worker'[x].failed = "encoder"
             /\ Working(x)' => Busy(worker)' = {x} /\ Fine(x, worker'[x], dir')
  <2>1. CASE x # w
    BY <1>1, <1>2, <1>3, <1>4, <2>1 DEF AnsweredInv, At
  <2>2. CASE x = w
    BY <1>1, <1>2, <1>4, <2>2 DEF Fine, Working, Busy
  <2>. QED
    BY <2>1, <2>2
<1>. QED
  BY <1>4 DEF AnsweredInv, At, Fine, Temp

\* The next state of a thread that goes on, and what it finds if it is alone.
LEMMA OnlyCounter ==
  ASSUME Inv, AnsweredInv, NEW w \in Workers, Working(w), NEW s, NEW pc,
         s = [worker[w] EXCEPT !.pc = pc]
  PROVE  /\ State(s) /\ s.pc = pc /\ s.clip = worker[w].clip
         /\ s.failed = worker[w].failed /\ s.alone = worker[w].alone
         /\ worker[w].clip \in Clips
         /\ worker[w].alone => Fine(w, worker[w], dir)
<1>1. State(s) /\ worker[w].clip \in Clips
  BY GoesOn DEF Inv
<1>2. DOMAIN worker[w] = Locals
  BY DEF Inv, WorkerInv, State
<1>. QED
  BY <1>1, <1>2 DEF Locals, AnsweredInv

LEMMA RequestAttended ==
  ASSUME Inv, AnsweredInv, NEW w \in Workers, Request(w)
  PROVE  AnsweredInv'
<1>1. PICK c \in Clips : Continue(w, [Idle EXCEPT !.pc = "look", !.clip = c])
  BY Zenon DEF Request
<1>. DEFINE s == [Idle EXCEPT !.pc = "look", !.clip = c]
<1>2. State(s) /\ s.pc = "look" /\ s.failed = "no"
  BY DEF State, Locals, Idle
<1>. QED
  BY <1>1, <1>2, Attended DEF Fine

LEMMA LookAttended ==
  ASSUME Inv, AnsweredInv, NEW w \in Workers, Look(w)
  PROVE  AnsweredInv'
<1>. DEFINE hit == dir[Target(w)].present /\ dir[Target(w)].size > 0
            s == [worker[w] EXCEPT !.pc = IF hit THEN "touch" ELSE "encode"]
<1>1. Working(w) /\ worker[w].pc = "look" /\ Continue(w, s) /\ dir' = dir
  BY DEF Look, At, Goto, Working, Busy
<1>. HIDE DEF hit
<1>2. /\ State(s) /\ s.pc = (IF hit THEN "touch" ELSE "encode")
      /\ s.clip = worker[w].clip /\ s.failed = worker[w].failed /\ s.alone = worker[w].alone
      /\ worker[w].alone => Fine(w, worker[w], dir)
  BY <1>1, OnlyCounter
<1>3. s.alone => Fine(w, s, dir')
  BY <1>1, <1>2 DEF Fine, hit, Target
<1>. HIDE DEF s
<1>. QED
  BY <1>1, <1>2, <1>3, Attended

LEMMA TouchAttended ==
  ASSUME Inv, AnsweredInv, NEW w \in Workers, Touch(w)
  PROVE  AnsweredInv'
<1>1. Working(w) /\ worker[w].pc = "touch"
  BY DEF Touch, At, Working, Busy
<1>2. CASE dir[Target(w)].present
  <2>. DEFINE s == [worker[w] EXCEPT !.pc = "send"]
  <2>1. Continue(w, s) /\ dir' = [dir EXCEPT ![Target(w)].mtime = clock]
    BY <1>2 DEF Touch, Goto
  <2>2. /\ State(s) /\ s.pc = "send" /\ s.clip = worker[w].clip
        /\ s.failed = worker[w].failed /\ s.alone = worker[w].alone
        /\ worker[w].clip \in Clips
        /\ worker[w].alone => Fine(w, worker[w], dir)
    BY <1>1, OnlyCounter
  <2>3. dir'[Target(w)].present
    BY <1>2, <2>1, <2>2, NamesApart DEF Inv, DirectoryInv, NoFile, Target
  <2>4. s.alone => Fine(w, s, dir')
    BY <1>1, <2>2, <2>3 DEF Fine, Target
  <2>. HIDE DEF s
  <2>. QED
    BY <1>1, <2>1, <2>2, <2>4, Attended
<1>3. CASE ~dir[Target(w)].present
  <2>. DEFINE s == [worker[w] EXCEPT !.pc = "lost", !.failed = "gone"]
  <2>1. Continue(w, s)
    BY <1>3 DEF Touch
  <2>2. State(s) /\ s.alone = worker[w].alone
    BY <1>1, GoesOn DEF Inv, WorkerInv, State, Locals
  <2>3. ~worker[w].alone
    BY <1>1, <1>3 DEF AnsweredInv, Fine, Target
  <2>. HIDE DEF s
  <2>. QED
    BY <1>1, <2>1, <2>2, <2>3, Attended
<1>. QED
  BY <1>2, <1>3

\* The two ends of ffmpeg leave the temporary file in place.
LEMMA EncodeAttended ==
  ASSUME Inv, AnsweredInv, NEW w \in Workers, EncodeStarts(w) \/ EncodeEnds(w)
  PROVE  AnsweredInv'
<1>. DEFINE s(pc) == [worker[w] EXCEPT !.pc = pc]
<1>1. PICK pc \in {"encoding", "encoded"} :
        /\ Continue(w, s(pc)) /\ Working(w)
        /\ worker[w].pc = IF pc = "encoding" THEN "encode" ELSE "encoding"
  BY DEF EncodeStarts, EncodeEnds, At, Goto, Working, Busy
<1>2. Temp(w) \in DOMAIN dir
  BY NamesApart DEF Inv, DirectoryInv
<1>3. /\ State(s(pc)) /\ s(pc).pc = pc /\ s(pc).clip = worker[w].clip
      /\ s(pc).failed = worker[w].failed /\ s(pc).alone = worker[w].alone
      /\ worker[w].alone => Fine(w, worker[w], dir)
  BY <1>1, OnlyCounter
<1>. HIDE DEF s
<1>4. worker[w].alone => dir'[Temp(w)].present
  <2>1. CASE EncodeStarts(w)
    BY <1>2, <2>1 DEF EncodeStarts, Write, File
  <2>2. CASE EncodeEnds(w)
    BY <1>2, <1>3, <2>2 DEF EncodeEnds, Write, File, Fine, At
  <2>. QED
    BY <2>1, <2>2
<1>5. s(pc).alone => Fine(w, s(pc), dir')
  BY <1>1, <1>3, <1>4 DEF Fine
<1>. QED
  BY <1>1, <1>3, <1>5, Attended

LEMMA EncodeFailsAttended ==
  ASSUME Inv, AnsweredInv, NEW w \in Workers, EncodeFails(w)
  PROVE  AnsweredInv'
<1>. DEFINE s == [worker[w] EXCEPT !.pc = "clean", !.failed = "encoder"]
<1>1. Working(w) /\ Continue(w, s)
  BY DEF EncodeFails, Working, Busy
<1>2. State(s) /\ s.pc = "clean" /\ s.failed = "encoder"
  BY <1>1, GoesOn DEF Inv, WorkerInv, State, Locals
<1>3. Fine(w, s, dir')
  BY <1>2 DEF Fine
<1>. HIDE DEF s
<1>. QED
  BY <1>1, <1>2, <1>3, Attended

LEMMA CheckAttended ==
  ASSUME Inv, AnsweredInv, NEW w \in Workers, CheckMedia(w)
  PROVE  AnsweredInv'
<1>1. Working(w) /\ worker[w].pc = "encoded" /\ dir' = dir
  BY DEF CheckMedia, At, Working, Busy
<1>2. worker[w].clip \in Clips
  BY <1>1, GoesOn DEF Inv
<1>3. dir[Temp(w)].present => dir[Temp(w)].size > 0
  BY <1>1, <1>2, MediaAssumption DEF Inv, TemporaryInv, WholeClip
<1>4. CASE dir[Temp(w)].present
  <2>. DEFINE s == [worker[w] EXCEPT !.pc = "rename"]
  <2>1. Continue(w, s)
    BY <1>3, <1>4 DEF CheckMedia, Goto
  <2>2. /\ State(s) /\ s.pc = "rename" /\ s.failed = worker[w].failed /\ s.alone = worker[w].alone
        /\ worker[w].alone => Fine(w, worker[w], dir)
    BY <1>1, OnlyCounter
  <2>. HIDE DEF s
  <2>3. s.alone => Fine(w, s, dir')
    BY <1>1, <1>4, <2>2 DEF Fine
  <2>. QED
    BY <1>1, <2>1, <2>2, <2>3, Attended
<1>5. CASE ~dir[Temp(w)].present
  <2>. DEFINE s == [worker[w] EXCEPT !.pc = "clean", !.failed = "gone"]
  <2>1. Continue(w, s)
    BY <1>1, <1>3, <1>5 DEF CheckMedia
  <2>2. State(s) /\ s.alone = worker[w].alone
    BY <1>1, GoesOn DEF Inv, WorkerInv, State, Locals
  <2>3. ~worker[w].alone
    BY <1>1, <1>5 DEF AnsweredInv, Fine
  <2>. HIDE DEF s
  <2>. QED
    BY <1>1, <2>1, <2>2, <2>3, Attended
<1>. QED
  BY <1>4, <1>5

LEMMA RenameAttended ==
  ASSUME Inv, AnsweredInv, NEW w \in Workers, Rename(w)
  PROVE  AnsweredInv'
<1>1. Working(w) /\ worker[w].pc = "rename"
  BY DEF Rename, At, Working, Busy
<1>2. CASE dir[Temp(w)].present
  <2>. DEFINE s == [worker[w] EXCEPT !.pc = "clean"]
              clip == worker[w].clip
  <2>1. /\ dir' = [dir EXCEPT ![[clip |-> clip]] = dir[Temp(w)], ![Temp(w)] = NoFile]
        /\ Continue(w, s)
    BY <1>2 DEF Rename, Target, Goto
  <2>2. /\ State(s) /\ s.pc = "clean" /\ s.clip = worker[w].clip
        /\ s.failed = worker[w].failed /\ s.alone = worker[w].alone
        /\ worker[w].clip \in Clips
        /\ worker[w].alone => Fine(w, worker[w], dir)
    BY <1>1, OnlyCounter
  <2>. HIDE DEF s
  <2>3. dir'[[clip |-> clip]].present
    BY <1>2, <2>1, <2>2, NamesApart DEF Inv, DirectoryInv
  <2>4. s.alone => Fine(w, s, dir')
    BY <1>1, <2>2, <2>3 DEF Fine
  <2>. QED
    BY <1>1, <2>1, <2>2, <2>4, Attended
<1>3. CASE ~dir[Temp(w)].present
  <2>. DEFINE s == [worker[w] EXCEPT !.pc = "clean", !.failed = "gone"]
  <2>1. Continue(w, s)
    BY <1>3 DEF Rename
  <2>2. State(s) /\ s.alone = worker[w].alone
    BY <1>1, GoesOn DEF Inv, WorkerInv, State, Locals
  <2>3. ~worker[w].alone
    BY <1>1, <1>3 DEF AnsweredInv, Fine
  <2>. HIDE DEF s
  <2>. QED
    BY <1>1, <2>1, <2>2, <2>3, Attended
<1>. QED
  BY <1>2, <1>3

LEMMA CleanAttended ==
  ASSUME Inv, AnsweredInv, NEW w \in Workers, Clean(w)
  PROVE  AnsweredInv'
<1>. DEFINE next == IF worker[w].failed = "no" THEN "list" ELSE "lost"
            s == [worker[w] EXCEPT !.pc = next]
<1>1. /\ Working(w) /\ worker[w].pc = "clean" /\ Continue(w, s)
      /\ dir' = [dir EXCEPT ![Temp(w)] = NoFile]
  BY DEF Clean, Unlink, At, Goto, Working, Busy
<1>. HIDE DEF next
<1>2. /\ State(s) /\ s.pc = next /\ s.clip = worker[w].clip
      /\ s.failed = worker[w].failed /\ s.alone = worker[w].alone
      /\ worker[w].clip \in Clips
      /\ worker[w].alone => Fine(w, worker[w], dir)
  BY <1>1, OnlyCounter
<1>. HIDE DEF s
<1>3. dir'[[clip |-> worker[w].clip]] = dir[[clip |-> worker[w].clip]]
  BY <1>1, <1>2, NamesApart DEF Inv, DirectoryInv
<1>4. s.alone /\ s.pc = "lost" => s.failed = "encoder"
  BY <1>2 DEF Fine, next
<1>5. s.alone /\ s.pc # "lost" => Fine(w, s, dir')
  BY <1>1, <1>2, <1>3 DEF Fine, next
<1>. QED
  BY <1>1, <1>2, <1>4, <1>5, Attended

\* A step of prune_cache that spares the request's own clip.
LEMMA PruneAttended ==
  ASSUME Inv, AnsweredInv, NEW w \in Workers, NEW s, State(s), Continue(w, s),
         worker[w].pc \in {"list", "stat", "evict"}, s.pc \in {"stat", "evict", "send"},
         s.clip = worker[w].clip, s.failed = worker[w].failed, s.alone = worker[w].alone,
         dir'[Target(w)] = dir[Target(w)]
  PROVE  AnsweredInv'
<1>1. Working(w)
  BY DEF Working, Busy
<1>2. worker[w].alone => Fine(w, worker[w], dir)
  BY <1>1 DEF AnsweredInv
<1>3. s.alone => Fine(w, s, dir')
  BY <1>2 DEF Fine, Target
<1>. QED
  BY <1>1, <1>3, Attended

LEMMA PrunesAttended ==
  ASSUME Inv, AnsweredInv, NEW w \in Workers,
         \/ List(w) \/ AllStatted(w) \/ Pruned(w)
         \/ (\E n \in Names : Stat(w, n) \/ UnlinkExpired(w, n))
         \/ (\E e \in worker[w].entries : Evict(w, e))
  PROVE  AnsweredInv'
<1>1. Working(w) /\ worker[w].pc \in {"list", "stat", "evict"}
  <2>1. worker[w].pc \in {"list", "stat", "evict"}
    BY Zenon DEF List, AllStatted, Pruned, Stat, UnlinkExpired, Evict, At
  <2>. QED
    BY <2>1 DEF Working, Busy
<1>2. /\ DOMAIN worker[w] = Locals /\ worker[w].clip \in Clips
      /\ Target(w) \notin worker[w].doomed
  BY <1>1 DEF Inv, WorkerInv, State, Target
<1>3. ASSUME NEW s, DOMAIN s = Locals, s.clip = worker[w].clip, s.failed = worker[w].failed,
             s.alone = worker[w].alone, s.pc \in {"stat", "evict", "send"}, Target(w) \notin s.doomed,
             Continue(w, s), dir'[Target(w)] = dir[Target(w)]
      PROVE  AnsweredInv'
  BY <1>1, <1>2, <1>3, PruneAttended DEF State, Target
<1>4. CASE List(w)
  <2>. DEFINE s == [worker[w] EXCEPT !.pc = "stat", !.todo = Listed(w), !.entries = {}]
  <2>1. /\ DOMAIN s = Locals /\ s.clip = worker[w].clip /\ s.failed = worker[w].failed
        /\ s.alone = worker[w].alone /\ s.pc = "stat" /\ s.doomed = worker[w].doomed
    BY <1>2 DEF Locals
  <2>2. Continue(w, s) /\ dir' = dir
    BY <1>4 DEF List
  <2>. HIDE DEF s
  <2>. QED
    BY <1>2, <1>3, <2>1, <2>2
<1>5. CASE AllStatted(w)
  <2>. DEFINE s == [worker[w] EXCEPT !.pc = "evict", !.total = Total(worker[w].entries)]
  <2>1. /\ DOMAIN s = Locals /\ s.clip = worker[w].clip /\ s.failed = worker[w].failed
        /\ s.alone = worker[w].alone /\ s.pc = "evict" /\ s.doomed = worker[w].doomed
    BY <1>2 DEF Locals
  <2>2. Continue(w, s) /\ dir' = dir
    BY <1>5 DEF AllStatted
  <2>. HIDE DEF s
  <2>. QED
    BY <1>2, <1>3, <2>1, <2>2
<1>6. CASE Pruned(w)
  <2>. DEFINE s == [worker[w] EXCEPT !.pc = "send", !.entries = {}, !.total = 0]
  <2>1. /\ DOMAIN s = Locals /\ s.clip = worker[w].clip /\ s.failed = worker[w].failed
        /\ s.alone = worker[w].alone /\ s.pc = "send" /\ s.doomed = worker[w].doomed
    BY <1>2 DEF Locals
  <2>2. Continue(w, s) /\ dir' = dir
    BY <1>6 DEF Pruned
  <2>. HIDE DEF s
  <2>. QED
    BY <1>2, <1>3, <2>1, <2>2
<1>7. ASSUME NEW n \in Names, Stat(w, n)
      PROVE  AnsweredInv'
  <2>. DEFINE done == [worker[w] EXCEPT !.todo = @ \ {n}]
              old  == [worker[w] EXCEPT !.doomed = {n}]
              more == [done EXCEPT !.entries = @ \cup {Kept(n)}]
  <2>1. /\ DOMAIN done = Locals /\ done.clip = worker[w].clip /\ done.failed = worker[w].failed
        /\ done.alone = worker[w].alone /\ done.pc = worker[w].pc /\ done.doomed = worker[w].doomed
    BY <1>2 DEF Locals
  <2>2. /\ DOMAIN more = Locals /\ more.clip = worker[w].clip /\ more.failed = worker[w].failed
        /\ more.alone = worker[w].alone /\ more.pc = worker[w].pc /\ more.doomed = worker[w].doomed
    BY <1>2 DEF Locals
  <2>3. /\ DOMAIN old = Locals /\ old.clip = worker[w].clip /\ old.failed = worker[w].failed
        /\ old.alone = worker[w].alone /\ old.pc = worker[w].pc /\ old.doomed = {n}
    BY <1>2 DEF Locals
  <2>4. /\ Continue(w, done) \/ (n # Target(w) /\ Continue(w, old)) \/ Continue(w, more)
        /\ worker[w].pc = "stat" /\ dir' = dir
    BY <1>7, Zenon DEF Stat, At, Expired
  <2>. HIDE DEF done, old, more
  <2>. QED
    BY <1>2, <1>3, <2>1, <2>2, <2>3, <2>4
<1>9. ASSUME NEW n \in Names, UnlinkExpired(w, n)
      PROVE  AnsweredInv'
  <2>. DEFINE s == [worker[w] EXCEPT !.todo = @ \ {n}, !.doomed = {}]
  <2>1. /\ DOMAIN s = Locals /\ s.clip = worker[w].clip /\ s.failed = worker[w].failed
        /\ s.alone = worker[w].alone /\ s.pc = worker[w].pc /\ s.doomed = {}
    BY <1>2 DEF Locals
  <2>2. /\ Continue(w, s) /\ worker[w].pc = "stat" /\ n \in worker[w].doomed
        /\ dir' = [dir EXCEPT ![n] = NoFile]
    BY <1>9, Zenon DEF UnlinkExpired, Unlink, At
  <2>. HIDE DEF s
  <2>3. dir'[Target(w)] = dir[Target(w)]
    BY <1>2, <2>2, NamesApart DEF Inv, DirectoryInv, Target
  <2>. QED
    BY <1>3, <2>1, <2>2, <2>3
<1>8. ASSUME NEW e \in worker[w].entries, Evict(w, e)
      PROVE  AnsweredInv'
  <2>. DEFINE s == [worker[w] EXCEPT !.entries = @ \ {e}, !.total = @ - e.size]
  <2>1. /\ DOMAIN s = Locals /\ s.clip = worker[w].clip /\ s.failed = worker[w].failed
        /\ s.alone = worker[w].alone /\ s.pc = worker[w].pc /\ s.doomed = worker[w].doomed
    BY <1>2 DEF Locals
  <2>2. Continue(w, s) /\ worker[w].pc = "evict" /\ dir'[Target(w)] = dir[Target(w)]
    <3>1. /\ Continue(w, s) /\ worker[w].pc = "evict" /\ e.name # Target(w)
          /\ dir' = [dir EXCEPT ![e.name] = NoFile]
      BY <1>8, Zenon DEF Evict, Evictable, Unlink, At
    <3>. HIDE DEF s
    <3>. QED
      BY <1>2, <3>1, NamesApart DEF Inv, DirectoryInv, Target
  <2>. HIDE DEF s
  <2>. QED
    BY <1>2, <1>3, <2>1, <2>2
<1>. QED
  BY <1>4, <1>5, <1>6, <1>7, <1>8, <1>9

LEMMA SendAttended ==
  ASSUME Inv, AnsweredInv, NEW w \in Workers, Send(w)
  PROVE  AnsweredInv'
<1>1. Working(w) /\ worker[w].pc = "send"
  BY DEF Send, At, Working, Busy
<1>2. CASE dir[Target(w)].present
  <2>1. Continue(w, Idle) /\ State(Idle) /\ Idle.pc = "idle"
    BY <1>2, IdleState DEF Send, Idle
  <2>. QED
    BY <1>1, <2>1, Attended
<1>3. CASE ~dir[Target(w)].present
  <2>. DEFINE s == [worker[w] EXCEPT !.pc = "lost", !.failed = "gone"]
  <2>1. Continue(w, s)
    BY <1>3 DEF Send
  <2>2. State(s) /\ s.alone = worker[w].alone
    BY <1>1, GoesOn DEF Inv, WorkerInv, State, Locals
  <2>3. ~worker[w].alone
    BY <1>1, <1>3 DEF AnsweredInv, Fine, Target
  <2>. HIDE DEF s
  <2>. QED
    BY <1>1, <2>1, <2>2, <2>3, Attended
<1>. QED
  BY <1>2, <1>3

\* However small the limits are: a request nobody works beside is answered unless
\* the encoder failed, for any number of threads, clips and sizes.
THEOREM UndisturbedRequestsAnswered == Spec => []UndisturbedAnswered
<1>1. Init => AnsweredInv
  BY DEF Init, AnsweredInv, Idle, At, Working, Busy
<1>2. Inv /\ AnsweredInv /\ [Next]_vars => AnsweredInv'
  <2>. SUFFICES ASSUME Inv, AnsweredInv, [Next]_vars PROVE AnsweredInv'
    OBVIOUS
  <2>1. ASSUME NEW w \in Workers, Step(w)
        PROVE  AnsweredInv'
    BY <2>1, RequestAttended, LookAttended, TouchAttended, EncodeAttended, CheckAttended,
       RenameAttended, CleanAttended, PrunesAttended, SendAttended DEF Step
  <2>2. ASSUME NEW w \in Workers, Kill(w)
        PROVE  AnsweredInv'
    <3>. DEFINE s == [Idle EXCEPT !.pc = "dead"]
    <3>1. State(s) /\ s.pc = "dead" /\ Continue(w, s) /\ Working(w)
      BY <2>2, IdleState DEF Kill, Idle
    <3>. HIDE DEF s
    <3>. QED
      BY <3>1, Attended
  <2>3. CASE Tick \/ UNCHANGED vars
    BY <2>3 DEF Tick, vars, AnsweredInv, At, Working, Busy, Fine, Temp
  <2>. QED
    BY <2>1, <2>2, <2>3, EncodeFailsAttended DEF Next
<1>3. AnsweredInv => UndisturbedAnswered
  BY DEF AnsweredInv, UndisturbedAnswered
<1>. QED
  BY <1>1, <1>2, <1>3, InvHolds, PTL DEF Spec

-----------------------------------------------------------------------------
(* The size of the cache.  Every thread that publishes a clip prunes after *)
(* it, and no later than that thread some prune has listed all there is;   *)
(* its entries cover what is published until it is done, whoever else      *)
(* prunes or publishes meanwhile: a clip published later has a prune of    *)
(* its own to come.                                                        *)

\* The published clips of a directory, and as many units of each as it is large.
Shared(d) == {c \in Clips : d[[clip |-> c]].present}
ClipUnits(S) == UNION {{<<c, k>> : k \in 1..Size[c]} : c \in S}

\* The clips in directory d need no prune.
Small(d) ==
  \/ IsFiniteSet(ClipUnits(Shared(d))) /\ Cardinality(ClipUnits(Shared(d))) <= Limit
  \/ \E c \in Clips : Shared(d) \subseteq {c}

\* The thread is going to list the directory; or it has, and knows of every clip.
WillList(s) == s.pc = "list" \/ (s.pc = "clean" /\ s.failed = "no")
Seen(s) == s.todo \cup {e.name : e \in s.entries}
Covers(s, d) ==
  s.pc \in {"stat", "evict"} /\ \A c \in Shared(d) : [clip |-> c] \in Seen(s)
Cares(s, d) == WillList(s) \/ Covers(s, d)

\* What a prune knows of a file.
Sized(e) == e.size \in Nat /\ \A c \in Clips : e.name = [clip |-> c] => e.size = Size[c]

Listing(s) ==
  s.pc \in {"stat", "evict"} =>
    /\ IsFiniteSet(Units(s.entries)) /\ \A e \in s.entries : Sized(e)
    /\ s.pc = "evict" => s.todo = {} /\ s.total = Total(s.entries)

Unfailed(s) ==
  s.pc \in {"look", "touch", "encode", "encoding", "encoded", "rename", "list", "stat", "evict", "send"}
    => s.failed = "no"

\* While nobody was killed, a temporary file is the one its thread works on.
Owner(s) == s.pc \in {"encoding", "encoded", "rename", "clean"}

CoverInv == kills = 0 => Small(dir) \/ \E w \in Workers : Cares(worker[w], dir)

SizeInv ==
  /\ kills \in Nat /\ \A n \in Names : dir[n].size \in Nat
  /\ \A w \in Workers : Listing(worker[w]) /\ Unfailed(worker[w])
  /\ kills = 0 => \A w \in Workers : dir[Temp(w)].present => Owner(worker[w])
  /\ CoverInv

-----------------------------------------------------------------------------
\* One entry counts as many units as its file has.
LEMMA UnitsOfOne ==
  ASSUME NEW e, NEW n \in Nat
  PROVE  /\ IsFiniteSet({<<e, k>> : k \in 1..n})
         /\ Cardinality({<<e, k>> : k \in 1..n}) = n
<1>. DEFINE S == {<<e, k>> : k \in 1..n}
            f == [k \in 1..n |-> <<e, k>>]
<1>1. f \in [1..n -> S] /\ \A k \in 1..n : f[k] = <<e, k>>
  OBVIOUS
<1>. HIDE DEF f
<1>2. f \in Injection(1..n, S)
  BY <1>1 DEF Injection, IsInjective
<1>3. f \in Surjection(1..n, S)
  BY <1>1 DEF Surjection
<1>4. IsFiniteSet(1..n) /\ Cardinality(1..n) = n
  BY FS_Interval
<1>. QED
  BY <1>2, <1>3, <1>4, FS_Bijection DEF ExistsBijection, Bijection

LEMMA EntryAdded ==
  ASSUME NEW E, IsFiniteSet(Units(E)), NEW e, e.size \in Nat
  PROVE  IsFiniteSet(Units(E \cup {e}))
<1>1. Units(E \cup {e}) = Units(E) \cup {<<e, k>> : k \in 1..e.size}
  BY DEF Units
<1>2. IsFiniteSet({<<e, k>> : k \in 1..e.size})
  BY UnitsOfOne
<1>. QED
  BY <1>1, <1>2, FS_Union

LEMMA EntryRemoved ==
  ASSUME NEW E, IsFiniteSet(Units(E)), NEW e \in E, e.size \in Nat
  PROVE  IsFiniteSet(Units(E \ {e})) /\ Total(E \ {e}) = Total(E) - e.size
<1>. DEFINE one == {<<e, k>> : k \in 1..e.size}
            rest == Units(E \ {e})
<1>1. Units(E) = rest \cup one /\ rest \cap one = {}
  BY DEF Units
<1>2. IsFiniteSet(one) /\ Cardinality(one) = e.size
  BY UnitsOfOne
<1>3. IsFiniteSet(rest)
  BY <1>1, FS_Subset
<1>4. Cardinality(Units(E)) = Cardinality(rest) + Cardinality(one) - Cardinality(rest \cap one)
  BY <1>1, <1>2, <1>3, FS_Union
<1>5. Cardinality(rest \cap one) = 0
  BY <1>1, FS_EmptySet
<1>6. Cardinality(rest) \in Nat
  BY <1>3, FS_CardinalityType
<1>. QED
  BY <1>2, <1>3, <1>4, <1>5, <1>6 DEF Total

\* Entries that cover some clips count at least as many units as these have.
LEMMA EntriesCover ==
  ASSUME NEW S, NEW E, IsFiniteSet(Units(E)),
         \A c \in S : \E e \in E : e.name = [clip |-> c] /\ e.size = Size[c]
  PROVE  IsFiniteSet(ClipUnits(S)) /\ Cardinality(ClipUnits(S)) <= Total(E)
<1>. DEFINE of(c) == CHOOSE e \in E : e.name = [clip |-> c] /\ e.size = Size[c]
            f == [u \in ClipUnits(S) |-> <<of(u[1]), u[2]>>]
<1>1. \A c \in S : of(c) \in E /\ of(c).name = [clip |-> c] /\ of(c).size = Size[c]
  OBVIOUS
<1>. HIDE DEF of
<1>2. \A u \in ClipUnits(S) : u[1] \in S /\ u[2] \in 1..Size[u[1]] /\ u = <<u[1], u[2]>>
  BY DEF ClipUnits
<1>3. ASSUME NEW u \in ClipUnits(S)
      PROVE  <<of(u[1]), u[2]>> \in Units(E)
  <2>1. of(u[1]) \in E /\ u[2] \in 1..of(u[1]).size
    BY <1>1, <1>2
  <2>. QED
    BY <2>1 DEF Units
<1>4. \A c, d \in S : of(c) = of(d) => c = d
  <2>1. \A c : [clip |-> c].clip = c
    OBVIOUS
  <2>2. \A c \in S : of(c).name.clip = c
    BY <1>1, <2>1
  <2>. QED
    BY <2>2
<1>5. ASSUME NEW u \in ClipUnits(S), NEW v \in ClipUnits(S),
             <<of(u[1]), u[2]>> = <<of(v[1]), v[2]>>
      PROVE  u = v
  BY <1>2, <1>4, <1>5
<1>6. f \in Injection(ClipUnits(S), Units(E))
  <2>1. f \in [ClipUnits(S) -> Units(E)]
    BY <1>3
  <2>2. \A u \in ClipUnits(S) : f[u] = <<of(u[1]), u[2]>>
    OBVIOUS
  <2>. QED
    BY <1>5, <2>1, <2>2 DEF Injection, IsInjective
<1>. QED
  BY <1>6, FS_Injection DEF Total

-----------------------------------------------------------------------------
\* What a step leaves and makes of everything a thread holds.
LEMMA ContinueHolds ==
  ASSUME WorkerInv, NEW w \in Workers, NEW s, State(s), Continue(w, s), NEW x \in Workers
  PROVE  LET t == IF x = w THEN s ELSE worker[x]
         IN  /\ worker'[x].pc = t.pc /\ worker'[x].todo = t.todo /\ worker'[x].entries = t.entries
             /\ worker'[x].total = t.total /\ worker'[x].failed = t.failed
<1>. DEFINE after == [worker EXCEPT ![w] = s]
            lone(y) == after[y].alone /\ (y \in Busy(after) => Busy(after) = {y})
<1>1. worker' = [y \in Workers |-> [after[y] EXCEPT !.alone = lone(y)]]
  BY DEF Continue
<1>2. after[x] = IF x = w THEN s ELSE worker[x]
  BY DEF WorkerInv
<1>3. DOMAIN after[x] = Locals
  BY <1>2 DEF WorkerInv, State
<1>. HIDE DEF after, lone
<1>4. worker'[x] = [after[x] EXCEPT !.alone = lone(x)]
  BY <1>1
<1>. QED
  BY <1>2, <1>3, <1>4 DEF Locals

\* The invariants speak of these parts of a thread only.
LEMMA SameParts ==
  ASSUME NEW s, NEW t, t.pc = s.pc, t.todo = s.todo, t.entries = s.entries, t.total = s.total,
         t.failed = s.failed
  PROVE  /\ Listing(t) <=> Listing(s)
         /\ Unfailed(t) <=> Unfailed(s)
         /\ Owner(t) <=> Owner(s)
         /\ WillList(t) <=> WillList(s)
         /\ \A d : Covers(t, d) <=> Covers(s, d)
BY DEF Listing, Unfailed, Owner, WillList, Covers, Seen

LEMMA Continued ==
  ASSUME WorkerInv, NEW w \in Workers, NEW s, State(s), Continue(w, s), NEW x \in Workers
  PROVE  LET t == IF x = w THEN s ELSE worker[x]
         IN  /\ Listing(worker'[x]) <=> Listing(t)
             /\ Unfailed(worker'[x]) <=> Unfailed(t)
             /\ Owner(worker'[x]) <=> Owner(t)
             /\ \A d : Cares(worker'[x], d) <=> Cares(t, d)
<1>. DEFINE t == IF x = w THEN s ELSE worker[x]
<1>1. /\ worker'[x].pc = t.pc /\ worker'[x].todo = t.todo /\ worker'[x].entries = t.entries
      /\ worker'[x].total = t.total /\ worker'[x].failed = t.failed
  BY ContinueHolds
<1>. HIDE DEF t
<1>2. /\ Listing(worker'[x]) <=> Listing(t)
      /\ Unfailed(worker'[x]) <=> Unfailed(t)
      /\ Owner(worker'[x]) <=> Owner(t)
      /\ WillList(worker'[x]) <=> WillList(t)
      /\ \A d : Covers(worker'[x], d) <=> Covers(t, d)
  BY <1>1, SameParts
<1>. QED
  BY <1>2 DEF t, Cares

\* With fewer clips there is no more to prune and no more to know of.
LEMMA FewerClips ==
  ASSUME NEW d, NEW e, Shared(e) \subseteq Shared(d)
  PROVE  /\ Small(d) => Small(e)
         /\ \A s : Cares(s, d) => Cares(s, e)
<1>1. ASSUME Small(d) PROVE Small(e)
  <2>1. ClipUnits(Shared(e)) \subseteq ClipUnits(Shared(d))
    BY DEF ClipUnits
  <2>2. ASSUME IsFiniteSet(ClipUnits(Shared(d))), Cardinality(ClipUnits(Shared(d))) <= Limit
        PROVE  IsFiniteSet(ClipUnits(Shared(e))) /\ Cardinality(ClipUnits(Shared(e))) <= Limit
    <3>1. /\ IsFiniteSet(ClipUnits(Shared(e)))
          /\ Cardinality(ClipUnits(Shared(e))) <= Cardinality(ClipUnits(Shared(d)))
      BY <2>1, <2>2, FS_Subset
    <3>2. Cardinality(ClipUnits(Shared(e))) \in Nat /\ Cardinality(ClipUnits(Shared(d))) \in Nat
      BY <2>2, <3>1, FS_CardinalityType
    <3>. QED
      BY <2>2, <3>1, <3>2, MediaAssumption
  <2>. QED
    BY <1>1, <2>2 DEF Small
<1>. QED
  BY <1>1 DEF Cares, Covers

\* A step that publishes nothing: all but Rename.  A thread that cared still does,
\* or has left nothing to care about.
LEMMA SizeKept ==
  ASSUME Inv, SizeInv, NEW w \in Workers, NEW s, State(s), Continue(w, s), kills' = kills,
         \A n \in Names : dir'[n].size \in Nat,
         \A n \in Names \ {Temp(w)} : Left(dir[n], dir'[n]),
         Listing(s), Unfailed(s), kills = 0 /\ dir'[Temp(w)].present => Owner(s),
         kills = 0 /\ Cares(worker[w], dir) => Cares(s, dir') \/ Small(dir')
  PROVE  SizeInv'
<1>1. \A x \in Workers :
        LET t == IF x = w THEN s ELSE worker[x]
        IN  /\ Listing(worker'[x]) <=> Listing(t)
            /\ Unfailed(worker'[x]) <=> Unfailed(t)
            /\ Owner(worker'[x]) <=> Owner(t)
            /\ \A d : Cares(worker'[x], d) <=> Cares(t, d)
  BY Continued DEF Inv
<1>2. \A x \in Workers : Listing(worker'[x]) /\ Unfailed(worker'[x])
  BY <1>1 DEF SizeInv
<1>3. ASSUME kills' = 0, NEW x \in Workers, dir'[Temp(x)].present
      PROVE  Owner(worker'[x])
  <2>1. CASE x = w
    BY <1>1, <1>3, <2>1
  <2>2. CASE x # w
    <3>1. Temp(x) \in Names \ {Temp(w)}
      BY <2>2, NamesApart
    <3>2. dir[Temp(x)].present
      BY <1>3, <3>1 DEF Left
    <3>. QED
      BY <1>1, <1>3, <2>2, <3>2 DEF SizeInv
  <2>. QED
    BY <2>1, <2>2
<1>4. Shared(dir') \subseteq Shared(dir)
  <2>1. \A c \in Clips : [clip |-> c] \in Names \ {Temp(w)}
    BY NamesApart, Zenon
  <2>. QED
    BY <2>1 DEF Shared, Left
<1>5. ASSUME kills' = 0
      PROVE  Small(dir') \/ \E x \in Workers : Cares(worker'[x], dir')
  <2>1. CASE Small(dir)
    BY <1>4, <2>1, FewerClips
  <2>2. ASSUME NEW x \in Workers \ {w}, Cares(worker[x], dir)
        PROVE  Cares(worker'[x], dir')
    BY <1>1, <1>4, <2>2, FewerClips
  <2>3. CASE Cares(worker[w], dir)
    BY <1>1, <1>5, <2>3
  <2>. QED
    BY <1>5, <2>1, <2>2, <2>3 DEF SizeInv, CoverInv
<1>6. \A x \in Workers : Temp(x)' = Temp(x)
  BY DEF Temp
<1>7. /\ kills' \in Nat /\ \A n \in Names : dir'[n].size \in Nat
      /\ kills' = 0 => \A x \in Workers : dir'[Temp(x)].present => Owner(worker'[x])
  BY <1>3 DEF SizeInv
<1>8. CoverInv'
  BY <1>5 DEF CoverInv, Small, Shared, ClipUnits, Cares, Covers, WillList, Seen
<1>9. (\A x \in Workers : Listing(worker[x]) /\ Unfailed(worker[x]))'
  BY <1>2 DEF Listing, Unfailed, Sized, Units, Total
<1>. QED
  BY <1>6, <1>7, <1>8, <1>9 DEF SizeInv, Owner, Names, Temporaries, Published

\* A thread that is not pruning, and will not be, has nothing to keep.
LEMMA SizeCareless ==
  ASSUME Inv, SizeInv, NEW w \in Workers, NEW s, State(s), Continue(w, s), kills' = kills,
         \A n \in Names : dir'[n].size \in Nat,
         \A n \in Names \ {Temp(w)} : Left(dir[n], dir'[n]),
         worker[w].pc \notin {"list", "clean", "stat", "evict"}, s.pc \notin {"stat", "evict"},
         Unfailed(s), kills = 0 /\ dir'[Temp(w)].present => Owner(s)
  PROVE  SizeInv'
<1>1. Listing(s) /\ ~Cares(worker[w], dir)
  BY DEF Listing, Cares, WillList, Covers
<1>. QED
  BY <1>1, SizeKept

\* The thread's own temporary file, when nobody was killed.
LEMMA OwnTemporary ==
  ASSUME Inv, SizeInv, NEW w \in Workers, kills = 0, ~Owner(worker[w])
  PROVE  ~dir[Temp(w)].present
BY DEF SizeInv

\* A thread that changes its counter only.
LEMMA Advances ==
  ASSUME Inv, NEW w \in Workers, Working(w), NEW pc, NEW s, s = [worker[w] EXCEPT !.pc = pc]
  PROVE  /\ State(s) /\ s.pc = pc /\ s.todo = worker[w].todo /\ s.entries = worker[w].entries
         /\ s.total = worker[w].total /\ s.failed = worker[w].failed
         /\ worker[w].clip \in Clips
<1>1. State(s) /\ worker[w].clip \in Clips
  BY GoesOn DEF Inv
<1>2. DOMAIN worker[w] = Locals
  BY DEF Inv, WorkerInv, State
<1>. QED
  BY <1>1, <1>2 DEF Locals

LEMMA RequestSized ==
  ASSUME Inv, SizeInv, NEW w \in Workers, Request(w), kills' = kills
  PROVE  SizeInv'
<1>1. PICK c \in Clips : Continue(w, [Idle EXCEPT !.pc = "look", !.clip = c])
  BY Zenon DEF Request
<1>. DEFINE s == [Idle EXCEPT !.pc = "look", !.clip = c]
<1>2. State(s) /\ s.pc = "look" /\ s.failed = "no"
  BY DEF State, Locals, Idle
<1>3. worker[w].pc \in {"idle", "lost"} /\ ~dir[Temp(w)].present /\ dir' = dir
  BY DEF Request
<1>4. Continue(w, s)
  BY <1>1
<1>. HIDE DEF s
<1>6. /\ \A n \in Names : dir'[n].size \in Nat
      /\ \A n \in Names \ {Temp(w)} : Left(dir[n], dir'[n])
  BY <1>3 DEF SizeInv, Left
<1>5. /\ Unfailed(s) /\ s.pc \notin {"stat", "evict"}
      /\ worker[w].pc \notin {"list", "clean", "stat", "evict"} /\ ~dir'[Temp(w)].present
  BY <1>2, <1>3 DEF Unfailed
<1>. QED
  BY <1>2, <1>4, <1>5, <1>6, SizeCareless

LEMMA LookSized ==
  ASSUME Inv, SizeInv, NEW w \in Workers, Look(w), kills' = kills
  PROVE  SizeInv'
<1>. DEFINE next == IF dir[Target(w)].present /\ dir[Target(w)].size > 0 THEN "touch" ELSE "encode"
            s == [worker[w] EXCEPT !.pc = next]
<1>1. Working(w) /\ worker[w].pc = "look" /\ Continue(w, s) /\ dir' = dir
  BY DEF Look, At, Goto, Working, Busy
<1>2. next \in {"touch", "encode"}
  OBVIOUS
<1>. HIDE DEF next
<1>3. State(s) /\ s.pc = next /\ s.failed = worker[w].failed
  BY <1>1, Advances
<1>. HIDE DEF s
<1>4. /\ \A n \in Names : dir'[n].size \in Nat
      /\ \A n \in Names \ {Temp(w)} : Left(dir[n], dir'[n])
  BY <1>1 DEF SizeInv, Left
<1>5. worker[w].failed = "no"
  BY <1>1 DEF SizeInv, Unfailed
<1>6. Unfailed(s) /\ s.pc \notin {"stat", "evict"} /\ worker[w].pc \notin {"list", "clean", "stat", "evict"}
  BY <1>1, <1>2, <1>3, <1>5 DEF Unfailed
<1>7. kills = 0 => ~dir'[Temp(w)].present
  BY <1>1, OwnTemporary DEF Owner
<1>. QED
  BY <1>1, <1>3, <1>4, <1>6, <1>7, SizeCareless

\* utime keeps the content of a file.
LEMMA TouchSized ==
  ASSUME Inv, SizeInv, NEW w \in Workers, Touch(w), kills' = kills
  PROVE  SizeInv'
<1>1. Working(w) /\ worker[w].pc = "touch"
  BY DEF Touch, At, Working, Busy
<1>2. worker[w].clip \in Clips /\ worker[w].failed = "no"
  BY <1>1, GoesOn DEF Inv, SizeInv, Unfailed
<1>3. \A n \in Names : dir'[n].present = dir[n].present /\ dir'[n].size = dir[n].size /\ dir'[n].whole = dir[n].whole
  BY DEF Touch, Inv, DirectoryInv, NoFile
<1>4. /\ \A n \in Names : dir'[n].size \in Nat
      /\ \A n \in Names \ {Temp(w)} : Left(dir[n], dir'[n])
  BY <1>3 DEF SizeInv, Left
<1>5. kills = 0 => ~dir'[Temp(w)].present
  BY <1>1, <1>3, OwnTemporary, NamesApart DEF Owner
<1>. DEFINE hit == [worker[w] EXCEPT !.pc = "send"]
            miss == [worker[w] EXCEPT !.pc = "lost", !.failed = "gone"]
<1>6. State(hit) /\ hit.pc = "send" /\ hit.failed = "no"
  BY <1>1, <1>2, Advances
<1>7. State(miss) /\ miss.pc = "lost"
  BY <1>2 DEF Inv, WorkerInv, State, Locals
<1>8. Continue(w, hit) \/ Continue(w, miss)
  BY DEF Touch, Goto
<1>. HIDE DEF hit, miss
<1>9. /\ Unfailed(hit) /\ hit.pc \notin {"stat", "evict"}
      /\ Unfailed(miss) /\ miss.pc \notin {"stat", "evict"}
      /\ worker[w].pc \notin {"list", "clean", "stat", "evict"}
  BY <1>1, <1>6, <1>7 DEF Unfailed
<1>. QED
  BY <1>4, <1>5, <1>6, <1>7, <1>8, <1>9, SizeCareless

\* ffmpeg writes to the thread's own temporary file only.
LEMMA EncodeSized ==
  ASSUME Inv, SizeInv, NEW w \in Workers, EncodeStarts(w) \/ EncodeEnds(w), kills' = kills
  PROVE  SizeInv'
<1>. DEFINE s(pc) == [worker[w] EXCEPT !.pc = pc]
<1>1. PICK pc \in {"encoding", "encoded"} : Continue(w, s(pc))
  BY DEF EncodeStarts, EncodeEnds, Goto
<1>2. Working(w) /\ worker[w].pc \in {"encode", "encoding"}
  BY DEF EncodeStarts, EncodeEnds, At, Working, Busy
<1>3. /\ State(s(pc)) /\ s(pc).pc = pc /\ s(pc).failed = worker[w].failed
      /\ worker[w].clip \in Clips
  <2>1. /\ worker[w].clip \in Clips /\ DOMAIN worker[w] = Locals
        /\ Target(w) \notin worker[w].doomed
    BY <1>2, GoesOn DEF Inv, WorkerInv, State
  <2>. QED
    BY <2>1 DEF State, Locals, Target
<1>. HIDE DEF s
<1>4. worker[w].failed = "no"
  BY <1>2 DEF SizeInv, Unfailed
<1>5. PICK f : /\ f.size \in Nat
               /\ dir' = dir \/ dir' = [dir EXCEPT ![Temp(w)] = [f EXCEPT !.mtime = clock]]
               /\ DOMAIN f = DOMAIN NoFile
  <2>1. CASE EncodeStarts(w)
    <3>1. PICK n \in 0..Size[worker[w].clip] - 1 : Write(Temp(w), File(n, FALSE))
      BY <2>1, Zenon DEF EncodeStarts
    <3>2. n \in Nat
      BY <1>3, <3>1, MediaAssumption
    <3>. QED
      BY <3>1, <3>2 DEF Write, File, NoFile
  <2>2. CASE EncodeEnds(w)
    <3>1. Size[worker[w].clip] \in Nat
      BY <1>3, MediaAssumption
    <3>. QED
      BY <2>2, <3>1 DEF EncodeEnds, Write, File, NoFile
  <2>. QED
    BY <2>1, <2>2
<1>6. \A n \in Names : dir'[n].size \in Nat
  BY <1>5 DEF SizeInv, Inv, DirectoryInv, NoFile
<1>7. \A n \in Names \ {Temp(w)} : Left(dir[n], dir'[n])
  BY <1>5 DEF Inv, DirectoryInv, Left
<1>8. /\ Unfailed(s(pc)) /\ s(pc).pc \notin {"stat", "evict"} /\ Owner(s(pc))
      /\ worker[w].pc \notin {"list", "clean", "stat", "evict"}
  BY <1>1, <1>2, <1>3, <1>4 DEF Unfailed, Owner
<1>. QED
  BY <1>1, <1>3, <1>6, <1>7, <1>8, SizeCareless

LEMMA EncodeFailsSized ==
  ASSUME Inv, SizeInv, NEW w \in Workers, EncodeFails(w)
  PROVE  SizeInv'
<1>. DEFINE s == [worker[w] EXCEPT !.pc = "clean", !.failed = "encoder"]
<1>1. /\ Working(w) /\ worker[w].pc \in {"encode", "encoding"} /\ Continue(w, s)
      /\ dir' = dir /\ kills' = kills
  BY DEF EncodeFails, Working, Busy
<1>2. worker[w].clip \in Clips
  BY <1>1, GoesOn DEF Inv
<1>3. State(s) /\ s.pc = "clean"
  BY <1>1, GoesOn DEF Inv, WorkerInv, State, Locals, Target
<1>. HIDE DEF s
<1>4. /\ \A n \in Names : dir'[n].size \in Nat
      /\ \A n \in Names \ {Temp(w)} : Left(dir[n], dir'[n])
  BY <1>1 DEF SizeInv, Left
<1>5. /\ Unfailed(s) /\ s.pc \notin {"stat", "evict"} /\ Owner(s)
      /\ worker[w].pc \notin {"list", "clean", "stat", "evict"}
  BY <1>1, <1>3 DEF Unfailed, Owner
<1>. QED
  BY <1>1, <1>3, <1>4, <1>5, SizeCareless

LEMMA CheckSized ==
  ASSUME Inv, SizeInv, NEW w \in Workers, CheckMedia(w), kills' = kills
  PROVE  SizeInv'
<1>. DEFINE good == [worker[w] EXCEPT !.pc = "rename"]
            bad == [worker[w] EXCEPT !.pc = "clean", !.failed = "gone"]
<1>1. /\ Working(w) /\ worker[w].pc = "encoded" /\ dir' = dir
      /\ Continue(w, good) \/ Continue(w, bad)
  BY DEF CheckMedia, Goto, At, Working, Busy
<1>2. worker[w].clip \in Clips /\ worker[w].failed = "no"
  BY <1>1, GoesOn DEF Inv, SizeInv, Unfailed
<1>3. State(good) /\ good.pc = "rename" /\ good.failed = "no"
  BY <1>1, <1>2, Advances
<1>4. State(bad) /\ bad.pc = "clean"
  BY <1>1, GoesOn DEF Inv, WorkerInv, State, Locals, Target
<1>. HIDE DEF good, bad
<1>5. /\ \A n \in Names : dir'[n].size \in Nat
      /\ \A n \in Names \ {Temp(w)} : Left(dir[n], dir'[n])
  BY <1>1 DEF SizeInv, Left
<1>6. /\ Unfailed(good) /\ good.pc \notin {"stat", "evict"} /\ Owner(good)
      /\ Unfailed(bad) /\ bad.pc \notin {"stat", "evict"} /\ Owner(bad)
      /\ worker[w].pc \notin {"list", "clean", "stat", "evict"}
  BY <1>1, <1>3, <1>4 DEF Unfailed, Owner
<1>. QED
  BY <1>1, <1>3, <1>4, <1>5, <1>6, SizeCareless

LEMMA SendSized ==
  ASSUME Inv, SizeInv, NEW w \in Workers, Send(w), kills' = kills
  PROVE  SizeInv'
<1>. DEFINE s == [worker[w] EXCEPT !.pc = "lost", !.failed = "gone"]
<1>1. /\ Working(w) /\ worker[w].pc = "send" /\ dir' = dir
      /\ Continue(w, Idle) \/ Continue(w, s)
  BY DEF Send, At, Working, Busy
<1>2. worker[w].clip \in Clips
  BY <1>1, GoesOn DEF Inv
<1>3. State(s) /\ s.pc = "lost" /\ State(Idle) /\ Idle.pc = "idle"
  BY <1>2, IdleState DEF Inv, WorkerInv, State, Locals, Idle
<1>. HIDE DEF s
<1>4. /\ \A n \in Names : dir'[n].size \in Nat
      /\ \A n \in Names \ {Temp(w)} : Left(dir[n], dir'[n])
  BY <1>1 DEF SizeInv, Left
<1>5. kills = 0 => ~dir'[Temp(w)].present
  BY <1>1, OwnTemporary DEF Owner
<1>6. /\ Unfailed(s) /\ s.pc \notin {"stat", "evict"}
      /\ Unfailed(Idle) /\ Idle.pc \notin {"stat", "evict"}
      /\ worker[w].pc \notin {"list", "clean", "stat", "evict"}
  BY <1>1, <1>3 DEF Unfailed
<1>. QED
  BY <1>1, <1>3, <1>4, <1>5, <1>6, SizeCareless

\* The rename publishes a clip; its thread has yet to prune.
LEMMA RenameSized ==
  ASSUME Inv, SizeInv, NEW w \in Workers, Rename(w), kills' = kills
  PROVE  SizeInv'
<1>1. Working(w) /\ worker[w].pc = "rename"
  BY DEF Rename, At, Working, Busy
<1>2. worker[w].clip \in Clips /\ worker[w].failed = "no"
  BY <1>1, GoesOn DEF Inv, SizeInv, Unfailed
<1>3. CASE ~dir[Temp(w)].present
  <2>. DEFINE s == [worker[w] EXCEPT !.pc = "clean", !.failed = "gone"]
  <2>1. dir' = dir /\ Continue(w, s)
    BY <1>3 DEF Rename
  <2>2. State(s) /\ s.pc = "clean"
    BY <1>1, GoesOn DEF Inv, WorkerInv, State, Locals, Target
  <2>. HIDE DEF s
  <2>3. /\ \A n \in Names : dir'[n].size \in Nat
        /\ \A n \in Names \ {Temp(w)} : Left(dir[n], dir'[n])
    BY <2>1 DEF SizeInv, Left
  <2>4. /\ Unfailed(s) /\ s.pc \notin {"stat", "evict"} /\ Owner(s)
        /\ worker[w].pc \notin {"list", "clean", "stat", "evict"}
    BY <1>1, <2>2 DEF Unfailed, Owner
  <2>. QED
    BY <2>1, <2>2, <2>3, <2>4, SizeCareless
<1>4. CASE dir[Temp(w)].present
  <2>. DEFINE s == [worker[w] EXCEPT !.pc = "clean"]
  <2>1. /\ dir' = [dir EXCEPT ![[clip |-> worker[w].clip]] = dir[Temp(w)], ![Temp(w)] = NoFile]
        /\ Continue(w, s)
    BY <1>4 DEF Rename, Target, Goto
  <2>2. State(s) /\ s.pc = "clean" /\ s.failed = "no"
    BY <1>1, <1>2, Advances
  <2>. HIDE DEF s
  <2>3. /\ Listing(s) /\ Unfailed(s) /\ Owner(s) /\ \A d : Cares(s, d)
    BY <2>2 DEF Listing, Unfailed, Owner, Cares, WillList
  <2>4. \A x \in Workers :
          LET t == IF x = w THEN s ELSE worker[x]
          IN  /\ Listing(worker'[x]) <=> Listing(t)
              /\ Unfailed(worker'[x]) <=> Unfailed(t)
              /\ Owner(worker'[x]) <=> Owner(t)
              /\ \A d : Cares(worker'[x], d) <=> Cares(t, d)
    BY <2>1, <2>2, Continued DEF Inv
  <2>5. \A x \in Workers : Listing(worker'[x]) /\ Unfailed(worker'[x])
    BY <2>3, <2>4 DEF SizeInv
  <2>6. \A n \in Names : dir'[n].size \in Nat
    <3>1. Temp(w) \in Names /\ NoFile.size \in Nat
      BY NamesApart DEF NoFile
    <3>. QED
      BY <2>1, <3>1 DEF SizeInv, Inv, DirectoryInv
  <2>7. \A x \in Workers \ {w} : dir'[Temp(x)] = dir[Temp(x)]
    BY <1>2, <2>1, NamesApart DEF Inv, DirectoryInv
  <2>8. ASSUME kills' = 0, NEW x \in Workers, dir'[Temp(x)].present
        PROVE  Owner(worker'[x])
    <3>1. CASE x = w
      BY <2>3, <2>4, <3>1
    <3>2. CASE x # w
      BY <2>4, <2>7, <2>8, <3>2 DEF SizeInv
    <3>. QED
      BY <3>1, <3>2
  <2>9. Cares(worker'[w], dir')
    BY <2>3, <2>4
  <2>10. (\A x \in Workers : Listing(worker[x]) /\ Unfailed(worker[x]))'
    BY <2>5 DEF Listing, Unfailed, Sized, Units, Total
  <2>11. CoverInv'
    BY <2>9 DEF CoverInv, Small, Shared, ClipUnits, Cares, Covers, WillList, Seen
  <2>12. \A x \in Workers : Temp(x)' = Temp(x)
    BY DEF Temp
  <2>13. /\ kills' \in Nat
         /\ kills' = 0 => \A x \in Workers : dir'[Temp(x)].present => Owner(worker'[x])
    BY <2>8 DEF SizeInv
  <2>. QED
    BY <2>6, <2>10, <2>11, <2>12, <2>13 DEF SizeInv, Owner, Names, Temporaries, Published
<1>. QED
  BY <1>3, <1>4

\* What a prune or a clean-up makes of the directory: files go.
LEMMA Unlinked ==
  ASSUME Inv, SizeInv, dir' = dir \/ \E n : dir' = [dir EXCEPT ![n] = NoFile]
  PROVE  /\ \A n \in Names : dir'[n].size \in Nat
         /\ \A n \in Names : Left(dir[n], dir'[n])
         /\ Shared(dir') \subseteq Shared(dir)
<1>1. /\ \A n \in Names : dir'[n].size \in Nat
      /\ \A n \in Names : Left(dir[n], dir'[n])
  BY DEF SizeInv, Inv, DirectoryInv, NoFile, Left
<1>2. \A c \in Clips : [clip |-> c] \in Names
  BY NamesApart, Zenon
<1>. QED
  BY <1>1, <1>2 DEF Shared, Left

\* A thread that has published goes on to its own prune.
LEMMA CleanSized ==
  ASSUME Inv, SizeInv, NEW w \in Workers, Clean(w), kills' = kills
  PROVE  SizeInv'
<1>. DEFINE next == IF worker[w].failed = "no" THEN "list" ELSE "lost"
            s == [worker[w] EXCEPT !.pc = next]
<1>1. /\ Working(w) /\ worker[w].pc = "clean" /\ Continue(w, s)
      /\ dir' = [dir EXCEPT ![Temp(w)] = NoFile]
  BY DEF Clean, Unlink, At, Goto, Working, Busy
<1>. HIDE DEF next
<1>2. State(s) /\ s.pc = next /\ s.failed = worker[w].failed
  BY <1>1, Advances
<1>. HIDE DEF s
<1>3. /\ \A n \in Names : dir'[n].size \in Nat
      /\ \A n \in Names : Left(dir[n], dir'[n])
  BY <1>1, Unlinked
<1>4. ~dir'[Temp(w)].present
  BY <1>1, NamesApart DEF Inv, DirectoryInv, NoFile
<1>5. Listing(s) /\ Unfailed(s)
  BY <1>2 DEF next, Listing, Unfailed
<1>6. Cares(worker[w], dir) => Cares(s, dir')
  BY <1>1, <1>2 DEF next, Cares, Covers, WillList
<1>. QED
  BY <1>1, <1>2, <1>3, <1>4, <1>5, <1>6, SizeKept

LEMMA ListSized ==
  ASSUME Inv, SizeInv, NEW w \in Workers, List(w), kills' = kills
  PROVE  SizeInv'
<1>. DEFINE s == [worker[w] EXCEPT !.pc = "stat", !.todo = Listed(w), !.entries = {}]
<1>1. Working(w) /\ worker[w].pc = "list" /\ Continue(w, s) /\ dir' = dir
  BY DEF List, At, Working, Busy
<1>2. worker[w].clip \in Clips /\ worker[w].failed = "no"
  BY <1>1, GoesOn DEF Inv, SizeInv, Unfailed
<1>3. State(s) /\ s.pc = "stat" /\ s.todo = Present /\ s.entries = {} /\ s.failed = "no"
  BY <1>1, <1>2, GoesOn DEF Inv, WorkerInv, State, Locals, Target, Listed
<1>. HIDE DEF s
<1>4. /\ \A n \in Names : dir'[n].size \in Nat
      /\ \A n \in Names : Left(dir[n], dir'[n])
  BY <1>1, Unlinked
<1>5. Listing(s) /\ Unfailed(s)
  <2>1. Units({}) = {}
    BY DEF Units
  <2>. QED
    BY <1>3, <2>1, FS_EmptySet DEF Listing, Unfailed
<1>6. kills = 0 => ~dir'[Temp(w)].present
  BY <1>1, OwnTemporary DEF Owner
<1>7. Cares(s, dir')
  <2>1. \A c \in Shared(dir) : [clip |-> c] \in Present
    BY NamesApart, Zenon DEF Shared, Present
  <2>. QED
    BY <1>1, <1>3, <2>1 DEF Cares, Covers, Seen
<1>. QED
  BY <1>1, <1>3, <1>4, <1>5, <1>6, <1>7, SizeKept

\* What an entry is taken from is there, and as large as it says.
LEMMA KeptSized ==
  ASSUME Inv, SizeInv, NEW n \in Names, dir[n].present
  PROVE  Sized(Kept(n)) /\ Kept(n).name = n
<1>1. dir[n].size \in Nat
  BY DEF SizeInv
<1>2. \A c \in Clips : n = [clip |-> c] => dir[n].size = Size[c]
  BY DEF Inv, PublishedInv, WholeClip
<1>. QED
  BY <1>1, <1>2 DEF Sized, Kept

LEMMA StatSized ==
  ASSUME Inv, SizeInv, NEW w \in Workers, NEW n \in Names, Stat(w, n), kills' = kills
  PROVE  SizeInv'
<1>. DEFINE done == [worker[w] EXCEPT !.todo = @ \ {n}]
            old  == [worker[w] EXCEPT !.doomed = {n}]
            more == [done EXCEPT !.entries = @ \cup {Kept(n)}]
            past == dir[n].present /\ Expired(w, n)
            keep == dir[n].present /\ ~Expired(w, n)
            s == IF keep THEN more ELSE IF past THEN old ELSE done
<1>1. worker[w].pc = "stat" /\ n \in worker[w].todo /\ Continue(w, s) /\ dir' = dir
  BY DEF Stat, At
<1>2. Working(w)
  BY <1>1 DEF Working, Busy
<1>3. /\ worker[w].clip \in Clips /\ worker[w].failed = "no" /\ DOMAIN worker[w] = Locals
      /\ Target(w) \notin worker[w].doomed
  BY <1>1, <1>2 DEF Inv, WorkerInv, State, SizeInv, Unfailed, Target
<1>4. /\ DOMAIN s = Locals /\ s.clip = worker[w].clip /\ s.pc = "stat" /\ s.failed = "no"
      /\ s.todo = IF past THEN worker[w].todo ELSE worker[w].todo \ {n}
      /\ s.entries = IF keep THEN worker[w].entries \cup {Kept(n)} ELSE worker[w].entries
      /\ s.doomed = IF past THEN {n} ELSE worker[w].doomed
  BY <1>1, <1>3 DEF Locals
<1>. HIDE DEF s
<1>5. State(s)
  BY <1>3, <1>4 DEF State, Expired, Target
<1>6. /\ \A m \in Names : dir'[m].size \in Nat
      /\ \A m \in Names : Left(dir[m], dir'[m])
  BY <1>1, Unlinked
<1>7. IsFiniteSet(Units(worker[w].entries)) /\ \A e \in worker[w].entries : Sized(e)
  BY <1>1 DEF SizeInv, Listing
<1>8. Listing(s) /\ Unfailed(s)
  <2>1. CASE keep
    <3>1. Sized(Kept(n)) /\ Kept(n).size \in Nat
      BY <2>1, KeptSized DEF Sized
    <3>2. IsFiniteSet(Units(worker[w].entries \cup {Kept(n)}))
      BY <1>7, <3>1, EntryAdded
    <3>. QED
      BY <1>4, <1>7, <2>1, <3>1, <3>2 DEF Listing, Unfailed
  <2>2. CASE ~keep
    BY <1>4, <1>7, <2>2 DEF Listing, Unfailed
  <2>. QED
    BY <2>1, <2>2
<1>9. kills = 0 => ~dir'[Temp(w)].present
  BY <1>1, OwnTemporary DEF Owner
<1>10. ASSUME Cares(worker[w], dir), NEW c \in Shared(dir')
       PROVE  [clip |-> c] \in Seen(s)
  <2>1. [clip |-> c] \in Seen(worker[w]) /\ c \in Clips /\ dir[[clip |-> c]].present
    BY <1>1, <1>10 DEF Cares, WillList, Covers, Shared
  <2>2. CASE keep /\ [clip |-> c] = n
    <3>1. Kept(n) \in s.entries /\ Kept(n).name = n
      BY <1>4, <2>2, KeptSized
    <3>. QED
      BY <2>2, <3>1 DEF Seen
  <2>3. CASE past \/ [clip |-> c] # n
    BY <1>4, <2>1, <2>3 DEF Seen
  <2>4. [clip |-> c] = n => keep \/ past
    BY <2>1
  <2>. QED
    BY <2>2, <2>3, <2>4
<1>11. Cares(worker[w], dir) => Cares(s, dir')
  BY <1>4, <1>10 DEF Cares, Covers
<1>. QED
  BY <1>1, <1>5, <1>6, <1>8, <1>9, <1>11, SizeKept

LEMMA UnlinkExpiredSized ==
  ASSUME Inv, SizeInv, NEW w \in Workers, NEW n \in Names, UnlinkExpired(w, n), kills' = kills
  PROVE  SizeInv'
<1>. DEFINE s == [worker[w] EXCEPT !.todo = @ \ {n}, !.doomed = {}]
<1>1. worker[w].pc = "stat" /\ Continue(w, s) /\ dir' = [dir EXCEPT ![n] = NoFile]
  BY DEF UnlinkExpired, At, Unlink
<1>2. worker[w].clip \in Clips /\ worker[w].failed = "no" /\ DOMAIN worker[w] = Locals
  BY <1>1 DEF Inv, WorkerInv, State, SizeInv, Unfailed
<1>3. /\ State(s) /\ s.pc = "stat" /\ s.failed = "no"
      /\ s.todo = worker[w].todo \ {n} /\ s.entries = worker[w].entries
  BY <1>1, <1>2 DEF State, Locals
<1>. HIDE DEF s
<1>4. /\ \A m \in Names : dir'[m].size \in Nat
      /\ \A m \in Names : Left(dir[m], dir'[m])
      /\ Shared(dir') \subseteq Shared(dir)
  BY <1>1, Unlinked
<1>5. Listing(s) /\ Unfailed(s)
  BY <1>1, <1>3 DEF SizeInv, Listing, Unfailed
<1>6. kills = 0 => ~dir'[Temp(w)].present
  BY <1>1, <1>4, OwnTemporary, NamesApart DEF Owner, Left
<1>7. ~dir'[n].present
  BY <1>1 DEF Inv, DirectoryInv, NoFile
<1>8. ASSUME Cares(worker[w], dir), NEW c \in Shared(dir')
      PROVE  [clip |-> c] \in Seen(s)
  <2>1. [clip |-> c] \in Seen(worker[w])
    BY <1>1, <1>4, <1>8 DEF Cares, WillList, Covers
  <2>2. [clip |-> c] # n
    BY <1>7, <1>8 DEF Shared
  <2>. QED
    BY <1>3, <2>1, <2>2 DEF Seen
<1>9. Cares(worker[w], dir) => Cares(s, dir')
  BY <1>3, <1>8 DEF Cares, Covers
<1>. QED
  BY <1>1, <1>3, <1>4, <1>5, <1>6, <1>9, SizeKept

LEMMA AllStattedSized ==
  ASSUME Inv, SizeInv, NEW w \in Workers, AllStatted(w), kills' = kills
  PROVE  SizeInv'
<1>. DEFINE s == [worker[w] EXCEPT !.pc = "evict", !.total = Total(worker[w].entries)]
<1>1. /\ Working(w) /\ worker[w].pc = "stat" /\ worker[w].todo = {}
      /\ Continue(w, s) /\ dir' = dir
  BY DEF AllStatted, At, Working, Busy
<1>2. worker[w].clip \in Clips /\ worker[w].failed = "no" /\ DOMAIN worker[w] = Locals
  BY <1>1, GoesOn DEF Inv, WorkerInv, State, SizeInv, Unfailed
<1>3. /\ State(s) /\ s.pc = "evict" /\ s.todo = {} /\ s.entries = worker[w].entries
      /\ s.total = Total(worker[w].entries) /\ s.failed = "no"
  BY <1>1, <1>2, GoesOn DEF Inv, State, Locals, Target
<1>. HIDE DEF s
<1>4. /\ \A n \in Names : dir'[n].size \in Nat
      /\ \A n \in Names : Left(dir[n], dir'[n])
  BY <1>1, Unlinked
<1>5. Listing(s) /\ Unfailed(s)
  BY <1>1, <1>3 DEF SizeInv, Listing, Unfailed
<1>6. kills = 0 => ~dir'[Temp(w)].present
  BY <1>1, OwnTemporary DEF Owner
<1>7. Cares(worker[w], dir) => Cares(s, dir')
  BY <1>1, <1>3 DEF Cares, WillList, Covers, Seen
<1>. QED
  BY <1>1, <1>3, <1>4, <1>5, <1>6, <1>7, SizeKept

LEMMA EvictSized ==
  ASSUME Inv, SizeInv, NEW w \in Workers, NEW e \in worker[w].entries, Evict(w, e), kills' = kills
  PROVE  SizeInv'
<1>. DEFINE s == [worker[w] EXCEPT !.entries = @ \ {e}, !.total = @ - e.size]
<1>1. /\ worker[w].pc = "evict" /\ Continue(w, s) /\ dir' = [dir EXCEPT ![e.name] = NoFile]
  BY DEF Evict, At, Unlink
<1>2. Working(w)
  BY <1>1 DEF Working, Busy
<1>3. worker[w].clip \in Clips /\ worker[w].failed = "no" /\ DOMAIN worker[w] = Locals
  BY <1>1, <1>2, GoesOn DEF Inv, WorkerInv, State, SizeInv, Unfailed
<1>4. /\ State(s) /\ s.pc = "evict" /\ s.todo = worker[w].todo /\ s.entries = worker[w].entries \ {e}
      /\ s.total = worker[w].total - e.size /\ s.failed = "no"
  BY <1>1, <1>2, <1>3, GoesOn DEF Inv, State, Locals, Target
<1>. HIDE DEF s
<1>5. /\ \A n \in Names : dir'[n].size \in Nat
      /\ \A n \in Names : Left(dir[n], dir'[n])
      /\ Shared(dir') \subseteq Shared(dir)
  BY <1>1, Unlinked
<1>6. /\ IsFiniteSet(Units(worker[w].entries)) /\ \A f \in worker[w].entries : Sized(f)
      /\ worker[w].todo = {} /\ worker[w].total = Total(worker[w].entries)
  BY <1>1 DEF SizeInv, Listing
<1>7. Listing(s) /\ Unfailed(s)
  <2>1. e.size \in Nat
    BY <1>6 DEF Sized
  <2>2. /\ IsFiniteSet(Units(worker[w].entries \ {e}))
        /\ Total(worker[w].entries \ {e}) = Total(worker[w].entries) - e.size
    BY <1>6, <2>1, EntryRemoved
  <2>. QED
    BY <1>4, <1>6, <2>2 DEF Listing, Unfailed
<1>8. kills = 0 => ~dir'[Temp(w)].present
  BY <1>1, <1>5, OwnTemporary, NamesApart DEF Owner, Left
<1>9. ASSUME Cares(worker[w], dir), NEW c \in Shared(dir')
      PROVE  [clip |-> c] \in Seen(s)
  <2>1. /\ [clip |-> c] \in Seen(worker[w]) /\ c \in Clips /\ dir'[[clip |-> c]].present
        /\ [clip |-> c] \in Names
    BY <1>1, <1>5, <1>9, NamesApart, Zenon DEF Cares, WillList, Covers, Shared
  <2>2. e.name # [clip |-> c]
    BY <1>1, <2>1 DEF Inv, DirectoryInv, NoFile
  <2>. QED
    BY <1>4, <1>6, <2>1, <2>2 DEF Seen
<1>10. Cares(worker[w], dir) => Cares(s, dir')
  BY <1>4, <1>9 DEF Cares, Covers
<1>. QED
  BY <1>1, <1>4, <1>5, <1>7, <1>8, <1>10, SizeKept

\* Whoever has looked after every clip until now leaves no more than the limit, or
\* the one clip it was asked for.
LEMMA PrunedSized ==
  ASSUME Inv, SizeInv, NEW w \in Workers, Pruned(w), kills' = kills
  PROVE  SizeInv'
<1>. DEFINE s == [worker[w] EXCEPT !.pc = "send", !.entries = {}, !.total = 0]
<1>1. /\ Working(w) /\ worker[w].pc = "evict" /\ Continue(w, s) /\ dir' = dir
      /\ TooLarge(w) => \A e \in worker[w].entries : e.name = Target(w)
  BY DEF Pruned, At, Working, Busy
<1>2. worker[w].clip \in Clips /\ worker[w].failed = "no" /\ DOMAIN worker[w] = Locals
  BY <1>1, GoesOn DEF Inv, WorkerInv, State, SizeInv, Unfailed
<1>3. State(s) /\ s.pc = "send" /\ s.failed = "no"
  BY <1>1, <1>2, GoesOn DEF Inv, State, Locals, Target
<1>. HIDE DEF s
<1>4. /\ \A n \in Names : dir'[n].size \in Nat
      /\ \A n \in Names : Left(dir[n], dir'[n])
  BY <1>1, Unlinked
<1>5. Listing(s) /\ Unfailed(s)
  BY <1>3 DEF Listing, Unfailed
<1>6. kills = 0 => ~dir'[Temp(w)].present
  BY <1>1, OwnTemporary DEF Owner
<1>7. /\ IsFiniteSet(Units(worker[w].entries)) /\ \A e \in worker[w].entries : Sized(e)
      /\ worker[w].todo = {} /\ worker[w].total = Total(worker[w].entries)
  BY <1>1 DEF SizeInv, Listing
<1>8. ASSUME Cares(worker[w], dir)
      PROVE  Small(dir)
  <2>1. ASSUME NEW c \in Shared(dir)
        PROVE  c \in Clips /\ \E e \in worker[w].entries : e.name = [clip |-> c]
    <3>1. Covers(worker[w], dir)
      BY <1>1, <1>8 DEF Cares, WillList
    <3>2. [clip |-> c] \in {e.name : e \in worker[w].entries}
      BY <1>7, <3>1, Zenon DEF Covers, Seen
    <3>. QED
      BY <3>2, Zenon DEF Shared
  <2>2. CASE TooLarge(w)
    <3>1. \A c \in Shared(dir) : [clip |-> c] = [clip |-> worker[w].clip]
      BY <1>1, <2>1, <2>2 DEF Target
    <3>2. Shared(dir) \subseteq {worker[w].clip}
      BY <1>2, <2>1, <3>1, NamesApart, Zenon
    <3>. QED
      BY <1>2, <3>2 DEF Small
  <2>3. CASE ~TooLarge(w)
    <3>1. \A c \in Shared(dir) : \E e \in worker[w].entries : e.name = [clip |-> c] /\ e.size = Size[c]
      BY <1>7, <2>1, Zenon DEF Sized
    <3>2. /\ IsFiniteSet(ClipUnits(Shared(dir)))
          /\ Cardinality(ClipUnits(Shared(dir))) <= Total(worker[w].entries)
      BY <1>7, <3>1, EntriesCover
    <3>3. Total(worker[w].entries) \in Nat /\ Cardinality(ClipUnits(Shared(dir))) \in Nat
      BY <1>7, <3>2, FS_CardinalityType DEF Total
    <3>. QED
      BY <1>7, <2>3, <3>2, <3>3, MediaAssumption DEF TooLarge, Small
  <2>. QED
    BY <2>2, <2>3
<1>. QED
  BY <1>1, <1>3, <1>4, <1>5, <1>6, <1>8, SizeKept

\* The files of clips count as many units as their clips.
LEMMA FilesCounted ==
  ASSUME NEW S, NEW E, IsFiniteSet(ClipUnits(S)),
         \A e \in E : \E c \in S : e.name = [clip |-> c] /\ e.size = Size[c],
         \A e, f \in E : e.name = f.name => e = f
  PROVE  IsFiniteSet(Units(E)) /\ Total(E) <= Cardinality(ClipUnits(S))
<1>. DEFINE of(e) == CHOOSE c \in S : e.name = [clip |-> c] /\ e.size = Size[c]
            g == [u \in Units(E) |-> <<of(u[1]), u[2]>>]
<1>1. \A e \in E : of(e) \in S /\ e.name = [clip |-> of(e)] /\ e.size = Size[of(e)]
  OBVIOUS
<1>. HIDE DEF of
<1>2. \A u \in Units(E) : u[1] \in E /\ u[2] \in 1..u[1].size /\ u = <<u[1], u[2]>>
  BY DEF Units
<1>3. ASSUME NEW u \in Units(E)
      PROVE  <<of(u[1]), u[2]>> \in ClipUnits(S)
  <2>1. of(u[1]) \in S /\ u[2] \in 1..Size[of(u[1])]
    BY <1>1, <1>2
  <2>. QED
    BY <2>1 DEF ClipUnits
<1>4. ASSUME NEW u \in Units(E), NEW v \in Units(E),
             <<of(u[1]), u[2]>> = <<of(v[1]), v[2]>>
      PROVE  u = v
  <2>1. of(u[1]) = of(v[1]) /\ u[2] = v[2]
    BY <1>4
  <2>2. u[1] = v[1]
    <3>1. u[1] \in E /\ v[1] \in E
      BY <1>2
    <3>2. u[1].name = v[1].name
      BY <1>1, <2>1, <3>1
    <3>. QED
      BY <3>1, <3>2
  <2>. QED
    BY <1>2, <2>1, <2>2
<1>5. g \in Injection(Units(E), ClipUnits(S))
  <2>1. g \in [Units(E) -> ClipUnits(S)]
    BY <1>3
  <2>2. \A u \in Units(E) : g[u] = <<of(u[1]), u[2]>>
    OBVIOUS
  <2>. QED
    BY <1>4, <2>1, <2>2 DEF Injection, IsInjective
<1>. QED
  BY <1>5, FS_Injection DEF Total

LEMMA BoundedAtRest == Inv /\ SizeInv => SizeBoundedAtRest
<1>. SUFFICES ASSUME Inv, SizeInv, kills = 0, Busy(worker) = {}
              PROVE  Total({Kept(n) : n \in Present}) <= Limit \/ Cardinality(Present) = 1
  BY DEF SizeBoundedAtRest
<1>1. \A w \in Workers : worker[w].pc \in {"idle", "lost", "dead"}
  BY DEF Busy
<1>2. \A w \in Workers : ~Cares(worker[w], dir) /\ ~Owner(worker[w])
  BY <1>1 DEF Cares, WillList, Covers, Owner
<1>3. Small(dir)
  BY <1>2 DEF SizeInv, CoverInv
<1>4. ASSUME NEW n \in Present
      PROVE  \E c \in Shared(dir) : n = [clip |-> c] /\ dir[n].size = Size[c]
  <2>1. n \in Names /\ dir[n].present
    BY <1>4 DEF Present
  <2>2. ASSUME NEW w \in Workers PROVE n # Temp(w)
    BY <1>2, <2>1 DEF SizeInv
  <2>3. PICK c \in Clips : n = [clip |-> c]
    BY <2>1, <2>2 DEF Names, Temporaries, Published, Temp
  <2>. QED
    BY <2>1, <2>3 DEF Shared, Inv, PublishedInv, WholeClip
<1>5. CASE IsFiniteSet(ClipUnits(Shared(dir))) /\ Cardinality(ClipUnits(Shared(dir))) <= Limit
  <2>. DEFINE E == {Kept(n) : n \in Present}
  <2>1. \A e \in E : \E n \in Present : e = Kept(n) /\ e.name = n /\ e.size = dir[n].size
    BY DEF Kept
  <2>. HIDE DEF E
  <2>2. \A e \in E : \E c \in Shared(dir) : e.name = [clip |-> c] /\ e.size = Size[c]
    BY <1>4, <2>1
  <2>3. \A e, f \in E : e.name = f.name => e = f
    BY <2>1
  <2>4. Total(E) <= Cardinality(ClipUnits(Shared(dir)))
    BY <1>5, <2>2, <2>3, FilesCounted
  <2>5. IsFiniteSet(Units(E))
    BY <1>5, <2>2, <2>3, FilesCounted
  <2>6. Total(E) \in Nat /\ Cardinality(ClipUnits(Shared(dir))) \in Nat
    BY <1>5, <2>5, FS_CardinalityType DEF Total
  <2>7. Total(E) <= Limit
    BY <1>5, <2>4, <2>6, MediaAssumption
  <2>. QED
    BY <2>7 DEF E
<1>6. ASSUME NEW c \in Clips, Shared(dir) \subseteq {c}
      PROVE  Total({Kept(n) : n \in Present}) <= Limit \/ Cardinality(Present) = 1
  <2>1. Present \subseteq {[clip |-> c]}
    BY <1>4, <1>6
  <2>2. CASE Present = {}
    <3>1. Units({Kept(n) : n \in Present}) = {}
      BY <2>2 DEF Units
    <3>. QED
      BY <3>1, FS_EmptySet, MediaAssumption DEF Total
  <2>3. CASE Present = {[clip |-> c]}
    BY <2>3, FS_Singleton
  <2>. QED
    BY <2>1, <2>2, <2>3
<1>. QED
  BY <1>3, <1>5, <1>6 DEF Small

\* However many requests overlap, whatever they evict from each other and whichever
\* encodings fail: when nobody is at work any more and nobody was killed, the cache
\* holds no more than its limit, or a single clip.
THEOREM CacheBoundedAtRest == Spec => []SizeBoundedAtRest
<1>1. Init => SizeInv
  <2>. SUFFICES ASSUME Init PROVE SizeInv
    OBVIOUS
  <2>1. \A n \in Names : dir[n] = NoFile /\ dir[n].size = 0 /\ ~dir[n].present
    BY DEF Init, NoFile
  <2>2. kills = 0 /\ \A w \in Workers : worker[w].pc = "idle"
    BY DEF Init, Idle
  <2>3. Small(dir)
    <3>1. Shared(dir) = {}
      BY <2>1, NamesApart, Zenon DEF Shared
    <3>2. ClipUnits({}) = {}
      BY DEF ClipUnits
    <3>. QED
      BY <3>1, <3>2, FS_EmptySet, MediaAssumption DEF Small
  <2>. QED
    BY <2>1, <2>2, <2>3, NamesApart DEF SizeInv, CoverInv, Listing, Unfailed
<1>2. Inv /\ SizeInv /\ [Next]_vars => SizeInv'
  <2>. SUFFICES ASSUME Inv, SizeInv, [Next]_vars PROVE SizeInv'
    OBVIOUS
  <2>1. ASSUME NEW w \in Workers, Step(w), kills' = kills
        PROVE  SizeInv'
    BY <2>1, RequestSized, LookSized, TouchSized, EncodeSized, CheckSized, RenameSized, CleanSized,
       ListSized, StatSized, UnlinkExpiredSized, AllStattedSized, EvictSized, PrunedSized, SendSized,
       Zenon DEF Step
  <2>2. ASSUME NEW w \in Workers, Kill(w)
        PROVE  SizeInv'
    <3>. DEFINE s == [Idle EXCEPT !.pc = "dead"]
    <3>1. State(s) /\ s.pc = "dead" /\ Continue(w, s) /\ dir' = dir /\ kills' = kills + 1
      BY <2>2, IdleState DEF Kill, Idle
    <3>. HIDE DEF s
    <3>2. Listing(s) /\ Unfailed(s)
      BY <3>1 DEF Listing, Unfailed
    <3>3. ASSUME NEW x \in Workers
          PROVE  Listing(worker'[x]) /\ Unfailed(worker'[x])
      <4>. DEFINE t == IF x = w THEN s ELSE worker[x]
      <4>1. (Listing(worker'[x]) <=> Listing(t)) /\ (Unfailed(worker'[x]) <=> Unfailed(t))
        BY <3>1, Continued DEF Inv
      <4>. QED
        BY <3>2, <4>1 DEF SizeInv
    <3>4. (\A x \in Workers : Listing(worker[x]) /\ Unfailed(worker[x]))'
      BY <3>3 DEF Listing, Unfailed, Sized, Units, Total
    <3>5. kills' \in Nat /\ kills' # 0 /\ \A n \in Names : dir'[n].size \in Nat
      BY <3>1 DEF SizeInv
    <3>. QED
      BY <3>4, <3>5 DEF SizeInv, CoverInv, Names, Temporaries, Published
  <2>3. CASE Tick \/ UNCHANGED vars
    <3>1. dir' = dir /\ worker' = worker /\ kills' = kills
      BY <2>3 DEF Tick, vars
    <3>. QED
      BY <3>1 DEF SizeInv, CoverInv, Small, Shared, ClipUnits, Cares, Covers, WillList, Seen,
        Listing, Unfailed, Owner, Sized, Units, Total, Temp, Names, Temporaries, Published
  <2>. QED
    BY <2>1, <2>2, <2>3, EncodeFailsSized, Zenon DEF Next
<1>. QED
  BY <1>1, <1>2, InvHolds, BoundedAtRest, PTL DEF Spec
=============================================================================
