------------------------ MODULE OfflineBundleProofs -------------------------
(***************************************************************************)
(* OfflineBundle's three properties for every number of exports,           *)
(* directories, commits and faults.  First the arithmetic of the size in   *)
(* the manifest; then what the exporters (JobInv, OutputInv), the          *)
(* directory on its way (BundleInv) and the installation (InstallInv)      *)
(* keep; each rests on the ones before it.                                 *)
(***************************************************************************)
EXTENDS OfflineBundle, FiniteSetTheorems, TLAPS

-----------------------------------------------------------------------------
(* The number that says how large the directory is.                        *)

LEMMA PowersApart ==
  /\ \A p \in Powers : p \in Nat /\ p > 0
  /\ \A p, q \in Powers : p < q => p + 40 <= q
BY BundleAssumption

Below(n) == {p \in Powers : p <= n}

LEMMA BelowFinite ==
  ASSUME NEW n \in Nat
  PROVE  /\ IsFiniteSet(Below(n)) /\ Cardinality(Below(n)) \in 0..20
         /\ Digits(n) = 1 + Cardinality(Below(n))
<1>1. Below(n) \in SUBSET Powers /\ IsFiniteSet(Powers) /\ Cardinality(Powers) <= 20
  BY BundleAssumption DEF Below
<1>2. /\ IsFiniteSet(Below(n)) /\ Cardinality(Below(n)) <= Cardinality(Powers)
      /\ Cardinality(Below(n)) \in Nat /\ Cardinality(Powers) \in Nat
  BY <1>1, FS_Subset, FS_CardinalityType
<1>. QED
  BY <1>1, <1>2 DEF Digits, Below

LEMMA DigitsOfZero == Digits(0) = 1
<1>1. Below(0) = {}
  BY PowersApart DEF Below
<1>. QED
  BY <1>1, BelowFinite, FS_EmptySet

LEMMA DigitsMonotone ==
  ASSUME NEW n \in Nat, NEW m \in Nat, n <= m
  PROVE  Digits(n) <= Digits(m)
<1>1. Below(n) \in SUBSET Below(m)
  BY PowersApart DEF Below
<1>2. Cardinality(Below(n)) <= Cardinality(Below(m))
  BY <1>1, BelowFinite, FS_Subset
<1>. QED
  BY <1>2, BelowFinite

\* Powers are so far apart that a short step passes at most one of them.
LEMMA DigitsStep ==
  ASSUME NEW n \in Nat, NEW m \in Nat, n <= m, m <= n + 39
  PROVE  Digits(m) \in {Digits(n), Digits(n) + 1}
<1>1. CASE \A p \in Powers : ~(n < p /\ p <= m)
  <2>1. Below(m) = Below(n)
    BY <1>1, PowersApart DEF Below
  <2>. QED
    BY <2>1, BelowFinite
<1>2. ASSUME NEW p \in Powers, n < p, p <= m
      PROVE  Digits(m) = Digits(n) + 1
  <2>1. \A q \in Powers : n < q /\ q <= m => q = p
    BY <1>2, PowersApart
  <2>2. Below(m) = Below(n) \cup {p} /\ p \notin Below(n)
    BY <1>2, <2>1, PowersApart DEF Below
  <2>3. Cardinality(Below(m)) = Cardinality(Below(n)) + 1
    BY <2>2, BelowFinite, FS_AddElement
  <2>. QED
    BY <2>3, BelowFinite
<1>. QED
  BY <1>1, <1>2

\* What the manifest says in the rounds of the loop.
RoundSize(rest, k) ==
  CASE k = 0 -> 0
    [] k = 1 -> rest + 1
    [] k = 2 -> Observed(rest, rest + 1)
    [] k = 3 -> Observed(rest, Observed(rest, rest + 1))

LEMMA FourthRoundStable ==
  ASSUME NEW rest \in Nat
  PROVE  Observed(rest, RoundSize(rest, 3)) = RoundSize(rest, 3)
<1>. DEFINE a == Digits(rest + 1)
            b == Digits(rest + a)
<1>1. a \in 1..21
  BY BelowFinite
<1>2. b \in {a, a + 1}
  BY <1>1, DigitsStep
<1>3. Digits(rest + b) \in {a, a + 1} /\ (a <= b => b <= Digits(rest + b))
  BY <1>1, <1>2, DigitsStep, DigitsMonotone
<1>4. Digits(rest + b) = b
  <2>1. CASE b = a
    BY <2>1
  <2>2. CASE b = a + 1
    BY <1>1, <1>3, <2>2
  <2>. QED
    BY <1>2, <2>1, <2>2
<1>5. RoundSize(rest, 3) = rest + b
  BY DEF RoundSize, Observed
<1>. QED
  BY <1>4, <1>5 DEF Observed

LEMMA RoundAfterRound ==
  ASSUME NEW rest \in Nat, NEW k \in 0..2
  PROVE  /\ RoundSize(rest, k) \in Nat
         /\ RoundSize(rest, k + 1) = Observed(rest, RoundSize(rest, k))
<1>1. Digits(0) = 1 /\ Digits(rest + 1) \in Nat
  BY DigitsOfZero, BelowFinite
<1>2. CASE k = 0
  BY <1>1, <1>2 DEF RoundSize, Observed
<1>3. CASE k = 1
  BY <1>1, <1>3 DEF RoundSize, Observed
<1>4. CASE k = 2
  BY <1>1, <1>4 DEF RoundSize, Observed
<1>. QED
  BY <1>2, <1>3, <1>4

-----------------------------------------------------------------------------
(* The exporters.                                                          *)

Job == [step : {"idle", "build", "smoke", "inspect", "save", "measure", "rename",
                "done", "failed", "unstable"},
        sha : Shas \cup {Nothing}, dir : Dirs \cup {Nothing}, image : Images \cup {Nothing},
        archive : Archives \cup {Nothing}, rest : Nat, size : Nat, round : Nat]

\* What the archive holds is what the manifest will say it holds.
Saved(job) ==
  /\ job.sha \in Shas /\ job.dir \in Dirs /\ job.archive \in Archives
  /\ job.archive.sha = job.sha /\ job.archive.image = job.image

GoodJob(job) ==
  /\ job.step \in {"build", "smoke", "inspect", "save"} =>
       job.sha \in Shas /\ job.dir \in Dirs /\ job.size = 0 /\ job.round = 0
  /\ job.step \in {"smoke", "inspect", "save"} => tag[job.sha] \in Images
  /\ job.step = "measure" =>
       Saved(job) /\ job.round \in 0..3 /\ job.size = RoundSize(job.rest, job.round)
  /\ job.step = "rename" => Saved(job) /\ job.size = Observed(job.rest, job.size)
  /\ job.step # "unstable"

JobInv ==
  /\ export \in [Exporters -> Job] /\ tag \in [Shas -> Images \cup {Nothing}]
  /\ \A e \in Exporters : GoodJob(export[e])

LEMMA JobInit == Init => JobInv
BY BundleAssumption DEF Init, JobInv, Job, NoJob, GoodJob

\* A round of the loop goes to the next, or finds the size right.
LEMMA MeasureSound ==
  ASSUME JobInv, NEW e \in Exporters, Measure(e)
  PROVE  JobInv'
<1>. DEFINE job == export[e]
            observed == Observed(job.rest, job.size)
<1>1. /\ job \in Job /\ Saved(job) /\ job.step = "measure"
      /\ job.round \in 0..3 /\ job.size = RoundSize(job.rest, job.round)
  BY DEF JobInv, Measure, At, GoodJob
<1>2. job.rest \in Nat
  BY <1>1 DEF Job
<1>3. tag' = tag
  BY DEF Measure
<1>4. CASE observed = job.size
  <2>1. export' = [export EXCEPT ![e] = [job EXCEPT !.step = "rename"]]
    BY <1>4 DEF Measure, Goto, Set
  <2>2. [job EXCEPT !.step = "rename"] \in Job /\ GoodJob([job EXCEPT !.step = "rename"])
    BY <1>1, <1>4 DEF Job, GoodJob, Saved
  <2>. QED
    BY <1>3, <2>1, <2>2 DEF JobInv, GoodJob
<1>5. CASE observed # job.size
  <2>1. job.round \in 0..2
    BY <1>1, <1>2, <1>5, FourthRoundStable
  <2>2. observed = RoundSize(job.rest, job.round + 1) /\ observed \in Nat
    <3>1. RoundSize(job.rest, job.round) \in Nat
      BY <1>2, <2>1, RoundAfterRound
    <3>2. Digits(RoundSize(job.rest, job.round)) \in Nat
      BY <3>1, BelowFinite
    <3>3. RoundSize(job.rest, job.round + 1) = job.rest + Digits(RoundSize(job.rest, job.round))
      BY <1>2, <2>1, RoundAfterRound DEF Observed
    <3>4. observed = job.rest + Digits(RoundSize(job.rest, job.round))
      BY <1>1 DEF Observed
    <3>. QED
      BY <1>2, <3>2, <3>3, <3>4
  <2>. DEFINE next == [job EXCEPT !.size = observed, !.round = @ + 1, !.step = "measure"]
  <2>3. export' = [export EXCEPT ![e] = next]
    <3>1. job.round + 1 < Rounds
      BY <2>1 DEF Rounds
    <3>. QED
      BY <1>5, <3>1 DEF Measure, Set
  <2>. HIDE DEF observed
  <2>4. /\ next.step = "measure" /\ next.round = job.round + 1 /\ next.size = observed
        /\ next.rest = job.rest /\ next.sha = job.sha /\ next.dir = job.dir
        /\ next.archive = job.archive /\ next.image = job.image
    BY <1>1 DEF Job
  <2>5. next \in Job
    <3>1. job.round + 1 \in Nat
      BY <2>1
    <3>. QED
      BY <1>1, <2>2, <3>1 DEF Job
  <2>6. GoodJob(next)
    <3>1. job.round + 1 \in 0..3
      BY <2>1
    <3>. HIDE DEF next, job
    <3>. QED
      BY <1>1, <2>2, <2>4, <3>1 DEF GoodJob, Saved
  <2>. HIDE DEF next
  <2>7. \A f \in Exporters : export'[f] = IF f = e THEN next ELSE export[f]
    BY <2>3 DEF JobInv
  <2>. QED
    BY <1>3, <2>3, <2>5, <2>6, <2>7 DEF JobInv, GoodJob
<1>. QED
  BY <1>4, <1>5

\* Before the loop: a new image under the tag is an image for everybody.
LEMMA PreparationSound ==
  ASSUME JobInv, NEW e \in Exporters, Begin(e) \/ Build(e) \/ Smoke(e) \/ Inspect(e) \/ Save(e)
  PROVE  JobInv'
<1>. DEFINE job == export[e]
<1>1. job \in Job /\ GoodJob(job)
  BY DEF JobInv
<1>2. ASSUME NEW next \in Job, export' = [export EXCEPT ![e] = next], GoodJob(next), tag' = tag
      PROVE  JobInv'
  BY <1>2 DEF JobInv, GoodJob
<1>3. CASE Begin(e)
  <2>1. PICK s \in Shas, d \in Dirs :
          export' = [export EXCEPT ![e] = [NoJob EXCEPT !.step = "build", !.sha = s, !.dir = d]]
    BY <1>3 DEF Begin, Set
  <2>2. [NoJob EXCEPT !.step = "build", !.sha = s, !.dir = d] \in Job
    BY DEF NoJob, Job
  <2>3. GoodJob([NoJob EXCEPT !.step = "build", !.sha = s, !.dir = d])
    BY DEF NoJob, GoodJob
  <2>. QED
    BY <1>2, <1>3, <2>1, <2>2, <2>3 DEF Begin
<1>4. CASE Build(e)
  <2>. DEFINE next == [job EXCEPT !.step = "smoke"]
  <2>1. PICK i \in Images : tag' = [tag EXCEPT ![job.sha] = i]
    BY <1>4 DEF Build, Images
  <2>2. export' = [export EXCEPT ![e] = next] /\ job.sha \in Shas
    BY <1>1, <1>4 DEF Build, Goto, Set, At, GoodJob
  <2>3. tag' \in [Shas -> Images \cup {Nothing}] /\ \A s \in Shas : tag[s] \in Images => tag'[s] \in Images
    BY <2>1, <2>2 DEF JobInv
  <2>4. next \in Job /\ tag'[next.sha] \in Images /\ next.step = "smoke"
        /\ next.sha \in Shas /\ next.dir \in Dirs /\ next.size = 0 /\ next.round = 0
    BY <1>1, <1>4, <2>1, <2>2 DEF JobInv, Job, GoodJob, Build, At
  <2>5. GoodJob(next)'
    BY <2>1, <2>2, <2>4 DEF GoodJob, JobInv
  <2>. QED
    BY <2>2, <2>3, <2>4, <2>5 DEF JobInv, GoodJob
<1>5. CASE Smoke(e)
  <2>1. [job EXCEPT !.step = "inspect"] \in Job /\ GoodJob([job EXCEPT !.step = "inspect"])
    BY <1>1, <1>5 DEF Job, GoodJob, Smoke, At
  <2>. QED
    BY <1>2, <1>5, <2>1 DEF Smoke, Goto, Set
<1>6. CASE Inspect(e)
  <2>1. tag[job.sha] \in Images
    BY <1>1, <1>6 DEF GoodJob, Inspect, At
  <2>. DEFINE next == [job EXCEPT !.step = "save", !.image = tag[job.sha]]
  <2>2. next \in Job /\ GoodJob(next)
    BY <1>1, <1>6, <2>1 DEF Job, GoodJob, Inspect, At
  <2>. QED
    BY <1>2, <1>6, <2>2 DEF Inspect, Set
<1>7. CASE Save(e)
  <2>. DEFINE archive == [sha |-> job.sha, image |-> tag[job.sha]]
  <2>1. /\ job.step = "save" /\ archive \in Archives /\ archive.sha = job.sha /\ archive.image \in Images
        /\ job.sha \in Shas /\ job.dir \in Dirs /\ job.size = 0 /\ job.round = 0
    BY <1>1, <1>7 DEF GoodJob, Save, At, Archives
  <2>2. PICK n \in Rests : export' = [export EXCEPT ![e] =
                             [job EXCEPT !.step = "measure", !.archive = archive,
                                         !.image = archive.image, !.rest = n]]
    BY <1>7 DEF Save, Set, RecordedImage
  <2>3. n \in Nat
    BY BundleAssumption
  <2>. DEFINE next == [job EXCEPT !.step = "measure", !.archive = archive,
                                  !.image = archive.image, !.rest = n]
  <2>. HIDE DEF archive
  <2>4. /\ next.step = "measure" /\ next.archive = archive /\ next.image = archive.image
        /\ next.rest = n /\ next.sha = job.sha /\ next.dir = job.dir
        /\ next.size = 0 /\ next.round = 0
    BY <1>1, <2>1 DEF Job
  <2>5. next \in Job
    BY <1>1, <2>1, <2>3 DEF Job
  <2>6. GoodJob(next)
    <3>. HIDE DEF next
    <3>. QED
      BY <2>1, <2>4 DEF GoodJob, Saved, RoundSize
  <2>. QED
    BY <1>2, <1>7, <2>2, <2>5, <2>6 DEF Save
<1>. QED
  BY <1>3, <1>4, <1>5, <1>6, <1>7

LEMMA JobStep ==
  ASSUME JobInv, [Next]_vars
  PROVE  JobInv'
<1>1. CASE UNCHANGED <<export, tag>>
  BY <1>1 DEF JobInv, GoodJob
<1>2. ASSUME NEW e \in Exporters, Rename(e) \/ Fail(e)
      PROVE  JobInv'
  <2>1. PICK s \in {"done", "failed"} : export' = [export EXCEPT ![e] = [export[e] EXCEPT !.step = s]]
    BY <1>2 DEF Rename, Fail, Goto, Set
  <2>2. [export[e] EXCEPT !.step = s] \in Job /\ GoodJob([export[e] EXCEPT !.step = s])
    BY <2>1 DEF JobInv, Job, GoodJob
  <2>. QED
    BY <1>2, <2>1, <2>2 DEF Rename, Fail, JobInv, GoodJob
<1>3. ASSUME NEW e \in Exporters, ExportStep(e)
      PROVE  JobInv'
  BY <1>2, <1>3, PreparationSound, MeasureSound DEF ExportStep
<1>4. CASE Deliver \/ Damage \/ Configure \/ InstallStep \/ UNCHANGED vars
  BY <1>1, <1>4 DEF Deliver, Damage, Configure, InstallStep, Start, VerifyChecksums, VerifyStatic,
    Load, VerifyLocalImages, VerifyEmbeddedModel, VerifyEnv, Up, Abort, Check, buildVars, vars
<1>. QED
  BY <1>3, <1>4 DEF Next

\* Whatever number of bytes the rest of the bundle has, the loop that writes the size
\* of the directory into the directory ends before its fifth round fails.
THEOREM SizeAlwaysSettles == Spec => []SizeSettles
<1>1. JobInv => SizeSettles
  BY DEF JobInv, GoodJob, SizeSettles, At
<1>. QED
  BY <1>1, JobInit, JobStep, PTL DEF Spec

-----------------------------------------------------------------------------
(* The output directories.                                                 *)

Whole(files) ==
  /\ DOMAIN files = Names /\ files["sums"] = Checksums(files) /\ files["sums"] # Damaged
  /\ ManifestHolds(files) /\ files["archive"].sha \in Shas

OutputInv ==
  /\ DOMAIN output = Dirs
  /\ \A d \in Dirs : Exported(d) => Whole(output[d])

LEMMA StagingWhole ==
  ASSUME NEW job \in Job, Saved(job), job.size = Observed(job.rest, job.size)
  PROVE  Whole(Staging(job))
<1>. DEFINE files == Staging(job)
<1>1. /\ DOMAIN files = Names /\ files["contract"] = job.sha
      /\ files["archive"] = job.archive /\ files["manifest"] = Manifest(job)
  BY DEF Staging, Names, Payload
<1>2. files["sums"] = Checksums(files)
  BY DEF Staging, Checksums, Names, Payload
<1>3. job.archive \in Archives /\ job.archive.image \in Images /\ Manifest(job) \in Manifests
  BY DEF Saved, Archives, Manifests, Manifest, Job
<1>4. Checksums(files) \in [Payload -> Contents]
  BY <1>1, <1>3 DEF Checksums, Payload, Contents, Saved
<1>5. /\ files["archive"] # Damaged /\ files["manifest"] # Damaged /\ files["sums"] # Damaged
  BY <1>1, <1>2, <1>3, <1>4, BundleAssumption DEF Contents
<1>6. ManifestHolds(files)
  BY <1>1, <1>5 DEF ManifestHolds, Manifest, Saved
<1>. QED
  BY <1>1, <1>2, <1>5, <1>6 DEF Whole, Saved

\* What is at an output stays there.
LEMMA OutputStep ==
  ASSUME JobInv, OutputInv, [Next]_vars
  PROVE  /\ OutputInv'
         /\ \A d \in Dirs : Exported(d) => Exported(d)' /\ output'[d] = output[d]
<1>1. CASE output' = output
  BY <1>1 DEF OutputInv, Exported
<1>2. ASSUME NEW e \in Exporters, Rename(e)
      PROVE  /\ OutputInv'
             /\ \A d \in Dirs : Exported(d) => Exported(d)' /\ output'[d] = output[d]
  <2>. DEFINE job == export[e]
  <2>1. job \in Job /\ Saved(job) /\ job.size = Observed(job.rest, job.size)
    BY <1>2 DEF JobInv, GoodJob, Rename, At
  <2>2. Whole(Staging(job)) /\ job.dir \in Dirs
    BY <2>1, StagingWhole DEF Saved
  <2>3. output' = [output EXCEPT ![job.dir] = Staging(job)] /\ ~Exported(job.dir)
    BY <1>2 DEF Rename, Exported
  <2>4. \A d \in Dirs : output'[d] = IF d = job.dir THEN Staging(job) ELSE output[d]
    BY <2>3 DEF OutputInv
  <2>. HIDE DEF job
  <2>. QED
    BY <2>2, <2>3, <2>4 DEF OutputInv, Exported
<1>3. ASSUME NEW e \in Exporters, ExportStep(e), ~Rename(e)
      PROVE  output' = output
  BY <1>3 DEF ExportStep, Begin, Build, Smoke, Inspect, Save, Measure, Fail
<1>4. CASE Deliver \/ Damage \/ Configure \/ InstallStep \/ UNCHANGED vars
  BY <1>1, <1>4 DEF Deliver, Damage, Configure, InstallStep, Start, VerifyChecksums, VerifyStatic,
    Load, VerifyLocalImages, VerifyEmbeddedModel, VerifyEnv, Up, Abort, Check, buildVars, vars
<1>. QED
  BY <1>1, <1>2, <1>3, <1>4 DEF Next

LEMMA OutputInit == Init => OutputInv
BY DEF Init, OutputInv, Exported

-----------------------------------------------------------------------------
(* The target host.                                                        *)

\* Checksums are never made on the way: they are an export's, or damaged.
BundleInv ==
  "sums" \in DOMAIN bundle =>
    \/ bundle["sums"] = Damaged
    \/ \E d \in Dirs : Exported(d) /\ bundle["sums"] = output[d]["sums"]

\* The reasons for which a bundle that is whole may be rejected.
Deficient ==
  ChecksumsHold(bundle) /\ ManifestHolds(bundle) =>
    env # bundle["manifest"].sha \/ ~bundle["archive"].image.intact

InstallInv ==
  /\ DOMAIN install = {"step", "manifest"} /\ DOMAIN host = Shas
  /\ install.step \in {"static", "load", "images", "model", "env", "up"} => ChecksumsHold(bundle)
  /\ install.step \in {"load", "images", "model", "env", "up"} =>
       ManifestHolds(bundle) /\ install.manifest = bundle["manifest"]
  /\ install.step \in {"images", "model", "env", "up"} =>
       host[bundle["archive"].sha] = bundle["archive"].image
  /\ install.step \in {"env", "up"} => bundle["archive"].image.intact
  /\ install.step = "up" => env = install.manifest.sha
  /\ install.step = "rejected" => Deficient

TargetInv == BundleInv /\ InstallInv /\ StartedIsExported

Inv == JobInv /\ OutputInv /\ TargetInv

\* Files that match checksums match those of one export.
LEMMA VerifiedIsExported ==
  ASSUME OutputInv, BundleInv, ChecksumsHold(bundle)
  PROVE  \E d \in Dirs : Exported(d) /\ \A f \in Payload : bundle[f] = output[d][f]
<1>1. PICK d \in Dirs : Exported(d) /\ bundle["sums"] = output[d]["sums"]
  BY DEF BundleInv, ChecksumsHold
<1>2. bundle["sums"] = Checksums(output[d])
  BY <1>1 DEF OutputInv, Whole
<1>3. \A f \in Payload : bundle[f] = output[d][f]
  BY <1>2 DEF ChecksumsHold, Checksums
<1>. QED
  BY <1>1, <1>3

LEMMA WholePasses ==
  ASSUME NEW files, Whole(files)
  PROVE  ChecksumsHold(files) /\ ManifestHolds(files)
BY DEF Whole, ChecksumsHold, Checksums, Names, Payload

LEMMA BundleStep ==
  ASSUME JobInv, OutputInv, BundleInv, [Next]_vars
  PROVE  BundleInv'
<1>1. \A d \in Dirs : Exported(d) => Exported(d)' /\ output'[d] = output[d]
  BY OutputStep
<1>2. CASE bundle' = bundle
  BY <1>1, <1>2 DEF BundleInv
<1>3. CASE Deliver
  BY <1>1, <1>3 DEF Deliver, BundleInv, Exported
<1>4. CASE Damage
  <2>1. PICK f \in Names \cap DOMAIN bundle :
          \/ bundle' = [bundle EXCEPT ![f] = Damaged]
          \/ bundle' = [g \in DOMAIN bundle \ {f} |-> bundle[g]]
          \/ \E d \in Dirs : output[d] # NoFiles /\ bundle' = [bundle EXCEPT ![f] = output[d][f]]
    BY <1>4 DEF Damage
  <2>2. CASE bundle' = [bundle EXCEPT ![f] = Damaged]
    BY <1>1, <2>2 DEF BundleInv
  <2>3. CASE bundle' = [g \in DOMAIN bundle \ {f} |-> bundle[g]]
    BY <1>1, <2>3 DEF BundleInv
  <2>4. ASSUME NEW d \in Dirs, Exported(d), bundle' = [bundle EXCEPT ![f] = output[d][f]]
        PROVE  BundleInv'
    BY <1>1, <2>4 DEF BundleInv
  <2>. QED
    BY <2>1, <2>2, <2>3, <2>4 DEF Exported
<1>5. CASE Configure
  BY <1>1, <1>2, <1>5 DEF Configure, BundleInv
<1>6. CASE (\E e \in Exporters : ExportStep(e)) \/ InstallStep \/ UNCHANGED vars
  BY <1>2, <1>6 DEF ExportStep, Begin, Build, Smoke, Inspect, Save, Measure, Rename, Fail, targetVars,
    InstallStep, Start, VerifyChecksums, VerifyStatic, Load, VerifyLocalImages, VerifyEmbeddedModel,
    VerifyEnv, Up, Abort, Check, vars
<1>. QED
  BY <1>3, <1>4, <1>5, <1>6 DEF Next

\* The steps of the verifier.
LEMMA VerifierSound ==
  ASSUME OutputInv, BundleInv, InstallInv, InstallStep
  PROVE  InstallInv'
<1>1. bundle' = bundle /\ env' = env
  BY DEF InstallStep, Start, VerifyChecksums, VerifyStatic, Load, VerifyLocalImages,
    VerifyEmbeddedModel, VerifyEnv, Up, Abort, Check, buildVars
<1>2. ASSUME NEW step, InstallGoto(step)
      PROVE  /\ DOMAIN install' = {"step", "manifest"} /\ install'.step = step
             /\ install'.manifest = install.manifest
  BY <1>2 DEF InstallGoto, InstallInv
<1>3. CASE Start \/ Abort
  BY <1>1, <1>2, <1>3 DEF Start, Abort, InstallInv, NoInstall
<1>4. CASE VerifyChecksums
  BY <1>1, <1>2, <1>4 DEF VerifyChecksums, Check, InstallAt, InstallInv, Deficient
<1>5. CASE VerifyStatic
  BY <1>1, <1>5 DEF VerifyStatic, InstallAt, InstallInv, Deficient
<1>6. CASE Load
  <2>1. bundle["archive"].sha \in Shas
    BY <1>6, VerifiedIsExported DEF Load, InstallAt, InstallInv, OutputInv, Whole, Payload
  <2>. QED
    BY <1>1, <1>2, <1>6, <2>1 DEF Load, InstallAt, InstallInv
<1>7. CASE VerifyLocalImages
  <2>1. host[install.manifest.sha] = install.manifest.image
    BY <1>7 DEF VerifyLocalImages, Check, InstallAt, InstallInv, ManifestHolds
  <2>. QED
    BY <1>1, <1>2, <1>7, <2>1 DEF VerifyLocalImages, Check, InstallAt, InstallInv
<1>8. CASE VerifyEmbeddedModel
  <2>1. host[install.manifest.sha] = bundle["archive"].image
    BY <1>8 DEF VerifyEmbeddedModel, Check, InstallAt, InstallInv, ManifestHolds
  <2>. QED
    BY <1>1, <1>2, <1>8, <2>1 DEF VerifyEmbeddedModel, Check, InstallAt, InstallInv, Deficient
<1>9. CASE VerifyEnv
  BY <1>1, <1>2, <1>9 DEF VerifyEnv, Check, InstallAt, InstallInv, Deficient
<1>10. CASE Up
  BY <1>1, <1>2, <1>10 DEF Up, InstallAt, InstallInv
<1>. QED
  BY <1>3, <1>4, <1>5, <1>6, <1>7, <1>8, <1>9, <1>10 DEF InstallStep

LEMMA InstallInvStep ==
  ASSUME OutputInv, BundleInv, InstallInv, [Next]_vars
  PROVE  InstallInv'
<1>1. CASE UNCHANGED <<bundle, env, install, host>>
  BY <1>1 DEF InstallInv, Deficient
<1>2. CASE Deliver \/ Damage \/ Configure
  BY <1>2 DEF Deliver, Damage, Configure, NoInstall, InstallInv
<1>3. CASE (\E e \in Exporters : ExportStep(e)) \/ UNCHANGED vars
  BY <1>1, <1>3 DEF ExportStep, Begin, Build, Smoke, Inspect, Save, Measure, Rename, Fail,
    targetVars, vars
<1>. QED
  BY <1>2, <1>3, VerifierSound DEF Next

\* What is started stays an export's, and what Up starts is one.
LEMMA StartedStep ==
  ASSUME JobInv, OutputInv, TargetInv, [Next]_vars
  PROVE  StartedIsExported'
<1>1. \A d \in Dirs : Exported(d) => Exported(d)' /\ output'[d] = output[d]
  BY OutputStep
<1>2. CASE running' = running
  BY <1>1, <1>2 DEF TargetInv, StartedIsExported
<1>3. CASE Up
  <2>1. /\ ChecksumsHold(bundle) /\ ManifestHolds(bundle)
        /\ host[bundle["archive"].sha] = bundle["archive"].image
        /\ bundle["archive"].image.intact /\ env = bundle["manifest"].sha
    BY <1>3 DEF Up, InstallAt, TargetInv, InstallInv
  <2>2. host[env] = bundle["archive"].image
    BY <2>1 DEF ManifestHolds
  <2>3. PICK d \in Dirs : Exported(d) /\ \A f \in Payload : bundle[f] = output[d][f]
    BY <2>1, VerifiedIsExported DEF TargetInv
  <2>4. running'.image = output[d]["archive"].image /\ running'.contract = output[d]["contract"]
        /\ running'.image.intact
    BY <1>3, <2>1, <2>2, <2>3 DEF Up, Payload
  <2>. QED
    BY <1>1, <2>3, <2>4 DEF StartedIsExported
<1>4. CASE ~Up
  <2>1. running' = running
    BY <1>4 DEF Next, ExportStep, Begin, Build, Smoke, Inspect, Save, Measure, Rename, Fail, targetVars,
      Deliver, Damage, Configure, InstallStep, Start, VerifyChecksums, VerifyStatic, Load,
      VerifyLocalImages, VerifyEmbeddedModel, VerifyEnv, Abort, Check, vars
  <2>. QED
    BY <1>2, <2>1
<1>. QED
  BY <1>3, <1>4

LEMMA TargetInit == Init => TargetInv
BY DEF Init, TargetInv, BundleInv, InstallInv, StartedIsExported, NoFiles, NoInstall

LEMMA InvHolds == Spec => []Inv
<1>1. Init => Inv
  BY JobInit, OutputInit, TargetInit DEF Inv
<1>2. Inv /\ [Next]_vars => Inv'
  BY JobStep, OutputStep, BundleStep, InstallInvStep, StartedStep DEF Inv, TargetInv
<1>. QED
  BY <1>1, <1>2, PTL DEF Spec

-----------------------------------------------------------------------------
\* Whatever was damaged, mixed or left from an earlier release, what runs is the files
\* and the image of one export, with the verified model in it.
THEOREM OnlyExportsStarted == Spec => []StartedIsExported
<1>1. Inv => StartedIsExported
  BY DEF Inv, TargetInv
<1>. QED
  BY <1>1, InvHolds, PTL

\* An intact bundle is rejected only for its environment file or its model.
THEOREM IntactBundlesPass == Spec => []IntactAccepted
<1>1. Inv => IntactAccepted
  <2>. SUFFICES ASSUME Inv, install.step = "rejected", NEW d \in Dirs, Exported(d), bundle = output[d]
                PROVE  env # output[d]["manifest"].sha \/ ~output[d]["archive"].image.intact
    BY DEF IntactAccepted
  <2>1. ChecksumsHold(bundle) /\ ManifestHolds(bundle)
    BY WholePasses DEF Inv, OutputInv
  <2>. QED
    BY <2>1 DEF Inv, TargetInv, InstallInv, Deficient
<1>. QED
  BY <1>1, InvHolds, PTL
=============================================================================
