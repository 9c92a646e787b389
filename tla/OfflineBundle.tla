--------------------------- MODULE OfflineBundle ----------------------------
(***************************************************************************)
(* The offline deployment bundle: export_offline_bundle.py builds, tests   *)
(* and saves the application image and writes a directory with manifest    *)
(* and checksums; the directory is carried to a host without network; and  *)
(* verify_offline_bundle.py checks it, loads the image and starts it.      *)
(*                                                                         *)
(* A digest is the content it was taken of.  "contract" stands for the     *)
(* files copied from the checkout of a commit.  The database images are    *)
(* pinned by digest, the same in every export, and left out.               *)
(***************************************************************************)
EXTENDS Naturals, FiniteSets

CONSTANTS
  Exporters,    \* runs of the exporter, on one build host with one image store
  Dirs,         \* output directories
  Shas,         \* commits, which tag the application image
  Powers,       \* the powers of ten
  Rests,        \* bytes in a bundle without the number that says how many
  Nothing, Damaged,
  MaxFaults     \* bounds the damages on the way

Payload == {"contract", "archive", "manifest"}
Names == Payload \cup {"sums"}

\* An image is known by the run that built it; not intact: the model in it differs
\* from the verified bundle, which was changed after it had been verified.
Images == [by : Exporters, intact : BOOLEAN]
Archives == [sha : Shas, image : Images]
Manifests == [sha : Shas, image : Images, archive : Archives, rest : Nat, size : Nat]
Contents == Shas \cup Archives \cup Manifests

ASSUME BundleAssumption ==
  /\ IsFiniteSet(Powers) /\ Powers \subseteq Nat \ {0, 1} /\ Cardinality(Powers) <= 20
  /\ \A p, q \in Powers : p < q => p + 40 <= q
  /\ Rests \subseteq Nat
  /\ MaxFaults \in Nat
  /\ Nothing \notin Shas /\ Damaged \notin Contents \cup [Payload -> Contents]

VARIABLES
  export,     \* the exporters' local variables
  tag,        \* sha -> image, in the build host's store
  output,     \* directory -> its files
  bundle,     \* the directory on the target host: name -> content
  env,        \* MVI_IMAGE_TAG in the environment file
  install,    \* the verifier's local variables
  host,       \* sha -> image, in the target's store
  running,    \* what was started
  faults

vars == <<export, tag, output, bundle, env, install, host, running, faults>>
targetVars == <<bundle, env, install, host, running, faults>>
buildVars == <<export, tag, output>>

NoJob == [step |-> "idle", sha |-> Nothing, dir |-> Nothing, image |-> Nothing,
          archive |-> Nothing, rest |-> 0, size |-> 0, round |-> 0]
NoInstall == [step |-> "idle", manifest |-> Nothing]
NoFiles == [f \in {} |-> Nothing]

Init ==
  /\ export = [e \in Exporters |-> NoJob]
  /\ tag = [s \in Shas |-> Nothing] /\ output = [d \in Dirs |-> NoFiles]
  /\ bundle = NoFiles /\ env = Nothing /\ install = NoInstall
  /\ host = [s \in Shas |-> Nothing] /\ running = Nothing /\ faults = 0

-----------------------------------------------------------------------------
(* export_bundle.                                                          *)

At(e, step) == export[e].step = step
Set(e, job) == export' = [export EXCEPT ![e] = job]
Goto(e, step) == Set(e, [export[e] EXCEPT !.step = step])

\* The output must not exist; the checkout is clean and at the commit.
Begin(e) ==
  /\ At(e, "idle")
  /\ \E s \in Shas, d \in Dirs :
       /\ output[d] = NoFiles
       /\ Set(e, [NoJob EXCEPT !.step = "build", !.sha = s, !.dir = d])
  /\ UNCHANGED <<tag, output, targetVars>>

\* build_bundled_application_image, with the model as it is by then.
Build(e) ==
  /\ At(e, "build")
  /\ \E intact \in BOOLEAN :
       tag' = [tag EXCEPT ![export[e].sha] = [by |-> e, intact |-> intact]]
  /\ Goto(e, "smoke")
  /\ UNCHANGED <<output, targetVars>>

\* verify_embedded_model_image tests whatever the tag stands for; a failure is Fail.
Smoke(e) ==
  /\ At(e, "smoke") /\ tag[export[e].sha].intact
  /\ Goto(e, "inspect")
  /\ UNCHANGED <<tag, output, targetVars>>

Inspect(e) ==
  /\ At(e, "inspect")
  /\ Set(e, [export[e] EXCEPT !.step = "save", !.image = tag[export[e].sha]])
  /\ UNCHANGED <<tag, output, targetVars>>

\* Mutant of RecordedImage: the one that was inspected.
RecordedImageInspected(job, archive) == job.image

\* apply_archived_image_ids.
RecordedImage(job, archive) == archive.image

\* docker save, verify_saved_tar, and the sizes of what is in the directory.
Save(e) ==
  /\ At(e, "save")
  /\ LET archive == [sha |-> export[e].sha, image |-> tag[export[e].sha]]
     IN  \E n \in Rests :
           Set(e, [export[e] EXCEPT !.step = "measure", !.archive = archive,
                                    !.image = RecordedImage(export[e], archive), !.rest = n])
  /\ UNCHANGED <<tag, output, targetVars>>

Digits(n) == 1 + Cardinality({p \in Powers : p <= n})

\* The size of the directory when its manifest says "size".
Observed(rest, size) == rest + Digits(size)

\* Mutant of Rounds.
RoundsFew == 3
Rounds == 5

\* One round of the loop that writes manifest and checksums until the manifest
\* has the size of the directory it is part of.
Measure(e) ==
  /\ At(e, "measure")
  /\ LET job == export[e]
         observed == Observed(job.rest, job.size)
     IN  IF observed = job.size THEN Goto(e, "rename")
         ELSE Set(e, [job EXCEPT !.size = observed, !.round = @ + 1,
                                 !.step = IF job.round + 1 < Rounds THEN "measure" ELSE "unstable"])
  /\ UNCHANGED <<tag, output, targetVars>>

Manifest(job) == [sha |-> job.sha, image |-> job.image, archive |-> job.archive,
                  rest |-> job.rest, size |-> job.size]

\* write_checksums covers every file but its own.
Checksums(files) == [f \in Payload |-> files[f]]

Staging(job) ==
  LET files == [contract |-> job.sha, archive |-> job.archive, manifest |-> Manifest(job)]
  IN  [f \in Names |-> IF f = "sums" THEN Checksums(files) ELSE files[f]]

\* A rename onto a directory with files in it fails.
Rename(e) ==
  /\ At(e, "rename")
  /\ output[export[e].dir] = NoFiles
  /\ output' = [output EXCEPT ![export[e].dir] = Staging(export[e])]
  /\ Goto(e, "done")
  /\ UNCHANGED <<tag, targetVars>>

\* Any command may fail and the process may die: nothing is put at the output.
Fail(e) ==
  /\ export[e].step \notin {"idle", "done", "failed", "unstable"}
  /\ Goto(e, "failed")
  /\ UNCHANGED <<tag, output, targetVars>>

ExportStep(e) ==
  Begin(e) \/ Build(e) \/ Smoke(e) \/ Inspect(e) \/ Save(e) \/ Measure(e) \/ Rename(e) \/ Fail(e)

-----------------------------------------------------------------------------
(* The way to the target.  Nobody changes the directory during an install. *)

Resting == install.step \in {"idle", "started", "rejected"}

Deliver ==
  /\ Resting
  /\ \E d \in Dirs : output[d] # NoFiles /\ bundle' = output[d]
  /\ install' = NoInstall
  /\ UNCHANGED <<buildVars, env, host, running, faults>>

\* A file is damaged, missing, or of another bundle.
Damage ==
  /\ Resting /\ faults < MaxFaults /\ faults' = faults + 1
  /\ \E f \in Names \cap DOMAIN bundle :
       \/ bundle' = [bundle EXCEPT ![f] = Damaged]
       \/ bundle' = [g \in DOMAIN bundle \ {f} |-> bundle[g]]
       \/ \E d \in Dirs : output[d] # NoFiles /\ bundle' = [bundle EXCEPT ![f] = output[d][f]]
  /\ install' = NoInstall
  /\ UNCHANGED <<buildVars, env, host, running>>

\* The operator fills in .env.offline, or has the one of an earlier release: beside
\* the bundle, or inside it, where install-and-start-offline.sh looks for it.
Configure ==
  /\ Resting /\ bundle # NoFiles
  /\ \E s \in Shas : env' = s
  /\ \/ UNCHANGED bundle
     \/ bundle' = [f \in DOMAIN bundle \cup {"env"} |-> IF f = "env" THEN env' ELSE bundle[f]]
  /\ install' = NoInstall
  /\ UNCHANGED <<buildVars, host, running, faults>>

-----------------------------------------------------------------------------
(* verify_offline_bundle.py --start.                                       *)

\* Mutant of ChecksumsHold: the inventory alone.
ChecksumsHoldInventory(files) ==
  /\ "sums" \in DOMAIN files /\ files["sums"] # Damaged
  /\ DOMAIN files \ {"sums"} = DOMAIN files["sums"]

\* verify_checksums: nothing is missing, nothing unexpected, nothing changed.
ChecksumsHold(files) ==
  /\ "sums" \in DOMAIN files /\ files["sums"] # Damaged
  /\ DOMAIN files \ {"sums"} = DOMAIN files["sums"]
  /\ \A f \in DOMAIN files["sums"] : files[f] = files["sums"][f]

\* verify_static_bundle behind the checksums: manifest and archive can be read, have
\* the same tag and image, and the sizes are right.
ManifestHolds(files) ==
  LET manifest == files["manifest"]
      archive == files["archive"]
  IN  /\ manifest # Damaged /\ archive # Damaged
      /\ manifest.archive = archive
      /\ manifest.sha = archive.sha /\ manifest.image = archive.image
      /\ manifest.size = Observed(manifest.rest, manifest.size)

InstallAt(step) == install.step = step
InstallGoto(step) == install' = [install EXCEPT !.step = step]

\* Each check goes on to the next or ends the program.
Check(step, ok, next) ==
  /\ InstallAt(step)
  /\ InstallGoto(IF ok THEN next ELSE "rejected")
  /\ UNCHANGED <<buildVars, bundle, env, host, running, faults>>

Start ==
  /\ InstallAt("idle") /\ bundle # NoFiles /\ env # Nothing
  /\ InstallGoto("checksums")
  /\ UNCHANGED <<buildVars, bundle, env, host, running, faults>>

VerifyChecksums == Check("checksums", ChecksumsHold(bundle), "static")

VerifyStatic ==
  /\ InstallAt("static")
  /\ install' = IF ManifestHolds(bundle) THEN [step |-> "load", manifest |-> bundle["manifest"]]
                ELSE [install EXCEPT !.step = "rejected"]
  /\ UNCHANGED <<buildVars, bundle, env, host, running, faults>>

\* docker load gives the image the tag it was saved with.
Load ==
  /\ InstallAt("load")
  /\ host' = [host EXCEPT ![bundle["archive"].sha] = bundle["archive"].image]
  /\ InstallGoto("images")
  /\ UNCHANGED <<buildVars, bundle, env, running, faults>>

VerifyLocalImages ==
  Check("images", host[install.manifest.sha] = install.manifest.image, "model")

\* The loaded image is tested again.
VerifyEmbeddedModel == Check("model", host[install.manifest.sha].intact, "env")

VerifyEnv == Check("env", env = install.manifest.sha, "up")

\* Compose starts what the tag in the environment stands for.
Up ==
  /\ InstallAt("up")
  /\ running' = [contract |-> bundle["contract"], image |-> host[env]]
  /\ InstallGoto("started")
  /\ UNCHANGED <<buildVars, bundle, env, host, faults>>

\* A command fails or the process is killed; what was loaded stays.
Abort ==
  /\ ~Resting
  /\ install' = NoInstall
  /\ UNCHANGED <<buildVars, bundle, env, host, running, faults>>

InstallStep ==
  \/ Start \/ VerifyChecksums \/ VerifyStatic \/ Load \/ VerifyLocalImages
  \/ VerifyEmbeddedModel \/ VerifyEnv \/ Up \/ Abort

Next == (\E e \in Exporters : ExportStep(e)) \/ Deliver \/ Damage \/ Configure \/ InstallStep

Spec == Init /\ [][Next]_vars

-----------------------------------------------------------------------------
(* Properties.                                                             *)

Exported(d) == output[d] # NoFiles

\* Whatever happened to the directory on its way and whatever the target had loaded
\* before, what is started is the files and the image of one export, and the model in
\* that image is the verified one.
StartedIsExported ==
  running # Nothing =>
    /\ running.image.intact
    /\ \E d \in Dirs : /\ Exported(d) /\ output[d]["contract"] = running.contract
                       /\ output[d]["archive"].image = running.image

\* A directory that is what was exported, nothing added, is rejected for two reasons
\* only: the environment is of another release, or the model in the image is not the
\* verified one.  Other exports that moved the tag meanwhile are none.
IntactAccepted ==
  install.step = "rejected" =>
    \A d \in Dirs : Exported(d) /\ bundle = output[d] =>
      env # output[d]["manifest"].sha \/ ~output[d]["archive"].image.intact

\* The size in the manifest settles before the loop gives up.
SizeSettles == \A e \in Exporters : ~At(e, "unstable")
=============================================================================
