---- MODULE Mt7921Loader ----
(***************************************************************************)
(* Loading the MT7921's firmware: the ROM patch under the patch semaphore,  *)
(* the RAM image, the start of the firmware and its first configuration.    *)
(* Every entry point is a program, a sequence of transport operations, and  *)
(* one action runs the next operation of it.  An operation may fail, or be  *)
(* answered with the wrong completion, before or after the device has acted *)
(* on it.                                                                  *)
(*                                                                         *)
(* External: the device (dev), as far as the loader's commands show it.    *)
(***************************************************************************)
EXTENDS Integers, Sequences, SequencesExt

CONSTANTS
    PatchSections,  \* sections of the patch
    SectionChunks,  \* chunks of every section
    ClcCommands     \* country tables sent to the firmware, at least one

VARIABLES
    entry,   \* the entry point called
    image,   \* the regions of the RAM image
    dev,     \* what the device has taken: semaphore, patch, chunks, configuration
    run      \* the loader: operations still to do, FirmwareLoaderState and outcome

vars == <<entry, image, dev, run>>

Entries == {"load", "through_channel_domain", "initialize", "passive_boundary", "bootstrap",
            "patch_bootstrap"}

Op(name) == [op |-> name, i |-> 0, n |-> 0]
Part(name, i, n) == [op |-> name, i |-> i, n |-> n]

Region(chunks, down, over) == [chunks |-> chunks, downloadable |-> down, override |-> over]

\* A usual image, and one whose only override region is not downloaded.
Images == {<<Region(2, TRUE, FALSE), Region(3, FALSE, FALSE), Region(1, TRUE, TRUE)>>,
           <<Region(1, TRUE, FALSE), Region(1, FALSE, TRUE)>>}

\* loader_scatter: the chunks of one section or region, each waited for.
Scatter(name, i, chunks) == [n \in 1 .. chunks |-> Part(name, i, n)]

PatchOps ==
    FlattenSeq([i \in 1 .. PatchSections |->
        <<Part("patch_start", i, 0)>> \o Scatter("patch_chunk", i, SectionChunks)])

RamOps(img) ==
    FlattenSeq([i \in 1 .. Len(img) |->
        IF img[i].downloadable
        THEN <<Part("target_address", i, 0)>> \o Scatter("ram_chunk", i, img[i].chunks) ELSE <<>>])

HasOverride(img) == \E i \in 1 .. Len(img) : img[i].downloadable /\ img[i].override

ClcOps(pass) == [n \in 1 .. ClcCommands |-> Part("set_clc", pass, n)]

PatchHead == <<Op("poll_download"), Op("sem_get")>>
PatchTail == PatchOps \o <<Op("patch_finish"), Op("sem_release")>>

StartOps(img) ==
    RamOps(img) \o <<Op("check_override"), Op("firmware_start"), Op("poll_n9"), Op("nic_capability")>>

\* run_firmware_prefix to its end.
PrefixRest ==
    <<Op("eeprom_block")>> \o ClcOps(1) \o <<Op("firmware_log"), Op("eeprom_buffer")>>

\* run_firmware_loader after the prefix.
Suffix(domain) ==
    <<Op("protect")>> \o ClcOps(2) \o (IF domain THEN <<Op("channel_domain")>> ELSE <<>>)

AfterPatch(e, img) ==
    CASE e = "patch_bootstrap" -> <<Op("patch_boundary")>>
      [] e = "bootstrap" -> StartOps(img)
      [] e = "initialize" -> StartOps(img) \o PrefixRest
      [] e = "load" -> StartOps(img) \o PrefixRest \o Suffix(FALSE)
      [] e = "through_channel_domain" -> StartOps(img) \o PrefixRest \o Suffix(TRUE)
      [] e = "passive_boundary" -> StartOps(img) \o PrefixRest \o Suffix(TRUE) \o <<Op("passive")>>

Init ==
    /\ entry \in Entries
    /\ image \in Images
    /\ \E patched \in BOOLEAN :
          dev = [sem |-> FALSE, patched |-> patched, took |-> {}, running |-> FALSE]
    /\ run = [todo |-> PatchHead, state |-> "Powering", held |-> FALSE, primary |-> FALSE,
              downloaded |-> TRUE, failed |-> FALSE, lost |-> FALSE, cleaned |-> 0,
              result |-> "none"]

\* What the device does with an operation that reaches it.
Landed(d, o) ==
    CASE o.op = "sem_get" -> IF d.patched THEN d ELSE [d EXCEPT !.sem = TRUE]
      [] o.op = "sem_release" -> [d EXCEPT !.sem = FALSE]
      [] o.op = "patch_finish" -> [d EXCEPT !.patched = TRUE]
      [] o.op = "firmware_start" -> [d EXCEPT !.running = TRUE]
      [] OTHER -> [d EXCEPT !.took = @ \cup {o}]

\* FirmwareLoaderState after an operation has succeeded.
StateAfter(o) ==
    CASE o.op = "sem_release" -> IF run.primary THEN "PatchSemaphoreReleased"
                                 ELSE IF entry = "patch_bootstrap" THEN "PatchComplete"
                                 ELSE "RamDownloading"
      [] o.op = "firmware_start" -> "FirmwareStarted"
      [] o.op = "poll_n9" -> "N9Ready"
      [] o.op = "nic_capability" -> IF entry = "bootstrap" THEN "Ready" ELSE "CapabilityDiscovered"
      [] o.op = "eeprom_block" -> "ClcConfigured"
      [] o.op = "eeprom_buffer" -> IF entry = "initialize" THEN "Ready" ELSE "ClcConfigured"
      [] o = Part("set_clc", 2, ClcCommands) -> IF entry = "load" THEN "Ready" ELSE run.state
      [] o.op \in {"channel_domain", "patch_boundary"} -> "Ready"
      [] OTHER -> run.state

(***************************************************************************)
(* Failure: while the semaphore is held the patch is abandoned and the      *)
(* semaphore released first; the error is kept and returned afterwards.    *)
(***************************************************************************)
Abandoned(r) ==
    IF r.held /\ Head(r.todo).op # "sem_release"
    THEN [r EXCEPT !.todo = <<Op("sem_release")>>, !.primary = TRUE]
    ELSE [r EXCEPT !.todo = <<>>, !.failed = TRUE]

\* The operation fails: it may have landed, and may have been answered with a
\* completion the loader does not expect.  A host-side check never lands.
Fails ==
    /\ run.todo # <<>>
    /\ LET o == Head(run.todo)
       IN  /\ o.op # "check_override"
           /\ dev' \in {dev, Landed(dev, o)}
           /\ run' = [Abandoned(run) EXCEPT !.lost = @ \/ (o.op \in {"sem_get", "sem_release"})]
    /\ UNCHANGED <<entry, image>>

\* poll_download: ready, or the deadline passes and the loader goes on.
PollDownload ==
    /\ run.todo # <<>> /\ Head(run.todo).op = "poll_download"
    /\ \E ready \in BOOLEAN :
          run' = [run EXCEPT !.todo = Tail(@), !.state = IF ready THEN "DownloadReady" ELSE @]
    /\ UNCHANGED <<entry, image, dev>>

\* PatchSemaphoreGet: the patch is there already, or it is ours to download.
SemaphoreGet ==
    /\ run.todo # <<>> /\ Head(run.todo).op = "sem_get"
    /\ dev' = Landed(dev, Op("sem_get"))
    /\ run' = IF dev.patched
              THEN IF entry = "patch_bootstrap"
                   THEN [run EXCEPT !.todo = <<>>, !.state = "PatchComplete", !.downloaded = FALSE,
                                    !.failed = TRUE]
                   ELSE [run EXCEPT !.todo = AfterPatch(entry, image), !.state = "RamDownloading",
                                    !.downloaded = FALSE]
              ELSE [run EXCEPT !.todo = PatchTail, !.state = "PatchSemaphoreHeld", !.held = TRUE]
    /\ UNCHANGED <<entry, image>>

\* PatchSemaphoreRelease succeeded: the error kept for it is returned now.
SemaphoreReleased(r) ==
    [r EXCEPT !.held = FALSE, !.state = StateAfter(Op("sem_release")),
              !.todo = IF r.primary THEN <<>> ELSE AfterPatch(entry, image), !.failed = r.primary]

SemaphoreRelease ==
    /\ run.todo # <<>> /\ Head(run.todo).op = "sem_release"
    /\ dev' = Landed(dev, Op("sem_release"))
    /\ run' = SemaphoreReleased(run)
    /\ UNCHANGED <<entry, image>>

\* No downloaded region carried the start address: MissingFirmwareOverride.
CheckOverride ==
    /\ run.todo # <<>> /\ Head(run.todo).op = "check_override"
    /\ run' = IF HasOverride(image) THEN [run EXCEPT !.todo = Tail(@)] ELSE Abandoned(run)
    /\ UNCHANGED <<entry, image, dev>>

Succeeds ==
    /\ run.todo # <<>>
    /\ LET o == Head(run.todo)
       IN  /\ o.op \notin {"poll_download", "sem_get", "sem_release", "check_override"}
           /\ dev' = Landed(dev, o)
           /\ run' = [run EXCEPT !.todo = Tail(@), !.state = StateAfter(o)]
    /\ UNCHANGED <<entry, image>>

(***************************************************************************)
(* finish_firmware_loader: cleanup always runs, except that a successful    *)
(* initialize_mt7921_firmware leaves the device running.                   *)
(***************************************************************************)
KeepsDevice == entry = "initialize" /\ ~run.failed

Finish ==
    /\ run.todo = <<>> /\ run.result = "none"
    /\ IF KeepsDevice
       THEN run' = [run EXCEPT !.result = "ok"]
       ELSE \E clean \in BOOLEAN :
              run' = [run EXCEPT !.cleaned = @ + 1,
                                 !.result = IF ~clean THEN "cleanup_failed"
                                            ELSE IF run.failed THEN "failed" ELSE "ok"]
    /\ UNCHANGED <<entry, image, dev>>

Next ==
    \/ Fails
    \/ PollDownload
    \/ SemaphoreGet
    \/ SemaphoreRelease
    \/ CheckOverride
    \/ Succeeds
    \/ Finish

Spec == Init /\ [][Next]_vars

(***************************************************************************)
(* Properties.                                                             *)
(***************************************************************************)

\* The states the loader reports to cleanup, and its outcomes.
LoaderTypeOK ==
    /\ run.state \in {"Powering", "DownloadReady", "PatchSemaphoreHeld", "PatchSemaphoreReleased",
                      "PatchComplete", "RamDownloading", "FirmwareStarted", "N9Ready",
                      "CapabilityDiscovered", "ClcConfigured", "Ready"}
    /\ run.result \in {"none", "ok", "failed", "cleanup_failed"}
    /\ run.cleaned \in 0 .. 1

\* The firmware is started only on a patched device whose semaphore is free and
\* that has taken every chunk of every downloadable region, also when the patch
\* failed and only its release succeeded (run_firmware_prefix keeps the error).
StartedComplete ==
    dev.running => /\ dev.patched /\ ~dev.sem
                   /\ \A o \in ToSet(RamOps(image)) : o \in dev.took

\* When the loader is done the device holds the patch semaphore only if the very
\* exchange that takes it or gives it back failed: an error of any operation in
\* between releases it.
SemaphoreGivenBack ==
    run.result # "none" /\ dev.sem => run.lost /\ run.result # "ok"

\* Success means every operation of the entry point took effect, in state Ready,
\* and failure always ends in exactly one cleanup: only a successful
\* initialize_mt7921_firmware leaves the device untouched.
SuccessIsComplete ==
    run.result # "none" =>
        /\ run.result = "ok" => run.state = "Ready" /\ ~run.failed /\ ~run.primary
        /\ run.cleaned = (IF entry = "initialize" /\ run.result = "ok" THEN 0 ELSE 1)
        /\ run.result = "ok" /\ entry # "patch_bootstrap" => dev.running
=============================================================================
