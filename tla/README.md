# Verification of the OTA demonstrator

TLA+ specifications of the over-the-air update agent in `agent/` and of the
scripts that make and publish what it installs, the TLC configurations that
check them on small instances, and TLAPS proofs of what holds for all
instances. Paths in this file and in the modules are relative to the
repository; `file.py:n` is line n of it.

- `tlc -config X.cfg M` runs a check (the table under *Runs* names M and X),
- `tlapm M.tla` checks the proofs of the modules whose name ends in `Proofs`.

## The system

A backend signs an image or a package and puts it on an HTTP server (MinIO); a
script announces it with an MQTT message. The agent on the device (a Raspberry
Pi with two root partitions, A and B) accepts or rejects the announcement,
writes the image to the partition it does not run from, rewrites
`cmdline.txt` so that the firmware boots from that partition, and reboots.

| component | state it keeps | operations | what is hard |
|---|---|---|---|
| State machine, `agent/state_machine.py` | state, active message, target version | `transition` (under a lock), `is_busy` (no lock), listeners after the lock is released | checks and changes by several threads |
| Pipeline, `agent/agent.py` | none of its own; configured version | `_on_update_notify` on the paho thread, `_run_update` on a daemon thread per accepted message, `start`, `shutdown` | check-then-act between two threads, a `finally` clause that moves what another thread left |
| Reporter, `agent/reporter.py` | reported version, heartbeat timer | `publish_status`, `publish_ack`, heartbeat that rearms itself | order of publications, cancel against fire |
| MQTT client, `agent/mqtt_client.py` | connection, subscriptions | connect, reconnect, subscribe, dispatch, publish, disconnect | repeated and reordered deliveries, subscriptions lost with the connection, a shutdown that joins the network thread |
| Installer, `agent/installer.py` | mount point, partitions, `cmdline.txt` | `run`: mount, extract, wipe, untar, mark, unmount; `_switch_boot_partition`; `_reboot` | failures of every command, power loss between any two, a retry after a half-done attempt |
| Merkle strategy, `agent/strategies.py` | the partition, the manifest | `execute`: manifest, signature, root, one request per block | files replaced between two requests, places of the blocks, last block, odd levels |
| Streaming strategy, `agent/strategies.py` | the partition, what was read so far | `execute`: one pass over a CPIO stream | order of the files, files that come again, write before hash, broken streams |
| Manifest builder, `infrastructure/scripts/build-merkle-manifest.py` | - | blocks, padding, root, signature | must agree with the agent |
| Package builder and signer, `infrastructure/scripts/*.sh` | files | split, describe, sign, repack | what survives repacking |
| Downloader, `agent/downloader.py` | a partial file that outlives calls and processes | `download`: resume, retry, checksum; `cleanup` | files of another package, files replaced between two attempts, responses that break |
| Verifier, `agent/verifier.py` | - | `verify` | a second parser of the archive beside the streaming strategy |
| Notification script, `infrastructure/scripts/trigger-update.py` | - | publishes one notification | broker without a subscriber, timeout |
| Simulator, configuration, other scripts and services | files | linear | - |

How they interact: the paho thread calls the pipeline's handler; the handler
starts an update thread; update threads call one strategy, then two methods of
the installer; every transition calls the reporter, which publishes through the
MQTT client. The strategy and the publisher share the two files on the server;
the installer and the firmware share `cmdline.txt`.

What makes each part correct: one update at a time, always free again, no
status or version left behind (pipeline); the running partition untouched, the
switch last and durable (installer); nothing written before the signature,
nothing reported as installed that is not (strategies); both sides compute the
same hashes (manifest); what the scripts make installs (builder and signer); only
the expected package is returned, and no leftover dooms a later call (downloader);
a signal ends the process, and after each reconnection it hears notifications
again (start, shutdown, reporter, MQTT client). `PROJECT.json` lists the hazards line by line.

## Modules

| module | models | state and actions against the code |
|---|---|---|
| `StateMachine` | `agent/state_machine.py` | the states, the table (`CodeEdges`), `IsBusy` |
| `OTAAgent` | `agent/agent.py` and what it uses of the reporter and the installer | `pc[t]` is the step of thread t in `_run_update`, `handler` the step of the paho thread. One action per step between two points where another thread may run: `Receive`, `CheckPackage`, `StartThread`; `BeginDownload`, `Detect`, `Execute`, `BeginInstall`, `SwitchBoot`, `Reboot`, `BeginSuccess`, `AdoptReporter`, `AdoptConfig`; `Fail`, `Finish`, `Clear` for the `except` and `finally` clauses; `Restart` |
| `UpdateService` | abstract | what the agent promises: one update at a time, a version change only to the version under way |
| `AgentSession` | the process around the updates: `start`, `shutdown` and the signal handler in `agent/agent.py`, `agent/mqtt_client.py`, the heartbeat of `agent/reporter.py`, `trigger-update.py` | one part per thread: `main` with `handlers`, the stack of signal handlers that interrupt it; `net`, paho's network thread, which an exception in `OnMessage` ends (`raised`); `timer`, the chain of heartbeat timers; and the broker, the script and other publishers beside them, whose messages are of three kinds (`payload`: an update, one without a field or not JSON, JSON that is no object) |
| `ABInstaller` | `agent/installer.py`, with page cache, disk and firmware | one action per command; `image`, `dirty`, `onDisk` separate what the system sees from what is on the disk; `PowerLoss` at any moment |
| `MerkleTree` | both root computations | `AgentRoot`, `BuilderRoot`, and `ReferenceRoot`, the recursive definition both are compared with |
| `MerkleStrategy` | `MerkleStrategy.execute`, the manifest builder and the file server | `Begin`, `Verify`, `Block`, `Return`; `PublishImage`, `PublishManifest` at any moment. The manifest has leaves, `index` and `size` for the places, root and signature; what arrives may be damaged in each (`FetchedManifests`), and `Block` takes the place of a block from it (`Offset`), as the code does |
| `PackagePipeline` | `build-image-package.sh`, `sign-package.sh` | `Build`, `IsLink` and `Sign`: the files of an archive, which of them are links, and the orders the signed archive may have. An archive is a sequence of files, each with a name and the image it is part of; `Signs` says which signature is good for which description |
| `StreamStrategy` | `StreamToPartitionStrategy.execute`, which reads what `PackagePipeline` makes, and archives of any other shape: files out of order, missing, coming again, of another image | one action per kind of archive entry; a chunk takes two, half written and hashed. `described` is the last description, as `sw_desc_bytes` is; a second one replaces it and leaves `verified` as it was |
| `PackageVerifier` | `agent/verifier.py` | `Extracted`: which description and signature it takes, the pair that is first complete; `Verifies`: whether it accepts them |
| `PackageDownloader` | `agent/downloader.py` | one action per kind of answer to a request, one per chunk received, one for the comparison; `Retry` is `_with_retry`; `Upload`, `Break`, `Crash` at any moment |
| `ImageWriter` | abstract | what the pipeline relies on in `strategy.execute()`; both strategies implement it. Its `proper` is the layout each takes on trust, `Placed` and `Proper` below |
| `MCOTAAgent`, `MCMerkleStrategy`, `MCStreamStrategy`, `MCPackageDownloader` | - | constants of the instances |
| `OTAAgentProofs`, `OTAAgentRestProofs`, `ABInstallerProofs`, `MerkleTreeProofs`, `MerkleStrategyProofs`, `StreamStrategyProofs`, `PackageDownloaderProofs`, `AgentSessionProofs` | - | theorems |

Operators whose name ends in `Mutant` are deliberate mistakes in the definition
that follows them; they show that the properties can fail.

Abstractions. Hashes are injective terms (a block's hash is the 1-tuple of it,
a node's the pair of its children); signatures are good or not; images are
short sequences of words (`MerkleStrategy`), sets of parts (`StreamStrategy`) or
values (`ABInstaller`). Logging, progress percentages and
message texts are left out. `Execute` in `OTAAgent` is the whole strategy: it
returns or raises, and `ImageWriter` says what returning means. `CheckPackage` and
`Clear` in `OTAAgent` each make two assignments of the code in one step, the active
message and the target version; no property depends on the moment between them.
`SetEvent` in `AgentSession` is one step, though the lock inside `threading.Event` is
not reentrant and a second signal inside `set()` would wait for the first for ever.

Ghost variables remember what a property speaks of and the code does not keep; no
guard reads them. `writer` (`OTAAgent`) is the thread that alone wrote the other
partition since it opened it; `orderly` (`ABInstaller`) says that since the boot
packages were only unpacked, none of them after a half-done switch; `late`
(`AgentSession`), that a shutdown stopped the heartbeat before it began or while
a timer had fired; `disturbed` and `found` (`MerkleStrategy`,
`PackageDownloader`), what happened to this call from outside.

## Environment assumptions

- `AvoidWindows` (`OTAAgent`). `is_busy()` says nothing of an update between its
  acceptance and its transition to DOWNLOADING, nor of one in ERROR on its way
  to IDLE. With `AvoidWindows = TRUE` no notification arrives in these two
  windows; with `FALSE` they arrive at any moment. What needs the assumption
  is stated with it, and `agent_busy` shows what happens without it.
- `SparesLogging` (`AgentSession`). The signal handler runs on the main thread, inside
  whatever it was doing, and joins the network thread, whose callbacks write to
  the log. With `SparesLogging = TRUE` no signal arrives in the moment when the
  main thread holds the lock of the log; with `FALSE` `ShutdownEnds` fails: each of
  the two waits for the other.
- `MaxSignals` (`AgentSession`) bounds the signals of one process.
- `Placed` (`MerkleStrategy`): the manifest has each block's `index` and the
  `block_size` as the publisher computes them. Nothing checks it: neither is signed
  or under the root (`strategies.py:375`, `414`). Manifests for which it is false
  are in the model, in every run and in every theorem; it is a premise inside
  `NeverMixed` and `WriterSpec`, of the part of each that says where the blocks are,
  and without it TLC finds a call that returns without the whole image.
- `Proper` (`StreamStrategy`): the archive has a description, and none behind a
  signature. `sign-package.sh` makes no others; `execute()` does not check it.
  Archives for which it is false are in the model, in `stream_archives` and in
  every theorem; it is a premise inside `SignedBeforeWritten`, `VerifierAgrees` and
  `WriterSpec`, of the part of each that relates what is written to what was
  signed, and without it TLC finds each of the three violated.
- `Split` (`StreamStrategyProofs`): no image is small enough to stay in one piece, and the
  parts of each are finitely many, at least one. `package_single` shows what happens
  to the small ones.
- `Aligned` (`MerkleStrategy`): the images are of whole blocks. `merkle_padding` shows
  what happens to one that is not, and `RaggedNeverInstalls` that it happens to
  all (`Ragged`: no image is of whole blocks).
- `Edges` (`OTAAgent`). `CodeEdges` is the table in the code. It lacks two
  transitions the pipeline asks for (first finding), so that everything after
  `INSTALLING` is dead code in it. `RepairedEdges` adds them, to exercise the
  switch, the reboot, the success path and the versions; what `agent_settled`
  shows is about the pipeline with that table, while the theorems hold for
  both tables, but for `AsCodedNothingInstalls`, which is about the coded one.
- `Threads` bounds the update threads alive at once; `Receive` waits for a free
  one. Three is enough for two overlapping updates and one accepted in a window
  of either; the proofs are for any set.

## Runs

| run | module | shows |
|---|---|---|
| `agent_coded` | `MCOTAAgent` | the coded table, notifications at any moment, restarts, three threads: when no thread is left the state is IDLE (`NoStuckState`) and the record of the active update empty (`QuiescentClean`), and under fairness the agent always becomes free (`FreesItself`) |
| `agent_settled` | `MCOTAAgent` | with `AvoidWindows` and the repaired table: one owner of the state machine (`Exclusive`), no accepted update turned away (`NotTurnedAway`), each switch to the image of its own update (`SwitchesOwnImage`), no stale status or version at rest (`QuiescentStatus`, `VersionsAgree`), and the refinement of `UpdateService` without and with fairness (`ServiceSpec`, `ServiceFairSpec`) |
| `agent_written` | `MCOTAAgent` | **violation**: an update whose image was written always fails, for lack of an edge DOWNLOADING to INSTALLING |
| `agent_busy` | `MCOTAAgent` | **violation**: `is_busy()` is false while a thread writes the partition |
| `installer_any` | `ABInstaller` | both ways to install, failures, retries and power losses at any moment: the running partition is never touched (`RunningUntouched`), the switch names only an image that is finished (`CommitAfterImage`); and while `orderly`, what `cmdline.txt` names on the disk is complete (`SwitchDurable`), and only a torn `cmdline.txt` loses the device (`LostOnlyByTornFile`) |
| `installer_retry` | `ABInstaller` | **violation**: with a retry after a half-done switch, the partition that boots next is wiped |
| `merkle_aligned` | `MCMerkleStrategy` | images of whole blocks, two of them too long for the partition, files replaced between any two requests, manifests damaged in a leaf, an index, the block size or the root, and bodies cut short: what is written has the hashes of one published image, at its places if the manifest has them right (`NeverMixed`), nothing is refused without a disturbance (`RefusedMeansDisturbed`), the strategy implements `ImageWriter`; and for every manifest that may arrive both implementations of the root agree with its definition (`RootsAgree`), in which every block counts (`EveryLeafCounts`) |
| `merkle_padding` | `MCMerkleStrategy` | **violation**: the last block of an image of no whole number of blocks is always refused |
| `stream_archives` | `MCStreamStrategy` | archives with their files in any order, missing, coming again or of another image, with bad signatures, and with a second description behind the signature; damage and broken streams, calls after calls: nothing is written before a signature was checked (`SignedBeforeWritten`), a chunk struck off the list stays written (`StruckOffIsWritten`), the packages of the scripts install (`SignedInstalls`), `PackageVerifier` would accept what is written, from the same pair of files (`VerifierAgrees`), and the strategy implements `ImageWriter` |
| `package_single` | `MCStreamStrategy` | **violation**: the package the scripts make of an image that needs no splitting has no image in it, and is refused |
| `downloader` | `MCPackageDownloader` | calls, attempts and processes that go on with what earlier ones left, packages that share a file name, files replaced on the server, answers cut at any word: only the expected package is returned (`ReturnedIsExpected`), a call fails only over a disturbance or a file that was too long when it began (`FailureExplained`), and every call ends (`CallEnds`) |
| `session` | `AgentSession` | a connection that comes and goes, messages of all three kinds, two signals at any moment except while the main thread holds the lock of the log and inside `Event.set`: a handler that joins the network thread has told it to end (`JoinReturns`) and a signal ends the process (`ShutdownEnds`), the heartbeat goes on until then (`HeartbeatGoesOn`) and not after (`StoppedIsQuiet`), a connection in use is subscribed, and what is received is in a callback's hands, and only a request or an exception ends the network thread (`NeverDeaf`), after each reconnection the agent is subscribed again (`SubscribesAgain`), and a notification the broker has taken for it is handled or dropped, unless the connection, the process or the network thread ends (`NotificationAnswered`) |

`CHECK_DEADLOCK FALSE` is used for `ABInstaller`, where a device that does not
boot does nothing more, and for `AgentSession`, where the process ends.

### Bounds

Two versions are enough to tell an up-to-date device from another, and the two
partitions from each other; the three notifications are one for each version
and one for other hardware. Two-word blocks are the least that can be short;
images of one to six blocks share blocks, and give the tree a level of odd
length at the bottom (three blocks), above it (six) and at both (five). Two chunks
are the least that can be out of order and half done; an image with one chunk
makes the other file one to skip. The archives of `stream_archives` are those with
each file at most once, in every order, any of them missing, the signature good or
bad; the complete ones with one more file of any name and image at any place; and
the complete ones whose description comes again behind the signature, of either
image. Two is the least number at which a file replaces another. A damaged index or
block size is 0 or 3 in `merkle_aligned`: a block in another's place, one past the
end, a range the server has nothing for, and one of the wrong length. The packages of the downloader are the shortest
that are each other's beginning, each other's end, or of one length; `MaxRetries` is
three, so that there is a first, a middle and a last attempt. Two signals are
the least of which one interrupts the handler of the other. All other state is
finite by itself.

### Fairness

`FairSpec` of `OTAAgent` gives weak fairness to the paho thread's work on a
message it received and to the steps of each update thread. The code justifies
it: the operating system schedules the threads; requests have `timeout=30` and
images are finite, so `strategy.execute()` ends; the commands run by the
installer end. Deliveries, restarts and progress publications are not fair: the
properties do not depend on their happening. `UpdateService` in turn promises
that no update lasts for ever.

`FairSpec` of `PackageDownloader` is weak fairness of the call itself: requests time
out, bodies are finite, sleeps end. Calls, uploads and crashes need not happen.

`Spec` of `AgentSession` has weak fairness for each thread and for the broker's answer
to a subscription, and strong fairness for the network thread's look at paho's
terminate flag, which it takes in every round of its loop: callbacks and
reconnections alternate with it but cannot keep it from being reached.
Connections need not last nor come again (`Reconnect` has no fairness of its own),
signals and messages need not come.

## Findings

1. `agent.py:212`: the table has no edge DOWNLOADING to INSTALLING (nor
   INSTALLING to SUCCESS), so every update fails after its image was written
   (`agent_written`).
2. `state_machine.py:53`: two notifications handled before the first thread
   reaches DOWNLOADING are both accepted, and the second thread sends the state
   to ERROR and IDLE while the first writes (`agent_busy`).
3. `installer.py:127`: after a switch whose reboot failed, the next update wipes
   the partition that boots next (`installer_retry`).
4. `strategies.py:420`: the agent does not pad the last block as the manifest
   builder does and asks for (`merkle_padding`).
5. `sign-package.sh:83`: an image that needs no splitting is a symbolic link in the
   archive, which `find . -type f` leaves out of the signed package, so that the
   agent refuses it (`package_single`).

Noted while modelling, without a run of their own:

- `installer.py:394`: `cmdline.txt` is rewritten in place, and a power loss between
  its truncation and its new text leaves the firmware without a root
  (`LostOnlyByTornFile` says that nothing else does).
- `agent.py:219`: the streaming path neither syncs nor fsyncs the image before the
  switch (`SwitchDurable` is false without its premise `orderly`); with the coded
  table the switch is not reached there.
- `installer.py:415` announces that the agent reports SUCCESS after the reboot;
  nothing does.
- `strategies.py:307`: an archive without `sw-description` is skipped to its end and
  reported as installed (the premise `Proper`).
- `strategies.py:226`: a second `sw-description` behind a good signature replaces the
  list of chunks while `sw_sig_bytes` stays set, so that the chunks of a description
  nobody signed are written and reported as installed (the premise `Proper`).
- `strategies.py:414`: a manifest damaged in an `index` or in `block_size` passes the
  checks of signature and root, and a call may return with blocks missing or in
  another's place (the premise `Placed`).
- `downloader.py:88`: a file that is as long as the package or longer makes the server
  answer 416; its checksum is then wrong for good, since only a full comparison
  deletes the file, although `downloader.py:146` says "File deleted, will retry from
  scratch".
- `agent.py:127`: a signal in the moment the main thread holds the lock of the log
  may wait for ever (`SparesLogging`).
- `mqtt_client.py:113`: a payload that is JSON but no object raises in the callback,
  which ends paho's network thread for good; `OnMessage` does it, and `NeverDeaf` and
  `NotificationAnswered` name it as an exception. A first `connect()` that fails ends
  the process.
- `trigger-update.py:109` prints "Published" after its timeout too.
- `sign-package.sh:52`: the directory a package is unpacked into is never removed.
- `config.yaml` has `simulation_mode:` without a value, which `config.py:113` makes False.

## Proofs

`OTAAgentProofs`, for any sets of threads, notifications and versions, any table
with the edges `EdgesAssumption` names, in simulation and real mode:

- `TypeCorrect`: `Spec => []TypeOK`, one case per action.
- `NeverStuck`: `Spec => []NoStuckState`. The property is not inductive: it speaks only
  of the moment when the last thread is gone. The strengthening, `StateKept`,
  says that a state other than IDLE always has a keeper: a thread at a step from
  which the transition out of that state is still ahead. Another thread may take
  the state away from its keeper, but is then itself the keeper of the new one;
  this is what makes it inductive for any number of threads.
- `OneUpdateAtATime`: `AvoidWindows /\ Spec => []Exclusive`. The strengthening ties
  the state to the step of the thread that owns the state machine, and says
  that the paho thread starts a thread only in IDLE.
- `ImplementsService`: `AvoidWindows /\ Spec => ServiceSpec`, with the update under way
  mapped to the job of the owner: `BeginDownload` is `Begin`, `AdoptConfig` is
  `Install`, `Finish` is `End`, `Restart` is `Restart`, the rest stutters.

`OTAAgentRestProofs`, on top of these:

- `SwitchIsOwn`: `AvoidWindows /\ Spec => SwitchesOwnImage`. From the moment it opens the
  partition until its switch a thread is its `writer` (`WriterInv`): another thread
  could take that from it only by opening the partition, for which it would have
  to own the state machine too.
- `VersionsKept`: `AvoidWindows /\ Spec => []VersionsAgree`. The two copies differ only
  while a thread is between the two assignments (`RecordInv`).
- `StatusSettles`: `AvoidWindows /\ Spec => []QuiescentStatus`. As long as the last status
  published is not that of an agent at rest, there is a thread that has still to
  publish another one (`StatusInv`).
- `AcceptedBegins`: `AvoidWindows /\ Spec => NotTurnedAway`. While a thread is on its way
  to its first transition, `Exclusive` leaves nobody else to move the state from IDLE.
- `RecordCleared`: `Spec => []QuiescentClean`, inductive with `TypeOK` alone, and for
  notifications at any moment.
- `AsCodedNothingInstalls`: `Edges = CodeEdges /\ Spec => []NothingInstalled /\ SamePartition`.
  With the table of the code no thread ever reaches `INSTALLING`, the switch, the
  reboot or the new version. The invariant (`CodedInv`) is that the state is one of
  IDLE, DOWNLOADING and ERROR; it is the first finding for any number of threads in
  any interleaving, restarts included, where `agent_written` has one trace.

`ABInstallerProofs`, for any versions:

- `TypeCorrect`, `NeverTouchesRunning`: `Spec => []TypeOK`, `Spec => []RunningUntouched`, for
  both ways to install, with retries and power losses. Only both together are
  inductive (`UntouchedHolds`).
- `SwitchIsDurable`, `LostByTornFile`: `Spec => []SwitchDurable`, `Spec => []LostOnlyByTornFile`.
  The strengthening, `orderly => SwitchInv`, says that `cmdline.txt` names the running
  partition until the switch, and that from the release of the mount on the
  other partition is complete, clean and unmounted (`SwitchHolds`).
- `CommitComesLast`: `Spec => CommitAfterImage`. From the version marker, or the last
  byte of a stream, until the end of the attempt the other partition has the
  whole image (`ImageInv`); a boot changes `cmdline.txt` only together with the
  running partition.

`MerkleTreeProofs`, for lists of any blocks and any length:

- `RootOfOneList`: two lists of the same length with the same root are the same. Two
  lists of one length have levels of one length (`Widths`), each level is determined
  by the next (`RoundInjective`), so that equality goes down from the root. The
  hypothesis on the length is needed: `<<a, b, c>>` and `<<a, b, c, c>>` have one root,
  for the last node of an odd level is paired with itself.
- `RootIsReference`: the loops of the agent and of the manifest builder give
  `ReferenceRoot`. The rows of the definition and the levels of the loop are matched one
  by one: each has one node for every span of 2^h leaves that begins in the list.

  Both need what recursive functions compute. The library's induction theorems
  take an operator as a parameter, which the provers do not instantiate; the
  induction is done on the set of the numbers at which the claim fails instead,
  which has a least element if it has any (`Least`, `UpTo`, from `WFMin`), and a
  function with the recursive equations is shown to exist before it is used
  (`LevelsExist`, `TreeExists`).

`MerkleStrategyProofs`, for any images, sizes of blocks and of the device:

- `TypeCorrect`: `Spec => []TypeOK`, with `Types`, which keeps what the manifest in hand may
  be: a published one, or one with a leaf, an index, the block size or the root
  damaged (`ArrivedKinds`).
- `BothComputeTheRoot`, `RootBindsEveryLeaf`: `Spec => []RootsAgree`, `Spec => []EveryLeafCounts`,
  from `RootIsReference` and `RootOfOneList`.
- `NothingMixed`, `ImplementsWriter`: `Spec => []NeverMixed`, `Spec => WriterSpec`. The
  leaves and the root of a manifest that passes both checks are those of a published
  one (`TrustedManifest`; a damaged leaf would change the root, by `RootOfOneList`);
  its indexes and block size may still be wrong. If they are not (`Placed`), the next
  block goes behind the ones before it (`PlacedOffset`), and writing it keeps them
  (`WrittenFacts`).
- `RefusedOnlyDisturbed`: `Aligned /\ Spec => []RefusedMeansDisturbed`. A call that nothing
  disturbed holds the manifest of the file on the server, and a block of that
  file needs no padding (`WholeBlock`).
- `RaggedNeverInstalls`: `Ragged /\ Spec => [](phase = "ok" => disturbed)`. The last block of an
  image that is not of whole blocks is shorter than what its leaf was computed
  from (`LastBlockDiffers`), so an undisturbed call stays in front of it (`RaggedInv`).

`StreamStrategyProofs`, for any images, parts and archives:

- `TypeCorrect`, `StruckOffStays`: `Spec => []TypeOK`, `Spec => []StruckOffIsWritten`. The
  invariant, `StruckOffKept`, speaks also of the moment when another chunk is half
  written. A chunk that comes again is then open itself, and either its hash fails
  and ends the call, or a second description has put it back on the list.
- `WritesAreSigned`, `AgreesWithVerifier`: `Spec => SignedBeforeWritten`, `Spec => []VerifierAgrees`.
  The invariant keeps the evidence (`Evidence`): whenever `verified`, the first signature
  of the archive is good for the last description before it (`FirstPair`), which is
  the pair the verifier takes. No file read later changes that pair; in a proper
  archive none changes the description either.
- `ImplementsWriter`: `Spec => WriterSpec`. That the whole image is there at the return is
  `StruckOffKept` with `left = {}`; a proper archive cannot end without a description
  read, and one that was not verified has chunks missing (`OkIsVerified`).
- `SplitPackagesInstall`: `Split /\ Spec => []SignedInstalls`. With a package of the scripts
  everything that is missing is still ahead in the archive (`Underway`): a list
  without repetition of a finite set has all its members (`ListHasAll`).

`PackageDownloaderProofs`, for any words, packages and number of attempts:

- `TypeCorrect`: `Spec => []TypeOK`.
- `ReturnsExpected`: `Spec => []ReturnedIsExpected`. What went into the hasher is the file
  (`HashedIsLocal`), also when the file was read back before it was resumed.
- `FailuresExplained`: `Spec => []FailureExplained`. In a call that nothing disturbed and
  that found a file shorter than the package, the second attempt starts from
  nothing and ends with the package.
- `CallsAdvance`: `Spec => CallAdvances`, step by step: a step of a call that goes on
  starts a later attempt, opens the body of this one or takes some of what is left
  of it. With the bound on attempts in `TypeOK` it is what makes `CallEnds` true,
  besides fairness; it is stated here, and no run checks it.

`AgentSessionProofs`, for any number of signals:

- `TypeCorrect`, `ShutdownIsQuiet`: `Spec => []TypeOK`, `Spec => []StoppedIsQuiet`. The
  strengthening, `ChainEnded`, speaks of the stack of handlers: once one of them is
  behind `stop_heartbeat_loop`, and that was not late, there is no timer, and
  `start` is past the place where the chain begins.
- `ShutdownIsNotStuck`: `Spec => []JoinReturns`, the safety half of `ShutdownEnds`. `terminate`
  could be taken back by `connect()` or by a `loop_stop()` that finds no thread; while
  a handler joins, `start` is past the one, and there is a thread for the other
  (`JoinInv`). That the thread then gets the lock of the log is not part of it.
- `NothingLeftBehind`: `Spec => []NeverDeaf`, the safety half of `SubscribesAgain` and
  `NotificationAnswered`: no connection is in use without a subscription made or
  asked for on it, no notification is lost while its connection lasts, and the
  thread that reads them ends only when told to or by an exception.

Assumptions of the proofs are the named `ASSUME`s of the modules, which TLC
evaluates in the runs, and `AvoidWindows`, `Split`, `Aligned`, `Ragged` or
`Edges = CodeEdges` where stated. `Placed` and `Proper` are no assumptions of theirs: they are premises
inside the properties.

Only model-checked: `FreesItself`, `ServiceFairSpec`, `CallEnds`, `ShutdownEnds`,
`SubscribesAgain`, `NotificationAnswered` and `HeartbeatGoesOn`, for liveness under fairness is
outside what the prover does. Every other property of a passing run is a theorem.
The five violations are traces of TLC's.

## Not modelled, and why

The simulator is not called by the agent as it is, prints and sleeps, and writes
one file. Configuration is read once before anything runs, and appears as
constants and as the initial version. Of the verifier the metadata it returns
is left out, of the reporter the detection of the active partition for the
payload. Key generation and the benchmark are linear scripts around `openssl` and
`curl`. The containers under `infrastructure/infrastructure/docker` are third-party
services. Health checks, a watchdog and rollback appear in the documents only.

The downloader and the verifier are modelled although nothing calls them yet: the
strategies stream, `agent.py` takes the verifier's public key only, and
`AgentConfig` lacks the four fields `downloader.py` reads. So is `RealInstaller.run`, which
nothing in the repository calls: of the installer `agent.py` uses
`_switch_boot_partition` and `_reboot`. What `ABInstaller` shows of `Install` is about the
class as it is written, and of `Stream` about the path the agent takes.

## Plan

What is left to prove: a composition of `OTAAgent` and `ABInstaller`, in which `SwitchBoot`
and `Reboot` are the installer's actions (`writer` stands for the partition until
then), and an abstract device with two partitions, of which one is always
complete, that `ABInstaller` implements while `orderly`; and that the manifest of an
image determines it up to the zeros at its end, so that `NeverMixed` names one image.
