# A verification of image-builder

TLA+ models of the parts of `osbuild/image-builder` that carry state, their
model-checking runs, and proofs of the theorems that matter most. Paths below
are relative to the repository (`src/`). `PROJECT.json` maps every definition
to the lines it stands for.

The repository turns an image type and a blueprint into an osbuild manifest
(packages, containers and commits resolved, the disk laid out), runs osbuild on
it and may upload the result. Most of its lines are data: tables of image
types and option structs of osbuild stages. What can go wrong in a way a test
would hardly show is in a few places: goroutines that exchange results over
bounded channels, the arithmetic and the many steps that make a partition
table, child processes with pipes, caches, and sequences of calls to clouds that
may fail half way.

## Inventory

| Component (code) | State | Operations | Hard because | Correct when |
|---|---|---|---|---|
| worker queue, `cmd/gen-manifests/workerqueue.go` | three bounded channels, two wait groups, `errors` | submit, wait, the worker loop, printer, collector | N workers send on channels that main closes | every job runs once, no error is lost, nothing is sent on a closed channel, `wait` returns |
| checksums, `cmd/gen-manifests/checksums.go` and the end of `main.go` | files of a directory, names recorded | record, delete stale | failed and killed runs leave files behind | exit 0 means exactly the directory this configuration makes |
| container resolver, `pkg/container/resolver.go` | `jobs`, `queue`, or `results` | Add, Finish, Resolve, ResolveAll | one goroutine per Add, a queue of two, results in any order | Finish accounts for what was added, and only that; it returns |
| disk layout, `pkg/disk` | a tree of partitions, containers, volumes, file systems | NewPartitionTable, NewCustomPartitionTable, relayout | sizes are aligned, propagated upwards and grown at several levels; steps run in an order that depends on the mode | no overlap, payloads fit, what is asked for is there, `/boot` can be read |
| remote file resolver, `pkg/remotefile/resolver.go` | channel, wait group | Add, Finish | Add's goroutines wait for Finish | as the container resolver |
| progress bars, `pkg/progress/progress.go` | fields of the bar, `shutdownCh` | Start, renderLoop, Set..., Stop | Stop and renderLoop shake hands over one channel, with a timeout; a signal handler calls Stop too | nothing is drawn after Stop, Stop returns |
| running osbuild, `pkg/progress/command.go` | a child, a monitor pipe, its output | start, read statuses, wait | order of closing, reading and waiting | every status is forwarded, the child is not forgotten, the call returns |
| osbuild's monitor, `pkg/osbuild/monitor.go` | maps of contexts and stages | Status, Result | lines refer to earlier ones | progress belongs to the stage it is about |
| dnf cache, `pkg/depsolvednf` | directory, sizes, recency, lock | Depsolve, shrink, updateInfo | several solvers share one directory | shrinks below its limit and never under a depsolve |
| image types, `pkg/distro/generic`, `pkg/distro/defs`, `pkg/distro/validator.go` | loaded definitions, shared by all calls | checkOptions, ValidateConfig, the image functions | layers of configuration merged in the order of a map; pointers into what is shared; warnings where errors were meant | an image is a function of the request, and what was asked for and is supported is in it |
| images and pipelines, `pkg/image`, `pkg/manifest` | objects that keep what was resolved for them | InstantiateManifest, getPackageSetChain, serializeStart, serialize, serializeEnd | eighteen kinds of image, thirty of pipelines, each choosing order, build root and tools for itself | references go backwards, tools and content are there, kernels are those resolved, trees are made in order |
| manifest assembly, `pkg/manifest/manifest.go`, `pkg/manifestgen` | list of pipelines, contents, inputs merged | addPipeline, contents, Serialize | content is resolved between two passes and moves meanwhile; a failure leaves objects started | sources hold what stages use; leftovers never become a manifest |
| clouds, `pkg/cloud`, `cmd/boot-*` | resources created so far | upload, register, boot, delete | any call may fail | what a failed sequence created is deleted |
| koji, `pkg/upload/koji` | session, chunks | upload, CGImport | retries | uploaded bytes are the file's; an import is not repeated |
| check-host-config, `cmd/check-host-config` | checks and their results | wait, run | waits for a host that is starting | a failed check is reported |
| osbuild stages and sources, `pkg/osbuild` | none that changes | constructors, generators, GenSources | options validated here or only when encoded | an invalid option fails before osbuild runs |
| registries, bootc, ostree, flatpak | none that changes | lookups, conversions | breadth | the manifest is what was meant |

Interactions: `cmd/image-builder` (or `gen-manifests`, once per job of the worker
queue) asks a distribution's image type for a manifest; the image type makes a
partition table (`pkg/disk`) from its base table or from the blueprint; the
manifest's content is resolved by `pkg/depsolvednf`, `pkg/container`, `pkg/ostree`;
`pkg/progress` runs osbuild on the result and shows what `pkg/osbuild`'s
monitor reads; `pkg/cloud` uploads.

## Modules

| Module | Models | Extends / instantiates |
|---|---|---|
| `JobPool` | abstract: jobs run once, at most so many at a time, the failed ones are returned | |
| `WorkerQueue` | `workerqueue.go`: every channel, goroutine and close | implements `JobPool` |
| `GenManifests` | the checksum files the jobs write, deletion of stale ones, kills and reruns | `WorkerQueue` |
| `GenManifestsProofs` | theorems about `WorkerQueue` and `GenManifests` | `GenManifests`, TLAPS |
| `Resolver` | abstract: what `container.Resolver` promises | |
| `AsyncResolver` | `asyncResolver` | implements `Resolver` |
| `BlockingResolver` | `blockingResolver` | implements `Resolver` for one batch |
| `FileResolver` | `pkg/remotefile`'s resolver: goroutines, wait group, unbuffered channel | implements `Resolver` |
| `Resolvers` | one of the three, checked against the one promise | `AsyncResolver`; instantiates the others |
| `ResolversProofs` | theorems about the three resolvers | `Resolvers`, TLAPS |
| `Relayout` | `PartitionTable.relayout` and the size arithmetic it calls | |
| `RelayoutProofs` | theorems about `Relayout` | `Relayout`, TLAPS |
| `DiskTree` | the entity tree above it: `resizeEntityBranch`, `EnsureDirectorySizes` | `Relayout` |
| `DiskLayout` | `NewPartitionTable`: base table plus customization, LVM and btrfs conversion | `DiskTree`; implements `Relayout` |
| `CustomDisk` | `NewCustomPartitionTable`: a table from a blueprint | `DiskTree` |
| `DiskTreeProofs` | lemmas about the entity tree | `DiskTree`, `RelayoutProofs` |
| `DiskLayoutProofs` | theorems about `DiskLayout` | `DiskLayout`, `DiskTreeProofs` |
| `CustomDiskProofs` | theorems about `CustomDisk` | `CustomDisk`, `DiskTreeProofs` |
| `TerminalProgress` | `terminalProgressBar`: Start, renderLoop and Stop, with several callers | |
| `OSBuildRun` | `runOSBuildWithProgress`: the child, its two pipes, the copying goroutine | |
| `BuildImage` | `cmdBuild` from its first bar on: build, upload, the goroutine for signals | `TerminalProgress`, `OSBuildRun` |
| `BuildImageProofs` | theorems about `BuildImage` | `BuildImage`, TLAPS |
| `StageTypes` | the constructors of osbuild's stages: what a stage reads, and when its options are validated | |
| `OSBuildStages` | the generators that combine stages, inputs and the content of sources | `StageTypes` |
| `OSPipeline` | the pipeline of an operating system tree | `OSBuildStages` |
| `ImagePipelines` | build roots, raw images, converters, archives, PXE trees | `OSPipeline` |
| `OSTreePipelines` | commits, servers, deployments, bootc | `ImagePipelines` |
| `InstallerPipelines` | Anaconda and CoreOS installers, boot loaders, ISOs | `OSTreePipelines` |
| `Images` | `InstantiateManifest` of each kind of image | `InstallerPipelines` |
| `Serialization` | the methods of `Pipeline`, by kind, and the memory of its objects | `Images` |
| `Blueprints` | requests, `ValidateConfig`, `checkOptions` | `Images` |
| `ImageTypes` | definitions and their conditions, customizations, the thirteen image functions | `Blueprints` |
| `BootcImageTypes` | the five image functions for bootable containers | `ImageTypes` |
| `Manifest` | `Generate`, from the request to the sources | `Serialization`, `BootcImageTypes` |
| `ManifestProofs` | theorems about `Manifest` | `Manifest`, TLAPS |
| `MC*` | values for the constants | |

### The worker queue

`main` is the program counter of the main goroutine: `submitJob` while
`"submit"`, then the statements of `wait` one by one, because the order of its
two waits and three closes is what makes the queue correct. `worker[w]` is where
worker `w` is in the loop of `startWorker` and in the job it runs: the job sends
"Starting" and, deferred, "Finished" on `msgQueue`, and the loop sends the job's
error on `errQueue`. A send is disabled while the buffer is full; a send on a
closed channel would panic and is disabled too, so that `NoSendAfterClose` (no
worker is left that could be about to send) is the property that excludes it, and
a disabled one would stop `Termination`. `activeWorkers`, which only feeds one line of
output, is left out.

`GenManifests` adds what the jobs do: each writes one file and records its name.
`Killed` ends the process at any point, with any file that was being written torn;
`RunAgain` starts it over on the directory as it is. `AfterWait` and `VisitEntry` are
the tail of `main` and `deleteStaleChecksums`, one `os.Remove` per step, each of
which may fail.

### The container resolvers

`request[r]` follows one source from Add to the Finish that returns it.
`StartResolving` is Add when the reference parses, `RefuseReference` when it does
not: then Add itself sends the error on `r.queue`, `SendFromAdd`, which blocks its
caller when the queue is full. `ResolveAll` and `Resolve` are Add and Finish in
the same goroutine, whose result is judged by `len(specs) != 1`. (In
`BlockingResolver` they have no state of their own, and are left out.) The client
calls Add several times and then Finish, as `bib_legacy.go` and `gen-manifests` do.

### Disk layout

Sizes are in units of 128 bytes, the size of a GPT entry: every constant of the
code is a multiple of it. `Relayout` is a loop over the partitions (`SkipRoot`,
`Place`), the root partition (`PlaceRoot`), and the sort. A partition is a record:
its payload is summarised as `kind`, `luks` and `content` (the sum of the sizes of
its volumes), which is all that `minSize` and `FitTo` look at. `DiskTree` adds
`fs`, what is mounted where, and keeps `content` in step with it.
`Resize` is one call of `resizeEntityBranch` with its early ends. Map iteration in
`EnsureDirectorySizes` is a choice of `\E m \in dirs`. `DiskLayout` and
`CustomDisk` are the two callers, one action per pass.

uint64 arithmetic: sizes are naturals, and no bound is put on them; that no
subtraction in relayout underflows is part of what `RelayoutProofs!TypeCorrect`
says (a `Nat` minus a larger one is not a `Nat`). Overflow beyond 2^64 bytes is not
modelled.

### Building an image

`TerminalProgress` has one field per bar, `shutdownCh`, which `Start` sets, `Stop`
sends on and clears, and `renderLoop` receives from and closes. `stop[c]` is where
caller `c` is in `Stop`: between the check for nil and the send (`"send"`), in the
send (`"blocked"`), in the select that waits for the answer or for a second
(`"ack"`), or in a send on the nil channel, which never ends (`"hung"`). The field is
read anew at each of these, as in the code. `AckTimeout` may happen whenever no
answer is there; `late` and `contended` remember that a Stop timed out on a bar or met another one,
because what the code promises holds only without either. `stray` is a
`renderLoop` that a timed out Stop left behind and a second `Start` replaced.

`OSBuildRun` is the call, the child and the copier of its output. Both pipes have a
bounded capacity, so that a child blocks when nobody reads; the status pipe ends
when nobody has its write end. `plan` is what osbuild will write, chosen at the
start; `Crash` ends it early.

`BuildImage` composes the two: `main` is the statement of `cmdBuild`, with three
calls of `Stop` (`StopBar`, `StopEnds`) and the deferred one, which is bound to the
first bar. `Signal` and `SignalStops` are the goroutine, which reads the shared
variable `pbar`. Manifest generation and the transfer of the upload are steps that succeed or fail.

### Making a manifest

`Manifest` is `Generator.Generate`, statement by statement. `calls` are the requests
that are left: calls before the last one only make their image, because what
comes after it writes nothing that is shared. `checkOptions` refuses or warns,
`MakeImage` is the image function of the type, `addPipeline` the constructors in
`InstantiateManifest`; then come the package sets, the four resolutions, and
`Serialize` with its three loops. `world` is the version of everything outside:
`Publish` moves it between two resolutions. `mem` is what each pipeline's object
remembers, which `serializeStart` fills and `serializeEnd` empties, as far as each kind
does. `GenerateAgain` serializes the same objects a second time.

Two errors of the constructors are left out, of values the rest of the model does not
have: a file system without a type in a custom partition table
(`partition_table.go:1417`) and boot files copied to a disk without a root
(`raw.go:147`).

A request is the set of the blueprint's paths that are set, the image options that
are set, and the inputs that a validating function refuses; values are not
modelled. An image type has the flags and lists of its definition. A setting of
an image is the set of *places* its value comes from: this blueprint, these
options, the code, a named layer of the definitions, or an earlier call
(`ImageTypes`, header). That is enough to see a part of a blueprint that gets lost
(`NothingDropped`), a condition that wins by the luck of a map's order and a value
that leaks from one call into the next (`OwnSettings`). `written` is what calls have
written through pointers that the definitions or the blueprint keep.

An image, for the pipelines, is a kind, a format, a compression and the set of its
options; the image made of a request has the settings that are not empty. A
stage is its type, the trees it reads, the content it uses, the kernel it names and
when its options are validated. Package sets are reduced to the packages that some
stage needs as a tool.

## Runs

| Run | Question | Bounds, and why they are enough |
|---|---|---|
| `worker_queue` | does the queue keep its promises, and end? | 3 jobs, 2 workers: both buffers (2) fill up, a worker loops, one stays behind |
| `gen_manifests` | is the directory exact after exit 0, whatever happened before? | 2 jobs, 2 workers, 1 stale file, 2 runs: a failed or killed run followed by another, every start content |
| `resolvers` | do the three resolvers account for what was added, and does Finish return? | 4 sources, one of them refused, a queue of 2 as in the code, batches of 3, so that senders block; a reference is refused only while fewer than `MaxRefused` = 2 requests are pending: with more, Add hangs, which the next run shows; one batch for the blocking resolver (`MaxFinishes` = 1), see below |
| `async_resolver_hang` | is a refused reference always reported? (violated) | the same without that bound |
| `relayout` | relayout on GPT with padding and an absolute start offset | up to 3 partitions of all kinds, root first or in the middle, empty, unaligned and outgrown payloads |
| `disk_layout` | NewPartitionTable | DOS (4 partitions, so the limit is met); 8 base tables (one with `/boot` in the root's btrfs, as Fedora's `data/distrodefs/fedora/imagetypes.yaml:847` has) × 6 customizations × 4 modes × 2 policies × 3 sets of directories |
| `custom_disk` | NewCustomPartitionTable | 13 blueprints × 7 boot modes × policy × default type × directories |
| `custom_disk_boot` | is `/boot` added only when it is missing? (violated) | the same |
| `build_image` | are the bar, the child and its output left in order, whatever the interleaving, and does the build end? | 2 bars and 2 callers, as in `cmdBuild`; a signal or none; pipes of 1 line and up to 2 lines on each, so that each pipe fills up and empties, and the child blocks on one while the other is read |
| `build_interrupted` | does every Stop return, as its timeout is there for? (violated) | the same |
| `manifest` | is the manifest of every kind of image consistent, and the image what was asked for? | some 900 images: for each kind its options one by one, all, all but one, pairs for the tree, and those that fail; some 500 requests to image types of `data/distrodefs` with the options they list as supported, one type for each image function, four versions and four architectures where the conditions tell them apart, and two calls in a row; `MaxWorld` = 2, so that any two resolutions can differ; `MaxSerialize` = 2, a first serialization and a repeated one |
| `manifest_indexes` | does every index a stage refers to have a source? (violated) | the same |

The properties of `manifest`:

- `ReferencesResolve`: build roots and trees named are those of earlier pipelines.
- `SourcesComplete`: content that stages use is in the sources, in the version that was
  resolved. Four gaps of the code are named next to it.
- `ToolsInBuildRoot`: a stage finds its program in its build root, although the package
  was asked for by another method, under other conditions.
- `KernelFresh`: kernels named anywhere are those of this serialization's depsolve;
  the second serialization of an installer is the exception.
- `AbortedIsFinal`: a manifest that failed between start and end is never finished later.
- `PanicsKnown`: every panic is one of a short list; those of `serializeEnd` are not
  reached. An image function panics only on a request whose blueprint was warned of as
  unsupported or incomplete, or on one of three inputs that nothing checks before
  (`Unchecked`: an OpenSCAP tailoring that is invalid, CA certificates that do not
  parse, a firewall zone without a name). Behind it, a bootable container's disk panics
  on a first boot with neither a URL nor `Empty`.
- `BootImagesMade`: the boot images an ISO names are made in its tree.
- `TreeOrder`: packages first, labels last, units before they are enabled.
- `NothingDropped`: a part of the blueprint that the type lists as supported reaches the
  image. `Unread` has the exceptions, all real: edge disks list services, certificates,
  first boot scripts and dnf and do not read them; `bootc-generic-iso` lists five
  sections and is not even given the blueprint; sshd is customized only where it is
  configured; the kernel's name only where none is set; the URL of Ignition is read
  only where the platform is `metal`, which the simplified installers of RHEL 8, 9.0 and
  9.1, that list it, are not configured for. The runs have that installer and the edge
  disk in versions 9.1 and 9.2, and a disk for `qemu`.
- `OwnSettings`: a second call for the same image type, or the same call with the
  conditions in another order, gives the same settings, except sshd, dnf and the
  size, which are written through shared pointers.

What they show, per hazard, is in `PROJECT.json`. Every property has a mutant, a
plausible bug of the code written next to the definition it would change, for
which the run finds the property violated.

Fairness. `worker_queue`, `resolvers` and `build_image` have liveness
properties. Weak fairness of each goroutine is what the Go scheduler gives: a
goroutine that can run does. It covers `Run` and `ResolveReference` because
manifest jobs and resolutions end (network calls have timeouts: 60 s in `Add`). No
strong fairness is assumed: a blocked send stays enabled once there is room, unless
another sender takes it, and with finitely many senders that ends. The client of
the resolver is fair too: its loop goes on to Finish. In `build_image` the child is
fair: it goes on to write what it has to write and ends after that, or when it was
interrupted; crashes and signals are never assumed to come. Disk layout,
checksums and manifests have no liveness properties: they are sequential, and a
step that cannot be taken would be a deadlock or an error.

Deadlock is checked except where the program may really stop:
`async_resolver_hang`, where a blocked Add is what is shown; `build_image` and
`build_interrupted`, where a Stop may hang for good; `manifest` and `manifest_indexes`,
where Generate has returned, failed or panicked. Other terminal states are explicit actions
(`Returned`, `Exited`, `Done`, `Ended`).

## Proofs

Every theorem holds for all values of the constants that meet the assumptions
named. An invariant that a run checks is rarely inductive; what was added to make it
so is said next to it, because it is what the code relies on.

`GenManifestsProofs`, for any number of jobs, any finite set of workers, any number of
runs and any files in the directory. First the queue, whose inductive invariant
`IInv` is built in layers:

- `TypeCorrect`: `TypeOK`.
- `SafeClose`: `NoSendAfterClose`. It follows from an invariant that ties `main`'s
  position to the workers': past `"waitWorkers"` all have left, and a worker that
  left cannot return.
- `ErrorDelivery`: `ErrorsOnce`. The strengthening says that the jobs held by
  workers are distinct and received, and that failed jobs are received; without
  it a worker could report a job another one reported.
- `PrintedInOrder`: `StartBeforeFinish`, by an invariant on the whole message log
  (printed and queued): who has sent what, by its position in the loop.
- `Complete`: `ReturnsEverything`, which needs the two logs at the moment both
  channels are closed and drained.
- `Implements`: the queue implements the safety part of `JobPool`. A worker that
  takes a job is the pool's `Start` step, so fewer jobs than workers must be held at
  that moment (`IdleWorker`, by counting); a job that ends is `Finish`, the end of wait is `Return`, the rest are stutters. The
  pool's fairness is left to the run. It needs a worker (`Workers # {}`): with none, main
  waits for nobody and drops all jobs.

Then the command around it. `GenInv` adds `Recorded` (the names recorded are those of
jobs that ended well, and their files are whole) and `Sweeping` (from the first
deletion on, the queue has returned no error, and a file nobody recorded is gone or
still to be visited):

- `Exact`: `ExitZeroMeansExact`, also after runs that failed or were killed half
  way through a file.
- `Careful`: `OnlyStaleRemoved`, an action property.

Assumed: `WorkerQueueAssumption` (the number of jobs is a natural number, the
set of workers finite) and `GenManifestsAssumption`.

`ResolversProofs`, for any requests, any of them refused, and any capacity of the queue:

- `Promise`: `PromiseKept`, one batch of each resolver (`MaxFinishes` at most 1), against
  `Resolver`'s safety part.
- `ConcurrentPromise`: the same for the two resolvers with goroutines and any number of
  batches. The bound in `Promise` is for the blocking one only, whose results outlive Finish.
- `Answered`: `AnswersTheQuestion`, with any number of batches. `AsyncInv` counts: `jobs` is
  the number of requests in flight (`Counted`), each is in the queue at most once
  (`QueueOnce`), and what a ResolveAll has collected is of its own question (`Question`).

Assumed: `AsyncResolverAssumption` (a finite set of requests, a capacity).

`RelayoutProofs`, for any table, sizes, alignment, header type, padding and offset:

- `TypeCorrect`: no size or offset is negative, in particular the root
  partition's size when it is grown to the rest of the disk.
- `Disjoint`: `NoOverlap`. The inductive invariant says that partitions placed so
  far lie between the first start and `start`, apart from each other; the
  root's place is `start`; sorting permutes.
- `Roomy`: `PayloadsFit`, from the same invariant: `FitTo` made each large enough,
  alignment and growth only add.
- `RootBecomesLast`: `RootLast`. When the sort begins, the root starts behind all
  others (`RootBehind`).

Assumed: `RelayoutAssumption` (types of the constants, alignment and extent
positive) and `TablesAssumption` (exactly one partition holds `/`).

`DiskLayoutProofs`, for any base table, customization, mode, policy, directory sizes and order
of the map:

- `Honours`: `SizesHonoured`. `Progress` says where a requested mountpoint is between the
  two passes: done, in this pass's queue or in the next one's; `DirsInv`, which
  file systems still have directories to make room for.
- `NotTooLong`: `PartitionLimit`, an invariant of every step and not only of the result.
- `Bootable`: `BootReadable`. `BootInv` follows `/boot` through the conversion of the root.
- `OnlyGrows`: `NothingShrinks`, an action property.
- `AnyOrder`: `OrderIrrelevant`. `ResizeCommutes`: after two volumes were enlarged each is what
  it was asked to be, each partition fits what is now in it, and the table has grown by
  what its partitions have (`BothResized`, which does not tell which was first); this needs
  that sums of sizes grow with their terms. Each step of the iteration starts
  from a table of which the invariant holds, so the theorem is about every order of any number
  of mountpoints.
- `LayoutImplemented`: `LayoutSpec`, the refinement of `Relayout`: each edit maps to `Edit`,
  which demands that the table keeps exactly one root. So the theorems about relayout
  hold for the tables made here (`LaidOut`).

`CustomDiskProofs`, for any valid blueprint, boot mode, policy and directory sizes:

- `Delivered`: `AsRequested`. While the blueprint is worked off (`UserInv`), each entry is fulfilled or
  to be done; a root is made only when none came out of it; later steps
  (`LateInv`) only enlarge.
- `BootThere`: `BootReachable`. The decision about `/boot` is made before the root exists,
  so `UserInv` carries what was decided on until the root is there.
- `CustomLaidOut`: no overlap and payloads that fit, as above.

The tables of both are trees with sums: `DiskTreeProofs` proves what `Resize` and
`EnsureDirectorySizes` keep of them (`TableOK`: ids tell partitions apart, what is mounted is on one of
them, a plain one has one file system). A sum is a recursive function over finite sets; that there is one
such function and that a sum of sizes is a size is proved by looking at a smallest set for which it
would fail. Assumed: `RequiredAssumption` (every directory is below `/`), `DiskLayoutAssumption`
(types), `BasesAssumption` (base tables have one root, no more partitions than they can hold, and
`/boot`, if any, on a partition or in the root's btrfs: so are the tables in
`data/distrodefs`) and `CustomAssumption` (no mountpoint is listed twice: the
blueprint library's `Validate`, called first in `NewCustomPartitionTable`, `partition_table.go:1469`,
refuses it).

`BuildImageProofs`, for pipes of any capacity and any number of lines, with the two
bars and two callers of `cmdBuild`:

- `TypeCorrect`: `BuildTypeOK`.
- `Accounted`: `NothingLost`, and `NoOrphan`: `ChildNotForgotten`. `RunInv` accounts for
  every status line (forwarded or in the pipe) and output line (copied or in the
  pipe), and says who has the status pipe open: only a running child, so the end
  of the pipe is the end of the child.
- `Quiet`: `QuietAfterStop`. `BarInv` is the handshake of one bar, seen from both
  sides, for bars on which no Stop timed out or met another: at most one caller stops
  it, it sends while renderLoop selects or draws, and waits while renderLoop
  ends; a closed channel means that renderLoop has left and that its caller has yet to return.

The bars and the child change in different steps, so the two invariants are
proved apart. Assumed: `OSBuildRunAssumption` (capacity positive) and
`BuildImageAssumption` (the bars and the callers).

`ManifestProofs`, for every image type and image, request and earlier call, and any number of
serializations:

- `Final`: `AbortedIsFinal`. It holds for a reason the code does not state: the first
  pipeline of each of the eighteen kinds of image is a build root (`ManifestRooted`, a walk over the
  image definitions), a build root always has something to keep (packages, or a
  container that the resolution found), so it is locked from the first step of
  serializeStart on, whichever pipeline fails later, and it is also the first to be started the next
  time. Other kinds would not do: the tree of an ISO may keep nothing, and an Anaconda
  installer does not notice. `AbortInv` says this with the facts it needs about names, objects
  and the results of the resolutions.
- `Resolved`: `ReferencesResolve`. Two walks that meet in `Refs`, the build root of a pipeline and
  the pipelines it points to. The first is over the stages of every kind of pipeline
  (`SerializeReads`): whatever the options, they read trees of `Refs` only. It needs that the
  pointers serialize follows unasked are set (`Roles`), and, for the tree of an
  ISO, that serialize has refused a payload that is missing or not the only one. The second is over
  the image definitions (`ManifestMade`): each list of pipelines is added
  behind pipelines that make every name in `Refs` known, unless instantiating the image
  panics, as it does when the compression is one that no constructor exists for.
  `ResolveInv` adds to `AbortInv` that the pipelines are
  those of the image and what is serialized are the first of them, in their order, in every round.
- `InOrder`: `TreeOrder`. A third walk, for the types of the stages: `Lacks` says that a list has
  none of the stages with a fixed place, and most lists, whatever the options, lack all of them.
  The three parts of `TreeOrder` (`Packed`, `Labelled`, `Enabled`) then survive a concatenation
  whose other half lacks the right types, and each kind of pipeline is such a concatenation.
  `OrderInv`, that every serialized pipeline keeps to the three, is inductive by itself.
- `Complete`: `SourcesComplete`, with the exceptions it names and no others. Two more walks:
  what the stages of each kind of pipeline use (`SerializeTakes`), and what an image definition
  tells its pipelines about the image (`ImageFit`). `SourcesInv` adds to `ResolveInv` that the
  pipelines were told (`Fitting`); that what a pipeline asks for is resolved, one resolution after
  the other (`Answered`); that an object holds just that while it is serialized, whatever
  an earlier round left in it (`Held`); and that all a serialized pipeline uses is among
  what was collected so far (`Provided`). The proof shows where each exception comes in:
  a stage refers to an index without a source only if the OS has containers of both origins
  (`MixedLists`); the installer's own container is found because that of its build root
  is the same, unless it moved in between (`LivefsMoved`); the files of the host are
  hashed at the end, once for all (`HostFileLost`); and the tree of a CoreOS ISO copies a configuration
  that only the installer before it could have given (`EmptyIgnition`). The tree of
  an ISO uses no commit besides a container because serialize refuses two payloads.

Only model-checked:

- Liveness (`Termination`, `EveryFinishEnds`, `InvalidReported`, `RunReturns`,
  `UndisturbedStopReturns`) and the fairness part of the refinements: out of the prover's reach.
- The other properties of `manifest`. `NothingDropped` and `OwnSettings` are about the image types
  of the run, that is, about data. So are, on a second look, `BootImagesMade`, `ToolsInBuildRoot`
  and `KernelFresh`: they hold for the options the definitions can give an image and not for every
  set of options an image could be given (two types of boot at once, an option that only an
  image definition sets for itself, a stage for a kernel where no kernel is named).
  `PanicsKnown` needs one more walk, over what makes the stages of a pipeline panic, and is not
  proved.

## What the code does that its text does not say

Four disagreements are runs of their own: Add of the asynchronous resolver hangs on
a refused reference once two results wait (`async_resolver_hang`), and a `/boot`
subvolume on a btrfs without `/` gets a second `/boot` (`custom_disk_boot`); and when
the goroutine for signals and `cmdBuild` are both in Stop of the same bar, one of
them may find the field nil and send on it for ever, although the comment on the timeout
(`progress.go:294`) says that it is there so that Stop does not hang
(`build_interrupted`); and a local container that came from a manifest list makes a
stage refer to an index that has no source when it is next to a remote one
(`manifest_indexes`).

Others were met while modelling and are reproduced by the models without a run:

- A renderLoop that answers after Stop's second is over closes the field, which is nil
  by then: the process panics.
- An upload that fails leaves the second bar running: the deferred Stop is bound to
  the first one (`cmd/image-builder/main.go`, where `pbar` is assigned anew).
- A signal stops the bar only; the build goes on without one, until osbuild ends.
- A LUKS container's minimum size is its payload's plus its metadata, and the
  payload's is never below the size given: a LUKS partition grows by the
  metadata each time it is fitted, also when it was large enough.
- `partition_table.go:104` promises the larger of the requested image size and
  the sum of the partitions; the base table's own size is a third lower bound.
- `ExtraPadding` is declared in sectors (line 34) and added as bytes.
- `AbsoluteStartOffset`: an offset that is not beyond the header is added to it.
- `ensureRootFilesystem`: line 1090 speaks of the first volume group; the first
  container of either kind is taken.
- `blockingResolver.results` outlives Finish: a second Finish reports the first
  batch again. No caller reuses one, so its run is bounded to one batch.
- A deployment copies files of the host and has no `fileRefs`: they have no source.
- An installer made of a container resolves that container once for itself and once
  for its build root; only the second is given to the sources.
- A failed `ValidateConfig` is a warning: OpenSCAP in a commit and a simplified
  installer without customizations go on to a panic.
- CA certificates that do not parse (`images.go:352`) and a firewall zone without a name
  (`images.go:135`) panic without even a warning: `checkOptions` looks at neither.
- A bootable container's first boot with neither a provisioning URL nor `empty` panics in
  `raw_bootc.go:342`; `options.go:79` refuses it for the other image types.
- `customizations.ignition.firstboot` is listed as supported by the simplified installers
  of RHEL 8 and 9 and dropped without a warning before 9.2 (`images.go:700`).
- The blueprint's sshd options, a dnf variable and the size of a disk are written into
  objects that the next call shares (`images.go:382`, `image_config.go:234`,
  `imagetype.go:190`), although `InheritFrom` is said to return "a new structure
  instance" (`image_config.go:196`): its fields are still the parent's pointers.
- `customizations.partitioning_mode` is listed as supported and read nowhere.
- A key that the supported list has both whole and in part is supported in part only.
- `gen-manifests -workers 0` drops all jobs; `GenManifestsAssumption` excludes it.

## Hazards without a property

`PROJECT.json` lists the hazards some run has a property for. Those known and not
covered by one:

- `cmd/gen-manifests/main.go:771`, `pkg/container/resolver.go:178`,
  `pkg/disk/luks.go:130`, `pkg/disk/partition_table.go:588`, `:598` and `:1119`: the
  models do what the code does there, or exclude it by an assumption; see the
  observations above.
- `cmd/image-builder/main.go:769`: the second bar is started, and an upload that fails
  returns without stopping it.
- `cmd/image-builder/main.go:700`: SIGTERM stops the bar and nothing else; the build
  goes on without one.
- `pkg/osbuild/monitor.go:206`: Result ranges over a map, so the stages of a pipeline
  come in any order.
- `pkg/depsolvednf/cache.go:115`: the size of the cache is what the last walk found.

## Plan

Written, in this order: worker queue with its proofs, checksums, container
resolvers, relayout with its proofs, the two ways of making a partition table, the
build command with its progress bars and child and their proofs, the remote file
resolver, stages, pipelines and images with the making of a manifest, and the image
types in front of it.

Next:

1. Proofs about `Manifest`: the part of `PanicsKnown` about serializeEnd, along a walk as
   `SerializeReads` is one.
2. `RPMCache`: solvers and shrink on one directory, several processes; sizes and
   recency against what the directory holds.
3. `CloudUndo`: what is left behind when CreateVM or Register fails half way.
4. `StatusScanner`: contexts and stages of the monitor's lines.

## Not modelled

- The YAML definitions, their loading and templates, and package sets: data. The run
  takes image types, conditions and lists of supported options from them.
- The options of stages and their JSON, disk entities' marshalling and Clone, names,
  labels and UUIDs: conversions that no property is about.
- `partitioning` values, users, passwords, flatpak and ostree references: single values;
  that one is refused is an input (`bad`).
- Registries of repositories, `imagefilter`, `sbom`, policies: lookups over loaded tables.
- bootc, osinfo, flatpak and ostree clients: runs of external tools and network
  requests; what they find is an option of the image, and that they fail is
  `ResolutionFails`.
- GCP, OCI, S3, libvirt, OpenStack, IBM: sequences of API calls whose service would
  have to be invented.
