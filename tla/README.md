# go-wsman in TLA+

Specifications of go-wsman: a WS-Management client (`src/wsman`) and the Hyper-V
operations built on it (`src/hyperv`). They model what is hard to test in this code:
several goroutines on one pooled client, requests repeated after a lost answer,
jobs that go on after the caller has given up, operations of several steps that
fail in the middle, values that must survive a host with rules of its own. TLC checks
small instances; TLAPS proves the main results for every value of the constants.

## The system

A call of the Hyper-V layer goes down through four layers, and each has its own
way to fail:

```
hyperv.Client      AttachVHD, DetachStorage, AddNetworkAdapter, UpdateVm, ...
                   one or more CIM methods, each followed by a wait for its job
  wsman.Client     Get, Put, Create, Invoke, Delete, Enumerate
                   builds the envelope, parses the answer or the Fault
    pooledTransport.Send     borrows a transport for the whole call
      HTTPTransport.Send     attempts, backoff, classification of errors
        http.Client          connections, NTLM; the recorder as RoundTripper
          WinRM / Hyper-V host
```

| Component | State it keeps | Operations | Hard behaviour | What makes it correct |
|---|---|---|---|---|
| HTTP transport (`wsman/transport.go`) | the attempt of the call | `Send`, `sendOnce` | answers lost, late or broken off; retries of what was already done; cancellation during backoff | a success was carried out; Faults are reported; every call returns |
| Pool (`wsman/pool.go`) | the channel of transports | `Send`, `NewPooledClient` | goroutines compete for slots; NTLM binds a handshake to a connection | no slot lost or doubled; no two handshakes on one connection; nobody waits for ever |
| Client, options (`wsman/client.go`) | transport, timeouts, recorder | options, the six operations, `Enumerate` | order of options; pull loop over a changing host | the transport has what every option asked for; no instance lost or repeated |
| Parsers (`wsman/get.go` ... `fault.go`) | none | `Parse...`, `IsFault` | which bodies count as success | an error is never taken for success |
| Enumerate (`wsman/enumerate.go`) | the context of the host | `Enumerate`, `Pull` | contexts renewed or missing; cap of iterations | see Client |
| Recorder (`wsman/record.go`) | sequence number, list of files, errors | `RoundTrip`, `write`, `StopRecording` | recording races with the end of recording; writes outside the lock | what was written is verified; operations are not disturbed |
| Jobs (`hyperv/job.go`) | count of consecutive errors, deadline | `WaitForJob`, `WaitForJobEPR` | stale answers; failed polls; job removed or hanging | the verdict is true; single failures are absorbed; the wait ends |
| Resource settings (`hyperv/resource_settings.go`) | none | `Add`, `Modify`, `RemoveResourceSettings` | answer lost after the host has acted | references name what was made |
| Storage (`hyperv/storage.go`) | drives and media on the host | `AttachVHD`, `AttachDVD`, `AddDVDDrive`, `DetachStorage`, lists | two steps with a job each; partial failure; rollback | attached means attached; child before parent; no orphan without a reference |
| Network (`hyperv/network.go`) | ports and allocations on the host | `AddNetworkAdapter`, `RemoveNetworkAdapter`, `AddNetworkAdapterVlan` | the second step does not wait for the first one's job | a connected adapter is connected; its references suffice to undo it |
| Switches (`hyperv/switch.go`) | switches on the host | `CreateSwitch`, `DestroySwitch` | three kinds with different resources | the kind asked for is built |
| Checkpoints (`hyperv/checkpoint.go`) | snapshot tree on the host | `Create`, `Apply`, `Destroy`, `Rename`, `ResolveCreatedCheckpoint` | finding the snapshot that one's own job made | the snapshot found is the one made |
| VM lifecycle (`hyperv/vm.go`, `vm_state.go`, `vm_resources.go`, `client.go`, `host_filter.go`) | the VM on the host | `DefineSystem`, `UpdateVm`, `SetMemorySettings`, `SetProcessorSettings`, `DestroySystem`, `RequestStateChange` | read-modify-write; filters by identifier | a change takes effect and undoes at most a concurrent one; the VM found is the one asked for |
| Disks (`hyperv/vhd.go`) | files on the host | `Create`, `Resize`, `Get` | one job each | see Jobs |
| Integration services (`hyperv/integration.go`, `guest_network.go`) | enabled states | `SetIntegrationServiceEnabled`, lists | the key is read before the request | no other property is changed |
| CIM values (`hyperv/cimtag.go`, `embedded.go`, `unmarshal.go`, `epr.go`, `types.go`) | none | conversions | NULLs, repeated properties, carries | what is read is what was written |
| Envelopes (`wsman/envelope.go`, `namespace.go`) | none | text of requests | none | not modelled: layout only |
| Boot sources, GPUs (`hyperv/firmware.go`, `gpu.go`) | none | lists | filter by identifier | a list holds what is the VM's own |

The components meet in three ways. By calls: storage and network operations are
sequences of CIM methods and waits. By shared state: goroutines share the channel
of transports, the connections of an `http.Client` and the recorder. And on the host,
where the requests of all clients, the jobs they start, and the copies of requests
that were given up act on the same virtual machine.

## The modules

| Module | Models | Built on |
|---|---|---|
| `Semaphore` | what a pool promises: at most `Size` callers inside | |
| `Pool` | `pooledTransport.Send` around `HTTPTransport.Send`, connections, NTLM | implements `Semaphore` |
| `RemoteCall` | what a call with retries promises: at least once if it succeeds | |
| `Transport` | one operation: `Send`, its attempts, the host, the parser | implements `RemoteCall` |
| `JobVerdicts` | states of a job, and what may be said of it | |
| `JobOutcome` | what a wait promises: one verdict, a true one | `JobVerdicts` |
| `JobWait` | `WaitForJobEPR` | implements `JobOutcome` |
| `Storage` | attach and detach | waits by `JobVerdicts` |
| `Recorder` | `recorder.RoundTrip`, `write`, `StopRecording` | |
| `Enumerate` | `Client.Enumerate` and its pull loop, against a host that pages | |
| `Network` | adapters (`Add...`, `...Vlan`, `Remove...`) and switches (`CreateSwitch`, `DestroySwitch`) | waits by `JobVerdicts` |
| `Settings` | the changes of settings: read, change, write back, or one property alone | waits by `JobVerdicts` |
| `Vm` | state changes, definition and destruction, checkpoints, controllers, disks | waits by `JobVerdicts` |
| `CimInterval`, `CimText`, `CimProperties` | durations, texts and properties on their way to the host and back | |
| `Lookups` | the filters over enumerations, controllers by number, what a switch is made with | |
| `ClientOptions` | `NewClient` and its options | |
| `Placeholders` | what the recorder writes in place of an address | |
| `Values` | one call of one of these functions, and what each is for | the six modules above |
| `PoolProofs`, `TransportProofs`, `StorageProofs`, `NetworkProofs`, `SettingsProofs`, `ValuesProofs` | theorems | the module they name |
| `ClientProofs` | theorems about the recorder and the pull loop of a client | `Recorder` and `Enumerate`, whose `EnumInit`, `EnumNext` and so on have a prefix to stand beside the other's |
| `JobProofs` | theorems about jobs, waited for by the client or by its caller | `JobWait` and `Vm`, whose `VmInit`, `VmNext` and so on have a prefix to stand beside the other's |
| `MCPool`, `MCTransport`, `MCStorage`, `MCRecorder`, `MCNetwork`, `MCSettings`, `MCVm`, `MCValues` | values and symmetry for TLC | the module they name |

Definitions marked `faulty:` in the modules are not part of any specification. Each is
a plausible mistake in the code; put in the place of the operator that follows it, it
makes the run report the property that the mistake breaks.

### Pool

A caller is a goroutine in `Client.send`. Its program counter follows the code:
`select` (the select of `pooledTransport.Send`), `send` (about to call `sendOnce`),
`negotiate`, `challenged`, `final` (the two exchanges of an NTLM attempt, or the only
one with certificates), `backoff`, `release` (the deferred send on the channel).
`free` is the channel. `owner`, `idle` and `ntlm` describe what `http.Transport` and the
server keep for each connection: whose pool it is in, whether it is unused, and
whose challenge the server has issued on it.

The slot is held over all attempts and backoffs, and is given back whatever happens:
these are the properties `SlotsConserved` and `ImplementsSemaphore`. Between the two
exchanges of a handshake the connection is idle in the pool of its `http.Client`,
where another request of the same client would take it: `HandshakesNotInterleaved`
says this cannot happen when every slot has its own client, which is why the pool
was made as it is (ADR 0004). With `WithHTTPClient` every slot has the caller's client
(`Auth = "custom"`), and what is said of handshakes and connections is not claimed.
A call whose number of retries is negative makes no attempt (`Entered`). How
`NewPooledClient` makes its slots, and what it refuses, is in `ClientOptions`.

Left out: which of several idle connections `http.Transport` takes; a dial that is
given up by a timeout is taken to come to nothing (in Go it may finish and leave one
more idle connection, so `OneConnectionPerSlot` assumes that it does not).

### Transport

`req[i]` is the fate of the copy of the request that attempt `i` sent: the host may
execute it, refuse it with a Fault, refuse it with some other page or with no body, or
never see it; and it may do so long after the client has given the attempt up. An
answer is read in two steps, status and body, and can break in between. `Enter` models
`WithRetry` with a negative number. `Parses` says what each parser takes for success:
all but `ParseDeleteResponse` demand an envelope.

The operation is an at-least-once call: at most one execution per attempt, at least
one if success is reported. A Delete is the exception. Its parser accepts everything
that is not a Fault, so in the refinement its success is worth no more than an error
(`Worth`).

### JobVerdicts, JobOutcome, JobWait

`JobWait` is the polling loop of `WaitForJobEPR` with its error budget
(`MaxPollErrors`), its ticker and its context, against a job that runs, completes or
fails, and that the host may drop later on. An answer is looked at some time after it
was given. `recent` remembers the last outcomes for the properties; nothing in the code
depends on it. A job state outside the table of the code is polled like a running
one, and so counts as `active`.

### Storage

Each goroutine attaches one disk, or an empty drive, and then detaches it, once or
repeatedly, with the references it was given, or with the drive alone, as the comment of
`DetachStorage` recommends for rollbacks. `res[c]` is the state of the two resources on
the host, `job[c]` the jobs that bring them about. `AddResourceSettings` and
`RemoveResourceSettings` are answered at once or with a job, are refused, or are carried
out and their answer lost. A wait is replaced by its contract (`Verdicts`): this is what
`JobWait` is shown to implement. Goroutines may choose the same location: then the host
refuses one of the drives.

Which controller a number means is modelled in `Lookups`; here it is a step that may fail.
`AddScsiController`, a single request, is in `Vm`. Left out: a copy of a request that the
transport has given up and that the host carries out later (see `Transport`); resources
whose reference is missing in an answer.

### Recorder

A round trip reads its answer, scrubs it, takes a number under the lock, writes its file
without the lock, and enters it into the list under the lock. `StopRecording` takes the
recorder from the client, copies the list under the lock, and reads the files back.
Several round trips and several calls of `StopRecording` interleave. Of an answer the
model keeps only where it holds a listed value: scrubbing replaces words, verification
looks for every occurrence outside class names.

The numbering of placeholders is in `Placeholders`. Left out: two recorders that write into
one directory under one name (the later one overwrites the files of the earlier).

### Enumerate

The client's side is `enumCtx`, the context it will pull with, `all`, the instances gathered,
and `pulls`, the iterations of the loop. The host gives out the instances `1 .. Total` in
pages of any size, empty ones too, renews its context or keeps it, and may leave it out of
an answer. `opened` remembers the resource of the enumeration: with a WQL filter it is the
wildcard, and a Pull must name the same. A lost answer is asked for again by the transport
(`tries`), though the host has moved on: the instances of the lost page are in `missed`, and
`Complete` says what the code can promise: everything else, once and in order. Left out: the
content of an instance (`CimProperties`).

### Network

`res[c]` is the state of an adapter's parts on the host: the port, the allocation that
connects it and the VLAN settings; `job[c]` the job of the last request for each. The
host accepts a part only on a parent that is there. `AddNetworkAdapter` asks for the
allocation without having waited for the port, and returns the JobRef of its last request
alone: `Connected` says that this is enough, because the allocation is accepted only when the
port is there. When it is not, the call fails and `Undoable` says that the references it
returns suffice to remove what it has left. `switch` and `name` are the switches by GUID:
administrators create and destroy them while an adapter looks one up, and a name may be
borne again. Left out: the text of the settings; the settings a switch is made with are
in `Lookups`.

### Settings

Properties have a field of a value type, whose zero is not sent, or of a pointer type. Two
sets cut across these, and they are two on purpose: `IgnoredFields`, whose changes the host
accepts without effect (`vm.go:236-243`), and `ClearedFields`, the list of
`clearReadOnlyForModify`. That the list names nothing else is an assumption
(`SettingsAssumption`), which the repository's comments report property by property; a
property on the list that the host would take is dropped from the request without an error,
and breaks `TakesEffect`. Why the host ends some full requests in an exception has not been
isolated (`vm.go:284-292`), so no property says that the list is long enough. Goroutines read the
settings (`base`), change one property (`want`) and write all of it back (`UpdateVm`,
`SetMemorySettings`, `SetProcessorSettings`), or write one property with the key
(`RenameVmCheckpoint`, `SetIntegrationServiceEnabled`). The write-back undoes what another
goroutine has changed since: the code has no means to notice. `OnlyRacesLose` says that
nothing else is ever lost, and `SmallChangesOne` that the small requests lose nothing.
`TakesEffect` has two exceptions: an ignored property, and a zero in a field of a value type,
which is not sent and returns no error. A change of `SetMemorySettings` by way of a job that is not
waited for is the caller's: the run waits or does not.

### Vm

The methods have one shape: a request, a ReturnValue, a reference to a job. An error leaves
nothing to say of any of them and is one action, `Refused`. `work` are the requests the host
has begun on; its job may fail, also because the VM has changed by the
time it runs. `OkMeansDone` follows a call through its wait to the state its name promises.
`ResolveCreatedCheckpoint` reads the rows that tell which elements a job has affected: every job
affects the VM, a checkpoint is listed when its job is over, rows are dropped after a
while, and other goroutines make checkpoints too. `ResumeVM` and `StartVM` ask for the same
state, so a `ResumeVM` of a VM that another client has turned off starts it.

### The functions: CimInterval, CimText, CimProperties, Lookups, ClientOptions, Placeholders

Functions without a state of their own are operators. `Values` makes a behaviour of one call
of one of them: its arguments, then its answer, which the invariants compare with what
the call is for, stated without the code's way of getting there. A text is a sequence of
the characters and tokens that the rules distinguish; the parser on the other side, the
host's, is modelled from what the comments of the code report of it (Hyper-V refuses named
references, `embedded.go:352`). The escape is that of `encoding/xml` with its named
references made numeric: what no XML may hold becomes U+FFFD (`Illegal`), and quotes,
apostrophes, tabs and line breaks become references of which nobody has seen whether Hyper-V
takes them (`embedded.go:366-367`). `ValueArrives` therefore speaks of every set of
references the host may take: a value arrives, but for the replacements, or is refused for one of
these five characters. The model's integers wrap like the code's, at a bound
small enough for TLC.

A client is made of options in the order given, and may fail for its endpoint, for an option or
for the directory of recordings. There is one CA file: a second `WithCACert` replaces the pool
of the first, as the code does, and `ca` says that one is trusted. A pooled client makes the same client
for every slot, and refuses a size below one and recordings.

All filters of the code (`enumerateFiltered`, `client.go:116`) are one operator, `Among`: the
elements of a sequence that are in a set, in their order. The assumptions of `Values` say what
its inputs are: durations have natural numbers, and those in CIM's form no more days than their
digits hold (`DurationsAssumption`); a character is none of the references that a text is escaped
with, which are tokens of their own, and what no XML may hold is none of the characters that
have one (`CharsAssumption`); no text of an answer or of a struct is
the placeholder of a NULL, which holds a NUL character that XML does not have
(`ElementsAssumption`, `StructsAssumption`; `enumerate.go:250`); an enumeration is a finite
sequence (`ListsAssumption`); a device has an `InstanceID` of its own within its VM, whose order
is that of a number, belongs to a class the package lists, and names its VM in the host's
spelling (`DevicesAssumption`);
the options are those of the package with arguments of their types (`OptionsAssumption`); a value
to be cleaned of is a GUID or an address (`SecretsAssumption`).

## The runs

| Run | Configuration | Question | Bounds |
|---|---|---|---|
| `pool_safety` | `PoolSafety.cfg` | Are slots conserved, handshakes separate, connections bounded; is the pool a semaphore? | 3 callers, 2 slots, 1 retry, NTLM, symmetry; 39,816 states |
| `pool_live` | `PoolLive.cfg` | Does every call return with an HTTP timeout, and every cancelled call without? | 3 callers, 1 slot, 1 retry; 16,912 states |
| `transport` | `Transport.cfg` | Does success mean done, are Faults reported, is the wire quiet after a first success, does every operation return, is it an at-least-once call? | every operation, 3 attempts; 12,879 states |
| `transport_error_page` | `TransportErrorPage.cfg` | Is an HTTP error reported as an error? Not by Delete. | 1 attempt |
| `jobwait` | `JobWait.cfg` | Is the verdict true, are single failures absorbed and broken hosts given up, is the end noticed, does the wait end? | 2 failures tolerated; 1,001 states |
| `storage_safety` | `StorageSafety.cfg` | Does success mean attached or gone, is the order of parent and child kept, can a failure be undone? | 2 goroutines, 2 locations, symmetry; 319,924 states |
| `recorder` | `RecorderSafety.cfg` | Do files stay apart, does `StopRecording` cover what was over before it, are operations undisturbed? | 3 round trips, 2 stops, symmetry; 2,935,852 states |
| `enumerate` | `Enumerate.cfg` | Is every instance returned once, is the context closed, is a Pull refused only for a cause, does the call return? | 3 instances, 4 pulls, 1 retry; 2,884 states |
| `network` | `Network.cfg` | Is an added adapter connected, to a switch of the right name; can a failed call be undone; are verdicts on VLANs, removals and switches true? | 1 adapter, 2 administrators, 2 names, 2 switches, symmetry; 3,436,205 states |
| `settings` | `Settings.cfg` | Does a change take effect, is no change lost but by a race, none at all by a small request? | 2 goroutines, 1 property of each kind and 1 ignored, 2 values besides zero, symmetry; 6,634,870 states |
| `vm` | `Vm.cfg` | Does success mean done, does a destroyed checkpoint stay away, is the checkpoint found the caller's own? | 2 goroutines, 3 requests carried out, symmetry; 2,586,783 states |
| `values` | `Values.cfg` | Does each function do what it is for? | all inputs of the sizes below; 177,791 states |

Why the bounds are enough to be interesting. Three callers on two slots leave one
waiting while two run; one slot makes starvation visible. One retry makes a call go
through the backoff with its slot; two retries give copies of three attempts that are
served in any order. Two tolerated failures separate a reset counter from a counter
that is not. Two goroutines on two locations cover conflict and independence. Three
round trips put one before, one across and one after a `StopRecording`. Three instances
in four pulls have a page of several, an empty one and a last one, and make the cap be
reached; one retry loses a page and goes on. Two administrators destroy and create a switch
under an adapter that has looked it up, and two switches share a name. One property of each
kind and two values tell a lost change from one that was never sent. Three requests make
two checkpoints and restore or destroy one. The theorems do away with the bounds for the
safety properties of all modules. Of `Values` three actions have sizes of their own (paths of two
keys, references of up to three selectors, embedded instances of two elements with two values):
there the theorem is of these, and the lemma it is made of (`PathRight`, `ReferenceRight`,
`ParsedRight`) of every size.

`Values` has texts of up to three characters (five for sections and paths of checkpoints),
answers of up to three elements, clients of up to three options, pools of -1 to 2 slots, four controllers in every
order, ranges of two placeholders. Intervals have two digits of days (99) and integers of 25
bits (`Half` = 2^24) where the code has eight digits and 64 bits: the ratio still lets a
product of an unbounded field overflow to a number that looks legal. Escapes and parsers work
one character or token at a time with at most two of memory, so three characters meet every
pair of rules.

Several invariants of one subject are checked as one, their conjunction, which each module
defines at its end: `ConnectionsKeptApart`, `CallsReturn`, `OutcomeTrue`, `BudgetKept`,
`OutcomesTrue`, `OrderKept`, `ReadToTheEnd`, `AdaptersAsTold`, `NothingElseLost`,
`DoneAsTold`, `ResolvesRight`, and in `Values` `TextsArrive`, `AnswersRead`,
`EmbeddedSurvives`, `LookupsSound` and `OptionsHonoured`. The parts keep their names and
comments, and this text speaks of them. The type invariant `TypeOK` of a module is proved;
the run `vm` also checks the one of `Vm`, `VmTypeOK`. That the
verdict of a wait is true (`VerdictTrue`) is part of `ImplementsJobOutcome`.

A run that stops (no more steps) is allowed in all models but `Pool`, where callers
call again and again and a deadlock would be a fault.

### Where the code and its words differ

The run `transport_error_page` is a violated one: `transport.go:63-64` says that HTTP errors
are errors; with a body that is not a Fault they are data (`transport.go:122`), and
`ParseDeleteResponse` takes any such data for success.

The models show more of the kind, for which there is no run because the properties that
are checked state what does hold.

- `pool.go:19` and `:38` promise separate connection pools; with `WithHTTPClient`
  (`client.go:163`) all slots use one `*http.Client`. The pool's theorems have
  `Auth # "custom"` as a hypothesis for this reason.
- `transport.go:66` and `client.go:144` say that HTTP 4xx and 5xx are not retried; when the
  body breaks off, the status is forgotten (`transport.go:116`) and the attempt is.
- With `WithRetry(-1)` the loop does not run and `Send` returns `(nil, nil)`: a Delete
  reports success and nothing was sent.
- `storage.go:274` says that an attach that fails in its second step leaves an empty drive;
  when it was the wait that failed, the job goes on and the drive has its file. A rollback
  by the drive alone is then refused.
- `record.go:411-412` says that a listed value left in a file makes `StopRecording` return an
  error; a file in the making when the list is copied, or written afterwards, is looked
  at by nobody.
- `client.go:333` says that `Enumerate` returns all instances. A Pull whose answer is lost is
  repeated by the transport; on a host that keeps its context the lost page is missing
  from a result without an error. `Complete` excepts such pages.
- `client.go:224-225` says that `WithCACert` adds the CA to the TLS settings of a transport that is
  already set. Under NTLM, or in a client of the caller's with another kind of transport,
  `addCACertToTransport` (`client.go:271`) finds no `*http.Transport`, and the CA is dropped without an
  error. `CaTrusted` claims nothing of these clients.

## Fairness

- `Pool`: goroutines take the steps that depend on themselves only (weak fairness), and
  a caller in the select gets a transport if one is free again and again (strong
  fairness). The second is what the Go runtime does: goroutines blocked on a channel are
  served in the order they came. Nothing is assumed of the server. `EveryCallReturns`
  has the timeout of the HTTP client as its hypothesis (`HttpTimeout`; 60 s by default);
  `CancelledCallReturns` does without, as with `WithTimeout(0)`.
- `Transport`: weak fairness of the client as a whole. `Fail` is always possible during
  an exchange because of the HTTP timeout. Nothing is assumed of the host.
- `JobWait`: weak fairness of the waiting goroutine; a poll ends because its context
  bounds it. `WaitReturns` has the deadline as its hypothesis (`DeadlinePasses`), which the
  code always sets; `EndNoticed` does not need it. The job itself may hang.
- `Enumerate`: weak fairness of the next step. A request comes to its end, which is what
  `Transport` shows of `send` under its own fairness, and the loop goes on. The host may give
  out empty pages for ever; it is the cap that ends the call.
- The other modules have safety properties only.

## The theorems

Each proof module names its inductive invariant and has one lemma that every step
keeps it. No constant is bounded; the assumptions on constants are those of the
modules (`PoolAssumption`: finitely many transports, at least one; any integer as the number
of retries, and in `TransportAssumption` too;
`JobWaitAssumption`: any integer as the error budget; `EnumerateAssumption` and
`NetworkAssumption`: natural numbers as bounds; `IntervalAssumption`: a duration with the largest
number that is let through in each of its fields fits the integers, as it does with eight digits
of days and 64 bits; `PlaceholderAssumption`: at least one range with at least one address; those
of `Values` above; `SettingsAssumption`: the kinds of properties
do not overlap, what is cleared is ignored by the host and has a value field, zero and null are no
other values; `VmAssumption`: a natural number of requests
that the host begins on). `Storage` and `Recorder` assume nothing.

- `PoolProofs`. In layers: `Control` (what the program counter says about slot and
  connection), `SlotsConserved` relative to it, and then what is true of connections: a
  slot has one at most, and a connection in use belongs to the holder of its slot. From
  these: `SlotsAlwaysConserved`, `HandshakesAlone`, `ConnectionsBounded`, `PoolsSeparate`
  (these three under `Auth # "custom"`: with `WithHTTPClient` they do not hold),
  `PoolImplementsSemaphore` (the holders inject into the transports, so there are at most
  `Size`).
- `TransportProofs`. `Control` says which copies may be on the wire at each place of the
  code. The subtle part is `TransportImplementsRemoteCall`: the set of executed copies
  grows by one with each execution and never beyond the number of attempts, also when
  `WithRetry` is negative and there are none. With it `FaultsAlwaysReported`,
  `SuccessAlwaysMeansDone`, `FirstTimeSuccessIsFinal`.
- `JobProofs`, of `JobWait`. The invariant ties the counter `consecErrors` to the history it
  stands for: the last `errs` outcomes are failures, and the one before is not
  (`Streak`). Then `BlipsAlwaysAbsorbed` and `FailuresAlwaysBounded` follow; `Known`, which says
  that an answer once true of an ended job stays true, gives `VerdictAlwaysTrue` and
  `WaitImplementsJobOutcome`.
- `JobProofs`, of `Vm`. `WorkSound(w)` is about the host: what it has carried out has led where
  its operation promises, a request that names a checkpoint names one that was made, and one
  destroyed is gone. `CallSound(c)` is about a goroutine: what it holds of its last call is the
  request of that number, and carried out if it was told so. `Steady` is the action
  property that makes it stable under the steps of the others: what the host has begun on
  stays what it is, what it has done stays done, and a checkpoint gone does not come back. From
  these `AlwaysDoneAsTold`, `AlwaysResolvesRight` and the action property `DoneForGood`.
- `StorageProofs`. `Local(c)` says what goroutine `c` may conclude about the host from where
  it stands: an answer tells which way a resource is going, the end of its job whether it
  got there. `Running` ties resources under way to active jobs. From these `AttachSound`,
  `ParentAlwaysRealised`, `ChildAlwaysRemovedFirst`, `DetachSound`, `ReferencesAlwaysSuffice`.
- `ClientProofs`, of `Recorder`. `Filing` follows a file from its number to the list: a number has one
  round trip, and a listed file is not written again. `Covered` says what a
  `StopRecording` has still to read of what was over before it. From these
  `FilesAlwaysIntact`, `StopAlwaysSpeaksForThePast`, `RecordingAlwaysInvisible`.
- `ClientProofs`, of `Enumerate`. `Reading`: what was gathered is what the host has given out less what was
  missed, in order. `Following`: while the client pulls, it holds an open context unless the
  host left one out or an answer was lost. From these `AlwaysComplete`, `AlwaysClosed`,
  `RefusalsHaveACause`; the first two together are `AlwaysReadToTheEnd`.
- `NetworkProofs`. `Own(c)` ties the parts of an adapter on the host to what its goroutine was
  returned, call by call: the allocation is there only if the port is, and the one JobRef is
  that of the last request. `Linked(c)`: the switch an adapter is on has the name it was
  looked up by and stays while it is in use. `Tasked(a)`: the same for an administrator.
  From these `AlwaysConnected`, `AlwaysUndoable`, `AdapterVerdictsHold`,
  `SwitchVerdictsHold`.
- `SettingsProofs`. `Asked(c)`: a request whose job still runs holds the wish and, beside it,
  either nothing or what was read. It needs to be about the request, not the host, since
  others change the host in between. From it `ChangesTakeEffect` and the
  action properties `OnlyRacesEverLose` and `SmallRequestsChangeOne`.
- `ValuesProofs`. The functions go through sequences of any length, so their proofs go through
  the lengths. A set of the numbers for which a statement holds is shown to contain all of
  them (`Counted0`; it rests on `<` being well founded). `Along` and `AlongSets` show so what the
  library's folds compute, step by step; `Gathered`, what `Among` keeps: its n-th element is
  the one that has n - 1 of the set before it. Then, of the functions themselves:
  - `IntervalAlwaysKept`: whatever the number of digits and the width of the integers, as long as
    the fields that are let through (`FieldsFit`) cannot add up to more than the integers hold.
    This is why the code bounds each field before it multiplies.
  - `SwitchesAsAsked`: a switch is built of a binding and a port, each there exactly when
    its options call for it.
  - `PlaceholdersAlwaysDistinct`. The invariant of the fold, `Entered`, says that after `k`
    values there is one entry for each different value, numbered in the order of its kind; the
    numbers of addresses count addresses only, which is why they suffice.
  - `OptionsAlwaysHonoured`. What an option changes at once (`SameCore`) and what it leaves for
    later (`SameWishes`) do not touch, so the two can be applied one after the other. `Built`
    says what the HTTP client is after `k` options: made by the last one that replaces it, and
    trusting a CA if one was added since and could be. A pool (`PoolRight`) is made of such
    clients.
  - `LookupsAlwaysSound`. `ListedOnce` says of each of the nine lists exactly which devices it holds,
    so that every device is in one. `SortedAt`: of elements with numbers that differ, the k-th of
    the sorted list has k - 1 before it, because counting those up to each element is an
    injection of the places into themselves, hence onto. `KeptApart` brings the difference of the
    devices through the two filters, which is where `DevicesAssumption` is needed.
  - `TextsAlwaysArrive`. A text that is read token by token is taken through the states of its
    reader (`Drives`), and the parts of a text one after the other (`DrivesAll`); what reads an
    escaped character is back where it began with that character read, so the whole is.
    The escape of a value goes character by character (`CharRight`).
  - `AnswersAlwaysRead`. The text of an element is the last of its texts that is not empty
    (`TextMeant`, by the same readers). `FlattenPlaced` says where in a joined sequence the
    elements of each part are; with parts of at most one, an element's place is how many
    before it have one (`PartsCollected`). A NULL is told from a value because no text is the
    placeholder (`PropertyRight`).
  - `EmbeddedAlwaysSurvives`. With parts of any length the places are numbered in the order of
    part and position (`FlattenOrdered`, `Numbered`). A struct is written with each field once, in
    an order that is not known (`InSomeOrder`), so of each property one element is left
    (`OnlyPart`), and a field that is left out is zero.
- `TypeCorrect` in every proof module but `ValuesProofs`, and `VmTypeCorrect`, `EnumTypeCorrect`.
- The conjunctions that the runs check follow from their parts: `ConnectionsAlwaysKeptApart`
  (under the hypothesis on `Auth`), `OutcomeAlwaysTrue`, `BudgetAlwaysKept`,
  `OutcomesAlwaysTrue`, `OrderAlwaysKept`, `AlwaysReadToTheEnd`, `AdaptersAlwaysAsTold`,
  `NothingElseEverLost`.

Only model-checked: the liveness properties (`CallsReturn` with its two parts,
`OperationReturns`, `EndNoticed`, `WaitReturns`, `CallReturns`), since liveness under fairness
and `ENABLED` are out of the prover's reach. Every safety invariant and every action property
of a run is stated by a theorem.
The modules that are proved about have no recursive operators.

## Not modelled

- The text of envelopes and the choice of namespaces (`envelope.go`, `namespace.go`): layout
  without control or state. Error messages and logging likewise.
- Of `fault.go`, the fields that `ParseFault` copies into an error, and the search of `IsFault`
  for the bytes `:Fault`, which also finds them in a value. The model's Faults are Faults; an
  answer that was mistaken for one would be an error of an operation that was carried
  out, which the specification of a remote call allows.
- The lists of `guest_network.go`: one enumeration each, neither filtered nor sorted.
- The fields of the structs in `types.go` one by one; the kinds of fields are what `Settings` and
  `CimProperties` distinguish.
- Two recorders in one directory; a recorder left in the HTTP client of the caller by a
  `NewPooledClient` that then refuses it (`pool.go:59`).
- The test guard in `internal/guard`, which only the tests use.
