# ACC in TLA+

A TLA+ development of the BIG-IP Automation Config Converter
(`f5-automation-config-converter`), which turns BIG-IP configurations
(`bigip.conf`, UCS archives) into AS3 or DO declarations. It holds modules for
the parts of the converter with control of their own, TLC configurations that
check them on small instances, and TLAPS proofs of their main properties for
every instance. Paths below are relative to the repository's root.

Contents: [the system](#the-system), [modules](#modules), [runs](#runs),
[fairness](#fairness), [proofs](#proofs), [findings](#what-the-runs-refute),
[divergences](#divergences-met-while-modelling),
[what is not modelled](#not-modelled-and-why), [plan](#plan).

## The system

`init.js` starts one of two processes: a conversion of files named on the
command line, or a REST server (`src/server.js`). Both call `main`
(`src/main.js`); so does `mainAPI`, the library entry. `main` configures the
logger, reads files, awaits `mainRunner`, starts the telemetry without awaiting
it, and takes the log lines out of the logger. `mainRunner` is one synchronous
pipeline over a configuration:

    parser ─┬─ DO:  doConverter ── removeDefaultValuesDO
            └─ AS3: filterConf (twice) ── as3Converter ── nextFilteredObjects
                    ── filterByApplication ── removeDefaultValuesAS3
                    ── removeInvalidRefs

It awaits nothing: within a conversion there is no concurrency, and what is hard
is the order of objects, loops over data that they change, and where an exception
ends up. Between conversions of one process there is shared state, and between
processes the telemetry's dotfile.

| component (source) | state | operations | interacts by | hard | correct if |
|---|---|---|---|---|---|
| entry, CLI (`init.js`, `preConverter/getCliConfig.js`) | argv | choose mode, start | calls `main` or the server | – | one conversion or a server |
| REST server (`server.js`) | a promise per upload | receive, extract, convert, answer, error handler | calls `extract`, `main`; express calls back | late failures, several requests at once | every request answered once |
| driver (`main.js`) | none of its own | `main`, `mainRunner`, `nextFilteredObjects` | calls everything | its one await | log lines go to the conversion that logged them |
| logger (`util/log.js`) | `output`, transports | log, `configure`, `memory` | shared by all conversions | read-and-clear across an await, transports that accumulate | no line lost or handed out twice |
| input readers (`preConverter/readFiles.js`, `extract.js`) | `readFiles.data` | read, extract | `data` is read by the converters | module state outlives a conversion | a conversion sees its own files |
| telemetry (`lib/analytics.js`) | the dotfile `.f5-acc` | `getAssetId` | the file, across processes | read-then-write, crashes between, any failed read taken for a missing file | an id that has settled is reported |
| parser (`engines/parser.js`, `util/parse/*`) | line index, offset, brace counts | filter pass, `groupObjects`, `orchestrate` | text in, objects out | two loops that step indices by hand, three brace counts, damaged input | an object per object of the file; it ends |
| name resolution (`engines/as3Converter.js` 42-168) | the dictionary under construction | `deDupeObjectNames`, `defaultsFromInheritance` | before the main loop | renames one after another, order of inheritance, chains of parents | unique names, references follow |
| AS3 main loop (`engines/as3Converter.js` 170-527) | `declObj`, `redirectVS`, `unconvertedArr` | place, merge, attach, clean up | custom maps per type; `handleObjectRef`, `findLocation` | collisions, copies, relocation computed in three places, exceptions | nothing vanishes without a warning |
| custom maps (`lib/AS3/customMaps/*`, `customDict.js`) | none (they change their argument) | one conversion per type | look other objects up in the configuration | loops with splices, missing objects | what they name is found where the main loop puts it |
| DO converter (`engines/doConverter.js`, `lib/DO/doCustomMaps.js`) | `declaration.Common` | one step per key and item | `readFiles.data` for license, certificates | objects that merge or move under names of others | `Common` is made of the configuration, its references are found |
| post-converters (`postConverter/*`) | the declaration | application filter, defaults, invalid references | in turn over one declaration | deleting while walking, recursion over cyclic data | only what should go goes; it ends |
| statistics, result log (`lib/declarationStats.js`, `lib/logObjects.js`) | the output file | count, log, write | logger, file system | concurrent conversions with one output | – |

`PROJECT.json` lists every component with its status, and every hazard found in
the code at its line with the properties that would catch it.

## Modules

Every action is one handler, loop turn or callback of the code; the comment above
it names the lines, and `map` in `PROJECT.json` repeats them. Operators whose
comment calls them a *slip* are wrong variants of the definition they precede;
they take its place in the mutation runs, which show that each property depends
on the code being as it is.

### The process

**ConversionProcess** – one process with everything its conversions share: upload
extraction, `main` with its two points where other callbacks run, the logger's
buffer and transports, `readFiles.data`, the answers. The code is single-threaded,
so a step is what runs between two awaits: `Receive` (`POST /converter` up to
`Promise.all`), `ExtractDone`/`ExtractFails` (one upload settles), `RunMain` (`main`
up to `await mainRunner`), `Finish` (`logObjects`, `memory()`, the answer),
`CliStart`. `output`, `transports`, `logFile`, `data` are the code's shared state;
`emitted` and `served` are history. What a conversion computes is reduced to whether
it throws and to one warning and one summary line. A line carries who logged it,
which the code does not know: that is how the properties tell own lines from
foreign ones.

**AssetId** – `getAssetId`: read the dotfile, write a new id if the read fails, for
whatever reason: `ReadFails` is possible with the dotfile there, too. `Open` and
`Write` are the two steps of `fs.writeFile` (truncation, text); a call may fail or
its process may crash at any point. Calls are of any number of processes. `expects`
(the id that had settled when a call started), `raced`, `torn`, `overlapped` and
`faulted` are history. The names of its specification begin with `Id`, so that one proof module
can extend both modules of the process.

### From text to objects

**ConfParser** – the line-level half of `parser.js`: the pass that drops comments
outside iRules and lifts topology records out (`FilterTopologyHeader`,
`FilterTopologyBody`, `FilterLine`, `FilterEnd`), and `groupObjects`, whose inner
`while` is split into `Advance` (the next line, or an exception at the end of the
file), `CountLine` and `CloseBlock`, with the code's own indices `i`, `c` and
`bracketCount`. A line is a record of the questions the code asks of its text.
`Depth`, `Spans` and `Objects` are an independent reading of a file by brace depth,
which the groups are compared with.

**StanzaBlocks** – `orchestrate`, which makes an object of one group, with
`strToObj`, `objToArr`, `arrToMultilineStr`, `removeIndent`, `countIndent`. The
reference definition goes the other way: from a tree of `Item`s to the lines
BIG-IP writes for it, and to the object it means.

**NameResolution** – the two passes before the conversion, a key of the
configuration a step. `ScanKey` and `ScanEnd` find the objects to rename (`dupes`,
`ipNames`). Each round of the renaming loop goes over all keys: `RenameKey` gives
the round's object its new name and rewrites the references to it, `KeepKey` puts
an object that is not renamed into the dictionary again, `EndRound` goes on to the
next one. `SkipKey`, `StartChain`, `Walk` and `MergeChain` are the inheritance loop.
A name is a base with the `type_` prefixes and `_dup` suffixes the code has put on
it, so that collisions of made-up names can be told from others.

### AS3

**As3Conversion** – the main loop and the clean-up of redirects. An action is what
becomes of one object: `ReportUnsupported`, `FailInEngine`, `Ignore`, `SkipAddress`,
`AttachAddress`, `FailInCustomMap`, `Merge`, `Attach`; then `RemoveCommon`, one
`CleanRedirect` for each redirecting virtual, `Abort` where the clean-up throws,
`Return`. `decl` maps <<tenant, application, name>> to what is there, with the
objects it was made `from` (history). An object's type is one of eight kinds the
loop tells apart; what its custom map does to its properties is in the modules
below, here only that it may throw, return nothing, or return further objects
(certificates, monitors of a pool).

**CustomMaps** and **References** – `CustomMaps` is a table: for each custom map the
references it writes, by which of the code's conventions, at what place of the
object, and to what. `References` follows one row: `ConvertReferrer` is the entry
that writes the reference, `PlaceTarget` the engine that places what it names,
before or after that or not at all, and `Clean` is `removeInvalidRefs`. It has the
computations of a place and of a reference in `handleObjectRef.js`,
`findLocation.js`, `service.js`, the certificate helpers and the main loop.

**HtmlRules**, **ServiceProfiles**, **PoolMembers**, **Monitors**,
**SecurityProfiles** – the custom maps with algorithms of their own, as operators
from a stanza to what is made of it, each with the reading back that its property
compares with: the flattening of nested blocks by `convertEngine` and the rules
HTML makes of it, the splicing of TLS profiles, the merging of pool members,
sixteen types of monitors with one dictionary, attack vectors and SSH actions.

**NextCleanUp** – `as3NextCleanUp` with `deleteProperty`, and
`nextFilteredObjects`, which reports what was dropped.

### DO

**DeviceMaps** and **DeviceOnboarding** – the tables, of the references between DO
classes and of the items a stanza is compared with (`ConfigItems`), and the
conversion, for any table of items that `ItemsAssumption` allows (a user matches
none, stanzas of authentication only items of their class, nothing refers to what
devices become) and any `Configurations`. `todo` is the set of stanzas still to
convert, in the order of their positions: `FilterDevices`, then for each stanza `SkipItem` or
`ConvertItem` for every class it gives, and one `End...` step for each way its
temporary objects are moved into their section or deleted (`EndUser`,
`EndSource`, `EndSection`, `EndRadius`, `EndRadiusServer`, `EndPlain`); `Fail` where
the code throws. Objects are sets of pieces, so that what was merged or lost can be
told.

### After the conversion

**ReachableObjects** and **ApplicationFilter** – the first is what filtering by a
virtual server promises: collect, in whatever order, exactly what can be reached,
or give up. The second is `filterByApplication`, with the JavaScript call stack as
the variable `stack`: `Pass`, `Descend`, `Return`, `Finish`, `Fail`, and paths
that are rewritten while they are followed. Its last part instances the first with
a refinement mapping.

**DeclarationDefaults** – `removeDefaultValuesAS3`, `removeDefaultValuesDO` with the
lookups in the schema, and `declarationStats`. A schema gives each definition its own
properties and the definitions it extends. The code looks at the former only; the
reference (`SchemaDefault`, `As3Reads`, `DoReads`) is what a validation that fills in
defaults reads from the whole schema, and which profile the words `normal` and
`basic` stand for, and shares no lookup with the removal.

**RefCleanup** – `removeInvalidRefs`: a walk over the properties of all objects of a
declaration that deletes from arrays it is walking over. Objects are never removed,
so which references resolve is a constant.

### How the modules fit

`ConfParser` hands groups to `StanzaBlocks`, whose objects are the `Configs` of
`NameResolution`; its result, with names made of path segments, is the `Configs`
of `As3Conversion` and the stanzas of `DeviceOnboarding`. `References` composes
three stages for one reference, which is enough because no reference looks at
another one; the declaration that comes out is one of the `Declarations` of
`ApplicationFilter`, `DeclarationDefaults` and `RefCleanup`. Each module takes
*any* input its assumptions allow, so each covers what the one before it can
produce. All of that is the single step `RunMain` of `ConversionProcess`, which is
sound because `mainRunner` awaits nothing and shares nothing else. The telemetry
that `main` starts is `AssetId`.

The modules that are operators only are instanced by `MCConversionHelpers`, which
chooses an input and computes its output in one step.

## Runs

| run | bounds | distinct states | shows |
|---|---|---|---|
| `process` | 2 requests with up to 2 uploads, or one command line; 1 log file | 74,828 | `LinesDeliveredOnce`: the shared buffer loses no line and hands out none twice; `ServedLeavesNothing`: a served conversion leaves none of its lines for a later answer; `LogFileComplete`; `AnsweredOnce`; `EveryCallAnswered` |
| `asset_id` | 4 calls | 95,617 | `SettledIdIsReported`: a call that starts with a settled id reports it, unless a read fails with the dotfile there; `IdsVaryOnlyForCause`: without overlap and faults one id (`SequentialCallsAgree`), and an empty one only from a call that writes meanwhile or one that ended within its write (`EmptyOnlyForCause`) |
| `grouping` | all files of ≤ 3 lines of 13 kinds; all sequences of ≤ 3 of 13 objects, 6 of them damaged or read differently by the filter or the brace counts | 110,486 | `GroupsDisjoint`, `NoHeaderLost`, `NoRuleSwallowed` whatever the file; `GroupsAreObjects` and `RegularParses` for regular ones |
| `naming` | every order of ≤ 3 objects of 8 types that share and refer to names; every order of families of 3 profiles or monitors | 329,686 | `NamesAreUnique`, `RefsFollow`, `InheritedInAnyOrder` |
| `as3_conversion` | every order of ≤ 3 objects of four families: moved and referring; skipped, reported or failing; copies and collisions; redirects | 111,209 | `CommonHoldsOnlyShared`; `NothingVanishes`: what is neither declared nor logged lost its place in one of the named ways; `RedirectsPaired`: the clean-up takes away only what stands at the place of a redirect that an HTTPS service takes over |
| `references` | every row of `CustomMaps`, single names and lists of two of every shape, from 3 places, any targets converted, in any order | 149,595 | `ConvertedTargetsAreFound`, `DanglingOnlyOutOfSight`, `OwnCertificatesAreFound`: with the places where it does not hold written out as `Gap`s |
| `onboarding` | configurations of ≤ 3 stanzas that compete for few names; RADIUS with ≤ 3 servers; a cluster of two devices | 119,270 | `MadeOfTheConfiguration`: where no name is taken twice (`Separate`) the declaration is what the stanzas, each for itself, should become; `TemporariesGo`: nothing made of a stanza of authentication outlives it; `OwnerIsDeclared`; `ReferencesAreFound` |
| `application_filter` | declarations of ≤ 4 objects, 2 references of the virtual and one of each other, 3 targets | 82,607 | `FindsTheReachable` (refinement), `ReferencesMoveAlong`, `GivesUpOnlyForCause`, `SearchEnds` |
| `ref_cleanup` | all declarations of ≤ 2 properties with ≤ 3 values | 50,552 | `OnlyDanglingRemoved`: what is sound, and all behind a value that is no reference, stays in its order; `RefPropertiesClean`: up to such a value nothing dangling is left |
| `conversion_helpers` | all inputs of the eight modules of operators up to two or three of everything | 153,312 | `BlocksComeBack`, `RuleKeepsItsAttributes`, `TlsProfilesStay`, `ServersKeepTheirSettings`, `OnlyTheDeletedGoes`, `ReportedUnderOwnKey`, `MonitorsReadBack`, `SecuritySettingsAreKept`, `DefaultsComeBack`: what goes in comes out, but for the exceptions each property names |

Two more runs refute what the repository says of itself
([below](#what-the-runs-refute)). `TypeOK` of a module is proved where there is a
proof module, and is not run.

Why the bounds are enough to be worth something:

* `process`: a line can get into a wrong answer only from one other request at a
  time, and two uploads are needed for a failure after the answer. The command line
  never shares its process with a server, so one of it is enough. One log file
  shows the accumulation of transports; two different ones do not interact.
* `asset_id`: a call that found no file can be overtaken by a call that wrote and
  one that read it; the fourth call is one that starts after all that, or whose read
  fails when the id has settled.
* `grouping`: three arbitrary lines reach every branch of both loops; damage shows
  in the two objects behind it, which is what three chunks allow.
* `naming`: a name, its duplicate and a reference to it are three objects; a chain
  of parents of length three is the shortest in which a middle one may have been
  flattened before or after both others.
* `as3_conversion`: a copy that replaces or joins a third object takes three, a
  redirect with its HTTPS service and another object at its place takes three.
* `references`: what an entry writes for one name does not depend on another, but
  the clean-up's visit of an array does depend on what is before; two are enough.
  Among the names are those that a convention could mistake: a pool with the name
  of the application of its virtual server, objects called Common and Shared.
* `onboarding`: three stanzas are a class, one that takes its name and one that
  refers to it; the third RADIUS server is the first that has no place of its own.
* `application_filter`: two references of one object and a diamond or a cycle below
  it are the shapes in which a path is reached twice, once rewritten.
* `ref_cleanup`: three values give a removal before, between and behind others.
* `conversion_helpers`: the schema for AS3 is an excerpt of the vendored one: the
  services with defaults of their own, inherited ones and one that is overridden
  (`layer4` of `Service_Generic`), the one property with both a default and a default
  profile (`profileIPOther`), a branch that refers elsewhere (`profileL4` of
  `Service_Forwarding`). Four TLS profiles (two splices with one between), three
  pool members (two merges), two deleted paths in one array, three levels of blocks.

Families without cycles and the exclusion of names the administrator chose to look
like made-up ones (`Clashing`: a final name that another object has already, or
that two objects of one type get) are the preconditions under which the naming
properties are meant. Every exclusion inside a property has been checked to be
needed: without it TLC finds a counterexample that is the code's behaviour.
`CHECK_DEADLOCK FALSE` is set throughout, since a conversion returns and a process
idles.

## Fairness

* `ConfParser` and `ApplicationFilter` have `WF_vars(Next)`: a JavaScript function
  runs on until it returns or throws. That is what makes termination
  (`RegularParses`, `SearchEnds`) a statement about the loops and nothing else. The
  other synchronous modules have no fairness: their loops are over fixed arrays and
  nothing about their end is in doubt.
* `ConversionProcess`: weak fairness of `Progress(r)` for each caller. The event
  loop runs every ready callback, and `decompress` settles every promise
  (external). Nobody is obliged to call.

## Proofs

The proof modules hold for every value of the constants, under the named
assumptions of the component's module (which TLC evaluates in every run).

**`ConfParser_proof`** – `TypeCorrect`, `Disjointness`, `RuleSafety`, `HeaderSafety`,
`GroupsExact`; all but the last
are for every set of files of any length, whatever they hold. The disjointness of the
groups is not inductive, nor is any of the others: the invariant `IInv` adds that all
groups lie behind the scan (`GroupsBehind`), that the lines between `i` and `i + c`
have been read and are harmless and that `i + c` stays in the file wherever a line is
read (`ScanOK`), and that every header behind the scan is in a group
(`HeadersCovered`). Only two kinds of step make a group, and `NewGroupIInv` treats
both at once; `ScanIInv` treats those that move `c`.

`GroupsExact` is for regular files, as `tmsh` writes them (`Regular` says what that
is): what the two loops make of them are exactly the objects of the file. `Shape` says
that intervals of lines are the objects `Objects(file)`, each with the brace count
of a block (`Block`), and that no other line looks like the start of one. `FilterOK`
follows the first loop: where an iRule is open to the filter it is open in the file
(`IruleOK`), the topology lines are those of the file so far (`TopologyOK`), and the
lines kept are the objects passed, with the part of the current one (`ConfOK`).
`FilteredAll` concludes that what `groupObjects` gets has the shape of the file's
objects. `GroupsOK` follows the second loop over that shape: the groups are the
first of those intervals (`Cut`), the scan is between two of them (`Between`) or in
one (`Within`), and then the bracket count is the block's (`Counts`). `Possible`, by
the assumption `LinesAssumption`, is what the questions that the code asks about one
line have to do with each other; the proof uses no other fact about text.

**`ConversionProcess_proof`** – `TypeCorrect`, `AtMostOneAnswer`,
`ServedTakeTheirLines`, `LogFilesAreComplete`, `EveryLineOnce`: for any number of
requests, uploads and log files. `IInv` relates a caller's phase to its answers, its
uploads and its conversion (`AnswerOfPhase`, `RanOfPhase`), says that who is served
is over (`ServedAreOver`) and that the file a conversion asked for is open from its
start (`Configured`). A line is then logged only by a caller that has not been
served, and `LeavesMore` and `InLogFileMore` are the frame arguments for the steps
that log lines; `EmitLines`, `LogLines` and `FinishLines` say what logging does.
`EveryLineOnce` needs facts about `FlattenSeq` for sequences of any length; they are
proved by an induction over sets of numbers (`SetInduction`), a form of the library's
principle that takes no operator and so can be instantiated.

The same module proves of `AssetId` `SettledIds` and `VaryingIds`, for any number of
calls. `IdInv` says that while no two calls have overlapped at most one is under way
(`Alone`), and that without faults either every finished call reports what is in the
file, the file is missing with its one writer before the truncation, or it is empty
with that writer behind it (`Agreement`). For a settled id it says that while a call
under way expects one, the file holds it and no call is about to write (`Expecting`):
a failed read, the only step that could end that, either finds no file, which then
held no id, or clears what every call under way expects. For an empty id it says that
a call has seen every other one that writes, and that the file is empty only while a
call is at its second step or after one has ended there (`EmptyExplained`).

**`NameResolution_proof`** – `NamesStayApart`, `ReferencesLeadOn`,
`NearestAncestorWins`: for every set of configurations. The invariant `IInv` says which objects the two lists hold at every
key of the scan (`ScanInv`), that the objects waiting for their round are those to
rename and not yet renamed, each once (`TodoInv`), that the dictionary holds every
object that had its turn under its final name, once (`DictInv`), and that the
references are those of the configuration with the names of the objects renamed so
far replaced (`RefsInv`). The last is what makes the order irrelevant: a reference
that has been rewritten must not be caught by a later round. `FinalNamesOfType` and
`FinalNamesDiffer` say that two final names coincide only if they are `Clashing`.
Inheritance has an invariant of its own (`HeirInv`, theorem `Heirs`): every object is
as it was written (`Fresh`) or has been flattened to what some line of ancestors
sets, the nearest first (`Flat`); those the loop has passed are flat (`PassedInv`);
the chain it is walking goes from parent to parent, and only its last object may be
flat (`ChainInv`), which is why a walk that ends early, at a parent that has lost its
own, still finds everything. That the line of ancestors is `Lineage`, a fold, is
`AncestryIsLineage`: two lines from one object are equal, element by element, since
families have no cycles and a name has one owner.

**`References_proof`** – `ReferencesArrive`, `RestIsOutOfSight`,
`CertificatesArrive`: for every table of references over the conventions, every set
of names of one to three segments, every set of defaults. `PathsAssumption` and
`RowsAssumption` say which shapes the code meets: paths have a folder at most, words
and own objects are not referred to in arrays, names in iRule code are no
properties. The invariant says that what was converted has something in its place
(`PlacedInv`; `Put` replaces objects and removes no place), what was written and
that what was made beside the referrer is there (`WrittenInv`). One lemma for each
convention (`PoolRefFinds`, `IruleRefFinds`, ...) compares the path it writes with
the place the engine computes, outside the `Gap`s; `TextLength` is what keeps a
string reference within the reach of `removeInvalidRefs`, which counts slashes.

**`RefCleanup_proof`** – `CleanRefProperties`, `OnlyDanglingGo`: for every
declaration. The walk may be anywhere in an array, so `IInv` says that the elements
before `i` resolve (`PassedResolve`) and that single references are not empty
(`SinglesFull`); a visit that ends early does so at a value that is no reference, and
`Clean` asks nothing of what is behind it.
`RemoveAtProperties` says what `RemoveAt` of the community modules does to a
sequence. That nothing else goes is a property of what is left: `IsLeftOf` asks for
an increasing map from it into what was there that misses nothing that must stay
(`Stays`), and `LeftInv` keeps one through every removal: what is removed has only
references before it (`LeftWithoutOne`).

**`As3Conversion_proof`** – for every set of configurations of any length:
`TypeCorrect`; `CommonSafety`, that Common holds nothing but Shared and no object is
in an application or tenant that is not there, which is inductive as it stands (a
merge relies on the original's application being there, the removal of Common on
there being none of its applications); `Completeness`, that nothing vanishes; and
`RedirectsGoInPairs`. For `Completeness`, `Tracked` says that every object that had
its turn and converts is accounted for at every moment, and that what the declaration
holds is in a place of its own (`InPlace`): a step that overwrites a place must then
be one that warned, or one of the kinds that do not (`Kept`). `AccountKept` is the
frame argument, `Turn` and `AfterLoop` apply it to a turn of the loop and to the
clean-up. For `RedirectsGoInPairs`, `Paired` adds that an HTTPS service is made from
an HTTPS virtual (`HttpsByVirtual`): a redirect that was taken over stays so unless
the service that took it over was removed by a later turn of the clean-up.

**`ApplicationFilter_proof`** – `SearchImplementsReachability`,
`ReferencesFollowTheirObjects`, `FailuresHaveCauses`: for every declaration in which
no path is ambiguous (`Clear`) and which has finitely many objects. The depth-first
search that rewrites the references it follows implements `ReachableObjects`: a step
that descends is a `Collect` or, where the object has been visited, a stutter;
`Finish` is `Finish`, `Fail` is `GiveUp`, everything else stutters. That `Finish`
comes only when everything reachable is there takes the invariant `IInv`
(`SearchInvariant`): every slot still means what it meant or has been dealt with
(`SlotsInv`), the frames below the top wait at the reference the next one came from
(`CallersInv`), and what a visited object refers to has been collected or is still
ahead of some frame (`AheadInv`). `StatusInv` is what remains when the search is
over. `MoveInv` says of every slot behind all frames that it leads into the result,
and that a slot that was rewritten names an object entered there. `TreeInv` is for
the causes of a failure: where no object has two referrers and none reaches itself,
the search walks a tree and comes to no slot twice (`OnceInv`), so that no rewritten
path is read (`PastInv`); a call stack longer than the visited objects must hold one
of them twice, which makes a cycle.

**`DeviceOnboarding_proof`** – `TemporariesAreGone`, `OwnersAreOurs`,
`AllIsDeclared`, `AllIsFound`: for every configuration of any length and every table
of items. Two invariants carry them. `IInv` (theorem `OnboardingInv`) holds whatever
the configuration: types; every piece is of a stanza that was kept (`PiecesInv`);
what is made of a stanza of authentication is under the one name that the end of its
stanza deletes, or under one of the two names for addresses (`TemporaryInv`). For
this an item may not put another class into such an object, and users, lists and
other classes may not find it there: `ConvertParts` and `HandledList` say what an
item leaves under which key. `MadeInv` (theorem `OnboardingMade`) is for
configurations that are `Separate`: every key is a name that a stanza that is done, or
the current one, takes (`KeysInv`); what `common` holds is what should have become of
the stanzas that are done, and of the current one by the items it has passed
(`CommonInv`); and so for the sections of `auth` (`AuthInv`). A step that writes
under a key then overwrites nothing of another stanza, because both would take the
name. `OwnersAreOurs` needs only that `currentDevice` is `Current(conf)`.

Only model-checked:

* liveness (`RegularParses`, `SearchEnds`, `EveryCallAnswered`): there is no reasoning
  about ENABLED;
* the properties of `MCConversionHelpers`: they say what operators compute for every
  input, several of the operators are recursive, and there is no state to have an
  invariant.

## What the runs refute

| run | claim | what happens |
|---|---|---|
| `grouping_hang` | `parser.js` 179 "abort if run into next rule", `CHANGELOG.md` 116 | a block that runs into `ltm rule x {` steps back and then adds that line's brace to the count it has just cleared: it reads the line for ever |
| `process_license` | `doConverter.js` 315, `getting_started.rst` 48 | uploads to the server never pass through `readFiles`, so their license, certificates and keys are not found |

## Divergences met while modelling

The models do what the code does; where a property would not hold because of it,
the exception is part of the property and its comment. These have no run of their
own.

Parsing: multi-line strings in nested blocks lose indentation, and a line `    }`
of one ends the block. A comment `#ltm rule x` (no blank behind the `#`) outside an
iRule is taken by the filter for the header of one (`parser.js` 227), so a file with
such a line is not `Regular`.

Names and places: a virtual's `policies` and a profile's `defaults-from` keep the
name from before the renaming (`as3Converter.js` 97), and a parent that the
configuration lacks is taken for the object that gets its name by the renaming; pools `1` and `1_dup` both
become `pool_1_dup` if a rule is called `1`; `x-1` of one type is merged into `x` of
another (424); redirect addresses are compared with `includes` (514), so 10.0.0.10
replaces a redirect at 10.0.0.1. Of two redirects that move to one place the second
stays, and the clean-up of the first, which has an HTTPS service, deletes it (524),
though it may have none: `CHANGELOG.md` 9 says "Don't delete redirect http lonely
service".

References (each is a disjunct of `Gap`, or named in a property): folders of Common
are flattened in paths, but not in every reference; a server-ssl certificate is
stored with `_` for `-` and looked up without; monitors of a prober pool lack
`Shared`; an iRule's `/Common/Shared` gets it twice; a pool reference within T/Shared
to `/Common/p` becomes a bare word, as does one to a pool `/T/A` from within T/A; an
iRule called Shared in Common is referred to as the application.
`/Common/serverssl-secure` is known to `getObjectType` but is not in
`bigipDefaults.json`, and a virtual that has it first is lost to a TypeError.
`removeInvalidRefs` stops visiting an array at its first element that is no reference
(52), in spite of `main.js` 152.

Single types: pool members that lack a setting are merged into one that has it; a
first TLS profile whose name looks like a copy loses its virtual; a
`tag-remove-attribute` rule without a match has no attribute; a wildcard
destination with a port loses the port, an IPv6 address with dots is cut at the
first; `none` stays a word in the `recv` of DNS and PostgreSQL monitors and makes
NaN of a SIP filter; an absolute divergence of HTTP/2 and of disabled adaptive
monitors stays a percentage; only the first vector of a DNS or SIP block is kept,
and SIP vectors ask for a misspelt floor; `heavyURLProtectionEnabled` is never true; an
SSH rule with several sets of actions takes the last one for all, and drops actions
that control without logging.

AS3 Next: paths into one array are deleted in ascending order, so the second
deletes a neighbour or, behind the end, leaves a hole; a dropped object is reported under the first key that ends
with its name; arrays with empty elements are cut short.

Filter by application: paths are not rewritten when the target differs
(`filterByApplication.js` 56, against the comment in 51), those in arrays of plain
values never are (91); a cycle overflows the stack, unless the path was rewritten;
a diamond with a new target gives up, because the second path leads nowhere any
more; references nested three deep are not followed.

DO: two self IPs or routes with one address become one object
(`doConverter.js` 150-156, against the comment in `doCustomMaps.js` 20); users,
communities and traps with one name overwrite each other; `recursiveCamelize`
respells names that are keys; a firewall rule without source, destination and
description and a syslog without servers abort the conversion, as does an empty
configuration (298); a third RADIUS server replaces the second (283); a second
stanza of LDAP, TACACS or RADIUS replaces the section of the first (259, 267, 289);
a RADIUS server named after an address is moved to a name for addresses, and its end
deletes the user or list element that has its name (293); with two devices that have
one of our self addresses, a group's owner may be a device that is not declared (97);
the pattern `^datasync-.+-dg$` is compared literally.

Defaults: the default profiles of `Service_Forwarding` (`profileL4`) and
`Service_SCTP` (`profileSCTP`) are removed, but the vendored schema has no default
for either (`Unsaid`): whether they come back is up to AS3. `findSchemaDefault` does
not look at what a class extends, its branch (67-79) finds no default in the vendored
schema, and default arrays of DO are compared with `===`, so none of these goes.

Telemetry: any error of the read, not just a missing file, makes `getAssetId` write a
new id over one that had settled (`analytics.js` 46-47).

Log files: a transport is never removed (`log.js` 56), so a file goes on collecting
the lines of later conversions; the properties do not bound that.

## Not modelled, and why

* The translation of single properties by the tables of the custom maps and of
  `configItems`: data without control. Of `convertEngine` there is what HTML rules
  and monitors need. `iapp.js` is a table of strings.
* The recognition filter and the declaration skeleton: a projection by type, and
  constants.
* License and certificates of DO: cut out of files by patterns. Whose files they
  are is `OwnLicense`.
* The vendored sources in `autotoolDeps`: tables and schemas the converters look
  things up in. `DeclarationDefaults` takes an excerpt with every shape the lookups
  tell apart.
* Express, multer, winston, decompress, commander: external; what the code relies
  on is said at the head of the module that uses them.
* Wording of the log, the output file, the telemetry record: nothing depends on
  them. Two conversions with one output file overwrite each other, which is listed
  as a hazard.
* Truncation of paths to 194 characters and the replacement of blanks
  (`formatStr.js`): the paths of `As3Conversion` are those after it.

## Plan

Done: the process, the parser, name resolution, the AS3 main loop with the
references of all custom maps, the DO conversion, the post-converters; proofs for
every module with a state machine, of every property its runs check but liveness.

Next would be `ConfParser` composed with `StanzaBlocks`, so that "a file is its
objects, and each object its blocks" is one refinement.
