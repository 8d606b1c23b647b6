# Particle tracking: a verification project

`src/` is a set of C++ programs, with Python scripts around them, that find
particles in microscope images, link the particles of consecutive frames into
tracks, and compute statistics over them. Results go into HDF5 files; an SQLite
data base lists which computation has been done on which data set and gives each
one its key. This directory has TLA+ models of the parts in which order, shared
state or failure decide whether the results are right, the TLC runs that check
them, and TLAPS proofs of the most important properties.

Contents: 1 the system, 2 modules and code, 3 the runs, 4 proofs,
5 what is not modelled, 6 the plan.

## 1. The system

A typical analysis: a Python script (`script_src/python/appwrappy/cpp_wrapper.py`)
looks a computation up in the data base, writes a parameter file and starts a
program (`apps/*.cpp`). The program opens the data base, claims a key in an
exclusive transaction, reads the particles of a data set from its HDF file, puts
them into a spatial hash per frame, computes, writes the results into the HDF
file under the key, adds the parameters to the data base and commits. Each
program is single-threaded; what runs concurrently is several programs (one per
data set, started in batches) on one data base, and sometimes on one file.

| Component | State it keeps | Operations | Works with | What makes it right |
|---|---|---|---|---|
| tracks: `particle_track`, `Track_box`, `Track_shelf` | next/prev/track pointers of each particle; first, last, length, id of each box; list and count of the shelf | new track, push back, remove short, renumber, cut, extract, destroy | everything below | the two copies of every pointer and count agree; what is extracted is the whole track |
| linker: `hash_case::link`, `fill_pos_link_next`, `track_list` | candidate lists of each particle, three particle lists, the subnetwork | one frame: trivial bonds, clean-up, subnetworks, pairs | tracks, spatial hash | bonds of each frame pair are a minimum-cost assignment; no particle lost or taken twice; lists freed |
| subnetwork search: `recur_fnc_pn` | the pairs on trial, the best so far, a shared bound | recursive branch and bound | linker | returns an optimum, ends |
| `Track_box::split_to_parts`, link3D's output | peaks, regions; the particle of each part | prune, cut, average, store | tracks | peaks apart, cuts inside the track, one stored particle per part |
| SQL handler | connection and transaction flags, key | open, claim, add metadata, commit, roll back, close, destroy | SQLite, every program | claims exclusive and fresh, metadata belongs to its computation, the lock is given back |
| tracking program and its launch | place in `main`, the planned key | claim, write, record, commit | SQL handler, HDF file, script | what is committed is complete; results have the right label |
| analysis programs and scripts | place in `main`, parameters, turn of a sweep | plan, parse, claim, load, write, record, commit, enter rows | SQL handler, files | rows and whole results come together; the lock comes back; 0 means done |
| particle identification | planes, the image in hand, previous time | take a plane, average, add frame | HDF output | a frame has the time and the parameters of its planes |
| particles, master box | index, frame, neighbours; the vector that owns the particles | fill, filter | input wrappers | indices agree with the arrays |
| HDF output: `Wrapper_o_hdf`, `Generic_wrapper_hdf`, attributes | open file, open group, buffers | open, store, close, finalize, add attribute | HDF5 | every announced value is stored; attributes survive |
| input wrappers: HDF, generic, binary | arrays of all frames; slots by type | init, add data, get value | particles | values are those written, nothing is read outside |
| spatial hash: `hash_case`, `Hash_shelf`, `hash_box` | boxes of particles per frame | push, region, list, drift | linker, correlators | a region covers the search range |
| shelf input and statistics | look-up table, accumulators | `init`, `compute_corrected_TA`, `_ncuts`, `msd` | wrappers | tracks read are those written; each displacement once, without drift |
| correlators, accumulators, histograms | bins, sums and counts | add, average, output | spatial hash, shelf | each pair once, averages over what was counted |
| filters, parameter stores | lists of key and value | add, merge, look up, convert | programs | what is recorded is what was used |
| templates, MATLAB, GUI, bindings | - | - | - | see section 5 |

What is hard to test here: structures kept twice and updated in pieces (tracks,
candidate lists); an optimisation that is decomposed and pruned with a bound that
changes while it is used; loops over containers that are changed by the loop;
exceptions thrown between a call to SQLite and the flag that records it; programs
that run at the same time, die at any place, and leave a file behind that the
data base's rollback does not reach; indices, types and parameters that pass
through four classes and a file between the program that makes them and the one
that reads them; borders of boxes, frames and tracks. `PROJECT.json` lists each
such place with its line ("hazards") and the properties that watch it.

## 2. Modules and code

| Module | Models | Composes |
|---|---|---|
| `Tracks` | particle_track, Track_box, Track_shelf | - |
| `MinMatching` | what a minimum-cost assignment is (reference definition) | - |
| `SumTheorems` | lemmas: least elements, sums over finite sets, costs of assignments, chains of values | MinMatching |
| `SubnetSearch` | track_list::recur_fnc_pn and its caller | MinMatching |
| `SubnetSearchProofs` | proofs about `SubnetSearch` | SubnetSearch, SumTheorems |
| `OptimalTracking` | abstract: every frame pair is joined by an optimal assignment | MinMatching |
| `TrackLink` | hash_case::link, fill_pos_link_next, track_list | Tracks, MinMatching; implements OptimalTracking |
| `TrackLinkProofs` | proofs about `Tracks`, `TrackLink` and `StatPrograms` | TrackLink, StatPrograms, SumTheorems |
| `TrackParts` | Track_box::split_to_parts, split_track, trim_track, at; what link3D stores of a split track | - |
| `TrackPartsProofs` | proofs about `TrackParts` | TrackParts, SumTheorems |
| `SqlHandler` | SQL_handler and the locking of SQLite | - |
| `SqlHandlerProofs` | proofs about `SqlHandler` | SqlHandler |
| `TrackingRun` | do_tracking and main of apps/tracking.cpp, several at once | SqlHandler |
| `TrackingRunProofs` | proofs about `TrackingRun` | TrackingRun, SqlHandlerProofs |
| `Programs` | ten other programs and the script functions that start them, several at once | SqlHandler |
| `ProgramsProofs` | proofs about `Programs` | Programs, SqlHandlerProofs |
| `ParamStore` | Md_store, Attr_list_hdf and the conversions between them | - |
| `Identification` | Iden::fill_wrapper, fill_wrapper_avg, the planes of an image | ParamStore |
| `HdfFrames` | process, tracking, phi6 and a sweep's reading on one HDF file: Wrapper_o_hdf and its groups, Wrapper_i_hdf, Master_box, filters | Identification |
| `HdfFramesProofs` | proofs about `Identification` and `HdfFrames` | HdfFrames, SumTheorems |
| `SpatialHash` | Hash_shelf, hash_box: boxes, regions, corners (operators) | - |
| `Statistics` | hash_case, Track_shelf::init, neighbourhoods, drift, corr, displacements of six programs | Tracks, SpatialHash |
| `GenericInput` | Wrapper_i_generic, Wrapper_i_jb_binary::proc_file (operators) | - |
| `Results` | Generic_wrapper_hdf and the output of Corr_gofr, Corr_case, TA_msd, TA_vanHove, Histogram (operators) | ParamStore |
| `StatPrograms` | the programs of Statistics with their input wrapper and results file | Statistics, Results, GenericInput |
| `MC...` | instances for TLC | |

**Tracks.** One variable per field: `next`, `prev`, `track` of a particle;
`first`, `last`, `length`, `id` of a box; `shelf`, `trackCount` of the shelf that
is linked and `parts` of the shelf that receives cut tracks. A box is named by
the value of `running_count_` when it was built, so the order of names is the
order of the `std::list`. Each action is a whole call: `AddNewTrack`,
`AddEmptyTrack` (`add_track(new Track_box(NULL))`), `PushBack` (first particle,
or a bond, with the exception "nuking the list" of `set_next` and `set_prev`),
`RemoveShortTracks`, `Renumber`, `CutPart`. A walk along `next_` (`Chain`) is the
least set closed under `next`, so that it can be reasoned about without
recursion. The functions that extract positions and displacements walk `length`
particles whatever the pointers say, and are written that way (`WalksOff` when
they would leave the track). `Next` calls the operations as the linker and the readers do: only
with particles that are in no track, frame by frame.

**SubnetSearch.** The recursion is a stack with one record per active call
(candidates left, null link tried), one step per turn of a loop, so that the
shared `min_disp` is always the one in force. `Order` is the order in which the
`std::set` of pointers yields the particles; as every distance matrix is an
initial state, every order is covered. Costs are integers.

**TrackLink.** `pc` tells the place in `link`/`link_next`: `first` (tracks for
the first frame), `next` (head of the loop over frames), `trivial`, `pick`,
`grow`, `pairs`, then `linked`, `trimmed`, `numbered` in `main`, or `barf`. A
candidate list is a set, the empty set standing for the null pointer (a list is
allocated for its first entry and deleted whole). Loops over lists take any
remaining element: their order comes from hash boxes and pointer values.
`SolveNet` uses what `SubnetSearch` establishes (`SearchOptimal`): any optimum.
The distances are arbitrary, not Euclidean, which is more general. The first
loop turn of the code and the last frame, which are outside the loop, are the
two branches of `NextFrame`.

**TrackParts.** The intensity profile is an arbitrary function; the peaks are the
vector `peak_indx`, filled one particle at a time (`FindPeaks`), and each branch of the
pruning loop is an action (`KeepBoth`, `DropMiddle`, `DropOuter`, `DropLater`,
`DropEarlier`). `At` says which particle `at()` gives in the version the cuts use.
The new tracks are kept in the order of the output shelf, the deepest first (`parts`);
link3D averages each (`AverageCord`, weighted by intensity) and stores one particle
for it (`StoreLink`); the coordinate followed is z, which is the index.

**SqlHandler.** What the class believes (`connOpen`, `transOpen`, `transType`,
`compKey`) is kept apart from what SQLite has (`saved`, `work`, `holder`). The
failures are actions: `StartCompRefused` (a foreign key is broken after BEGIN),
`AddMdataRefused` (rolls back and throws), `AddMdataLeaks` and `LookupLeaks` (an
exception between prepare and finalize), `DestroyFails`, `AddMdataAlone` (insert
on a stale flag), `Exit` (process ends). `Reopeners` are the handlers that may be
opened again after they were closed inside a transaction (`Open`), or while they are
open (`Reopen`: `db_` is overwritten, and the connection that was in it, `Old(h)`,
keeps its transaction and its lock); no program in the repository does either, so
`TrackingRun` has none, but the class allows both. The claim properties speak of the
other handlers, which a Reopener must not harm.

**TrackingRun.** A run is a process: `Launch` (the script reads max(comp_key)+1),
`Connect`, `Claim`, `WriteParameters`, `WriteFrames`, `WriteTracks`, `Record`,
`CommitRun`, `CloseRun`, with `ClaimFails`, `RecordFails`, `End` and `Kill` at
every place. The data base steps are the actions of `SqlHandler`; `content` is
what each HDF file has, tagged (as history) with the run that wrote it. HDF5
refuses to create a name that exists, and nothing removes one.

**Programs.** A program is a record: what its script gives, what `main` asks for,
the columns its insert binds, and the order of its steps ("parse", "connect",
"claim", "load", "write", "fill", "record", "commit", "loop", "again", "close",
and the steps of the scripts around Iden). Every step is an action on the record,
with the data base actions of `SqlHandler`; every step may fail and every run may
be killed. The orders differ from program to program, which is the point: msd_sweep
records after it has filed, vanHove_sweep before, phi6 catches its own exception.

**ParamStore, Identification, HdfFrames.** `ParamStore` keeps parameters as a
sequence with the code's "first one answers", and the attributes of a group with
their types and conversions (bool to unsigned, int with overflow at `IntMax`).
`Identification` has a step per turn of the loops of `fill_wrapper` and
`fill_wrapper_avg`; what is found on a plane is any number from a set.
`HdfFrames` runs programs on one file, one at a time: each step is a call of the
wrapper (initialize, open group, parameters, particles, close group, list of
parameters, finalize), each with a failing counterpart that leaves what HDF5 has
by then, data set by data set. The stores that swallow exceptions do so here.
Reading is checked with operators (`TracksRead`, `MdStores`, `MdStore`) in
every state in which no program runs.

**SpatialHash, Statistics.** Positions are integers and everything is written for
any number of axes. The arithmetic is that of C++ (`Quotient`, `Remainder` round to
zero), which matters for images without an inner box. `Statistics` has one action
per turn of the loops over particles, frames, tracks, and one variable per result;
a job says which program makes which calls. `Track_shelf::init` is built from the
operations of `Tracks`. Drift and means are fractions in exact arithmetic.

**GenericInput, Results, StatPrograms.** A wrapper is a record and a call an operator
that gives the record it leaves and how it ended (`Returns`, `Throws`, `Crashes`
for undefined behaviour). `StatPrograms` makes the calls one by one: `FeedStep`
the calls of `proc_file`, `ScriptStep` any legal call in any order, `FileStep`
and `FileFails` the calls to the results file. A correlator's output is the
sequence of its calls, so that a killed run's file is a prefix. The job `Notes` is a
script that works on a finished results file through the bindings: `NoteStep` opens and
closes groups and adds attributes to a group or a data set, one by one or from an
`Md_store`; `ReadGroupNotes` and `ReadDsetNotes` read attributes into that store. An
open group has the list of names it knows (`keys`), which decides whether an attribute
is compared or created and which a tuple does not enter; `HowSetEnds` tells the
exceptions the bindings turn into Python ones from those of HDF5, which end the script.

## 3. The runs

All passing runs terminate in under two minutes on two workers.

| Run | Bounds | Shows |
|---|---|---|
| `tracks` | 4 particles in frames 0,1,1,2; 3 boxes | `ChainInv` (eight parts: next and prev mirror each other, a chain has one track, ends agree, one particle per frame, no gap ...), `CountAgrees`, `LengthIsWalk`, `ExtractedInOrder` |
| `subnet_search` | 3 x 3 particles, distances 0, 2, 3 at range 3 | `SearchOptimal`, `WorkFalls` |
| `link_three_frames` | 5 particles in 3 frames, net limit 2 | `EveryParticleTracked`, `NoCandidateLeft`, `OutputReadable`, `LinkEnds`, refinement of `OptimalTracking` |
| `link_wide_frames` | 3 + 3 particles, net limit 2 | `SubnetClosed` (nothing in reach is outside the net, and the candidate lists of the two ends mirror each other); the limit is exceeded in some behaviours |
| `parts` | tracks of 1, 2, 3, 8, 9 particles, intensities 0, 1, 2 | `PeaksRight`, `CutsRight` (with link3D's stored particles), `PartsEnd` |
| `sql` | 2 programs, one a Reopener; 3 functions, 3 keys | `ClaimHoldsLock`, `ClaimFresh`, `MetaMatchesComp`, `LockHasConnection` |
| `run` | 3 runs, 2 files, 3 keys | `RecordedIsWritten`, `PartsOfOneRun`, `OneAtWork` |
| `run_tracks` | 2 runs, 2 files, 2 keys | violated: the label of the tracks |
| `programs` | 2 runs of any two of ten programs, one data set, 3 keys, sweeps of at most 2 turns | `RecordedIsWhole`, `ZeroMeansRecorded`, `NothingUnbound`, `OneFilePerIden`, `LockGivenBack` |
| `files` | four images: 3 planes of one particle; 2 of two particles with a clock that goes back; 2 without a clock, one empty; 4 averaged by 2. Three programs on the file, two where every frame has two particles; 3 keys; INT_MAX = 7 | `FramesTimed`, `SavedFramesWhole`, `TracksReadTrue`, `NothingOutside`, `MetaSurvives`, `RecordedParams` |
| `statistics` | 26 jobs; 3 particles on 6 or 9 places, or 8 particles in 4 frames (3, 2, 2, 1) under every partial linking; look-up table of every third track | `NeighborhoodsRight`, `CountsRight`, `TracksAsWritten`, `DisplacementsRight`, `DriftRemoved`, `FedRight`, `ResultsFiled` |
| `statistics_cuts` | 6 particles in two tracks, bounds on the neighbours below, above, both | violated: the cuts by number of neighbours |

Why the bounds are enough to meet the interesting cases. *Tracks*: two particles
in one frame compete for a bond, three boxes allow a cut, an empty box and a
removal in one behaviour. *Search*: with the null link at 3, distances 0 and 2
make a null link sometimes cheaper than a second-best bond, ties occur at every
level, and 3 is no candidate; three levels are the least in which a bound found
deep inside is used by a call two levels up. *Link*: three frames are the least in
which candidates of the next pair exist while a pair is linked; three by three
gives several subnetworks in one frame pair, competing bonds and left-over
particles on either side. `MaxTracks` equals the number of particles, each of
which starts at most one track, so it never binds. *Parts*: nine particles hold a
crowd of three peaks next to a pair, and a region at either end. *SQL*: three keys
let one be rolled back, handed out again, and followed by another. *Run*: three
runs over two files let one fail and leave results, a second commit the key in
the other file, and a third come back to the first file. *Programs*: one of two
runs can be killed at each of its steps while the other goes on, is refused or
comes after; two turns are the least in which a sweep is cut off between
computations; results of both lie in one file when they have one program.
*Files*: process, tracking and a repetition of tracking under a key that was left
behind fit in three programs; two particles per frame let an index differ from a
count; a clock that goes back makes a negative dtime, which an unsigned attribute
would not carry. *Statistics*: the places lie on both sides of box borders and at
the edges, images have an inner box on both axes, one, or none, correlators get
0 to 4 shares of three planes; four frames have tracks of each length from 1 to 4,
so that two turns of a sweep drop some; the script makes up to eight calls
(`FeedBound`), enough to open, set up, fill and close a frame and begin another, to set
up with other types, add one of those and then the one that has left it its place, or
to open a group, note, read what is there, close, open the next and copy it.

Symmetry is used for the interchangeable next particles of `subnet_search`, and for
the keys of `files`, which no formula compares by order; neither run has a liveness
property. `CHECK_DEADLOCK FALSE` stands where the program ends. Two termination
arguments are of different kinds: `LinkEnds` and `PartsEnd` are liveness properties
under fairness, `WorkFalls` gives a measure that every step of the search lowers,
and a call that is active always has a step.

Fairness. `SubnetSearch`, `TrackParts` and `TrackLink` are sequential programs
that do not wait for anything: `WF_vars(Next)` says that they keep running.
`TrackingRun` and `Programs` have weak fairness for each run's own steps and none
for `Kill`: a process that is not killed goes on, and `Exit` of a dead process is
done by the operating system. `Launch` waits while another run holds the lock, as
the script's query does. `LockGivenBack` (a lock that is held is released) needs
exactly this. `HdfFrames` and `StatPrograms` are safety models without fairness.

### Where code and documentation disagree

Two sentences from headers are checked by a run that violates them; the findings
in `PROJECT.json` quote them. The tracks are stored under the key the script expected
instead of the one that was claimed; `compute_corrected_TA_ncuts` does not make the
cuts by the number of neighbours that it is asked for.

Others were met in the code while modelling. The models have what the code does, and
no property relies on what the text says:

- `track_shelf.h:75-76` says that `remove_short_tracks` does not clear the links of
  the particles; `~Track_box` clears them (`Released` in `Tracks`).
- The const `at(n)` of a track is null from its middle on, contrary to
  `track_box.h:50-52`; the cuts use the other version (line 160).
- `track_list.cpp:537-541` compares the size of a subnetwork with the limit before
  the growth of the same turn, so a larger one can be searched (`NetTooBig`).
- `sql_handler.h` says that destruction rolls back; a statement that is not finalized
  keeps the connection and its transaction open (`DestroyFails`).
- `sql_handler.h:160-162` calls `trans_open_` the flag of an open transaction; it is
  not set when `start_comp` throws after BEGIN (`StartCompRefused`), and
  `close_connection` leaves it set (`Close`), so that `add_mdata` after opening again
  commits a row outside any transaction (`AddMdataAlone`).
- A key that was rolled back is handed out again, but what the run wrote under it
  stays in the HDF file: `PartsOfOneRun` holds because the next run refuses that file.
  The tracks go under the key the script planned: under one key a file can have the
  parameters and frames of one run and the tracks of another.
  A results file keeps the attributes of such a run: the next one under the key adds
  to them (`n_min`), or is refused by them (`min_track_length`), see `ResultsFiled`.
- `wrapper_i_generic.h`: closing a frame never throws for missing data, opening
  the wrapper again keeps its maps, vectors and totals, and a wrapper that was given
  no size throws instead of growing.
- `corr.cpp:133` says that only boxes inside the border are centres; an image without
  an inner box on both axes has two negative sides with a positive product, and a
  border box is taken, or the call throws (`RoomInside` leaves this out).
- `get_dset_info` has no breaks in its switch and always answers V_ERROR; the mean
  temperature leaves out the first frame, as the mean dtime has to.
- `hash_case::init(wrapper, filter)` hands the number of entries to `Hash_shelf` as
  its `z_offset`, one argument behind the highest index, which is given as 0
  (`hash_case.cpp:192`); `push` finds the highest index itself, and nothing reads the
  offset.
- dims, as extract_raw_disp and extract_corrected_disp give it, announces a row for
  every particle (`track_box.cpp:219`, `:248`), while there is one for every step (`:228`,
  `:257`): the last row a script would read by it is not there. `ExtractedInOrder` says
  both, the rows that are filled and the number announced.
- `open_connection` of an open handler takes a new connection (`Reopen`); the old one
  keeps its lock until the process ends, and nobody else can claim a key until then.
- `set_data_type` takes types that are not set up. One that an earlier `setup` had lands on
  the array of the type that has its place now (`Reached`).

Behaviour of the programs that a reader should know of, also without a property that
forbids it (it is stated as an exception in the properties, or the function is left out):

- phi6 catches an exception while it writes, commits and returns 0
  (`RecordedIsWhole` excepts it); vanHove never records, though it claims a key
  (`ZeroMeansRecorded` excepts it).
- Iden_avg's row has the planned key, which the computation need not have.
- A failed Iden leaves its file behind, and a later one with the same number is refused.
- Giving only some of the three cuts to do_tracking records another cut than the one
  used (`RecordedParams` speaks of all or none).
- do_vanHove, do_msd, do_track_stat and do_msd_sweep without float parameters raise.
- An image without time stamps or positions gives files the later programs refuse,
  and a plane without particles gives a data set with one entry, -1.
- gofr_general files under key 0, so its second run on a file is refused.

## 4. Proofs

Every theorem holds for all values of the constants that satisfy the named
assumptions of the module it is about, and those are evaluated by TLC in each run.
The last column names the run that checks the same property on an instance.

| Theorem | Statement | Run |
|---|---|---|
| `TracksConsistent` | `Spec => [](TypeOK /\ ChainInv)` | `tracks` |
| `CountIsKept`, `LengthIsWalkAlways`, `ReadOutInOrder` | `[]CountAgrees`, `[]LengthIsWalk`, `[]ExtractedInOrder` | `tracks` |
| `SearchTyped`, `SearchFindsOptimum` | `Spec => []TypeOK`, `Spec => []SearchOptimal` | `subnet_search` |
| `SearchShrinks` | `Spec => WorkFalls /\ [](Work \in Nat)` | `subnet_search` |
| `PeaksRightAlways`, `CutsRightAlways` | `Spec => []PeaksRight`, `Spec => []CutsRight` | `parts` |
| `LinkerCallsLegally` | `LinkSpec => Spec` of `Tracks` | - |
| `EveryParticleIsTracked`, `CandidatesAreFreed`, `OutputCanBeRead` | `[]EveryParticleTracked`, `[]NoCandidateLeft`, `[]OutputReadable` | `link_three_frames` |
| `SubnetsAreClosed` | `LinkSpec => []SubnetClosed` | `link_wide_frames` |
| `LinkerIsOptimal` | `LinkSpec => ImplementsOptimalTracking` | `link_three_frames` |
| `LockKeepsConnection`, `ClaimsAreExclusive`, `ClaimsAreFresh`, `MetadataMatches` | `[]LockHasConnection`, `[]ClaimHoldsLock`, `[]ClaimFresh`, `[]MetaMatchesComp` | `sql` |
| `CommittedIsWritten`, `PartsAreNotShared`, `WorkIsExclusive` | `[]RecordedIsWritten`, `[]PartsOfOneRun`, `[]OneAtWork` | `run` |
| `CommittedResultsAreWhole`, `ZeroIsRecorded`, `NoStatementIsLeft`, `IdenFilesDiffer` | `[]RecordedIsWhole`, `[]ZeroMeansRecorded`, `[]NothingUnbound`, `[]OneFilePerIden` | `programs` |
| `FramesTimedAlways`, `NothingOutsideAlways`, `SavedFramesWholeAlways`, `MetaSurvivesAlways`, `TracksReadTrueAlways` | `HdfSpec => []FramesTimed`, `[]NothingOutside`, `[]SavedFramesWhole`, `[]MetaSurvives`, `[]TracksReadTrue` | `files` |
| `TracksAsWrittenAlways` | `ProgSpec => []TracksAsWritten` | `statistics` |
| `GivesBackAlways` | `ProgSpec => []GivesBack`, a part of `FedRight` | `statistics` |
| `PriorKeptAlways`, `NotesKeptAlways` | `ProgSpec => []PriorKept`, `[]NotesKept`, parts of `ResultsFiled` | `statistics` |
| `RecordedParamsAlways` | `ASSUME TimesFit PROVE HdfSpec => []RecordedParams` | `files` |
| `BaseInvAlways` | `HdfSpec => []BaseInv` | - |

*Tracks.* `TrackInv == TypeOK /\ ChainInv /\ CountAgrees` is inductive. The code
walks chains in its constructor, `push_back`, destructor and cuts, so what a walk
meets has to be known: `ChainIsTail` says that from a particle of a track it meets
exactly the track's particles from that frame on. It follows from the definition
of `Chain` as a least closed set, one inclusion directly and the other by taking
the earliest particle a closed set would miss (`LeastNatural`, from the library's
well-foundedness of the naturals). Each operation then has a lemma of its own,
which does not mention `Next`, so that `TrackLinkProofs` can use it.
`LengthOfWalk` counts the particles between the frames of first and last by a
bijection with an interval. `ReadOutInOrder` follows: a walk of `length` turns that
starts at `first` is at the track's particle of each frame in turn (`ReadsInOrder`).

*Sums.* Costs are sums over finite sets, which the community modules define by a
fold. `SumTheorems` proves of the underlying recursive function that the element it
chooses does not matter (`SumsAgree`, by the least finite set on which two choices
would differ, `LeastSubset`), and from that how a total splits (`TotalSplits`), is
renamed (`TotalRenamed`) and grows (`TotalMonotone`). Induction is replaced by a
least counterexample throughout, since the induction theorems of the library take
an operator as a parameter.

*Subnetwork search.* `SearchInv == SearchTypes /\ TrialFits /\ Recorded /\ Covered`.
`Covered` is the heart: every assignment is either no cheaper than the shared bound
or can still be come to by some active call. A step that leaves a candidate out does
so because the cost so far with it reaches the bound, and by monotony no completion
costs less; a step that records lowers the bound to the cost of what it recorded
(`Recorded`). When the stack is empty nothing can be come to, so what is recorded is
an optimum. Something is recorded at all because the first bound is beaten by an
assignment with a single link (`FirstBoundIsBeaten`): a subnetwork has a pair in
range, and the comparison with the bound is strict.

*Linker.* `LinkInv` joins `TrackInv` with what is known of the lists, place by
place: `Placed` (who is in a track), `Ahead` and `Behind` (the lists of the frames to
come are filled or not begun, those passed are gone), `Bonding`, `Waiting`,
`Growing`, `Pairing` (the places within a pair of frames) and `Output`. It is
needed as a whole to show that each call is legal: a bond is made only to a particle
without a track, which is known because it still has a list of candidates
(`Waiting`), which is known because the lists of both ends mirror each other
(`Growing`), which clean-up and the subnetworks keep up list by list. So every step
is a step of `Tracks` or leaves it alone (`LinkerCallsLegally`), and the four
invariants are parts or consequences of `LinkInv`.

*Refinement.* `LinkerIsOptimal` rests on `Cheapest` on top of `LinkInv`: what is
settled so far is bonded at least as cheaply as any assignment of the whole pair of
frames bonds the same particles, and so is the pairing in hand. Trivial bonds are
forced or free choices (`TrivialIsCheapest`); a solved subnetwork is optimal by what
`SolveNet` takes from the search, and as nothing in reach lies outside it
(`SubnetClosed`), any assignment of the whole, restricted to it, is one it was
compared with. Costs add up (`PartsAreCheapest`), so when the lists are cleaned
for the last time the whole is an optimum: that step maps to `JoinFrame` of
`OptimalTracking` (`JoinIsStep`), every other to a stutter (`StepKeepsBonds`). `SolveNet` takes any
optimum, in the words of the same reference definition (`MinMatching`) as
`SearchFindsOptimum` has it; the two theorems are not composed into one. The exception
for a subnetwork over the limit ends the behaviour without a `JoinFrame`.

*SQL handler.* `ClaimFresh` is not inductive: freshness depends on keys never
exceeding the counter. `ClaimInv` adds that a claimed key is the committed counter
plus one and that the claimed row is in the open transaction. A step of another
handler would need the lock; `DiscardClaims` and `SameClaims` say that it leaves
the claims of others alone. `LockHasConnection` is inductive with the types alone: a
second `open_connection` hands the lock on to `Old(h)`, which nothing but the end of
the process releases.
All of it holds whoever the Reopeners are. The claim properties except their claims
and rows (`Claims`, `Own`): a stale flag lets them write under a key that is another
program's. `CoreInv` is the part that speaks of claims and not of metadata; it is what
`Programs`, whose scripts enter metadata by themselves, can inherit.

*Tracking run.* `RunStepIsSqlStep` shows that a run's steps are steps of
`SqlHandler` or leave it alone, so `ClaimInv` is inherited. `RunInv` adds how far
each run has come and what is in its file by then (`Written`), that the open
transaction has no row beyond the committed ones and the claim (`WorkRows`), that
committed runs have started (`SavedDone`, so that their plan and file are fixed),
and that frames never come without parameters and parameters of one key in one
file belong to one run (`ParametersFirst`, the reason `PartsOfOneRun` holds: a run
that finds its parameter group taken does not write).

*Programs.* The ten programs differ in the order of their steps, so the proof
first reads off the text of each what comes before what and what a step needs behind
it (`WellMade`, one lemma per program). All that follows cites only that: a
further program with a text that is `WellMade` needs no further proof. `ProgInv` has,
for each run, what it holds in the data base at its place (`AtWork`, `ScriptAtWork`),
what it has in its file (`Written`) and how many of its computations are committed
(`Counted`: the turns of a sweep and the one in hand), and for all of them `CoreInv`,
`OneMaker` (one run makes a positions file) and `Entered` (a row of Iden is behind
its results). A step of one run stands aside from the others (`StandsAside`):
whoever commits holds the lock, and files only grow.

*The search ends.* `WorkFalls` lowers `Work`, a sum over the active calls of the options
each has left, weighted by how much a call at that depth can stand for (`Weight`, a
recursive function on an interval). `WeightIs` has what it satisfies; `WorkTakes` splits
the last call off the sum, so a turn that opens no call takes its option out, and one
that opens a call takes out more than the call brings in.

*Parts.* The loop that prunes the peaks never goes back, so the invariant says of the
peaks before its index what stays true when later ones are dropped: `PruneOK` has them
apart (`Apart`), no local maximum brighter than all of them (`Outshone`) and, on a
strict track, every local maximum among them or crowded by one that no later turn drops
(`Beside`, with `Settled`). Each branch has a lemma on the sequence it leaves
(`KeepBothKeeps`, `DropSecondKeeps`, `DropFirstKeeps`, `DropOuterKeeps`). Equal neighbours
are the delicate case: a middle peak that is dropped is lower than one beside it, so
one of the distances is 2 (`MaximaApart`) and the outer two are 3 apart, one less than
twice the buffer. That is what `RegionIs` needs: trimming two overlapping regions by
one particle each is enough, so each cut finds two particles or more behind its first
(`CutIsRight`). The averaged depth is bounded by the ends of its region through the
sum of the moments (`MomentBounds`).

*Identification and the HDF file.* `IdenInv` says which planes have gone into the frame in
hand and which time each frame before it got. `BaseInv` joins it with the file, the
program that runs, its groups and what past runs announced, and is kept by each program's
steps and by kills anywhere. Upon it rest `SavedInv` (what is announced is in
the file, and the buffers of a frame go from empty to right in one step),
`LaidInv` (which data sets a frame has, all of one length, and every index that is
stored fits the frame after it, which makes each walk and each access legal), `MetaInv`
(all groups say of a frame what the image says, in the types of the file), `TrackedInv`
(links under a key were written by a run that linked them) and `ParamsInv`. What
recursive functions compute (`TrackFrom`, `Walk`, attributes after a list has been added)
is reasoned about with chains (`SumTheorems`): a chain is a function on an
interval in which each value follows from the one before, so that what the first
has and each step keeps, all have (`ChainStays`), by a least counterexample.
`RecordedParams` adds that the gaps between the frames telescope to the last time minus
the first; it needs `TimesFit`: where frames are averaged, and their gaps are unsigned
ints, no two times of an image are further apart than an int can say. Without it a
gap wraps on its way through the file, which the code does not exclude. `ImagesAssumption` has that a program stamps all planes of an image or none
and that an average is over at least one plane.

*The tracks of a file, read back.* `Track_shelf::init` meets the particles frame by
frame, and the id of one may be the highest so far or lie between two entries of its
look-up table. `ReadInv` says of the particles read so far that each is in the track
of its id (`Held`), that the tracks are as many as the ids met ask for (`Row`), and which track each entry of the table is
(`Table`), so that the walk from an entry stops at the id it looks for (`FoundIs`).
Particles go in by `AddEmptyTrack` and `PushBack`, so `TrackInv` and the lemmas on
those calls are those of `Tracks`. It needs `TracksAssumption`: the tracks of the file
are such as the linker writes, with one particle in every frame from the first to the last
(`OutputCanBeRead` and `ChainInv` have that of what it links). `NumbersAssumption` has the
particles numbered, in the order of the file.

*An input wrapper.* `InputShape` has that two types of one kind that are set up have
different places in the vectors and that every array has the number of frames, `Kept`
that the array of each type that is set up holds what was added last. A call that adds
under a type which an earlier `setup` has left changes the array of the one that has its
place now (`Reached`) and no other, since places differ. An exception in the middle of
`open_frame` leaves arrays behind that are raw, in the order of the types (`TypeRank`).

*A results file.* `FileInv` says that the file `Keeps` the prior one. Every call keeps
what is there (`After1Goes`), whether it returns, throws or is refused, because HDF5
creates no name twice and no caller of `set_value` writes over. So nothing need be known of what a
correlator computes, only that its calls are lawful (`CallsGood`). `NotesInv` adds what
the script noted, that each value fits its type, so that reading converts it back, and
that what it has read is in the file, each key once. An attribute that is an empty string
is not written and so excepted (`Named`). `JobsAssumption`, `ScriptCallsAssumption` and
`PriorsAssumption` give the arguments of the calls and the file that is there already
the types their declarations have in C++ and HDF5.

Only model-checked, and why:

- liveness (`LinkEnds`, `PartsEnd`, `LockGivenBack`): needs fairness and ENABLED;
- `NeighborhoodsRight`, `CountsRight`, `DisplacementsRight`, `DriftRemoved`, the packing of
  gofr_general in `FedRight` and the values of new results in `ResultsFiled`: what they compare is accumulated by
  folds over sets and sequences of particles, pairs and boxes (sums of
  displacements, counts of pairs), and what each fold computes would
  have to be found for every input first.

No module declares a RECURSIVE operator. The type invariants of `Tracks`,
`SqlHandler`, `TrackingRun`, `Programs`, `TrackLink`, `SubnetSearch` are parts of
the invariants above and listed in no run.

## 5. What is not modelled, and why

- Floating point: distances, positions and intensities are integers and averages
  exact fractions; a sum of floats may make two assignments tie or not, or put a
  displacement into the next bin, which no property depends on.
- Linking a data set of one frame (`FramesAssumption`), which dereferences the end
  of a vector, and an output shelf without a track (`&front()` of empty vectors).
- Functions nothing calls: `recur_fnc_np`, `Hash_shelf::step_forwards`,
  `shelf_to_list` over boxes that were never made, pixel regions, the correlators
  goftheta, theta_2pt and pair_diffusion, chi4, S(q) and the 2D histograms, whose
  programs the build leaves out.
- `TrackLink` takes a region to cover the search range; `NeighborhoodsRight` checks
  that of the same `get_region` in `Statistics`.
- In `SqlHandler`: one handler per process (every program has one); a handler whose
  connection could not be closed is not replaced by another in the same process;
  `make_test_db`.
- In `TrackingRun`: the computation between claim and output (it is the linker).
- In `Programs`: the values of parameters, only which are there; optional ones.
- In `HdfFrames`: two programs on one file at a time (HDF5 without its parallel mode
  leaves that undefined); a file cut off in the middle of a library call is either as
  the calls before left it or unreadable; all particles of a frame are stored in one
  step; two data types stand for the nine; FILL_FILE; attributes of type tuple; an
  exception of HDF5 inside `add_meta_store`, which is swallowed; images of one frame,
  whose mean dtime is 0/0.
- In `Statistics`: link3D's x and y, the sum of roots of `msd_corrected`, coordinates
  a whole box below zero (`FilesAssumption`); the pairs that `compute_corr` takes from stored
  neighbourhoods (`corr.cpp:164-172`), whose range is 0 in the programs that correlate;
  a track without particles, whose length less one would wrap where `Average` has -1: the
  programs trim first.
- In `GenericInput` and `Results`: file types other than F_DISK_RDWR, paths with a
  slash, the header of the binary format; a
  packing has a few planes instead of 150 slices.
- Text readers, XML and command line parsing, image processing (a closed library),
  MATLAB and GUI code, bindings, tests and build files.

`PROJECT.json` gives a status and a reason for each component.

## 6. The plan

Done, in this order: `Tracks` and its proofs, `SubnetSearch` against `MinMatching`,
`TrackLink` against `OptimalTracking`, `TrackParts`, `SqlHandler` and its proofs,
`TrackingRun` and its proofs; then `Programs`, `ParamStore`, `Identification`,
`HdfFrames`, `SpatialHash`, `Statistics`, `GenericInput`, `Results`, `StatPrograms`; then
the proofs about `Programs`, `TrackLink` with its refinement, `SubnetSearch`,
`Identification`, `HdfFrames`, `TrackParts` and `StatPrograms`.

Next theorems, the most useful first:

1. `SpatialHash`: two positions within the range lie in boxes that are that many boxes
   apart at most (the heart of `NeighborhoodsRight`), as a lemma on the arithmetic.
2. `GenericInput`: that the calls of `proc_file` put the particles of each slab on its plane
   (the second part of `FedRight`), on top of `PlaneCallsArePacking` and `GivesBackAlways`.

Next modules: the composition of `TrackLink` with `SpatialHash`, so that its candidates
come from regions; two programs on one results file at once, if HDF5's behaviour
there can be stated.
