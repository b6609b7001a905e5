# A specification of OXQF

OXQF (C++20) reads, edits, converts and writes xiangqi game documents. This
directory models the library and its clients: the editing session
(`src/editor`) with the move tree it edits, a host and a debug console that share one
session, the OXQ file format in both directions (`src/core`), the CBL format in
both directions (`src/convert`), and the batch conversions of the command line
(`src/cli`) with several processes in one directory. All paths below are
relative to the repository; line numbers are in `PROJECT.json` (`map`).

To check it: `tlc -config X.cfg M` for the runs of `PROJECT.json`, and `tlapm M.tla`
for the seven `*Proofs` modules and `ListLemmas`.

## Inventory

| Component | State | Operations | What makes it correct |
|---|---|---|---|
| `EditorSession` (`editor_session.cpp`) | document, selection, revision, dirty, can_undo/can_redo, two stacks of history entries, three document tokens, position cache | `execute` (six atomic commands and `CompoundCommand`), `undo`, `redo`, `checkout`, `mark_saved`, `clear_history`, `position_at`, `open_document` | undo and redo return exactly the other document; dirty never lies; limits hold; the cache is never stale; change sets are complete |
| `MoveTree` (`game_model.cpp`) | nodes in storage order, id index, next id | `addNode`, `removeNode`, `rebuildIndex`, `validateInvariants` | tree invariants; an id names one node |
| Validation (`validation.cpp`, `state_validation.cpp`), replay (`compute_position`) | none; a board during the walk | pure | every variation is judged by its own line; what is accepted can be replayed |
| Variation graph (`variation_graph.cpp`) | none; a stack during the walk | bounded projection of the tree | a connected part within the limits, `truncated` exactly when something is left out |
| Debug console (`console_*.cpp`) | a reference to a session | parse, dispatch, render | its commands do not break what another client of the session assumes |
| Host of a session (not in the repository; `doc/implementation/06-web-editor.md`) | a view, a save in flight, a file | guarded commands, export, write, `mark_saved` | stale commands are refused; clean means saved |
| OXQ writer and reader (`writer.cpp`, `reader.cpp`, `codec/`) | none | document to bytes and back | round trip; damage is noticed; what is accepted is valid; canonical order |
| CBL reader and writer (`convert/src`) | none | the same for CBL v3, with losses | a tree survives edits around kept control words; losses are reported; an unedited record comes back bit for bit |
| Unicode, dates, extension names, restricted JSON | none | conversions of single values | UTF-8 exactly, NFC idempotent, one form of JSON |
| `oxq convert` (`cli.cpp`) | the output directory, counters | `write_atomic`, two batch loops, `summary_exit` | complete files only, nothing overwritten, truthful exit codes, termination |
| `inspect`, `validate`, `dump`, JSON output, names | none | read and print | not modelled |
| Hashes, generated tables, scripts | none | | see "Not modelled" |

The program is single-threaded. Concurrency enters in two places: a host saves
asynchronously, while the console holds a reference to the same session; and
nothing stops two `oxq` processes from working in the same directory. Hard to
test are, accordingly, long sequences of undo, redo, commands, saves and
trimming; a cache and a selection that outlive the change they were computed
before; compound commands that fail half-way; and interleavings and kills between
the system calls of `write_atomic`. The codecs have another difficulty: a
writer and a reader, written apart, must agree on every file, and the reader
also meets files that are damaged or come from another program; control words kept from a CBL source
are written back by position after the tree may have been edited. `PROJECT.json`
lists each hazard at its line.

## Modules

### The session

| Module | Models | How its state corresponds |
|---|---|---|
| `UndoLog` | the promise: a document, a past, a future, the saved document and a clean flag | nothing of the implementation |
| `HistoryStacks` | `store_history` and the limits | `undo_history_`, `redo_history_`; an entry is any record with a `cost`, standing for `estimate_history_bytes` |
| `SessionHistory` | `execute`, `undo`, `redo`, `checkout`, `mark_saved`, `clear_history` over opaque documents | the `SessionState` fields and tokens by name; an entry holds the documents of both sides; `checkpoint` is a history variable, the document of the last `mark_saved` |
| `SessionHost` | a host and the console over one session | `view`, `export`, `saving`, `file` are the host's |
| `MoveTree` | `MoveTree` and the editor's tree surgery | `nodes` in storage order, `next` is `next_node_id_`; indices count from 0 |
| `GameDocument` | positions and the policies of validation | a position is board, side, fullmove; the initial position is a constant because no command changes it |
| `TreeWalks` | the loops of `validate_state` and `variation_graph` | a walk is a record of the loop's local variables, one round of the loop an operator |
| `EditCommands` | the commands: acceptance, working document, inverse data, change set; their undo and redo; the fold of a compound | pure operators over documents and entries |
| `EditorSession` | the session with real documents, cache and change sets | as `SessionHistory`, with the inverse data of the code in the entries, `position_cache`, and `published` for the last `ChangeSet`; `before_document` and `after_document` of an entry and `used` are history variables |

`UndoLog` is implemented by `SessionHistory`, which is implemented by
`EditorSession`. In the first step the refinement maps the documents on the
undo stack to the past, those on the redo stack to the future and `~dirty` to clean.
In the second it forgets the inverse data and the next id and keeps
the documents that the entries saw: it holds only if what undo and redo
work out from the inverse data is, storage order included, the document that
was there. `SessionHost` extends `SessionHistory`, so the host and the
console act on the session that is proved to implement `UndoLog`.

A refused or empty command changes nothing and is a stuttering step. Every other
handler is one action, since a session is not reentrant. A failed allocation is a
refusal too. The byte estimate of an entry is a small number that grows with what
the entry keeps; in the code it is computed from vector capacities, which may
be smaller after a copy, whereas the model's cost of an entry is fixed.

### The file formats

| Module | Models |
|---|---|
| `UnicodeText` | UTF-8 validation and decoding, NFC: decomposition, reordering of marks, composition with blocking, Hangul by arithmetic; a small part of the tables |
| `MetadataText` | extension names, dates with their precision, the JSON of extensions: encoder and parser |
| `GameModel` | a whole game (metadata, position, tree, annotations), `validate` with its limits, `normalize` |
| `OxqStrings`, `OxqMetadata`, `OxqPosition`, `OxqTree` | the five sections, each as the writer plans and builds it and as the reader parses and checks it; strings and annotations also by their references |
| `OxqContainer` | header, section table, alignment, sizes, gaps and checksums, `inspect_container` |
| `OxqCodec` | `write_oxq` and `read_oxq` as a whole |
| `OxqFile` | the life of one file: written, perhaps damaged or replaced by a file of another writer, read |
| `CblText` | UTF-16 slots, decimal numbers, uuids and hexadecimal control words |
| `CblRecord` | the record of a game: prefix, and the node stream word by word, writing and reading |
| `CblGame` | a game from a record (`cbl_reader.cpp`), the record a game needs and the losses of the preflight (`cbl_writer.cpp`) |
| `CblLibrary` | directory and blocks, `write_cbl`, `read_cbl` |
| `CblFile` | games on their way: written, the library perhaps changed by another program, read, stored as `.oxq` or edited, written and read again |

A file is a record of the format's fields and not a string of bytes: a section keeps its records
and its size, the container the place of each payload. Where a byte could be taken
for something else, the model keeps the units: texts are UTF-8 bytes or UTF-16 units,
and the CBL node stream is its 16-bit words, so that a reader that misses a bit
goes on reading in the wrong place, as the code would. A checksum stands
for the fields it covers and differs for different fields. Arithmetic on offsets wraps at
`U32Max` and `SizeMax`, which stand for the code's 32 and 64 bits. Errors are one
refusal (`ok = FALSE`), in CBL three kinds: refused, rejected by strict mode, and the internal error
`encoding_invariant`.

`OxqFile.Damage` changes one field of a written file without new checksums;
`OxqFile.Forge` changes one thing (a field, the order of a list, a string, an
additional section) and seals the file, as another writer would. `CblFile.Forge` does the same to a
library, which has no checksums. `CblFile.Edit` takes what the editor can do to a
tree: reorder, insert, delete, annotate, and change result and fullmove number.

### The conversions

| Module | Models | How its state corresponds |
|---|---|---|
| `PublishFile` | `write_atomic`, a system call per action | `directory` maps names to files and `files` holds contents, so a renamed file stays open; `step` is where a process is; `abandoned` is a history variable |
| `ConvertBatch` | the two conversion loops, `summary_exit`, kills | `summary` holds the counters of the code; `wrote` is a history variable |

`ConvertBatch` extends `PublishFile`. Whether an input can be read and a game be encoded is
a choice there; `OxqCodec` and `CblLibrary` say what decides it.

### Proofs and instances

| Module | Proves |
|---|---|
| `ListLemmas` | induction with sets, recursive functions on numbers, lists as stacks, insertion into lists |
| `HistoryStacksProofs` | pushing, trimming and moving entries: which are left, and the bytes of both stacks |
| `SessionHistoryProofs`, `SessionHostProofs` | the session over opaque documents and its two clients |
| `EditCommandsProofs` | `Sublist`, `Stored`, `Refill`; each command: its effect on the tree, its change set, its inverse data; compounds; positions |
| `TreeWalksProofs` | the walks of `validate_state` and of `variation_graph` |
| `EditorSessionProofs` | the session over real documents |
| `ConvertBatchProofs` | the conversions |

`MC*` are the small instances.

Operators and actions whose comment begins with `Mutant` are variants of the code
with a plausible bug. No specification uses them; each property is known to fail
when one of them takes the place of the definition below it.

## Runs

Passing:

| Run | Question | Bounds |
|---|---|---|
| `session_host` | Do tokens decide dirty soundly, do both stacks together stay within the limits, is `UndoLog` kept; does a revision stand for one state, and clean for the saved file, whatever the console does between two steps of the host? | 3 documents with different nodes, 3 entries or 5 bytes, costs 1 and 3, revision up to 5: both limits trim, an entry is dropped after a save, a whole undo line is redone and cut, and a save, two changes and an undo fit into it |
| `editor_session` | Is the inverse data right and always applicable, and are change sets complete? | 4 squares, 3 pieces, a tree with a variation whose storage order differs from tree order, every command with every argument, two compounds, revision up to 3 |
| `position_cache` | Is a cached position ever stale, does `validate_state` judge each line by itself, is a projection what its limits leave, does a new node ever get the id of one that undo can bring back? | a line of two moves, so that a replacement has a descendant; a compound that creates a node, so that its undo puts the id counter back; a cache of one entry, so that it fills up and is emptied; the structural policy, so that moves may become unplayable; projections of up to 3 nodes and depth 2; `MaxFullmove = 2`, so that counting moves can fail; revision up to 3 |
| `oxq_file` | Is a written game read as the same game; is damage noticed; is what is accepted valid; does canonical mean as the writer would have it; are UTF-8 and NFC right? | five shapes (stored out of order, with variations, at the depth limit, and two that are no trees) with four sets of annotations; each kind of metadata at its limits; titles of up to 3 bytes of the boundary values of UTF-8 and up to 3 code points of letters, marks, and Hangul; one game with a bit of everything, every field of whose file is changed to each of 11 numbers |
| `cbl_file` | Is the preflight exact; can what is written be read; does a tree survive kept control words and an edit; are losses reported; is an unedited record restored; is every live game converted once? | libraries of up to three games (one over the limit), one at a time different from a plain game, with texts at and beyond the end of their slots and surrogate pairs across it; a library of two games, every field and every word of which is changed; a directory of up to 3 entries, records of one and two blocks; libraries that are too large for a file, with and without a game that cannot be written |
| `convert_batch` | Is what is published complete and permanent, is every leftover explained, is the exit code true, does each process end? | two processes with a game in common, one with two inputs and a duplicate UUID, two temporary names, files of two chunks; one process at a time, any failure at any call, kills anywhere |
| `convert_together` | Are exit codes true when two conversions into one CBL file overlap? | two OXQ inputs each, one temporary name, so that they collide |

Three revisions are few for the session with real documents, but what needs
longer sequences, namely trimming, tokens and interrupted redo, does not depend on what
the documents are: `session_host` explores it up to revision 5 and the proofs
for any number of steps. What `editor_session` adds is local to one entry on top
of a stack and the document, and three steps reach it: make the entry, move it to the
other stack, bring it back, or disturb what is around it.

The codecs treat a section, a slot or a word of the stream by itself, and what connects two of them is a
reference, an order or a sum of sizes. The instances therefore vary one thing at a time over
all its boundary values, and one game carries something of everything, with at least two elements in each list,
so that references, orders and sums are not trivial. Kept control words, edits, storing and
another program's changes are combined in sequence, not in pairs.

Violations, each a difference between the code and what its documents say:

| Run | Property | What happens |
|---|---|---|
| `node_id_reuse` | `NodeIdsNeverReused` | Undo of a compound restores the earlier document with its id counter; the next insertion gives a new node an id of the undone compound. The decision record says that ids are not reused in a session, undo included. |
| `selection_announced` | `SelectionAnnounced` | Undo after a checkout moves the selection and publishes `selection_changed = false`, because the flag is computed from the two selections of the entry. |
| `oxq_reread` | `WrittenIsReadable` | `write_oxq` checks the lengths of texts before it normalizes them. NFC can make a text longer (U+0344 becomes two characters), and the reader with the same limits refuses the file. |
| `cbl_reported` | `EveryLossIsReported` | The result that was read from a CBL is kept in an extension, which the CBL writer prefers to `metadata.result`: after an edit of the result the old one is written and no loss reported. |
| `convert_overwrite` | `NeverOverwritten` | Two processes find that a target does not exist; the second replaces the published file by its rename, or, if the two share a temporary, goes on writing to it. |

The violation of `convert` needs overlapping processes, which `doc/cli.md`
neither forbids nor mentions; one process at a time, all it says holds, which
`ConvertBatchProofs` proves. So `convert_batch` says nothing of the races between the check and the
rename (`cli.cpp:152`) and for a temporary name (`cli.cpp:174`): both are the business of
`convert_overwrite`, whose counterexample is the second.

Five more differences were met and have no run of their own:

- The host exports an edited document, the user undoes to the earlier save point
  while it is written, and `mark_saved` refuses the old revision: the session is clean
  (`editor_session.cpp:1219`), the file holds the edit (`doc/implementation/06-web-editor.md:93`).
- Two overlapping processes can choose the same free temporary name (`cli.cpp:174`), and one publishes it
  just when the other has truncated it; `doc/cli.md:20-21` says that every new file is fully
  written before it is renamed. `PublishedComplete` fails where `convert_overwrite` stops, one step
  before the second process writes to the published file.
- A title with a zero character fits into its slot (`cbl_writer.cpp:130`) and is written; a reader ends
  the slot at the zero, and the preflight reports no loss, although `spec/cbl-adapter-v1.md:57` wants
  every loss reported. `EveryLossIsReported` fails on it as it does in `cbl_reported`.
- `canonical_ordering` (`reader.cpp:17`) has no diagnostic for the order of annotation records, which
  `spec/oxq-v1.md` section 17 (798-808) fixes. `CanonicalAsWritten` leaves this order out.
- The writer's JSON of extensions (`writer.cpp:284`) may not be NFC although section 8.5 of the
  specification wants every string to be: a combining mark behind a line feed comes to stand
  behind the `n` of its escape.

`RoundTrip` accordingly assumes that no text outgrows its limit in normalization, and `LossesAreReported` that
the game is `Consistent`: what was kept from a source agrees with what the game says now,
its texts hold no zero character (which ends a slot for a reader), and its date
has a year.

The sessions never stop: a host can always look, a client navigate or
save, and their runs check for deadlock. The configurations of `ConvertBatch` do not, because processes
end, nor do those of `OxqFile` and `CblFile`, whose story ends with the last reading or a refusal.

**Fairness.** Only `ConvertBatch` has liveness: a process that is not killed and can take
a step takes one (`WF` of `Work(p)`, weak because a process waits for nobody in the
middle of its work). That is what an operating system gives; no call is
assumed to succeed. The proposition is that leftover temporaries and failures never
make a process search for ever. In a session everything is up to the client, and a codec
is a function: there is nothing that must eventually happen.

## Proofs

**Sessions.** `SessionHistoryProofs` and `SessionHostProofs` prove, for any set of documents, any
limits, any costs and any number of revisions:

- type correctness, `HistoryChain`, `TokensIdentifyDocuments`, `CleanMeansSaved`,
  `SelectionsExist`, `FlagsMatchHistory`, the action property
  `LostCheckpointStaysDirty`, and that `SessionHistory` implements `UndoLog`;
- for two clients, `HostTypeOK`, `RevisionIdentifiesState` and `CleanMatchesFile`.

They assume what the modules' `ASSUME`s say: the initial document is one of the
documents, every document has the root among its nodes, limits, costs and the bound on
revisions are natural numbers.

None of these invariants is inductive by itself. That a clean session is the saved
one follows because dirty compares tokens and a token names one document; the latter holds
after undo because the entry that brings a token back also brings the document it was
made for, which is what `HistoryChain` says; and the chain survives trimming and
`push_back` because the newest entry ends at the current document. `IInv` is therefore the
conjunction of typing, the chain, the tokens, selections and flags; the module proves
that `Init` implies it, that each action preserves it (one lemma per action, on top of lemmas
about appending to, trimming and popping a stack), and that it implies each
property. The refinement is proved with the same invariant: undo of `UndoLog` may raise clean
only over the saved document. `LostCheckpointStaysDirty` holds because tokens
below `next_document_token` are never minted again. `HostIInv` adds that what the
host remembers with a revision not below the current one is the current state, which
holds since every change of document or selection raises the revision. `HistoryChain`,
`TokensIdentifyDocuments`, `FlagsMatchHistory` and the types of `SessionHistory` are parts of `IInv` and
are proved only; no run lists them.

`HistoryWithinLimits` is about a sum over each stack, computed by a recursive function. The library's
induction theorems take a predicate, which the provers cannot instantiate; `ListLemmas` proves
induction with a set of numbers in the place of the predicate (`SetInduction`, from the fact that an injection of a
finite set into itself is onto), and that a recursion with a step function has a solution (`RecursionExists`). All that
is said below about the loops and closures of the model rests on these two. The limits then follow from the sums of
a stack and of what is left after trimming (`BytesOfStacks`), whatever the costs are.

**Documents.** `EditorSessionProofs` proves, for any opened document, any commands and compounds, any limits
and either policy of validation:

- `TypeOK`: the document is at all times a well-formed tree, its ids, parents and ordered children agree,
  and the selection is one of its nodes;
- `HistoryNeverStuck`: the inverse data on top of each stack fits the document and gives a valid one;
- `NoDuplicateMoves`, for a document opened without equal moves among siblings;
- the action property `ChangeSetsComplete`;
- `RefinesSessionHistory`: `EditorSession` implements `SessionHistory`. Together with the refinement of `UndoLog`
  by `SessionHistory` this takes the promise of undo and redo down to the inverse data of each command;
- `CacheSound`: a cached position is the one that replaying the path to its node gives, whatever was edited,
  undone or redone since it was cached;
- `NodeIdsUnambiguous`, with `NextIdUnused`: an id that a node had in any document of the history never names
  another node later;
- `StateValidationSound`: what `validate_state` reports, from one board that it plays on and takes back on, is
  what replaying the line to each node alone would show. `ValidationReports` says so of any structurally
  valid document. They also assume `PositionAssumption`: the initial position has a board on the squares,
  a side and a fullmove number, and `None` is no position;
- `ProjectionFaithful`: what `variation_graph` lists is the part of the subtree within both limits, in the order of
  the tree and without a gap, each node after its parent, `truncated` exactly when a node of the subtree
  is missing. `ProjectionLists` says so of any well-formed tree, current node and limits.

They assume that the opened document is a valid document of the type of the code's structs, no larger than the
limit, with its next id as `rebuildIndex` leaves it (`OpenAssumption`), that commands have the types of their
structs (`ArgumentsAssumption`), and that `MaxNodeId`, the limits and the bound on revisions are numbers. A
command's arguments need not make sense: refusing them is part of what is proved.

The argument has three layers.

1. *Lists and storage.* Deleting keeps copies of nodes with their storage indices; inserting them one
   by one in this order into what is left gives the storage back (`RefillRestores`): each of
   them finds the nodes before it already in place.
2. *Commands.* `CommandInverted` says for each of the six commands that its inverse data leads
   from any document that equals the one after it to one that equals the one before it, and back. It is about
   *equal* documents, not the same ones: after undo the next id may differ from what it was, and nothing
   that is compared may depend on it. `CommandEffect` gives the types, the ids and the change set of a command;
   a compound is the same for a run of commands, by induction on their number (`RunWorks`).
3. *The session.* An entry is `Sound` if, whatever the session holds, undo of it from the document it ended with
   leads to a valid document equal to the one it began with, publishes a complete change set, and leaves the next
   id above all ids in use; and redo the same in the other direction. `IInv` says that all entries of both
   stacks are sound (`Stacks`), that they form one line of documents through the current one (`Line`), that the
   document is valid and its next id fresh (`Showing`), that counters and tokens are in range (`Counters`) and every
   id anywhere has been seen (`Remembered`), and that the cache is within its bound (`CacheBounded`).

Four more arguments stand on these layers.

- *The cache.* The position of a node depends on the moves on the line above it only (`SamePositions`, by induction
  over the tree). `CacheSound` then needs, for each command, undo and redo, that the nodes that
  stay cached are off every line that changes: a command or an entry either clears the cache, or drops the subtree
  it is about, or changes nothing that a position is made of (`StaysPut`, `Dropped`, `LeftOf`).
- *Ids.* `next_id` may go down on undo, so that the ids in use now say little of those that an undone document
  held. What is inductive (`NextUnused`) is that it lies above the ids of all documents that undo leads
  to, and that no entry changes the id of a node (`Steady`). TLC checked both on the instance of `editor_session`.
- *The walk of `validate_state`.* `Walked` is what holds after n rounds of its loop: the stack holds the line from the
  root to a node, all of it playable (`Climbs`), the board shows the position of the node on top, which
  each frame can take back, a node is on the stack or left exactly if the walk has come to it and it can be reached,
  and the issues are those of the nodes it has come to. Every round comes to a new node or leaves one
  for good, so that 2 times the number of nodes are enough (`ValidationEnds`). That every node is come to,
  and that no issue means a position for every node (`NoIssues`), are inductions over the tree (`TreeInduction`).
- *The loop of `variation_graph`.* `path_to` of a node is that of its parent and the node (`PathFacts`: after as many
  steps as the tree has nodes the climb has come to the root), so that being below a node is the same as
  having a path that begins with its path (`SubtreePaths`). `Listed` is what holds after n rounds: of two nodes
  that wait on the stack all below the upper one comes first, and what is listed comes before all that waits
  (`InOrder`); parents are listed (`Linked`); and a node within the limits is listed, or below one that waits, or
  comes after a full list, while `truncated` says that one of the subtree is neither (`Complete`). What is below the
  top is below no other node that waits (`BelowTopApart`), so that cutting it off at the depth limit is
  noticed. No node is listed twice, hence the list is done after one round more than the tree has
  nodes (`ListingEnds`).

No smaller invariant is inductive: `HistoryNeverStuck` speaks of the top entries only, and after
an undo the next one is on top; to apply it to the document that the first one produced one has to know that the
two fit together, hence `Line`; and a deletion whose undo brings ids back is sound only while no other node
has got them, hence the next id in `Showing` and `Sound`. `IInv` quantifies over all documents and cannot be
evaluated by TLC; the run `editor_session` checks what it implies.

**Conversions.** For any set of processes, any inputs and targets and any number of
temporary names and chunks, under `BatchAssumption` and `PublishAssumption` (which only give the
constants their types), `ConvertBatchProofs` proves, also for processes that overlap:

- `BatchTypeOK`, by the inductive `Typed`: where a process is in `write_atomic` fits its phase and
  the game it is at, and it writes to a file it has open (`Engaged`);
- `OnlyKilledLeaveTemporaries`, inductive once types are known;
- `ExitCodeTruthful`, by `Ledger`: the counters agree with the targets written and with what is left of the
  input (`Balanced`), and while nothing has failed or been skipped, what is written, in hand and unread
  makes up what was asked for (`Covered`).

The second part assumes `~Overlapping` and proves `PublishedComplete`, `WrittenRemains` and
`NeverOverwritten`. `Sound` adds to these that only one process runs (`Alone`), that two names never
stand for one file (`Distinct`), and that the running process is in charge: its target is
not there, and the temporary it writes holds just what it has written so far. Leftovers of
killed processes may be in the directory throughout. `NeverOverwritten` is an
action property and follows from `Sound` step by step.

**Only model-checked.** The properties of `OxqFile` and `CblFile`: they say what functions on texts,
records and trees compute, so that each would need an induction of its own over the codec, and most hold of the instances' small
alphabets and tables. And liveness, which is beyond the prover.

## Not modelled

- `oxq inspect`, `validate`, `dump`, the JSON output, names of output files, the console's parser and
  renderer: they keep no state, and what they read is read by the modelled `read_oxq` and `read_cbl`.
- The values of CRC-32C and of the hash from which a uuid is derived: both are taken to differ for the
  few things a run compares. That one changed field always changes a CRC is true of
  CRC-32C for short bursts and overwhelmingly likely otherwise.
- The generated Unicode tables beyond the letters, marks and Hangul of `UnicodeText`; the
  algorithms that use them are modelled in full.
- Which error code a codec returns, and the path of an issue.
- That `open_document` accepts a document with equal moves among siblings:
  `NoDuplicateMoves` is about what commands, undo and redo make of a document without them.
- The editor's own documents keep opaque metadata and annotations; their limits are those of
  `GameModel.ValidGame`, and refuse commands, which are stuttering steps.
- `fsync` and power failures: a kill ends a process, the file system stays consistent.
- `MoveTree::restoreNode`, which nothing in the editor calls; build files and scripts.

## Plan

Done: the session with its refinements and proofs down to the inverse data; the host; the walks over trees; the
conversions with their proofs; the OXQ and CBL formats.

What would come next:

1. Console requests over `EditorSession`, with the read-only ones that fill the cache.
2. Two changes at once in `OxqFile.Forge`, and an edit after another program's change in `CblFile`.
3. A conversion that takes its inputs from `CblLibrary` and `OxqCodec` instead of by choice.
