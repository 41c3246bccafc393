# TLA+ models of xcstrings-mcp

`xcstrings-mcp` is an MCP server and a command-line tool over Xcode String
Catalogs (`.xcstrings`). Several server processes, CLI runs, Xcode and people
work on the same files at once, and no process owns them. What has to be right
is therefore less any single function than what the files can hold after the
operations of several actors, their failures and their retries have
interleaved. This directory models that part of the program, checks it with TLC
on small instances, and proves the main results with TLAPS.

Run from this directory: `tlc -workers 2 -config SourceWorkflow_guarded.cfg
MCSourceWorkflow.tla`, `tlapm SourceWorkflowProofs.tla`. `PROJECT.json` lists the
runs, the source lines each definition stands for (`map`), the hazards with the
properties that cover them, and the theorems.

## 1. Inventory

All paths are below `src/src/`.

| Component | State it keeps | Operations | What makes it correct |
|---|---|---|---|
| Guarded file writes (`io/atomic_write.rs`) | lock inodes, the target's `.tmp`, the disk and what of it is durable | `atomic_write`, `atomic_write_if_matches`, `atomic_write_if_inputs_match` | readers never see a mixture; a conditional write replaces only while every compared input still holds; `Ok` survives a power loss; every call returns |
| Paths and reads (`io/fs.rs`) | none | `read`, size and BOM checks, the write entry points | a path resolves to the file that is locked and replaced |
| Workflow planning (`service/workflow*`) | none: pure over catalog and sidecar | freshness, overlay, invalidation, checkpoint, evidence, approval | a leaf counts as ready only against the source it was accepted for; evidence of a source change is kept until resolved |
| Workflow operations (`workflow_operation*`, `tools/workflow.rs`) | the two files | list, get, update context, synchronise, approve | every commit is guarded by all it was planned on; a synchronisation that stops half-way is repaired by the next |
| Submission (`service/submission*`, `tools/translate*`) | the catalog | `submit_translations` | drafts only, for the captured source; a batch is staged as one value |
| XLIFF (`xliff_operation*`, `service/xliff*`, `tools/xliff.rs`) | the catalog, a document and the map of source versions beside it | export, import | an import is whole, changes what the document names and nothing else, and only for the source it was translated from; what is exported can come back |
| Locale and key tools (`tools/manage.rs`, `keys.rs`, `strings.rs`, `plural.rs`, `create.rs`) | the catalog, in-process `write_lock` | add/remove locale, keys, comments, import `.strings`, create | no update of another actor is undone |
| Catalog cache (`tools/mod.rs`, `parse.rs`, `files.rs`) | the parsed files, their times, the active file | `parse`, `resolve_file`, `refresh_after_write` | a cached catalog is the file it is taken for |
| Review queue (`service/workflow/queue.rs`) | none: pages under a `queue_version` | `get_review_queue` | a reader of all pages has seen the whole queue or is told it changed |
| Semantic merge (`service/semantic_merge*`, `merge_operation.rs`) | three inputs, one output | three-way merge with resolutions | nothing changed on one side only is lost; every conflict is resolved explicitly; what is written is what was previewed |
| Glossary (`service/glossary*`, `tools/glossary.rs`, `guidance_operation.rs`) | the glossary file and its revision | get, preview, update, migrate, the report on a translation | an update is applied to the contents its client was told; a report is never falsely clean; rules that are not reported as conflicting can be met |
| Authored context (`service/context*`) | `contexts` of the sidecar | packages, updates | a context edit makes the key's readiness stale; repairing one record depends on no other and changes no other |
| Assessment, coverage (`service/assessment*`, `coverage.rs`) | none | which leaves a locale needs, percentages | the shapes that count are the shapes that are written |
| Format specifiers, plurals (`model/specifier*`, `plural.rs`) | none | compatibility of source and target | a target consumes the source's arguments |
| Legacy migration (`service/migrate.rs`, `strings_parser.rs`, `stringsdict_parser.rs`) | none | texts and plural rules of a project's `.lproj` files to entries of a catalog | what comes in is well-formed, and keys that exist stay as they are |
| Parsing, formatting, reports, prompts, CLI, server shell | none, or buffers | serialisation, text, transport | not state logic, see section 8 |

**How they interact.** A tool request or CLI command reads the catalog, then
the sidecar (`CatalogSnapshot::load`), plans on the two values with pure
functions, and commits through `write_if_inputs_match`, which compares the bytes
of both files once more under `flock`. A synchronisation commits twice: first the
catalog with lowered states, then the sidecar with the checkpoint, the second
write guarded by the catalog the first one left. Locale and key tools skip the
comparison: they hold the server's in-process mutex and call the unconditional
`write`. Editors take no lock at all. A server caches the parsed catalogs by
their identity and trusts an entry while its file's identity and modification
time are those of the entry. The server has one thread and its handlers await
nothing but two mutexes (`main.rs:49`), so the requests of one server run one
after the other; what interleaves is processes.

**What is hard about it.** Interleavings of processes; operations between the two
phases of a synchronisation; two spellings of one file; a writer that dies with
its temporary file on disk; a power loss between rename and directory sync; an
error after the point of no return; versions captured by a client and used
requests later; records of source changes that several checkpoints rebuild.
`hazards` in `PROJECT.json` has them line by line.

## 2. The modules

| Module | Models | Kind |
|---|---|---|
| `FileStore` | paths, physical files, what a request is, which locks it needs and in which order | constants and operators |
| `GuardedStore` | what the `FileStore` trait promises its callers: one atomic step per write | abstract specification |
| `AtomicWrite` | `io/atomic_write.rs` system call by system call | detailed specification |
| `AtomicWriteProofs` | its theorems | proofs |
| `WorkflowPlan` | `service/workflow*`: the plan as operators over two values | constants and operators |
| `AtomicWorkflow` | what the workflow operations promise: each is one step on both files | abstract specification |
| `SourceWorkflow` | the operations of several processes over the two files | specification |
| `SourceWorkflowProofs` | its theorems and those of `ReviewQueue` | proofs |
| `CatalogServer` | one server: the cache with its active file, and every tool that goes through it, one access to the store per step, beside other processes | specification |
| `CatalogServerProofs` | its theorems | proofs |
| `SemanticMerge` | `service/semantic_merge*`: the three-way merge of JSON trees, stated without recursion | constants and operators |
| `MergeEngine` | the recursion of `semantic_merge/engine.rs` itself | operators |
| `MergeSession` | a dry run and an apply over four files that others save | specification |
| `MergeProofs` | its theorems and those of `SemanticMerge` and `MergeEngine` | proofs |
| `LeafPlaces` | the places of a localization's leaves (`model/xcstrings/paths.rs`) and `source_unit` (`service/assessment.rs`) | constants and operators |
| `TranslationTree` | the leaf tree of a localization: `model/xcstrings/paths.rs`, `service/assessment*`, `service/submission*` | constants and operators |
| `LegacyStrings` | what `.strings` and `.stringsdict` files become: `service/migrate.rs` | constants and operators |
| `TranslationTools` | what submissions, approvals, imports, locale and key tools make of it | specification |
| `TreeProofs` | lemmas about `TranslationTree` that several modules rest on | proofs |
| `TranslationProofs` | the theorems of `TranslationTools` and `FormatArguments` | proofs |
| `XliffUnits` | the units of a document: `service/xliff/apple_export.rs`, `apple_import.rs`, `apple_mutation.rs`, `apple_substitutions.rs` | constants and operators |
| `XliffExchange` | exports, the work on a document, imports, and what happens to the catalog in between: `xliff_operation*`, `tools/xliff.rs` | specification |
| `XliffProofs` | its theorems and those of `XliffUnits` | proofs |
| `ReviewQueue` | `service/workflow/queue.rs` and a client that reads the queue page by page, beside all of `SourceWorkflow` | specification |
| `AuthoredContext` | `service/context*`: overlays, bindings of records to a catalog, batches of edits | constants and operators |
| `TerminologyRules` | `service/glossary*`: matching, scopes, exceptions, conflicts, the check of a translation, validation, edits, the legacy map | constants and operators |
| `GlossaryStore` | the glossary file and its clients: `tools/glossary.rs` | specification |
| `Guidance` | reports on translations (`guidance_operation.rs`) and context edits beside a changing catalog, composed with `GlossaryStore` | specification |
| `GuidanceProofs` | its theorems and those of `GlossaryStore` | proofs |
| `FormatArguments` | `model/specifier*`, `validate_translation_formats`: the arguments of a text, and which translations take those of their source | operators, properties |
| `MCAtomicWrite`, `MCSourceWorkflow`, `MCReviewQueue`, `MCCatalogServer`, `MCMergeSession`, `MCTranslationTools`, `MCXliffExchange`, `MCGuidance` | the instances | model checking |

`SourceWorkflow` takes a guarded write as one step. That is what `GuardedStore`
says of it, and `AtomicWrite` is shown to implement `GuardedStore`
(`KeepsPromise`, checked and proved), so the second component rests on the first
by refinement and not by assumption.

### AtomicWrite

State: `disk`, what a reader sees at each physical entry, and `durable`, the
set of bytes a power loss may leave there (`Torn` among them when they had not been synced); `temp`,
the one temporary name per target; `lock`, who holds which lock inode; and per
caller `pc`, `req`, `todo` (the inputs left to compare) and `answer`. `calls` counts
requests against `MaxCalls`.

| Actions | Code |
|---|---|
| `Begin` | the three entry points; an unconditional write has no inputs and expects nothing |
| `OpenLocks`, `RefuseAliases`, `TakeLock`, `AllLocked` | `lock_paths`: the lock inodes compared, an alias refused, `flock` in the order of the inodes |
| `CompareInput`, `InputConflict`, `InputsCompared` | comparison of the other inputs, before the target |
| `CleanupOrphan`, `CompareTarget`, `TargetConflict` | removal of a dead writer's temporary file and the last comparison |
| `CreateTemp`, `WriteTemp`, `SyncTemp`, `Replace`, `SyncDirectory`, `ReturnOk` | the replacement, one system call each |
| `FailEarly`, `FailLate`, `Discard` | an I/O error before or after the rename and the clean-up on the way out |
| `Crash`, `PowerLoss` | a process dies and the kernel drops its locks; the machine stops and the disk becomes what was durable, with replacements not yet durable chosen either way |
| `ExternalEdit` | an editor that takes no lock |

Paths may be two spellings of one entry (`Entry`), which is how a
case-insensitive volume or a link looks to the code.

### WorkflowPlan and SourceWorkflow

State: `catalog` (per key a source and at most one leaf), `sidecar` (whether
tracking is initialised, baselines, review records, contexts), and per worker the
`job`: how far it has come and the two values it has read. `latest` is history,
written by no code: the source snapshot for which a leaf's present text was last
accepted. `edits` counts editor saves against `MaxEdits`.

Each operation is `LoadCatalog`, `LoadSidecar`, then one commit action:
`Approve`, `Submit`, `Import`, `UpdateContext`, or `Synchronize` followed by
`WriteCheckpoint`. A batch is any nonempty assignment of requests to keys.
`Abandon` stands for every way not to commit: rejected, dry run, guard failed,
process dead, including between the two phases. `AddLocale` is a locale tool's
unconditional write of what it read. `DeveloperEdit` is Xcode or a person, and
also what a key tool does to a source.

`AtomicWorkflow` has the same operations without jobs: each is one step on the two files as
they are, with the guards a reader of the documentation would expect (approval of current drafts,
ready imports only where the checkpoint is current, a checkpoint only where nothing ready is left to be
lowered). `ActsAtomically` says that `SourceWorkflow` implements it, with `catalog`, `sidecar` and `edits` mapped
to themselves: reads and `Abandon` are stuttering steps, `Synchronize` is `Lower` or
stutters, `WriteCheckpoint` is `TakeCheckpoint`. It does not say that a synchronisation is one
step, because it is not one. With unguarded tools it is false, and is neither checked nor proved then.

Abstractions, each harmless to the properties:

- one locale and one leaf per key: leaves are planned independently of each
  other except through the checkpoint, which is per key; two keys show that;
- a source snapshot is the pair of source and context; versions are hashes in
  the code and compare here as the values themselves;
- texts, contexts and sources are model values, states are the five native ones
  the code tells apart; requests the validation would refuse for their text are
  among those `Abandon` covers;
- sources that are not translatable, and states the catalog format does not
  name, are left out.

### CatalogServer

State: the disk as a server sees it (`target`, where each alias leads; `file`, content and
modification time of each catalog; `clock`, the last time given), the
`FileCache` (`cache` by identity, `active`), and `call`, the request being handled
with what the handler holds in its local variables and the accesses it still has
`todo`.

A handler is the sequence of its accesses to the store and the cache. The
sequences are operators named after the handlers (`Parse`, `KeyTool`, `Guarded`,
`SyncSource`, `Merge`, ...), and `Program` gives each tool its own:

| Actions | Code |
|---|---|
| `Begin` | a request with a path, or without one when there is an active entry (`resolve_path`, `resolve_file`) |
| `Load` | `CatalogSnapshot::load`, and the second load of a synchronisation |
| `ReadPath`, `Probe`, `Vacant` | `store.read`; a file that may be absent; the check of `create_xcstrings` |
| `CheckIdentity`, `ServeCached`, `ServeFresh` | `resolve_file` without a path: identity, then time, then the entry or a fresh read |
| `Stat`, `InsertPath` | the modification time, then the identity and `FileCache::insert` |
| `InsertLoaded`, `Evict` | `resolve_read_snapshot` and `refresh_after_write` |
| `Write`, `Commit`, `Replace` | the unconditional write, `write_if_inputs_match`, `write_if_matches` |
| `Update` | `replace_if_cached` |
| `Fail` | every early return: an error, a rejection, a conflict, a dry run, nothing to do |
| `OutsideSave`, `Redirect` | other processes and people |

Two switches say what the environment may do. `Interrupts`: whether others act
between the steps of a request or only between requests. `FineTimes`: whether
every save gets a new modification time. A catalog is a member of a small set, of
which the model knows the source language and nothing else. A restart of the
server is `Init`. Files are not deleted, and an alias leads to a file that
exists. Tools that only read the disk or the cache and change neither
(`list_files`, `get_diff`, `discover_files`, exports, the review queue) are left out, and so is
`update_context`, which touches neither the cache nor a catalog.

### SemanticMerge, MergeEngine and MergeSession

A catalog is a function from the pointers of a tree to what stands there: an
object, an atom or nothing. `MergeEngine` is the code's recursion, operator by
operator (`MergeRoot`, `MergeObject`, `MergeNode`, `ResolveConflict`), tied into a
function from places to results (`Engine`). That the recursion ends is
`DepthAssumption`: a parsed document has a deepest place. `SemanticMerge`
states the same merge without recursion: the engine goes on below a pointer while
it `Descends`, and answers for the whole subtree at the first pointers that do
not (`Settled`); `Merge` gives every place below a settled pointer the value of
the `Side` that wins there. `EngineAgrees` says that the two are one function,
and everything else is about `SemanticMerge`.

`MergeSession` has the four files, the `request` in progress with what it has
`seen` so far, and the last `preview`. `Call` starts a dry run or an apply with
any resolutions of conflicts that the preview showed; `ReadBase`, `ReadCurrent`,
`ReadIncoming`, `LookForOutput`, `ReadOutput` and `NotFound` are the reads in
their order; `Report` ends a dry run; `Accept` and `Reject` are the checks of an
apply (fingerprints, languages, unused and missing resolutions, introduced
errors); `Replace`, `Conflict` and `WriteFails` the guarded write, one step as
`GuardedStore` promises. `Save` is everybody else, at any moment.

Left out: the order of keys, the pages of the report, the typed parse that
refuses a current catalog or a result outside the known schema, and the shape of the paths. What
`validate_file` objects to is a constant, `Errors`; nothing is assumed of it.

### TranslationTree and TranslationTools

`SourceWorkflow` has one leaf per key, and asks which source it is for.
`TranslationTools` has the whole tree of leaves of a locale and asks what a
batch of requests makes of it. A localization is a function from *places*
(`LeafPlaces`) to units. A place says where a path ends: `at` the root, a device or a
substitution, and `plural`, a category below that or `Whole`. These are the
paths `validate_supported_path` allows, and one it does not
(`device.other` with plurals), so that the refusals are there too.

| Operators | Code |
|---|---|
| `Faults`, `ReferencesHold`, `WellFormed` | `collect_leaves`, `validate_substitution_references`, `shape_diagnostics` |
| `RequiredShape`, `InitialLocale` | `required_shape`, `initialize_locale` |
| `Basis`, `Advertised`, `Clean`, `Complete` | `assess` and `complete`: the leaves that `get_untranslated`, `get_plurals` and `get_key` list, and what coverage counts |
| `SourceUnit`, `SourceText`, `FormatHolds` | `source_unit`, `validate_translation_formats` |
| `NeedsShape`, `StagedOn`, `Writable`, `Put`, `CanStage`, `Staged` | `prepare_entry` with `ensure_node` |
| `Overlapping`, `HasParent` | `overlapping_paths`, `has_parent` |
| `FromText`, `FromSimple`, `FromComplex`, `LegacyEntry` (`LegacyStrings`) | `build_stringsdict_localization`, `build_substitutions`, `build_xcstrings_from_legacy` |

State of `TranslationTools`: the `catalog` in the file, and the submission in
progress: its `batch`, whether it is `strict` (`continue_on_error: false`), the
requests `todo` and `done`, and the `work` copy they are merged into. `Submit`
is normalisation and validation of all requests against the catalog as read;
`Merge` and `MergeFails` are `merge_translations`, request by request; `Save` and
`Discard` the end of the handler. `Approve`, `AddLocale`, `RemoveLocale`,
`DeleteTranslations`, `AddKeys`, `ImportStrings`, `DeleteKeys` and `RenameKey` are the other
tools, one step each, `DeveloperEdit` and `SourceEdit` what people do between
them. `MaxKeys` bounds the keys present.

Abstractions: whether a text takes the format arguments of another is the
relation `Compatible`, the substitutions it refers to are `References`, both
constants of which the proofs assume only that a text refers to names; the
instance takes them from `FormatArguments`. Substitutions have valid metadata.
Axes and substitutions exist when they have a leaf, so empty maps and axes the
format does not name are left out. `machine_translated` is `translated` here,
which the code treats alike, and `stale` and unknown states are left out.
`prepare` runs a second time in `merge_translations` on requests it has already
let pass, and does nothing. Source versions and the file as others see it are
the subject of `SourceWorkflow`.

`ImportStrings` merges legacy files into a catalog that is there: a key the catalog has
is skipped with all its translations, and the language the caller names decides
which texts count as sources without becoming the catalog's source language. What
the parsers deliver is the assumption `IsLegacy`; a text whose specifier has become
`%arg` is `Argument`, a constant. A substitution made from a rule gets its `argNum`
from the order of the dictionary (`service/migrate.rs:62`), not from the positions in the format; metadata is
left out here, and with it what a wrong number would do. Submitting to, approving and
listing what was imported is checked with everything else in `tree`.

### XliffUnits and XliffExchange

`XliffUnits` continues `TranslationTree`: a localization is the same function
from places to units. A unit of a document names a key and a place and holds
the source text, a target, if there is one, and a state in XLIFF's words.

| Operators | Code |
|---|---|
| `SourceLeaf`, `XliffSource`, `ExportPlaces`, `CanExport`, `ExportUnits` | `source_leaf`, `source_text`, `export_paths`, `export_xliff_with_keys` |
| `Outward`, `Inward` | `export_text` and `import_text`: what a text looks like in a document and in the catalog |
| `UnitHolds`, `SourceMatches`, `OneUnitPerPlace`, `PlacesApart`, `MetadataHolds`, `FormatMatches`, `Plannable` | `plan_import` up to the candidate: `validate_source`, `overlapping`, `gather`, `validate_format` |
| `Reaches`, `TemplateOf`, `Brought`, `CanImport`, `Imported` | `apply` with `ensure_node` and `ensure_variation` |

State of `XliffExchange`: `catalog`, the sidecar's `contexts` and `baseline`;
the document `xml`, the map `versions` that lies beside it, the `job` under way,
and counters of `exports`, `edits` and `answers`.

| Actions | Code |
|---|---|
| `ExportVersions`, `WriteXml`, `XmlNotWritten` | `save_export_bundle`: the map, then the document if nobody has replaced it meanwhile; the second write may be refused, fail or never come |
| `ExportTool` | `export_xliff`: the document alone, and the map as an answer that its caller saves |
| `BeginImport`, `Apply`, `Commit`, `Decline` | `plan_import` up to the candidate, the units one by one in any order, the checks of the candidate and of the versions with the write, and every way not to write |
| `Translate` | a translator answers a unit, adds a second answer, drops the unit or the source text in it |
| `DeveloperEdit`, `SourceEdit`, `UpdateContext`, `Synchronize` | the catalog and the sidecar move on, also between the two writes of an export |

`xml.captured` is history that no file holds: the versions of the sources the document was really
made from. The map in `versions` may be another export's.

Abstractions: unit ids are unique and resolve to the key and place they were
made of, a document has one original, and the XML is well-formed. Whether a
text takes the arguments of another is `Compatible`, as in `TranslationTree`.
State qualifiers are left out, with which `machine_translated` is told from
`translated`, and so are the spellings of states that are treated alike. An
import writes what it has read; its guard against others is `Import` of
`SourceWorkflow`. A synchronisation is one step here.

### ReviewQueue

The rows of a queue, with the reasons for each and the filter, are operators over
the two files (`Reasons`, `Shown`, `Queue`, `QueueVersion`); `Queue` is the loop over the
destinations in their order, which appends a row where there is a reason. `reader` is a client: it asks
(`Ask`), and each page is a request of its own that reads the catalog
(`ReadCatalog`) and then the sidecar (`Fetch`), so that a page may be computed
from a pair of files that never stood side by side. Later pages name the version
of the first; a mismatch makes the reader start again (`Restart`). Everything
that `SourceWorkflow` does happens in between. Versions are hashes in the code and
compare here as what they are computed from.

### TerminologyRules, GlossaryStore, AuthoredContext and Guidance

A text is a sequence of *segments*, the pieces at which a form can begin or end;
`Breaks` end a word, `Specifiers` are masked before matching. A document is a
function from ids to terms.

| Operators | Code |
|---|---|
| `occurrences`, `Boundary`, `prose`, `needs_tailoring` | `service/glossary/matching.rs` |
| `scope_match`, `Granted`, `applicable` | scopes and exceptions: yes, no, or not known yet |
| `Hidden`, `conflicting`, `relevant_terms`, `Conflicts` | longer rules before shorter ones, rules that cannot both be met |
| `evaluated`, `Broken`, `Unevaluated`, `check_terminology` | the issues of a translation |
| `apply_glossary_edit`, `legacy_upsert`, `LegacyIdentityCollision`, `Entry`, `omitted_term_ids` | edits, and the adapter between rules and the old map from source to translation |
| `overlay`, `resolve_context`, `validate_context_bindings`, `apply_context_edits`, `Edited` (`AuthoredContext`) | `service/context/authored.rs`, `validation.rs` |
| `Expanded`, `HasIssue`, `observe_variables` (`AuthoredContext`) | `observe_variables` in `service/context/package.rs` |
| `Resolving` (`AuthoredContext`), `SourcePlaces` (`LeafPlaces`) | `source_unit`: the leaf of the source that stands for a path, with its fallbacks |

State of `GlossaryStore`: `policy`, the file (absent, unusable, the legacy map or
rules); what revision each client was told last (`known`); the apply that is
between its load and its write (`session`), and `edits`, bounded by `MaxEdits`.
`get_glossary`, `Preview`, `Load`, `Write` and `Fail` are the handlers, with one
lock per server; `EditFile` is a person. A write may take effect and its answer be
lost. `Guidance` adds `catalog`, which `ChangeCatalog` changes under the records,
`authored`, the records of the sidecar, `editing`, the context edit each client has
under way, and `report`. An edit is three steps, as `handle_update_context` goes about it under
the lock of its server: it reads the catalog (`ReadCatalog`), reads the records and computes the
new ones or what it rejects (`ApplyEdits`), and replaces them if the bytes of both files
are still those (`WriteContexts`), or it ends without a write (`EndEdit`). That a client names
the revisions of what the server reads is part of `ApplyEdits`: a dry run tells them, also of edits that are
rejected, and an edit that names others ends. Between the steps the
catalog changes and another server's edits go on. `report` is the
answer that somebody is reading (`Report`, `Read`), made from one snapshot. The
glossary and the sidecar are two files and no operation writes both, so a behaviour
moves one of them (`GlossaryUntouched`, `ContextsUntouched`): a bound, which
`StoreKept` shows to lose nothing of what is proved of the store.

Abstractions: Unicode normalisation and the segmentation of words happen before
the model's texts; an issue is the id of its rule; unknown fields of scopes and
exceptions are one Boolean, `extra`. A path in a record is a place, a text in an entry is
one of `FormatArguments`, whose `Logical` and `Observed` are the `observed_format_arguments` that
`observe_variables` calls: mixed, conflicting and zero positions are issues there as in the code. `Unparsed` is
a text whose references to substitutions cannot be read. A substitution is in `substitutions` when its
metadata is valid; one that is not is an unknown one for every text. A batch is a function of keys, as one that addresses a key
twice is rejected. Of the fields of a record, screen, role, variables and neighbours are modelled; purposes,
screenshots and the meanings of variables, which are validated without a look at the catalog, are not. Bytes compare as what they stand for.

### FormatArguments

A text is the sequence of the format specifiers in it, as `parse_candidate` delivers
them: position, flags, width, precision, length modifier, conversion, what follows,
and the references to substitutions. `Occurrences` gives every specifier its
arguments in turn or by position, `compare_formats` compares two texts,
`expand_references` puts the arguments of substitutions in, `TakesArguments` is
`validate_translation_formats` for one leaf. `Wants`, `Reads`, `Prints` and `Printed` are
written from the other side: what the runtime reads and shows when it prints a
text. They use nothing of the comparison but the types of conversions. `Reads` joins what
the specifiers read to one list; there an argument without a position is simply the place of
its read, where the code counts `NextPosition`. Nothing undefined prints, a reference without
its substitution among them.
`compared` holds the source text that the run compares with every translation, in
states of its own beside an empty catalog (`MCTranslationTools`).

## 3. The runs

| Run | Asks | Instance | Size |
|---|---|---|---|
| `store` | do the locks, comparisons, syncs and clean-ups together keep the trait's promise, with crashes, power losses and I/O errors? Can processes wait for one another in a circle? | two physical files under three spellings, two contents, two callers, conditional and unconditional requests in both roles, one call each | 226,798 states |
| `fair` | does every call return, when two callers lock the same files in opposite roles or under two spellings and an editor saves them? | the requests that conflict, editor saves, crashes, I/O errors, one call each | 437,630 |
| `guarded` | can a half-finished synchronisation, a context edit or an approval by another process make a translation count for a source it was not made for? Does evidence keep its first origin? Does each operation act as if it had happened at once? | one key, two contexts, two texts, two workers, one editor save | 927,566 |
| `tools` | from every state reachable with unguarded tools, does one synchronisation reach a fixed point? Does evidence for one key survive the checkpoints made for another? | two keys, stale states, one worker, two saves | 498,548 |
| `quiet` | is a cache hit what the file holds? Does `remove_locale` keep the source locale? Does the cache keep one entry per path, and the active file its place? | two files, an alias, two contents in two languages, others act between requests, three saves with times of their own | 833,192 |
| `merge` | does the recursion over subtrees come to a three-way merge of single values? Is what is written the merge its caller saw? | two bases with six and four variants on either side, 17 pointers, two outputs, one save by others at any moment | 239,354 |
| `tree` | is what a batch has accepted written whole, and nothing else? Can every leaf that is listed be submitted, and does the list stay the same while one works through it? Can a batch, an approval or a new locale bring in a diagnostic? Is a translation accepted just when it prints what its source prints? | one key, one locale with two categories, a device with its default, one substitution, five shapes of source, twelve requests alone and in pairs, six imports; every text of two of 22 specifiers and of three of seven of them, each against each | 781,878 |
| `exchange` | is an import whole, whatever order its units come in? Does it change nothing else? Can a map of one export vouch for a document of another? Can what is exported come back? | one key, one locale with two categories, a device with its default and a substitution, twelve entries, two exports, one edit, one answer of a translator | 375,403 |
| `queue` | has a reader of all pages seen one whole queue, whatever others do between its reads? Is an empty queue the end of the work? | two keys, pages of one row, with and without a filter, one worker with every operation, unguarded tools, one save | 937,552 |
| `guidance` | is a rule ever overwritten unseen? Does an entry that was put read back? Is a report falsely clean while the screen or role of a leaf is not known? Can rules that are not reported as conflicting be met? Is an edit of contexts refused for stale records of other keys? Does it leave them alone, and fit the catalog it is written beside? | two clients of two servers, five edits, the legacy map and an unusable file, one save; every glossary of seven rules against sixteen translations; two keys, seven records, twelve batches, catalogs of six kinds of entries | 632,843 |
| `evidence`, `damaged` | two statements of the documentation that the code does not keep, see section 6 | minimal instances; one export and no edit for `damaged` | violated |

**Why the bounds are enough.** In `AtomicWrite` the conflicts are between pairs of
callers and pairs of entries; a third spelling gives the alias cases, and one
call per caller covers a dead writer's leftovers because a crashed caller's
temporary file meets the other caller. The proofs remove the bounds for every
property but `EveryCallReturns`. In `SourceWorkflow` a hazard needs one operation caught
between its load and its commit and another that overtakes it: two workers. A
source change, the draft made for it and a second change need the two sources
and a context; a record that must survive needs a second key. `ReadyIsAccepted`
is proved without bounds. `edits` is the only counter; workers repeat operations
without limit. In `CatalogServer` a redirection needs one alias and two files,
equal times need two contents, and a stale entry one save after it was made; the third save
lets a second request meet what the first one left. `clock` is the only counter,
bounded by `MaxSaves`. Its theorems remove all of these bounds but
that one, which is any natural number; `SourceLocaleKept` is proved with the rest. The triples of `merge` have every case of
`merge_node` somewhere in the tree: the same edit on both sides, an edit on one,
a deletion or an addition against an edit, an atomic node that differs three ways,
a language that differs, and two edits that are valid alone and invalid together. One save is enough to make
any one read differ from the preview. The theorems hold for every tree, every
set of drafts and any number of saves. The places of `tree` have every relation between two paths
that `overlapping_paths` and `ensure_node` tell apart: equal, above, two
categories, two devices, a category beside a device, a substitution beside its parent. A batch of two is
enough for any clash, because clashes and displacements are between pairs of requests;
`MaxKeys = 1` with two names gives renaming, and keys do not meet otherwise.
The imports have a text, a rule that is a simple plural and one that is not in the source, in the translation
and in both, and files whose language is not the catalog's.
The theorems about batches hold for every length, every set of places and any number of keys.
In `exchange` it takes two exports to have a map beside a document it was not made
with, one edit to part the document from the catalog, and one answer that is not the
exported text; more of each repeat what one does, since an import reads nothing but
the files there are. The entries have every kind of source and target shape that
`ensure_node` tells apart, among them targets shaped otherwise than their source,
and one key is enough because units of two keys have nothing in common but the commit.

The reader of `queue` needs a filter that shows less than the whole queue, a page
that is not the last, and one change between two pages or between the two reads
of a page; workers change the files without limit. The theorems hold for any number of
keys, any page size and any number of workers. In `guidance` two rules are
enough for a conflict and three for a rule hidden by one of a conflicting pair; the seven have every
kind of scope, exception, prohibition and spelling that the check tells apart.
For context edits, the entries have a source text with a substitution, plurals and devices that only fallbacks
reach, no source, a substitution without metadata, a text that mixes its arguments and one that cannot be read. The
catalog changes beside one edit at a time and at most once while it is under way, and no edit begins beside one that it has overtaken: the write
compares contents, and a second change could only bring the first contents back. `RepairsStayExact` uses none of this.
Two clients of two servers are enough for an update to be overtaken; one editor save brings in
the legacy map or a broken file at any moment. The theorems remove these bounds. The specifiers compared in `tree` have every way in which a
specifier gets its arguments, types that are equal and different, prose such as
`50% off`, an invalid position and an unknown combination; three in a row are what
it takes to skip a position or to repeat one.

`CHECK_DEADLOCK FALSE` appears in the `AtomicWrite` and `XliffExchange` runs only: there the actors
really stop, when `MaxCalls`, or `MaxExports`, `MaxEdits` and `MaxAnswers`, are used up. The other
specifications are checked for deadlock.
Symmetry is over texts, sources, contexts, workers and clients, and no run that uses it
has a liveness property.

`fair` leaves out `KeepsPromise` on purpose: a
comparison under an advisory lock says nothing about someone who does not take
it. What does hold with editors, that no reader sees a mixture and no caller publishes
another's bytes, is proved without the assumption (`TornFree`, `OwnContent`). In `SourceWorkflow` an editor's save is
likewise never inside the window between comparison and rename, which the code cannot
close either.

## 4. Fairness

`FairSpec` of `AtomicWrite` has weak fairness of each caller's own step and no
more: the operating system keeps running a process that can run, and an `flock`
that stays free is granted. It is weak, not strong: a caller waiting for a lock
needs no fairness among waiters, because each caller has finitely many calls. There is no fairness of
crashes, editors, I/O errors or new calls: failing is always optional, so a call that
returns does not owe it to an error. No other property assumes fairness.

## 5. What is proved

All theorems hold for every value of the constants under the named assumptions
of the modules (`ASSUME` in `FileStore`, `AtomicWrite`, `WorkflowPlan`,
`SourceWorkflow`, `CatalogServer`, `SemanticMerge`, `MergeEngine`, `MergeSession`, `LeafPlaces`, `TranslationTree`, `LegacyStrings`, `TranslationTools`, `XliffUnits`, `XliffExchange`, `ReviewQueue`, `TerminologyRules`, `GlossaryStore`, `Guidance`, `FormatArguments`; TLC evaluates them in each run).

**AtomicWriteProofs.** The invariant `IInv` is `TypeOK`, `SafeBytes` (nothing
visible or promised durable is torn) and per caller `ProcessOK`: what each program
counter means for the request (`CallOK`), that a caller past the locks holds all
of its locks and no other caller does (`LocksOK`), that the temporary file of a
target holds exactly the bytes its writer has put there (`TempOK`), and, without
editors, that each input compared so far still has the expected content
(`GuardOK`). The safety properties are not inductive by themselves: `NeverTorn`
needs to know that the temporary file was synced, which needs to know nobody
else could have written to it, which is the locks.

`NoCircularWait` is the part of `EveryCallReturns` that a theorem can state: every set of
processes has one that waits for none of them, and who is waited for is in a call. `LockInv` says that every lock a
process holds comes before those it wants, and that one that has not reached the lock loop, or has left the call, holds
none. In a circle each wanted lock would then be below the next, so the theorem needs the
identities of the files to be bounded, as inode numbers are: in an endless row of files each
process could wait for the next.

| Theorem | Says |
|---|---|
| `Invariance` | `IInv` is inductive |
| `TypeCorrect`, `TornFree`, `OwnContent` | `TypeOK`, `NeverTorn`, `PublishesOwnContent` always hold |
| `NobodyWaitsInACircle` | `NoCircularWait` always holds, with editors, failures and crashes |
| `GuardedReplace` | without editors, every input of a conditional write holds at the rename |
| `StoreImplements` | without editors, `AtomicWrite` implements `GuardedStore` |

**SourceWorkflowProofs.** The invariant has two layers. `WellTyped` holds whatever tools run: `TypeOK`
and, per worker, what a job that has read both files may assume (`JobRead`) and what a job between the
two phases has planned (`JobPlanned`): its checkpoint is needed, after a review its candidate has no
ready leaf left to be lowered, and only the first checkpoint adopts. `IInv` adds per key
`AcceptedAt`: a ready leaf that has a baseline was
last accepted for exactly that baseline. `AcceptedAt` is stronger than
`ReadyIsAccepted`: it speaks of baselines the source has already moved away
from. It is what remains true while a synchronisation is half done, and what
makes the property come back when an editor restores an old source. An unguarded tool breaks
it: what it writes back may be a ready leaf that was changed since, whose acceptance went with
the change.

| Theorem | Says |
|---|---|
| `Invariance` | without unguarded tools, the invariant is inductive |
| `ReadyAccepted` | without unguarded tools, `ReadyIsAccepted` always holds |
| `WorkflowActsAtomically` | without unguarded tools, `SourceWorkflow` implements `AtomicWorkflow` |
| `TypeCorrect`, `SyncAlwaysRepairs` | `TypeOK` and `SyncRepairs` always hold, with every tool |
| `EarliestOriginStays` | no step violates `EarliestOriginKept`, with every tool |
| `EvidenceAlwaysSurvives` | `EvidenceSurvives` always holds without unguarded tools, and with them for one worker |
| `PagesAreTheQueue` | `PagesMakeTheQueue` always holds of `QueueSpec`, with every tool |
| `EmptyQueueMeansDone` | `EmptyQueueIsDone` always holds of `QueueSpec`, with every tool |

`SyncRepairs` is a fact about the plan of any two well-formed files: after the lowering
nothing more is to be lowered, and the checkpoint made of its own result is itself.
`EvidenceSurvives`
is not inductive: it speaks of keys whose source is the checkpoint's. `EvidenceInv` says the same of a
draft whatever its source is by now, which is what holds while a source has moved on
and the next checkpoint has not been made, and that a leaf accepted for another source than the
checkpoint's is not ready; for a tool, it says so of the catalog the tool has read and will write back
(`EvidenceHeld`). With the tools the theorem is for a worker that is alone, as in the run `tools`. With two it is
false: the tool of one takes a draft away by writing back an older catalog, a checkpoint
drops its record, and the tool of the other, which still holds the catalog with the draft, brings it back.

`WorkflowActsAtomically` needs `JobPlanned` in one place. A checkpoint is planned before the catalog is lowered
and written after it. That it is the one the files then ask for rests on the second comparison
of both files, and on lowering neither taking away the reason for the checkpoint (`StillNeeded`) nor leaving
a ready leaf that asks for review (`LoweringCompletes`).

The two theorems about the queue rest on what the loop that makes it returns: its rows are
those of the keys that have a reason, in the order of the keys and each once
(`QueueFacts`). `ReaderInv` then says that the pages a reader holds, put
together, are the beginning of a queue of the version the reader keeps, up to its offset
(`Versioned`). A page that has the version of the first continues it, because
the version determines the queue (`NextPage`), whatever the pair of files it was read from.
That an empty queue means that nothing is left needs no invariant of the files: every leaf that
is not accepted for the source as it is has a reason (`NoRowIsDone`).

**CatalogServerProofs.** `OneEntryPerPath` needs only that the cache is a function
on the files. Types need to know what a handler has got when it comes to a step:
`CallOK` says that the rest of a request is a *plan*, a sequence in which each
access is followed by one that follows it in some handler (`Follows`), and that
its first step finds the identity, the catalog or the active entry it uses.
Lemmas show that the handlers' sequences are plans and that tails and
concatenations of plans are plans. `HitIsFresh` is not inductive: an entry is
fresh because the request that made it held the file's content and time, so `FreshInv`
adds that what a request is about to insert is what the file holds
(`CallFresh`), that an entry with its file's time has its file's content
(`CacheFresh`), and that no time lies ahead of the clock (`TimesBounded`), so
that a save cannot give a file the time of an old entry. `ActiveIsKept` rests on
`KeptInv`: a request without a path works on the path of the active entry until it
ends, and what is left of a merge is one of four sequences, none of which makes an
entry active. `SourceLocaleKept` adds `RemoveOK` to `FreshInv`: when `remove_locale` is about to
read the catalog it will change, what `resolve_file` gave it is what the file holds, and
when it is about to write, the two are the same. A hit has that from `HitIsFresh`, a miss from
its own read.

| Theorem | Says |
|---|---|
| `TypeCorrect`, `PathsDistinct` | `TypeOK` and `OneEntryPerPath` always hold, whatever others do |
| `ActiveKept` | no step violates `ActiveIsKept`, whatever others do |
| `HitsFresh` | without `Interrupts` and with `FineTimes`, `HitIsFresh` always holds |
| `SourceLocaleStays` | under the same two assumptions, no step violates `SourceLocaleKept` |

**MergeProofs.** The central lemma is `MergeIsPointwise`: outside conflicts, the
merged tree has at every place the value a three-way merge of that place alone
would give. It rests on two facts about `Settled`: the settled pointers above a
place are at most one, and where there is none all three catalogs hold an
object. From it follow `MergedIsACatalog` (only objects have fields, also in the
result), `AtomicIsWhole`, `SwappedMerge` and `MergedAgain` about any three
catalogs. `IInv` of the session is `TypeOK` with `SeenOK`: by which step which
role has been read, and that a request about to write was found to be fresh,
mergeable, resolved and without new errors. `EngineMerges` goes up the tree from the
deepest place: what the recursion returns for a place is the part of `Merge` below it, if
that is so for its fields, because a place below is settled at a field or below one.

| Theorem | Says |
|---|---|
| `SessionInvariant` | `IInv` is inductive |
| `SessionTypes`, `SessionPlaces`, `SessionOrder` | `TypeOK`, `PlacesMergeThreeWay`, `OrderDoesNotMatter` always hold |
| `EngineMerges` | for any three catalogs and any resolutions, the recursion builds `Merge` and reports the conflicts of `SemanticMerge` |
| `SessionEngine` | `EngineAgrees` always holds |
| `AppliesThePreview`, `AddsNoError`, `EditsAreKept` | no step violates `AppliesWhatWasPreviewed`, `NoErrorIntroduced`, `InPlaceKeepsEdits` |

**TranslationProofs.** `TypeInv` is `TypeOK` with `BatchOK`: the requests of a
batch that are merged or to be merged are those planned against the catalog, and
the work copy has its keys and at least its locales. `AcceptedIsWritten` is then
inductive. `PlannedApart` is why: two planned requests for one localization
name no place of one another, and neither has to clear the node above the other's.
`OnlyAcceptedIsWritten` is inductive too, but only because a unit is added
where nothing was asked for in one case, a locale that did not exist
(`MergeTouches`); otherwise an empty new unit could be taken away by one
request and come back different with another. `SubmitStaysClean` and `ListStands` need
`CleanInv`: where the catalog has no diagnostic for a locale, the work copy has none either,
and lists the same leaves as long as the batch asks only for listed ones. It rests on
`TreeProofs`, which follow one staged request through the shape of a tree: what `Put` does to
the node above, to the axes beside it, and to the references between texts and substitutions. The list
stands because the shape of a locale is closed under its own categories: the leaves it asks
for, once they are there, ask for no others.

`ListedCanBeSubmitted` needs only that catalogs are made of localizations. A listed place of a locale that is there has no
node above it and beside it no other axis, so `ensure_node` comes to it (`ListedWritable`), and one
more text leaves the references of the others as they were (`PutReferences`). Where the
locale is missing, the part that is asked for brings the shape of the source with it, and what
that shape refers to is completed by the new text (`MissingStart`).

`FormatsKept` has the argument in its lemmas and next to none in the steps. References are put in
first (`ExpandedFacts`), and what can be accepted can be read to its end, as what can be
printed can (`AcceptedReadable`). Then the place of a specifier's reads in the joined list and the
argument the code has counted up to there are one number (`TextFacts`), so that the types
registered are those read (`RegisteredFacts`), positions of one kind and without a gap mean the same on
both sides (`MixedFacts`, `NoGap`), and two specifiers occur alike just when they look alike
(`SameShape`). What tells the members of two lists apart in the same way counts them alike
(`BagsAgree`). The assumption on a text is what `parse_candidate` delivers: a part is dynamic
just when it is written `*`, has at most one position, and references have no dynamic parts.

| Theorem | Says |
|---|---|
| `TypeCorrect` | `TypeOK` always holds |
| `AcceptedStays`, `OnlyAcceptedChanges` | `AcceptedIsWritten` and `OnlyAcceptedIsWritten` always hold |
| `StrictIsWhole` | no step violates `StrictBatchIsWhole` |
| `BatchesStayClean` | no step violates `SubmitStaysClean` |
| `ListsStand` | no step violates `ListStands` |
| `ListedAlwaysSubmittable` | `ListedCanBeSubmitted` always holds |
| `FormatsKept` | `FormatsAreKept` always holds of `FormatsSpec` |

**XliffProofs.** `IInv` is `TypeOK` with the fields of entries, and three facts about
what lies between the steps of an exchange. `DocumentsOK`: the source texts in a document
are those of the versions it was made of, whatever a translator does to it; an export shows the
same texts as the snapshot of the source does, since a source text depends only on
the places and texts of the source (`SameSource`, `VersionSource`). `PlanOK`: during an import
the checks of its units still hold of the catalog. `WorkOK`: units that have been applied
stand in the candidate as the document says, and any other place is as in the
catalog, or has lost an empty new unit or gained a new one. `WorkOK` is inductive because of
`OneUnitPerPlace` and `PlacesApart`: no unit of the document can displace another, in any order
(`ImportTouches`). `TranslatedFromThisSource` then needs that `Outward` applied twice is
`Outward` applied once, an assumption about `export_text`, which writes positions where there
are none. `OtherImportsStayClean` is finding 2 from the other side. `ShapeOK` says
of the candidate, as far as it has come, that a locale without diagnostics still has only supported
places and mixes no axes, unless a root unit was brought beside a variation in the way
of finding 2 (`RootBrought`).

`ExportsComeBack` follows one document through an import that has not been made. `Coming` says
of the localizations after the first few of its units: the locale stands at exported
places only, as long as no unit of a substitution has come; its substitutions are those of the
source; and it refers to none but them, to all of them once it exists or a unit outside
substitutions has come. Each next unit then finds its place free of other axes and has the
source to start from where it needs one (`NextComes`). A locale that is new gets a unit
outside substitutions, because nothing is filtered out of it (`NewHasOutside`); that is why the last
candidate refers to all it has. Units outside substitutions come first in a document, since an
export sorts them by their ids and `device` and `plural` come before `substitutions` (`InOrder`).

| Theorem | Says |
|---|---|
| `Invariance` | `IInv` is inductive |
| `TypeCorrect` | `TypeOK` always holds |
| `OthersStayClean` | no step violates `OtherImportsStayClean` |
| `ImportsAreExact`, `SourceIsTheOneTranslated` | no step violates `ImportIsExact` and `TranslatedFromThisSource` |
| `ExportsComeBack` | `ExportCanBeImported` always holds |

**GuidanceProofs.** `IInv` adds to `TypeOK` of `GlossaryStore` that the file holds
terms with all their fields (`FileOK`), without which an edit of one field says
nothing about the others. `EntriesReadBackAlways` then follows from two facts about
documents: what the adapter puts stands for its entry and nothing else
(`PutReadsBack`), and the entries of places that an edit does not address are made
of the same rules before and after (`OthersReadAsBefore`). `NeverFalselyClean` rests on
monotonicity: when more becomes known of a leaf, scopes that were settled stay settled
(`ScopesSettle`), rules that were sure to apply stay so with their exceptions
(`ApplicableStays`), hidden rules stay hidden because only rules that are sure to
apply hide others (`RelevantBefore`), and verdicts stay (`VerdictStays`).

`RulesCanBeMet` asks for a text, and the proof builds it: if neither rule demands a form, the empty
text; otherwise a form for each rule, with an argument on either side. Since the rules are not reported as
conflicting, each that demands has a form that neither forbids (`FormChosen`). Both forms are found in
that text, as whole words too, because an argument ends a word (`PairHolds`). Whatever else is found there
lies between two arguments, so within one of the forms (`PairApart`), where `Plain` excludes
it. What a rule demands and forbids does not depend on the translation (`OffTarget`). It is assumed of
`Documents` that a glossary has passed `validate_glossary`, as a loaded one has (`DocumentsAssumption`),
from which no form is empty (`RuleForms`).

`RepairsStayExact` needs the invariant `EditsOK`: what an edit is about to write is what its batch makes of
the records it has read, accepted for the catalog it has read. The guard of `WriteContexts` makes those the records and the
catalog at the moment of the write, whatever happened before. The rest is what an edit does to a document:
it is rejected for the keys that the whole document would have refused among those it sets (`RefusedBatch`),
and the keys it does not address are refused or not as before (`UnfitAfterEdit`, `EditedOthers`). TLC finds
the property violated when edits are computed against the whole document, and when the write compares one file less.

| Theorem | Says |
|---|---|
| `TypeCorrect` | `TypeOK` of the store always holds |
| `NothingOverwrittenUnseen`, `EntriesReadBackAlways` | no step violates `AppliesToWhatWasShown` and `EntriesReadBack` |
| `NeverFalselyClean` | `NoFalseClean` always holds |
| `RepairsStayExact` | no step violates `RepairsAreExact` |
| `RulesAlwaysMeetable` | `RulesCanBeMet` always holds |
| `StoreKept` | the composed specification implements `GlossaryStore`'s, so that its theorems hold there |

Without the first assumption of `HitsFresh` it fails, see section 6. Without the
second it fails for a simple reason: a save that keeps the time is invisible.
`TypeOK` of `AtomicWrite`, `MergeSession`, `CatalogServer`, `GlossaryStore` and `SourceWorkflow` is proved and not run.

**Recursion and induction.** The library's induction theorems take an operator and cannot be
used here, but a *set* can stand for it: a set of numbers that has 0 and with each number the next
one has all of them, since the numbers it lacks would have a least one (`SetInduction`, from
`WFMin` and `NatLessThanWellFounded`). A recursive function satisfies its own equation once some
function does; such a function is put together from one for the first n layers, and that there is one for
each n is `SetInduction` (`LoopRuns` and `StepsRun` for loops, the same by depth for `Engine`). Operators
of the library that fold are stated in the model as such a loop where a theorem needs them.

**Only model-checked.** One property of a run has no theorem, `EveryCallReturns`: liveness under
fairness and `ENABLED` are beyond the prover. That no circle of waiting processes stands in its way is
proved (`NobodyWaitsInACircle`).

## 6. Findings

1. **`evidence`**, `EvidenceNamesApprovedSource` (`service/workflow/sync.rs:178`).
   A review record is resolved when its leaf becomes ready, but resolved records are
   only pruned by the next checkpoint. If the leaf becomes a draft with the same
   text again before that, the old record applies again, and since an applicable
   record keeps its origin, the evidence names a source older than the one the
   text was approved for in between. The test at
   `src/tests/workflow_checkpoint.rs:178` takes approval to resolve evidence.
2. **`damaged`**, `ImportStaysClean` (`service/xliff/apple_mutation.rs:88`). For a
   unit of a substitution `ensure_node` gives a target root that has no
   `stringUnit` the one of the source, also when the target root has variations
   instead. A source that says "%#@count@" and a target that says so once per
   device are both accepted by every check; exporting the target and importing
   the document unchanged leaves the target with a root unit beside its devices.
   `validate_candidate` looks at references only, so it is written, and from then on
   synchronisation, approval and the next export refuse the key. `README.md:272`
   says that unsafe shapes are rejected. `OtherImportsStayClean`, checked in
   `exchange`, says that no import does this in any other case.

Other observations have no run of their own.

*Caches and unconditional writes.* Locale tools write back what they read earlier
(`tools/manage.rs:69`); the mutex they hold is one process's, so an approval or a
save by another process in between is undone, while `SKILL.md:162` calls writes
lock-protected. `tools/mod.rs:163` reads the content before the modification time: a
save in between caches the old content with the new time, and requests without a
path are served it until the file changes again, so `HitIsFresh` holds only while
nothing comes between two steps of a request. Reading the time first would make the next
request read again. `SourceLocaleKept` likewise is checked in `quiet` and proved where others act only
between requests; with `Interrupts = TRUE` it is violated: `remove_locale` takes the
source language from what `resolve_file` returned and removes from what it reads
afterwards (`tools/manage.rs:118`). `CatalogSnapshot::load` reads the two files one
after the other without a lock, so that a list may pair a catalog with a checkpoint
made after it was read; commits compare both files again, which is what
`ReadyIsAccepted` rests on.

*Source texts.* Where the source has no unit for a leaf, the list of leaves shows
the key as its source text (`service/assessment.rs:99`), while a submission is compared
with the text the target already has there (`service/validator.rs:79-86`): for a key
without a source localization whose translation lost its argument, the correction
is refused and an approval of the wrong text passes.

*Glossary.* A `do_not_translate` rule that forbids every spelling of its source is valid and cannot
be met. For such a rule `required_forms` counts any matched spelling as enough, while the check
wants all that occur in the source. A forbidden form inside a longer preferred form is found in
every translation that uses the preferred one, and is not reported as a conflict. A form that is an
argument is no prose, and found in no text. `Plain` excludes these from `RulesCanBeMet`. One blank
translation in a legacy map makes the whole glossary unavailable, since the map is validated as
rules. The authored context of a deleted key stays in the sidecar and applies again when the key
comes back.

*Format specifiers.* Sequences that may be prose (`50% off`) are compared only among
themselves, so "%@ 50% off" and "50% off %@" pass as each other's translation
without a warning; `FormatsAreKept` is stated for texts without such sequences. Flags
are compared in their order, and `%i` is not accepted for `%d`, both stricter than the
runtime; `Printed` takes the code's view there, since neither does harm.

`ListedCanBeSubmitted` speaks of every text that fits (`Fits`): the text takes the arguments of its source, and
refers to the substitutions there are. It does not say that some text fits. Where a source
spreads its references over its devices, or its own text does not take its own
arguments, none may: the leaf is listed and every request for it is refused.

It has a premise, `SameSubstitutions`: source and target have
the same substitutions, and the texts of both refer to each. Without it the
leaves of a target are listed and cannot be submitted one by one: when the source
gains a substitution, a text that refers to it has no such substitution in the
target, and a leaf of the substitution has no reference. Each request fails on
`validate_substitution_references` until `delete_translations` takes the old
target away.

`ExportCanBeImported` has the same premise and a second, `Sound`, without which it is false. An export
looks for diagnostics in the locale it exports, and in the source only where that stands in
for a locale that is missing. So a source without substitutions whose text refers to one is exported for an
existing target, and the import of that document is refused. The other two cases are valid catalogs, and
an export of the untranslated leaves that is refused when it comes back: a text within a substitution that
refers to another one, since a document without units outside substitutions knows only
its own names (`MetadataNames`); and a source that spreads its references over its devices, where the exported
texts and those of the target that stay do not name all substitutions together. Within `Sound`
every text outside substitutions refers to all substitutions of the source, and no text within them to
any. `Sound` also asks a text to take its own arguments, which the code's comparison of
specifiers gives for valid ones.

## 7. Plan

In order of what the program most depends on:

1. Done: `FileStore`, `GuardedStore`, `AtomicWrite`; `WorkflowPlan`,
   `SourceWorkflow`; their runs and theorems.
2. Done: `CatalogServer`, its runs and theorems; `SemanticMerge`, `MergeEngine`,
   `MergeSession`, their run and theorems.
3. Done: `LeafPlaces`, `TranslationTree`, `LegacyStrings`, `TranslationTools`: submission, assessment, approval, locale and key
   tools and the import of legacy files on the tree of leaves; their runs and theorems.
4. Done: `XliffUnits`, `XliffExchange`, their runs and theorems.
5. Done: `ReviewQueue` beside `SourceWorkflow`.
6. Done: `AuthoredContext`, `TerminologyRules`, `GlossaryStore`, `Guidance`, their run and theorems.
7. Done: `FormatArguments`. Left of it: the `argNum` of migrated substitutions.
8. Done: theorems about the recursion of the merge, the queue, the diagnostics a batch or an
   import can bring in, the way back of an export, `remove_locale`, the comparison of
   specifiers and rules that can be met. The workflow operations as steps on both files, evidence beside
   unguarded tools, what every listed leaf takes, and the order of the locks.

## 8. Not modelled, and why

- Parsing and serialising of `.xcstrings`, `.strings`, `.stringsdict`, XLIFF
  bytes; JSON formatting; BOM and size checks: functions of one call's bytes
  without shared state.
- Unicode normalisation, word segmentation and the scanner of format specifiers:
  text processing in front of what is modelled.
- Discovery, diff, the extraction of strings from sources and search: read-only
  reports over what one call parsed.
- Reports, prompts, JSON schemas, CLI argument parsing, the MCP server's
  transport: no state of their own.
- Hash functions: versions compare as the values they are computed from, so
  collisions are left out.
- What section 7 still plans. `components` in `PROJECT.json` says for each part
  whether it is modelled, partly modelled or not.
