# TLA+ models of ios-backup-parser

Specifications, TLC configurations and TLAPS proofs for this library: the readers of an
already-decrypted iOS backup. They are translated from the source; each definition's
lines are in `PROJECT.json` under `map`. Paths below are relative to the repository root
(`src/` in the map).

Check a model with `tlc -workers 2 -config X.cfg M`, a proof with `tlapm M.tla`.

## The system

The library is sequential code with a few places where several things happen at once.
A host opens a `DirFS` (or its own `FS`) over a backup tree; a domain's `Open` has it
materialize a private copy of a SQLite database, introspects the copy and returns a
reader; the reader's methods return Go iterators, each of which sends SQL to the copy
as its consumer pulls records.

| Component | State it keeps | Operations | What makes it correct |
|---|---|---|---|
| `DirFS` (`dirfs.go`, `fs.go`) | scratch root, counter, closed flag, mutex; the scratch tree on disk | `Materialize`, `Close` (shared by goroutines); `Exists`, `ReadDir` (read-only) | private copies never collide, are complete, and are gone after `Close` |
| `internal/introspect` | none | `Detect` | what it says is present is there; more columns never hurt |
| `messages`, `contacts`, `calls`, `calendar` | `*sql.DB`, capability, unavailable units; per range one scan buffer and the reference tables | `Open`, `Capability`, `Close`, iterators | no SELECT names an absent column; nothing missing silently; a record has its own row's values and children; row-scoped and stream-scoped errors never conflated; connections given back |
| `messages` paging | the consumer's `ChatCursor` | `ChatMessages(chat, before, limit)` | pages repeat and drop nothing |
| `notes` | the same, plus an entity map | the same | the same; `BodyUndecoded` never a silent `""` (which a stray note breaks) |
| `safari` | two databases, the second optional | the same | the history unit degrades alone |
| `reminders` | one database per account store | the same, over all stores | every store read, under a capability that fits it |
| `internal/typedstream`, `internal/applenotes` | decoder position, reference tables | `DecodeText`, `DecodeBody` | terminate; an undecodable body is an error |
| `internal/cocoa` | none | epoch conversions | exact, round trip, fractions before 2001 included |
| `internal/sqlitedb` | none | `Open` | fails early on a file that is no database |
| `cmd/ibp-dump` | what it has opened, the lines written | dump one domain as JSON lines | prints what the iterators yield, goes on after a `RowError` or an unavailable iterator, stops at anything else; exit code 0 means the output is whole; closes in reverse order |
| `deploy/diff_*.py` | none | compare a dump with another parser | validation tooling, no part of the library |

Interactions: `Open` calls `FS.Exists` and `FS.Materialize`, then `sqlitedb.Open` and
`introspect.Detect`. The unavailable units found there steer every later SELECT. An
iterator holds one pooled connection for its anchor query and takes a second for a
row's children; its consumer runs between two rows, inside `yield`, and may break off,
close the domain, close the FS or range over another iterator there. `DirFS.Close` deletes
the file under an open domain.

What is hard: copies in progress while `Close` deletes (the copying is outside the mutex);
`Close` failing half-way; two lists of columns kept by hand (fingerprint and SELECT);
child queries under an open anchor query; the two `Close`s at any moment of an iteration;
page boundaries at equal, missing and unreadable rows; one buffer and shared
reference tables behind many records, over stores whose rows share their numbers. `PROJECT.json` lists each hazard
with its line and the properties that watch it.

## Modules

| Module | Models | State and actions |
|---|---|---|
| `DirFS` | `dirfs.go` | The struct's fields, the scratch tree (directories, partial and finished files), and per caller a program counter. One action per critical section (`Reserve`, `ReserveClosed`, `ReserveFails`, `CloseNothing`, `CloseScratch`) and per file operation outside it (`CreateCopy`, `FillCopy`, `StatSidecar`, `CopyFails`, `Return`). `os.RemoveAll` is modelled from its contract: it lists the root, and per directory lists, unlinks and removes, any of which may fail (`RemoveList`, `RemoveFile`, `RemoveDir`, `RemoveRoot`). |
| `ScratchStore` | the promise of `FS`/`DirFS` | Paths issued, paths intact, a phase. `DirFS!Store` is its instance under a refinement mapping. |
| `DirFSProofs` | | theorems about `DirFS` |
| `Introspect` | `introspect.go` | Operators only: what a set of columns provides, `Detects`, `UnitsAbsent`, `Missing`. |
| `SelectLists` | the SELECT statements of an iterator | Operators only: the columns a query names, the units and entities it is sent for, and whether a fingerprint covers them. |
| `Lemmas` | | what the proofs share: the least of a set of numbers and induction up to one, recursive functions, places in an order, concatenation, `FlattenSeq` step by step, prefixes of sequences, and the lemmas about `Introspect` and `SelectLists` |
| `DomainReader` | `Open`, `Close` and the iterators of six domains, as far as stores, handles, columns and entities go: `messages`, `contacts`, `calls`, `calendar` and `notes` over one store, `reminders` over every store of a directory | Which stores exist and what they hold, the handles, `r.stores`, the capability, the iterator's place. `Open` is `Open`, then `OpenStore` (a handle nobody owns) and `AcceptStore` per store, `GiveUp` or `Opened`; an iterator is one `SkipQuery`/`SendQuery`/`QueryFails` per query and `StoreDone`/`Break` per store. Generic in the domains: schemas and queries are constants. |
| `Schemas`, `StoreSchemas` | `<domain>/schema.go` and the columns every SELECT names, for the first four domains and for the two over CoreData | The constants of `DomainReader`; kept in the code's order and grouping. |
| `DomainReaderProofs` | | theorems about `DomainReader` |
| `Safari` | `safari.go`, `schema.go` | Two databases, the handles, the capability, and what each iterator read and yielded. One action per step of `Open` and `openHistory`, then `Refuse`/`RangeOver`. |
| `TypedStream` | `internal/typedstream/typedstream.go` | Operators only, one per method of `decoder`; the decoder with its position and two tables is a record each takes and returns. `class` and `newObject`, which call themselves, are functions of it. |
| `MessageBody` | `encode.go`, `messages.bodyText` | Operators only: the archiver, generalised to other class chains and nestings, and the reader around the decoder. |
| `NoteBody` | `internal/applenotes`, `notes.decodeBody` | Operators only: varints and fields as functions over bytes, the writer and the reader. |
| `Bodies` | the body of one record | A record whose blob may be `Damage`d before `ReadMessage` or `ReadNote`. `BodiesAssumption` says what a writer may have left there: `Archivable` shapes of archive, notes with `Padding` around their text or in one of the forms that cannot be read. |
| `BodiesProofs` | | theorems about `TypedStream`, `MessageBody`, `NoteBody` and `Bodies` |
| `RowStream` | an iterator with the `*sql.DB` under it, `Domain.Close` and `DirFS.Close` | Per iterator: where it is, tables preloaded, row, connections held, what it has yielded. `messages.Messages` is the text; contacts' `People` and `Groups`, `Chats` and `Calls` have the same shape (other anchor, preloads and children). The pool is modelled from the contract of `database/sql`. |
| `StreamContract` | `doc.go`, `errors.go`: the contract of an iterator | What was given for each row, and how the range ended. `RowStream!Contract` is its instance. |
| `RowStreamProofs` | | theorems about `RowStream` |
| `Cocoa` | `internal/cocoa`, and safari's `unixFromFloat` | Operators only: the four conversions with the wrap of an int64 and the normalisation of `time.Unix`. |
| `ChatPaging` | `ChatMessages`, `ChatCursor` and the page-walking consumer of `chatpage_test.go`; it extends `Cocoa` | A fixed conversation, the cursor (a `time.Time` and an id), the ids walked. A page is a set of rows, those of a `Rank` below the limit, and is walked `InOrder`. The consumer may ask for another limit at each page and break off anywhere in one. |
| `ChatSafariProofs` | | theorems about `Cocoa`, `ChatPaging` and `Safari` |
| `Orders` | `ORDER BY` | Operators only: the place of a row among others, and the list of them; used by `ChatPaging` and by the records. |
| `Children` | the columns of a row that matter and the maps made of reference tables | Operators only, common to the next three. |
| `PreloadedChildren` | calendar, notes, reminders: `loadChildren` and the record made of a row, all of whose children come from tables read before the first row | Operators only: per iterator the tables, the maps, the SELECT's columns, the record, and what is left of the maps after a consumer wrote through a record. |
| `QueriedChildren` | messages, calls, contacts: lookups read first, then one query per row and kind of child | Operators only, the same per iterator; a record may be withheld. |
| `RecordTruth` | what the fields of a record promise (the types' docs) | Operators only, written from the tables alone: no map, no buffer, no order of reading. |
| `Records` | one iterator of six domains and its consumer | The stores, the store and row it has got to, the loaded tables, the scan buffer, what was yielded. One action for the start of a range (`Begin`), `loadChildren` (`Load`), a row (`NextRow`: reset, scan, convert, yield, and what the consumer does to the record) and the end of a store's rows (`EndOfRows`). |
| `RecordsProofs` | | theorems about `Records` |
| `IbpDump` | `cmd/ibp-dump/main.go` | The program counter of `run`, the lines printed, the resources held, the exit code. `Main` is the flags, then `Open`, `Capability`, `Begin`/`Item`/`EndOfItems`/`Unavailable` per iterator, `Deferred` once per deferred `Close`, `Exit`; `Killed` is a signal at any moment. |
| `IbpDumpProofs` | | theorems about `IbpDump` |
| `MC*` | | values of the constants for TLC |

An operator whose comment starts "Mutant of" is the definition after it with a plausible
bug; no specification uses it. `PROJECT.json` pairs each property with one that breaks it.

### Abstractions

- `DirFS`: file contents are not represented; a copy is absent, partial or full. The
  backup tree is static (the library's premise). `source`'s path rules reduce to "the
  request names an existing database or it fails". Names of the scratch directories are
  the numbers `seq` produces; a failing `Mkdir` still spends its number, as in the code.
- A file unlinked while it is written or read stays readable through its descriptor
  (POSIX). On systems where such a file cannot be unlinked, `RemoveFile` fails, which the
  model also allows.
- `DomainReader`: a database is the set of its `<<table, column>>` pairs. Two columns
  of one table are either both seen by `table_info` or, for `ROWID`, implied. A table
  without columns cannot exist. SQL is reduced to the columns it names; a query naming
  an absent column fails when it is prepared.
  Stores are numbered in the order of their names; what the entity map says
  is the set of entity names, an absent one the code's ordinal 0. A store is opened and then accepted in two
  steps because the handle belongs to nobody in between; a domain over one store is the same with one.
  Rows and the connections under them are `RowStream`'s
  business. The tie between the assignment unit's two queries is kept, the rows they join are not.
  `Excepted` names the domains known to break `NoAbsentColumn`: calendar (see `MCCalendarColumns`) and
  reminders, whose `recurrence` and `assignment` units share a table whose `Z_ENT` and `Z_PK` they do not list
  (`reminders.go:587`, `:656`) and whose later stores may lack a unit the first one has (`reminders.go:128`).
  For these `FailureExplained` says what can break a stream, and `Capability.Missing` may not name it.
- `RowStream`: what a row holds is reduced to what can go wrong with it. Preloads and
  child queries stand for one or more statements each; a connection is counted, not
  named. The pool's idle limit is `database/sql`'s default, 2; it has no limit on open
  connections, and connections do not expire on their own.
- `Cocoa`: the four numbers of the code (10^9, 978307200, 2^63, the first second of year 1) are constants; the
  theorems hold for any that `CocoaAssumption` and their own hypotheses allow. A float is the exact rational it
  stands for, so the rounding of the product with 10^9, less than a nanosecond, is
  not in the model.
- `ChatPaging` evaluates `Cocoa` in an int64 of six bits with three nanoseconds to a second. The zero `time.Time`
  overflows there as it does in 64 bits, where (-62135596800 - 978307200) * 10^9 mod 2^64 is -7.77e18, a date in
  1754, below any message: `Ancient`.
- `Records`: a record copies some columns unchanged; two stand for them, `plain`, always selected, and
  `optional`, selected when its unit is there. A child with nothing to resolve is its id. A value that `Scan`
  cannot convert is the name of its column in the row's `bad`. A consumer that writes to a record is a `Spoilt` value in
  whatever it reaches by pointer; nothing else is shared between records. `RecordTruth` allows such a value
  in a shared field of the same range only. A function of the code that may fail returns the set of what it returns,
  empty for an error. `RecordsAssumption` says of the stores what SQLite does: an anchor table has finitely many rows, told apart by
  an `INTEGER PRIMARY KEY` that always scans, with the columns of the widest SELECT; a message's date is a number or `NULL`; the
  tables of children are finite and, where a map or an order goes by it, keyed (`HasTables`). A participant and an event are numbered from 1, as SQLite does, so that
  `organizer_id` 0 is nobody, and that children whose owner is `NULL`, which `calendar.go` groups under key 0 (`ByOwner`), are no event's; were there an event 0,
  they would show on it. A store of notes or reminders may have a unit's columns (`absent`) without its entity (`noEntity`): the SELECT goes by the
  first, what is preloaded by both (`Loaded`). A group's members are listed by their type, then their number. An attachment of a note has one medium: several `ICMedia` of one
  attachment would make the join list the attachment several times. Every store of `MCRecords` satisfies the assumption: TLC evaluates it.
- `IbpDump`: an iterator is the list of what it yields, `StreamContract`'s promise; a JSON line is its type and
  where it comes from. `MayRefuse` has the iterators that can be refused, and an opened domain has a stream for each iterator
  its dump ranges over. Standard output takes a number of lines, then a write fails.
- `Safari`: rows are reduced to their kinds, as `read` tells them apart.
- `TypedStream`: the signature and each class name are one symbol above 255 instead of so many bytes, since
  the decoder compares them as a whole; all other bytes are bytes. A cut inside a name is a cut beside it.
- `MessageBody`: the archiver of `encode.go` writes one shape; archives here have any chain of classes and any attributed strings
  around the string. A shape is `Archivable` when its table numbers fit the width it writes them in (`int16` behind a tag, or the
  one byte real archives have), a text when its length fits an `int32`: the format has no others.
- `NoteBody`: gzip is intact or not (its checksum reports the rest). A varint's value is exact below
  2^28 and beyond that only large, with its low bits; what a writer makes is below that, since `gunzip` refuses more than
  `maxDecompressed`, 64 MiB. Where `Bodies` says that a root cannot be walked, or a note message not up to
  its text ("stray"), it takes the library's own walk (`fieldAt`, `lenField`) for what that means: no other document says which fields Notes writes.
  A note without a text field at all ("textless") is a legitimate one, as `applenotes.go:102` says. `BodyTrueOrUnknown` excepts the stray notes by `Stray`, and
  no others; `EveryBodyTrueOrUnknown` excepts none.

## Runs

| Run | Question and outcome | Bounds |
|---|---|---|
| `MCDirFS` | Are copies private and complete, is nothing left after a nil `Close`, does `DirFS` implement `ScratchStore`, and does every call return? Yes, the last under weak fairness. | two callers, three calls in total, two databases with other sidecars and one that is not there: two concurrent `Materialize` calls, a `Close` over a copy in progress, two `Close`s |
| `MCDirFSLeak` | Does a `Close` that returns nil mean the scratch directory is gone, as its doc says? No: a first `Close` that fails forgets the root, the next one returns nil. | three callers |
| `MCDomainReader` | Over six domains: are handles given back, is every store read, can a stream fail for want of a column, leave something out silently, or be hurt by an extra column? No; calendar and reminders can fail, for the two reasons of `FailureExplained` only. | every store lacking up to two columns, tables or entities of those the domain knows, plus an unknown column in each table; reminders over up to two stores each lacking one, on hosts with and without `ReadDirFS` |
| `MCCalendarColumns` | Does a missing column always degrade `Capability.Missing`? Not in calendar: `conference_url` and `AttachmentFile.local_path` are selected under units that do not list them. | the same |
| `MCRowStream` | Do iterators give their connections back, does a closed domain refuse, are the two error scopes kept apart and every row accounted for, and does a range end? Yes. | two iterators, two ranges each, a row of every kind with good rows after the bad ones, two preloads |
| `MCRowStreamFSClosed` | Does a range begun after `DirFS.Close` fail, as `doc.go` says? No: an idle connection goes on reading the unlinked copy. | one iterator, three rows |
| `MCMessages` | Does a page walk end, never go back, and visit what one read does when rows are clean? Does a cursor keep its message's date? Is a body the record's own text or reported unknown, and unknown only when the blob is damaged or cannot be walked? Yes, but for the stray notes of the next run, which the question about bodies leaves out. | every conversation of up to four rows over NULL, a date before 2001 and one after, limits 0 to 2 varying by page; messages: twelve shapes (bare, wrapped, nested, class chains to either side of the last one-byte reference), texts around the widths of a length (127, 128, 300, 33000); notes: five layouts, six texts, unwalkable roots, a note message not walkable to its text, one without a text, locked, `NULL` and not gzip; cuts at every byte of the frame |
| `MCStrayNotes` | Is it of every note? No: one whose message has a field that cannot be walked over ahead of its text is shown as an empty note, not as undecoded. | the notes of `MCMessages` |
| `MCChatPagingNull` | Does it when some rows are undated? No: NULL dates are behind no cursor. (Nor when they are defective: a page of `RowError`s looks like the last; with `Defects = {FALSE, TRUE}` and no date 0 the same property fails that way.) | three rows |
| `MCSafari` | Does History.db degrade alone, is each bookmark row yielded once, is nothing missing silently? Yes. | Bookmarks.db lacking up to two columns; History.db absent or lacking one column or table |
| `MCRecords` | Is a record what its row's tables say, are rows given in order, whole and once, and just the defective ones withheld? Yes. | twelve iterators; per iterator and kind of link a family of stores (about ten thousand in all): the link NULL, right, dangling, another row's, two rows owned in any way, the unit absent, its entity absent from `Z_PRIMARYKEY`, a group with a person and a group of one number, a value that cannot be scanned in the row or the child; two stores for reminders, with rows of the same number; two ranges, so that what one consumer wrote could show in the next |
| `MCIbpDump` | Does `ibp-dump` print what the iterators yield, exit with 0 just when that is all of it, close in reverse order, and end? Yes. | seven domains and an unknown one; up to two rows of three kinds in the first iterator, one in the others, each iterator failing at its end or refused; output for 0, 1, 3 or 9 lines |

Bounds are named constants in guards (`MaxCalls`, `MaxRanges`) or the sizes of constant
sets. Two absences are enough for `DomainReader` because a unit's availability depends on its own
columns only and a SELECT combines units one by one; the theorems need no bound.
Two stores are one accepted and one at fault, or behind it. Two callers of a `DirFS` are a copy and whatever it meets;
its safety theorems hold for any number. Four rows give `ChatPaging` ties on both sides of a page boundary of one or two rows.
Deadlock is not checked where the system may stop: a `DirFS` nobody calls, an iterator
nobody ranges over, a finished walk.

`MCMessages` composes `ChatPaging` and `Bodies`, what a reader of a conversation goes through: the walk, and then the body of
a record. The two share no variable, so it varies one at a time: every conversation beside one record, every record beside an
empty conversation (about 31 000 states; `MCRecords` has the most, 420 000).

### Fairness

`DirFS!FairSpec` and `RowStream!FairSpec` assume weak fairness of the steps of each call that
has begun: its goroutine is scheduled and system calls return. No one is obliged to call,
to close or to range. `RowStream` counts the loop body's return among these steps: a consumer that never
returns from it keeps the range open, which is its own choice. Failures are never fair. `IbpDump` assumes weak fairness of `Work`: it is one
goroutine that waits for the disk and for the reader of its output only (a reader that stalls for ever is left out, one
that leaves is `Killed` or a failing write). `ChatPaging`
assumes the consumer asks for the next page.

## Proofs

All for any values of the constants that satisfy the named `ASSUME`s.

- `DirFSProofs`: `TypeOK` (*Typing*), `PrivateScratch` (*MaterializeDistinct*), `CleanClose`
  (*CloseLeavesNothing*) and `IssuedComplete` (*IssuedCopiesComplete*). None is inductive
  alone. `Numbered` says numbers in use are at most `seq` and files lie in existing
  directories, so the next directory is new; `CloseInv` says who removes holds the mutex and
  has set `closed`, and that an open DirFS without a scratch root has nothing on disk; `ProgressInv` relates
  what is on disk to what a copy has still to do. `CleanClose` is the subtle one: a
  copy that overlaps `RemoveAll` can add a file, but only in a directory that is still
  there, and then removing that directory fails and so does `Close`; once the directories are gone
  `newScratchDir` refuses and `copyFile` finds nowhere to create a file.
  *StoreImplemented*: `DirFS` implements `ScratchStore` under `Store`'s mapping, each action being a step of it or a
  stutter. That adds `CountInv`, `seq` never exceeds the calls of
  `Materialize`, so the directory numbers are `Paths` of the store, and `FirstInv`: a first `Close` leaves no scratch root to a later one.
- `DomainReaderProofs`: `TypeOK` (*Typing*), `HandlesReleased` (*HandlesGivenBack*), `EveryStoreRead` (*AllStoresRead*),
  `FailureExplained` (*FailuresAreExplained*), `NoAbsentColumn` (*AvailableUnitsSuffice*), `HonestStores` (*StreamsAreHonest*) and
  `ExtraColumnHarmless` (*ColumnsNeverDisqualify*), for any domains, fingerprints,
  iterators and stores. The strengthening has five parts: `HandleInv` says whose handles are open at each
  phase and that what `Open` has not got to is what `storeNames` has besides `stores`; `AcceptedInv` that every store
  accepted matches a fingerprint; `StreamInv` that a running iterator has each of `stores` given or still to do, and was
  not refused; `HonestInv` that the stores and queries behind a running iterator are accounted for; `CapabilityInv`
  that stores are accepted in their order and what the first of them lacks is in `missing`. *AvailableUnitsSuffice* assumes `Covered` and `OneStore` of each domain not excepted, facts about the two
  lists and the layout alone; TLC evaluates the first for the real ones (`ListsAgree`). It adds that the capability kept is
  that of the only store; the lemmas of `Lemmas` carry "provides" from what a fingerprint guarantees to the database.
- `ChatSafariProofs`, about `Cocoa`: *CursorRoundTrip*, `ToNanoseconds(FromNanoseconds(n)) = n` for every int64 although the product
  overflows on the way (the wraps cancel modulo 2^64; *WrapFits* and *UnixNormalises* are the two facts used);
  *FractionalSecondsNear* and *UnixFractionNear*, a fractional timestamp gives a normal `time.Time` less than a
  nanosecond from it, negative ones included, because truncation and `time.Unix`'s normalisation agree;
  *WholeSecondsAgree*, the float and the integer conversion are one on whole seconds.
- The same module, about `ChatPaging`: `TypeOK` (*Typing*), `CursorExact` (*CursorsAreExact*), `NeverBack` (*PagesNeverGoBack*) and
  `CleanWalkMatchesOneShot` (*PagesMatchOneShot*), for conversations of any finite number of rows and any limits. `Conversation` says that rows are
  finitely many and told apart by their ids, so `Newer` orders any part of them and `InOrder` lists it (*ListedInOrder* of `Lemmas`: the place
  in an order is a bijection to the numbers below the size). `CursorInv` ties the cursor to the last message walked, by *CursorRoundTrip*, so that a page
  has older rows only; `PrefixInv` says that in a clean conversation what is walked is the rows at or before the cursor, in order, so that a page's first
  rows are the next ones of the one-shot read.
- The same module, about `Safari`: `HistoryAccounted` (*HistoryIsAccounted*), `EveryBookmarkOnce` (*BookmarksDivided*) and `HonestReader`
  (*ReaderIsHonest*), for databases with any columns. The strengthening says whose handles each phase holds, that the units
  reported missing are those `Bookmarks.db` lacks and `history` just when it is not in use, and that each
  iterator's last outcome is what it would give again; that no query fails follows from the fingerprints
  covering the three SELECTs (*BookmarksCovered*, *ReadingListCovered*, *HistoryCovered*) by a lemma of `Lemmas`.
- `IbpDumpProofs`: `TypeOK` (*Typing*), `ClosedInsideOut` (*ResourcesClosedInsideOut*), `OutputIsTheStreams` (*PrintsTheStreams*) and
  `ExitCodeTells` (*ExitCodesTell*), for any domains and streams of any length. For the resources the invariant adds where each is open:
  the FS and the domain from `Open` to their deferred `Close`, a cursor inside a range only. For the output, `PrintInv` says what is out at each
  point: the capability line, all of the iterators before the current one (`All`, a flattened sequence taken apart by
  *FlattenBySteps*), and of the current one its rows so far; that the code is 0 from the moment `run` returns just when
  the last iterator's end was reached without a failure; and that what a signal leaves is a prefix.
- `RowStreamProofs`: `TypeOK` (*Typing*), `NoConnectionLeaks` (*ConnectionsReturned*), `ClosedDomainFails`
  (*ClosedDomainRefuses*), and *IteratorsKeepContract*: an iterator implements `StreamContract`. The invariant adds that a closed pool has nothing idle, that a range begun on a
  closed domain is still at its first preload with no connection, and (`AccountInv`) how many rows have been answered at each
  place of the loop body.

- `RecordsProofs`: `TypeOK` (*Typing*), `RowsInOrder` (*RowsComeInOrder*), `OnlyDefectsWithheld`
  (*DefectsAreWithheld*) and `RecordsTrue` (*RecordsAreTrue*), for all twelve iterators, stores of any size and links of any kind. `RowsInOrder` says what is given is a prefix of
  everything; the invariant `PlaceInv` says which: the stores before this one whole, and of this one as many
  rows as `at.row`. It rests on each anchor order being total (*AnchorOrdered*: by date and id, `NULL` dates first, or by id) and on a row's id being
  scanned whatever follows it (*IdComesFirst*, *ScannedIsOfTheRow*: every SELECT list starts with it, so a `RowError` has it too).
  For the withheld rows `LoadedInv` adds that a store being read was readable, and that the tables of an iterator that shares none of them with
  its consumer are as loaded; then *MessageDefects*, *JoinDefects* and *ContactDefects* compare a domain's record with its documented defects, and the
  others withhold nothing a scan does not (*JustDefects*). `WithheldInv` remembers that the range was not refused: `ChatMessages` queries `chat_message_join` for every row
  whatever the units say.
  `RecordsTrue` is not inductive: a record is made of reference tables that consumers of earlier records may have written over. The strengthening
  `KeptInv` says what is left of them: the tables are those of some load of the store at hand (`ChildrenOf`), except that an entry of the calendars, folders or
  lists may have `Spoilt` behind its pointer once the consumer wrote (`EntriesKept`), and that a list of an event or the rule of a reminder may
  differ for the ids already passed (`ListsKept`). *SpoiledKeeps* shows that whatever a consumer does keeps it; *PassedOnce*, that the row
  at hand is none of those passed, since the order of an anchor query is total. Then per iterator a lemma takes the record apart field by field
  (*EventsTrue*, *NotesTrue*, *RemindersTrue* over tables that were kept, nine others over tables as loaded): a link leads where the store says (*LinkLeads*),
  children are their owner's and in order (*GroupedByOwner*, *SortedLists*, *MembersSorted*, *AttachmentsOfNote*), and a scanned column is the row's (*ReadIs*).
- `BodiesProofs`, about `TypedStream` and `MessageBody`: *DecodeLast*, of any bytes at all, a text decoded from a beginning of an archive is the text of the whole of it, so
  a cut gives the text or an error; and *ArchiveDecodes*, what the archiver wrote is what is decoded, for any `Archivable` shape and any text
  an `int32` can count. A decoder is seven fields, and each operation has a lemma for what it returns, one
  that it only goes on (`After`), one that it does the same on a longer stream, and one that it reads what the archiver's counterpart writes.
  The relation between the two sides is `Reads`: the strings are the same and an object of one table is an object of the other (`EntryOf`), so a reference means the entry it was written for.
  The two decoder functions call themselves on a decoder with fewer bytes left (*ClassIs*, *NewIs*) and `appendClass` on a shorter chain: the proofs are by
  induction over those, the chain inside the chain of wrappers.
- The same module, about `NoteBody` and `Bodies`: `BodyTrueOrUnknown` (*BodiesTell*, of every record but a stray note) and `UnknownOnlyWhenDamaged` (*WholeBodiesRead*), for every row
  that `BodiesAssumption` allows and every cut. *StrayReadsEmpty* shows that the exception is needed for each note it covers: not locked, all its bytes
  there and a text among them, it is read as empty. The invariant `BodiesInv` is short: how many bytes are kept, never none
  of an archive, and that a body read is what reading that many bytes gives. The weight is in the two steps, *MessageTrue* from the theorems above and
  *NoteTrue*, which says that a varint written reads back (*VarintReadsBack*), that a walk passes the fields around a level's own (*LevelRead*), and that what a
  walk finds in a cut message, it finds in the whole one (*FoundInCut*).

The library's induction theorems take an operator, which the provers cannot instantiate. Where a proof needs
induction (a flattened sequence is the sum of its parts, a decoder ends) `Lemmas` has it over a set instead: *LeastNatural*, from the
well-foundedness of the finite subsets, and *UpTo*; and *RecursionEnds*, *BySize* and *SameBySize*, recursion and induction on the size of an
argument, for that a function defined by itself exists and has the values it is defined by.

Only model-checked: `ListsAgree` of `DomainReader` (a fact about the real column lists, which the theorems take as an assumption)
and every liveness property (`CallsReturn`, `RangeEnds`, `WalkEnds`, `DumpEnds`),
which TLAPS cannot prove: it has no rule for fairness and `ENABLED`.

## Notes on the code

Where the code and its documentation part, as far as the models show it. `PROJECT.json` has the five with a run under
`findings`, the first of these among them; the others are followed by the models and asked of by no property.

- A note's protobuf whose note message has a field that cannot be walked over ahead of the text (a group, a varint of more than ten
  bytes) reads as a note without text (`applenotes.go:103`), where `notes.go:323`, `notes/types.go:46` and
  `docs/schemas/notes.md:84` promise a body or `BodyUndecoded`. `MCStrayNotes` is its run; *StrayReadsEmpty* proves it of every such note.
- `Folders` of notes is refused also when the entity map lacks `ICFolder` (`notes.go:229`); `errors.go:15` says
  `Capability.Missing` names the unit.
- `ibp-dump` prints `ErrUnavailable` of contacts, messages and calendar under the line type `note`, the type of a record of notes;
  for the other domains it is `unavailable`.
- `ibp-dump` ignores the error of `FS.Close`, so copies may stay behind an exit code of 0 (`ClosedInsideOut` allows
  that and no more).
- Clearing the scan buffer before each row makes no difference to a row that scans, since every selected column is
  assigned and no other is read; it matters for the `RowID` of a `RowError`, which would otherwise be able to name the previous row.

## Not modelled

- SQLite, gzip, `encoding/json`, `database/sql` and `os` beyond what the code relies on; wording of errors and text of lines.
- The conversion of a row's plain columns to fields of a record (`formatUUID`, tapback and service names, all-day events, phone labels):
  each is a pure function of one value, and a model of it would repeat its `switch`. It is why the
  domains are "partly" modelled.
- A backup tree that changes while it is read: the library's premise is that it does not, and nothing in it would notice
  (`dirfs.go:123` copies a database, then its sidecars).
- The Python scripts under `deploy/`: sequential validation tooling, no part of the library.

## Plan

Written in this order, most important first: `DirFS` and its abstract store; `Introspect`, `DomainReader` and
the schemas; `RowStream` and its contract; `ChatPaging`; `Safari`; the two decoders; `Cocoa`; `Records`; `IbpDump`.
What is left: `RowStream` over several stores (one pool per store) would join `Records`' reminders to the connections
under them.
