# Aerogram in TLA+

TLA+ models of the parts of Aerogram where steps of several actors meet: the
vault, the encrypted mail store, the two mail backends that fill it, the Delta
Chat backend and its server process, the account registry and the selection state
of the controller; and of the streaming HTML sanitizer, where the pieces of one
message meet. TLC checks them on small instances, and TLAPS proves the safety
properties of the vault, the mail store, the two mail backends, the Delta Chat
backend, the registry and the selection for all values of the constants. Paths below are relative to
the repository; `PROJECT.json` maps every definition to the lines it models.

    tlc -workers 2 -config MCVault.cfg MCVault        # a run
    tlapm VaultProofs.tla                             # the proofs of a module

## The system

| Part | State it keeps | Operations | Talks to |
|---|---|---|---|
| `MasterKeyManager` (vault) | `wrap-salt.bin`, `secret-key.enc`, `keycheck.enc`; password, phrase and data key of the session | create, unlock, recover, rotate, lock at exit | the controller, synchronously |
| `AccountStore` | `accounts.db` under the data key | open, list, add, remove, rekey | the controller, synchronously |
| `EmailStore` with `MessageStore`, `MetadataIndex` | encrypted shards, SQLCipher `index.db`, key, one mutex | storeMessage, writeFolderSync, reconcile, reads, setKey, clearKey | workers of the mail backends, UI thread |
| `ImapBackend` | credentials, poll timer, sync-in-flight flag | startIo, syncNow, fetches, wipe, purge, shutdown | `CurlTransport`, store, signals to the controller |
| `ProtonBackend`, `proton-core` | session, event thread, workers, store | configure, list, prefetch, events, wipe, shutdown | C ABI to the Rust core |
| `DeltaChatBackend` | server process, pending promises, account id | initialize chain, set-up from QR, event pump | JSON-RPC over pipes |
| `AccountController`: registry | `m_accounts`, `m_pendingAdds`, attempt timers | addAccount, removeAccount, onVaultUnlocked, rotateVault | all of the above |
| `AccountController`: selection | active account, conversation, message, lists, refetch counter, pending selection, debounce timers | select…, fetch…, handlers of backend signals | backends (calls out, queued signals in), QML |
| `ContentPipeline`, `html-sanitize-core` | the rewriter and `out_read` of a streamed body | parse, parseStreamed, sanitize, reader and text views | store, proton-core, C ABI to Rust |
| Layout, IPC, QML | none that outlives a call, except IPC's line buffers | pure functions, dispatch, painting | controller |

Everything in the controller runs on the UI thread; the concurrency is in the
order in which slots, timers and queued signals reach it, in the worker threads
that use the stores, and in the process ending between two writes. The hard
behaviours, line by line, are the `hazards` of `PROJECT.json`.

What makes each part correct:

* vault: some pair of password and phrase always opens it, the session's key
  is the vault's, `accounts.db` follows the vault;
* store: the index describes the shards, nothing is lost because a listing was
  cut short or because a message is in two folders, both follow the vault's key;
* registry: only proven accounts are shown or persisted, every attempt ends,
  ids are unique, a restart brings back what was there;
* selection: what is shown belongs to what is selected, late answers change
  nothing they should not, and the lists catch up;
* Delta Chat: an account registers under its own identity, one consumer polls for
  events, every request is answered and every event heard while the server lives;
* content: the streamed body adds up to the one-shot result, the views keep the
  text and only the text, and both kinds of account show the same.

## The modules

`Vault` models `MasterKeyManager` and the controller's flows around it. A
write is the code's own sequence (write the temporary file, remove the old one,
rename), and the process may end or an operation fail between any two. `QFile`
buffers, and the result of the flush is ignored, so a write that succeeds may still
leave a file that is cut short (`Short`): `WriteTmp` chooses, and the code goes on
alike. A pair is password, phrase and salt; a box opens under exactly the keys that
derive from the pair it was sealed for. Other state: the session's pair, the key of
`accounts.db`, the entry point in progress. `SecretVault` is the abstract
specification, a vault without files: one pair opens it, and the pair changes at
once, by the order of a session that holds it. `IsSecretVault` says that `Vault`
implements it, with the pair of the open session standing for a keycheck that is
not there or is cut short: such a session can still write it, and only one that has
begun to change the vault (`wrote`) can lose it.

`EmailStore` models one account's store: shards, index rows, memberships, the
key each file was written under, and jobs of workers that hold or release the
mutex where the code does (`writeFolderSync` and `storeMessage` under one hold, the
shard's write included, reads in two holds). An upgrade (`ProbeUpgrade`) truncates
the readable shard before it writes the new one, as `put` does. `kind` says who owns the
store: IMAP writes a folder per call and wipes under an open index, Proton writes
single messages, reconciles a label on its own and closes the index before it
wipes. `faults` allows crashes, rotations, rotations that are cut off, workers
that go on during one, and SQLite refusing to open the index, to take rows or
memberships, or to delete them; what the code does then (it logs "no index — shard
orphaned", or nothing) is part of the action, and the ghost `refused` names the
messages concerned. Any write of a shard may fall short.

`ImapSync` models one IMAP backend and its server: verification, poll timer,
in-flight flag, sync workers message by message, the event queue of posted
completions in its order, and the slots that wait for the workers. `role` follows
the account from attempt to removal. The server may change and the connection
fail between any two steps of a sync. A rotation has two steps, the wipe and the new
key; what a sync stores in between is under the former key (`stale`), no later sync
writes it again, and only reading it drops it (`readShard`).

`ProtonSync` models one `ProtonBackend`, the state of `proton-core` it works
through, and the Proton server. A call is an element of `workers`: queued, then
inside the core (where it reads the server and its reply is fixed), then gone with
its continuation, which may submit further calls from the same worker thread, as
the code's `.then` chains do. The event thread is `thread`; what it posts is
`posted`. `ui` is the step at which the UI thread stands in `startIo` (whose test
and assignment a sign-in can separate) or in a teardown (join, wait, free and
purge), during which no other slot runs. `stored` is what the store promises its
user, per label; its inside is in `EmailStore`. `login`, `submit_totp`,
`restore_session`, `list_labels`, `list_messages`, `message_body`,
`get_attachment` and `wait_event` are the functions of `proton-core` of these
names, with `loginFlow`, `api` and `lastEventId` their `CoreState`. `unlisted` is
a ghost.

`Accounts` models the registry. Every backend object of the process is in
`backends`; an attempt is a live backend no account refers to. `Succeeded`,
`IoRefused`, `ConfigureFails` and `TimedOut` are the provisional handlers of
`addAccount`, including the one of a registered backend. `proven` is a ghost, and
so is `refused`, the keys whose row `accounts.db` last did not take, delete or give:
its open may fail when the vault is unlocked (the rail then stays empty) and before
a delete (which then is not reported), its writes may fail too. `Restart` forgets all
but the disk. `rows` is keyed as the table is, and holds nothing else because
`list()` returns nothing else a backend uses to find its store. `user` says, for a
whole behaviour, what is submitted and whether submissions and set-ups repeat.

`Selection` models what is shown. The controller's members are one record `ui`,
and each slot is a function of that record, so that `rebuildMergedConversations`
is the composition of its three parts in their order. A backend call goes to
`asked`; `Work` is the worker's read, `Deliver` the signal's arrival, in any
order. Account kinds differ as the backends do: IMAP announces whole syncs, also
without a change, Proton `storageChanged`, Delta Chat also the message itself, and Proton
bodies nobody has asked for (`Prefetched`). The pane holds the id it shows and the
body that landed in it. `refetches` is a ghost. `scenario` says, for a whole
behaviour, which conversations and messages there are, whether messages are opened,
whether accounts are removed, whether slots are called over IPC with ids no view
shows, and how much may be in flight when the user acts.

`DeltaChat` models one `DeltaChatBackend` and its `deltachat-rpc-server`. The
members are the record `self`; what a chain does when a response has been read is a
function of that record, which collects new calls, one operator per chain
(`InitializeStep`, `SetupStep`, `Listed`, `MessagesStep`, `Sent`, `BatchRead`).
`pending` is `m_pending`: a promise names the step that waits for it, on whose
behalf, and whether the account id was known when the call was written. The server
answers in any order, with a result or an error. `self.owed` is who still waits,
`self.role` what became of the attempt, `store` what the server persists per
directory. `ui` is the slot that runs: a shutdown waits for a process that still
answers. `carried` is a ghost: what a reset hands from one process to the next.

`HtmlSanitize` models the two handler sets of `html-sanitize-core` on one rewriter
(a stack of open elements, a tag that acts at its `>`, a sink): `display`, `reader`
and, for html2text, `text` are functions from an element to what takes its place,
and say whether its end tag goes or is renamed (`td` and `th` become `p`).
`ContentPipeline` takes a message through it: stored as it came and streamed on a
worker (IMAP), or sanitized before it is stored (Proton), then parsed for the
views. Where the sanitizer leaves nothing of a Proton message with text, the text
of the original is stored in its place (`Assembled`); it includes the text of
elements the sanitizer removes. The stream refuses a chunk that begins or ends
inside a character and goes on with the next. `ProgressiveBody` is the abstract specification of a streamed body (each
piece continues the last, the whole at the end), which `ContentPipeline`
implements by an `INSTANCE ... WITH`, `StreamIsProgressive`, where the whole is what
the sanitizer makes of the chunks it takes; if it takes them all, that is the
one-shot result.

`VaultProofs`, `EmailStoreProofs`, `ImapSyncProofs`, `ProtonSyncProofs`,
`DeltaChatProofs`, `AccountsProofs`, `SelectionProofs` and
`ContentPipelineProofs` hold the theorems about the module of that name. The `MC*`
modules only give constants values.

Abstractions. Passwords, messages and folders are model values or small numbers;
texts, colours, dates and the order inside a list are left out. The first-folder
rule uses the number order. Signals of one worker pool may be delivered in any
order; for Delta Chat, whose answers come from one process in order, this admits
more behaviours than the code has, and no finding rests on it.

## The runs

| Run | What it asks | Bounds and why they are enough |
|---|---|---|
| `vault` | all vault invariants, and that the vault implements `SecretVault`, with crashes, failing writes and files cut short without a notice at every file operation | two passwords, two phrases, three salts: a rotation to other secrets, and back |
| `store` | index, shards and memberships stay consistent, no mail is lost, readable content is given up only in three cases, for both kinds of backend; where the environment is kind enough, `index.db` follows the vault's key and no shard is without a row | two messages, two folders (one message in both), two keys (before and after a rotation); each behaviour picks its kind and one of six sets of faults |
| `imap_sync` | syncs do not overlap (in `TypeOK`), never drop mail the server has, a purged store stays empty, a polling account catches up, but for copies under a former key until they are read | one folder, two messages (a listing can break off in the middle), one rotation, one reset |
| `proton_sync` | readiness means a session and a teardown drains the workers (in `TypeOK`), a listing removes only what the server no longer had, pushed mail gets listed, an inbox at rest that is listed again ends with none but its messages, each of them stored, and with all if every label is listed again, a teardown ends | one message in two labels, or in none: enough for stale listings, late bodies and moves; a slot submits while at most one other call is in flight, continuations submit beyond that |
| `accounts` | proven accounts only, unique ids, rail and table agree, "adding" ends; for a user who submits each id once, also: every attempt ends, registered backends stay, one backend per store | two users: one submits an IMAP, a Proton account and an invite once, the other resubmits pending ids, repeats set-ups and has two invites that share one provisional id; three backends per process, any number of restarts, failing opens, reads and writes of `accounts.db` |
| `selection` | no ghost conversations (in `TypeOK`), bounded refetches, no jump to another account unless a call names one of its conversations, only the body of the message that is open fills the pane | with removals, resets and late answers: two accounts, one polls and one is a chat, two refetches, a user or server acts only while at most one call is in flight, but their consequences pile up, and polls and timers come at any time; the same without removals, with any ids; with reading: two accounts that push and hold the same two ids, and an id nobody holds, two calls in flight |
| `selection_live` | pending selections are made, an open inbox catches up | two accounts, one polls and one is a chat, with one call in flight when the user acts; one polling account with two, so that an older answer can arrive last |
| `deltachat` | registration under the server's identity, one event consumer, every request answered, every event heard | seven situations: an invite, an attempt on a configured directory, and accounts with readers, senders, set-ups repeated, events of all kinds and a reset; two chats (a listing can fail half-way), one or two refused calls, at most two calls pending when the user or a chat adds one; the server may die and the account be removed at any time |
| `content` | the stream implements `ProgressiveBody`, the views keep exactly the visible text as well-formed prose, both sources agree | documents the sanitizer leaves nothing of, and nested elements of every class the handlers tell apart, with one-byte, two-byte and zero-width characters before, inside and after; chunks of the whole, a half, a quarter and a ninth of the body, so that boundaries fall before, inside and after tags and characters |
| `vault_recovery` | refuted: recovery needs no convenience file | as `vault` |
| `store_unlinked_index` | refuted: the open index is the file on disk | an IMAP store, rotation only |
| `proton_teardown` | refuted: nothing is inside the core when it is freed | as `proton_sync` |

Runs of expectation "violation" check one property each, and `findings` quotes
the line of the repository the counterexample contradicts:

* `writeFileAtomic` removes the old `keycheck.enc` before it renames the new
  one; after a crash in between, `recover` answers "No vault to recover" for
  every pair, though the file is called optional for recovery.
* `ImapBackend::wipeLocalStore` removes the directory under the open index; the
  session goes on with the unlinked file and loses its rows at exit.
* The last continuation of `configure` starts the event thread without asking
  `m_shuttingDown` (`ProtonBackend.cpp:253`). A removal that found no thread to
  join and waits for that worker frees the core with the new thread inside it.

### Further behaviours met while modelling

No run claims the following; each is a reason why a property carries a condition
or a run a constant.

* `rotateVault` replaces the vault's files before it re-keys `accounts.db` and
  wipes the stores (`AccountController.cpp:1223`). If the process ends in
  between, `accounts.db` or a store's `index.db` stays under the old key.
  `DbFollowsVault` excepts that case, `IndexFollowsVault` excepts
  `"rotateCrash"`.
* `ProtonBackend::wipeLocalStore` gives the store its old key back
  (`ProtonBackend.cpp:567`), and `stopIo` stops no worker: one that touches the
  store before `setMasterKey` recreates `index.db` under the old key.
  `IndexFollowsVault` excepts `"race"`. A shard an IMAP sync writes then
  stays unreadable until somebody opens the message (`MessageStore.h:116`)
  and the next sync writes it again: `CatchesUp` says so.
* `writeFileAtomic` does not look at the result of `flush` and `close`
  (`MasterKeyManager.h:425`), so a full disk can put a short file in the place of
  the removed one while the operation reports success, and the session adopts the new
  pair. `SuccessIsUnlockable` says what remains: the pair recovers the vault if the
  short file is not the keycheck. With a short keycheck every entry point refuses:
  `create` because a vault exists, the others because nothing opens it. The comment
  at `MasterKeyManager.h:116` says that a write that fails will "fail closed".
* An upgrade of a plain-only message truncates its readable shard before it writes
  the new one (`EmailStore.cpp:158`, `MessageStore.h:86`): a crash or a full disk in
  between loses both, though the message is on the server still.
  `KeepsReadableContent` excepts the replacement.
* A row SQLite refuses leaves a shard nobody finds (`EmailStore.cpp:173`), and a
  delete it refuses a row whose shard is gone: `refused` in `IndexMatchesShards`.
* `MessageStore::get` leaves a shard shorter than a box in place
  (`MessageStore.h:104`) and `put` never rewrites an existing file: such a message
  stays unreadable, which is why no property promises that content comes back.
* A crash between the commit of a reconcile and the removal of its shards
  (`EmailStore.cpp:203`) leaves content no later reconcile finds: the second part of
  `IndexMatchesShards` excepts crashes.
* `addAccount` accepts an id whose attempt is pending. The first result clears
  the one entry of `m_pendingAdds`, and the other attempt is neither registered
  nor discarded; meanwhile two backends hold one store: the parts
  `AttemptResolves` of `AddingEnds` and `OneBackendPerStore` of
  `RegistryConsistent` except a user who resubmits.
* A repeated set-up of a registered Delta Chat account, while another invite is
  pending, deletes the registered backend (`AccountController.cpp:942`):
  `RegisteredAlive`, a part of `RegistryConsistent`, excepts a user who sets accounts up again.
* A failing open of `accounts.db` leaves the rail empty at the unlock although rows
  exist (`AccountController.cpp:1089`), and a removal whose open fails reports
  nothing (`AccountController.cpp:1047`), so the account comes back after a restart:
  `RailIsVault` excepts those rows.
* `accounts.db` has no column for the directory of a Delta Chat account
  (`AccountStore.h:89`), so after a restart every such account opens the shared
  default directory, although `AccountController.cpp:875` speaks of its path as
  persisted: `DefaultDelta` in `onVaultUnlocked`.
* `loadPersistedAccounts` looks accounts without a host up under another id than
  they are registered with (`AccountController.cpp:1099`), so a second unlock of
  an open vault would register them twice. `onVaultUnlocked` of `Accounts` runs
  on a locked vault only.
* `addAccount` registers a proven backend without handing it the master key
  (`AccountController.cpp:971`): a new IMAP or Proton account skips its syncs
  until the next unlock or rotation. `Accounts` does not model keys.
* `startIo` starts the poll timer only if its verification succeeds
  (`ImapBackend.h:173`), and a rotation the vault refuses returns with every
  timer stopped (`AccountController.cpp:1226`): such an account polls again only
  after the next start. `CatchesUp` assumes that the timer runs.
* `initialize` clears `m_syncInFlight`, and the posted completion of a sync from
  before the reset clears it once more under a sync started since: `OneSync`,
  a part of `TypeOK`, allows one overlap per reset, and `KeepsServerMail` excepts resets.
* `startIo` of Proton tests `m_configured` before it sets `m_ioRequested`
  (`ProtonBackend.cpp:165`). A sign-in that ends in between emits no `ioStarted`;
  the attempt then ends with its timer although the login succeeded. Hence
  `IoMeansSession`, a part of `TypeOK`, says when readiness is told, not that it is.
* The first `wait_event` records the server's marker and reports nothing
  (`lib.rs:839`): mail that comes between the initial listing and it waits for the
  next change. The marker moves on before the listing it causes has succeeded
  (`lib.rs:845`): a listing that fails is not repeated either. `PushLists` starts
  after the first contact and assumes calls that succeed.
* A message that is stored under one label is not fetched for a second
  (`ProtonBackend.cpp:381`), and reconciling the first label removes it. A late
  body stores a message after it was reconciled away. Either is made good only by
  further listings of both labels, which the second part of `RelistingCatchesUp`
  presumes; the first says what listings of the inbox alone achieve.
* A message with an empty text is neither stored nor answered
  (`ProtonBackend.cpp:498`): opened, it shows nothing, and each listing fetches
  it again.
* A `restore_session` that fails, as at a launch without network, ends
  `configure`; nothing repeats it until the next launch.
* `call` extends `m_workers` from worker threads, while the UI thread may do the
  same or wait; `QFutureSynchronizer` is not thread-safe, as the comment at
  `ProtonBackend.cpp:141` says, which keeps the event thread away from it but not
  the continuation at `ProtonBackend.cpp:314`. The model takes the calls as
  registered one after the other, and a call's test of `m_shuttingDown` and its
  registration as one step: `WorkersDrained` rests on both.
* `fetchMessages` opens a conversation without clearing the list
  (`AccountController.cpp:744`). A message pushed to it before its own listing is
  there is appended to the list of the conversation that was left (line 543); the
  listing then replaces both. `Selection` does so; no property forbids it.
* `parseStreamed` cuts at byte counts (`ContentPipeline.cpp:177`), so chunk
  boundaries fall inside tags, which the rewriter bears, and inside characters of
  several bytes, which `sanitize_stream_write` refuses
  (`html-sanitize-core/src/lib.rs:397`); the loop takes the refusal for an empty
  piece, and the chunks on both sides of the cut are missing from `htmlChunks`
  without a notice. `StreamIsProgressive` therefore speaks of the chunks the stream
  takes. `ContentPipeline.h:57` says that chunk boundaries fall on tag ends; they do
  not. The chunks reach nobody yet: `fetchMessageBody` of IMAP discards them
  (`ImapBackend.h:252`).
* A Proton message is stored sanitized (`ProtonBackend.cpp:506`), so the parse
  that reads it finds no image to block and reports `remoteContentBlocked` as
  false, although `ContentPipeline.h:18` says that the raw message is stored and
  sanitized when it is read.
* Of a Proton message whose HTML the sanitizer empties, as `<form>text</form>`, the
  plain text is stored under the header `text/html` (`ProtonBackend.cpp:457`), the text
  of the removed elements included, and the views show it; the same message in an
  IMAP account shows nothing. `SourcesAgree` excepts such messages, and `TextIsKept`
  says what their views hold.
* The rewriter knows no omitted end tags, so a `<head>` that HTML lets end by
  itself removes everything after it from the reader view (`html-sanitize-core/src/lib.rs:290`). The
  documents of `content` close what they open.
* The reader view keeps zero-width padding, which only the display handlers
  filter (line 104 of the same file): `SourcesAgree` compares reader views without it.
* A promise of a Delta Chat server that has gone is never resolved, neither by
  `onProcessError` (`DeltaChatBackend.h:491`) nor by `shutdown`; only the 90 s
  timer ends an attempt. `RequestsAnswered` and `EventsHeard` end with the process.
* `resetApp` initializes Delta Chat without parameters, so the account goes on in
  the default directory, whatever its own was (`DeltaChatBackend.h:94`), with the
  id and address of the old one, although `AccountController.cpp:1294` says that
  it "re-initializes fine". An `m_ioRequested` the QR code left set starts IO then.
* A retry timer that outlives a reset gives the new process a second consumer
  ("One consumer per server process", `DeltaChatBackend.h:602`); an
  `is_configured` read while the shutdown waits leaves `m_pumpRunning` set, so that
  the new process gets none; half a line in `m_buffer` spoils its first response.
  The Delta Chat properties except what a reset carried over (`carried = {}`).
* A refused `get_account_info` or a failed start of the server is told as an error
  only: an attempt that meets one waits for its 90 s timer.
* A late body is matched by message id alone (`AccountController.cpp:477`), so
  with an id two accounts share, the pane can show the other account's body.
  `OnlyOpenMessageFills` compares ids.
* Workers answer in any order, and `messagesReady` replaces the list
  (`AccountController.cpp:428`), so of two listings in flight the older may come last.
  The next poll mends that; for a Proton account nothing does until its next change:
  `InboxCatchesUp` excepts it.

Each property of a passing run has a mutant: a plausible bug in one mapped
definition (`...Unguarded`, `...Uncapped`, `...OverAll` and the like, next to the
definition they change) under which TLC finds the property violated.

Deadlock is checked in every run but `proton_sync`, `proton_teardown` and
`deltachat`, whose backends stop for good once they are purged or shut down, and
`vault` and `vault_recovery`, where a locked vault whose keycheck was cut short is
refused by every entry point.

## Fairness

`Vault` and `EmailStore` assume none: their properties are safety. `ImapSync`
assumes that pool threads run (libcurl's timeouts bound every call), posted calls
are delivered and an active poll timer fires; that the server is reachable is a
premise of `CatchesUp`, not of the specification. `Accounts`
assumes that a running attempt timer fires, which the Qt event loop guarantees;
it does not assume that a server ever answers. `ProtonSync` assumes that the
oldest call in flight goes on (the transport's timeouts bound it, and a thread of
the pool runs it), that the event thread, posted calls and a waiting slot go on,
and, by strong fairness of `FirstContact` and `Changed`, that a `wait_event` which
could report a change again and again does so once: the server is not out of
reach for ever. That calls succeed is a premise of its properties where they need
it. `Selection` assumes that worker
threads serve every call, that the event loop delivers every posted signal, that
debounce timers fire and that the 60 s poll goes on. A poll that fails for ever,
or a backend shut down, is outside `selection_live`. The property is stated for
the inbox, because an IMAP sync refetches no other open folder. `DeltaChat` assumes
that a server that lives answers every call, with a result or an error, and that
the event loop reads the answer, runs timers that are due and ends a shutdown, which
waits four seconds at most; neither that calls succeed nor that the 90 s timer
helps. Fairness is per chain, for the server works on all calls at once.
`ContentPipeline` assumes none.

## The proofs

Each proof module proves its invariants by one inductive invariant (`IInv`; `Types`,
`Streaming` and `Original` in `ContentPipelineProofs`): it holds initially and every action keeps
it, one step per action; the listed theorems follow from it, action properties from
it and one more case analysis.
All start from the named assumptions of the component's module alone
(`VaultAssumption`, `StoreAssumption` and `NothingAssumption`, `BoundsAssumption`,
`NamesAssumption` and `UsersAssumption`, `SelectionAssumption`, `ImapAssumption`,
`DeltaChatAssumption`, `ProtonAssumption`, which asks for finitely many messages, and
`PipelineAssumption` and `DocsAssumption`: documents consist of tags and characters),
but for two theorems of the registry, which state their premise (`Proper`), and two
about the views, for documents that nest (`Ordinary`). None of the safety properties is
inductive as it stands. What has to be added says how each component works:

* `VaultProofs`: between two file operations the files belong to different pairs.
  `Shape` says which fields a job has, `Progress` how far the files on disk have
  got for the job's next file, as far as the disk kept them whole, `Session` whose key
  is held in each phase, `Untorn` that outside an interrupted job the three files fit
  together. `LastPair`, that
  the pair which opens the vault is the last one accepted or submitted, is a part
  of the invariant, and proved only. `Implements`
  shows every step to be a step of `SecretVault` or a stutter: only the rename of
  the keycheck, the adoption of a key, the beginning of a job and the end of the
  process are steps of it.
* `EmailStoreProofs`: `Busy` says what the step of a running call says of the call
  and the index, `Keyed` how the keys of index, store and vault go together in
  rotations that are quiet and run to their end, `Strays` that a shard without a
  row belongs to the running call: it has been put and not yet indexed, or taken
  from the index and not yet removed; or SQLite refused its row.
* `ImapSyncProofs`: `Removal` says who may still write after a removal has begun:
  a sync that has not yet started, and finds the backend shutting down when it does.
  `Apart` says that flag, running sync and posted completion are one token as long as no
  reset clears the flag, `Listing` that a listing which is complete names
  everything that is stored and still on the server, and that no message has copies
  under two keys. With resets syncs can
  overlap, and `Counted` says how far: syncs in flight and completions posted are
  tokens; the flag stands for one of them and every reset, which clears the flag
  while its token is still out, for one more. `OneSync`, the part of `TypeOK` about
  the numbers of syncs, follows for any number of resets.
* `ProtonSyncProofs`: `Knows` says what a call that has read the server knows,
  and goes on knowing whatever the server does meanwhile: a sign-in that succeeded
  has left a session, an untruncated listing names all there was. `Drained` says
  that from the join on `m_shuttingDown` is set, so that neither slots nor
  continuations submit, and `Ready` that readiness rests on a session.
* `AccountsProofs`: a backend's id is that of its credentials (`Own`), a registered
  backend that still lives has the id its account was registered with (`Sole`), so
  that a late handler of it finds that id registered, or registers nothing; nothing
  is left for the handlers of its attempt to do (`Silent`), unless set-ups are
  repeated, which `HandlersGoSilent` excepts as the run does.
  `RailIsVault` and `RegistryConsistent` rest on `Naming`: credentials as the rows
  keep them (`Whole`) and their id determine each other, so that what the
  controller looks up by id it looks up by the key of a row. `Rail` says that rows
  and registry hold nothing else and that a locked vault has no accounts; `Apart`
  that every live backend with a store is that of an account or of an attempt that
  is still pending, and that no two of them have one key. The premise, `Proper`, is
  what `AddAccountPanel` submits (`ui/views/AddAccountPanel.qml:36`: it requires
  host and user of an IMAP account, the user of a Proton account and the invite of a
  Delta Chat account, and asks for no other part of the key), and that a Proton
  user holds an `@`, which no code checks: Proton accounts whose users hold none
  share an id.
* `DeltaChatProofs`: a chain is a sequence of calls, each made by the answer to the
  last, so there is one lemma per function of a chain, saying which calls it adds.
  `PumpInv` says of a process that inherited nothing that the chain of `initialize`
  has one promise at most, and that the event pump, once it runs, has one batch call
  or one retry timer: each answer replaces the one by the other. `AttemptInv` says
  of an attempt with a QR code that all its set-up steps together have one promise,
  and which of them wait only where the server is configured: so no other chain
  makes it an account. `TypeInv` types the promises.
* `SelectionProofs`: the slots are functions of the controller's record, so there
  is one lemma per function, each saying that the function keeps the parts of
  `Good`: `m_emptyCount` counts the refetches of the open conversation (`Counted`),
  only registered accounts have conversations (`Housed`). Between slots the list on
  display is that of the active account (`Mine`). `Along` and `Calm` carry the two action properties
  through a composition of functions. That the first account or conversation a loop
  finds exists follows from the well-foundedness of the numbers, not from an
  induction.

* `ContentPipelineProofs`: what the recursive functions `Write` and `FlattenSeq`
  make of a sequence is shown by a least counterexample, which the well-foundedness
  of the numbers provides (`Least`, `Climbing`).

  The stream, for every document and every size of chunk: `WritingOn` says that writing
  one piece and then another is writing both at once, `WritingKeeps` that what has
  reached the sink stays there and is tags and characters. The invariant `Place` says
  that an open stream stands where one call would stand after the chunks it took
  and has handed out its whole sink; the chunks to come only add to that
  (`TakenGoes`), and without a refused one they are the body (`TakenAll`).
  `StreamImplements`, that every step is a step of `ProgressiveBody` or a stutter,
  and `TypeCorrect` need no premise, cuts inside characters included.

  The views: the inductive invariant `Original` says that what is stored is the
  document, what the sanitizer makes of it, or its text if that is nothing, and that
  the views come from one of these. The rest is about the passes. `AnyDocumentSettles` needs no premise: all that
  comes out of the display handlers are tokens they leave alone (`OnlyShreds`,
  `DisplayedStay`, `LeftAlone`), so a second pass changes nothing, and html2text
  removes nothing of what the reader puts out. `SanitizedOnceOrTwice` and
  `TextIsNotLost` have the premise that the documents are `Ordinary`, which TLC
  evaluates for those of `content` (`MCOrdinary`): every end tag closes the element
  opened last, and `html` and `body` have no event handlers. Without it the code does
  something else, which TLC shows on single documents: of `<td><form></td></td>` the
  reader leaves a stray `</td>`, but closes a `<p>` when the document was sanitized
  before; and the reader keeps the attributes of the frame as they are, which the
  display handlers do not. For documents that nest, `Along` says what the rewriter knows
  and puts out after each token, `OutNests` that what it puts out nests as well, by the
  elements that are `Shown`, so that `Along` applies to the second pass too;
  `ReaderAgrees` follows both passes of one document, token by token. That
  `Balanced`, which goes by positions, is nesting by names is `BalancedNests` and
  `NestsBalanced`. `EnclosingIs` shows the reference definition by counting tags of
  one name to be the one by what is open (`CountsAgree`: since an element was opened,
  start tags of its name are as many as end tags and open elements together), and
  `TextIs` that the text is what that definition leaves visible.

Every safety property of the runs is proved, the violations apart. Only model-checked
is every liveness property (`CatchesUp`, `PushLists`, `RelistingCatchesUp`,
`TeardownEnds`, `AddingEnds`, `PendingResolves`, `InboxCatchesUp`,
`RequestsAnswered`, `EventsHeard`), which is beyond this prover, and `ENABLED`.

## Not modelled, and the plan

* Layout: `recomputeLayout` is a sequential function of window size and panel
  proportions, computed anew on every change; what could be wrong in it is the
  rounding of a `double`, which integers do not show.
* IPC: a line is handled where it is read, by slots `Accounts` and `Selection` have
  as actions; the bytes of a half-read line are its only state.
* QML: painting and bindings.
* Of the content pipeline: MIME headers, character sets, attachments, snippets, URL
  schemes, and what the tokenizer makes of broken markup.
* Of `proton-core`: key unlocking, the session file on disk, `submit_mailbox_password`
  and `account_info`, which the backend never calls, and the command-line tools in
  `src/bin`, which exercise the library by hand.
* Of the mail store: the conversations table, full-text search and attachment files,
  which are written and removed with the rows modelled.
* Key derivation, SQL, Qt, libcurl, lol-html: third-party code, taken by what the
  callers rely on.

What a next step would add: one rotation composed with several stores, to see what
a cut-off rotation leaves of each; `m_workers` of `ProtonSync` with the outcomes of
its race; the delivery of keys in `Accounts`; and of the content pipeline, which
documents that do not nest look the same from both sources.
