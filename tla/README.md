# Remote_Backup in TLA+

Remote_Backup keeps a copy of a folder on a server. The client
(`asynclienthttp/`) polls the folder and sends each difference as an HTTP
request; the server (`serverhttp/`) carries the requests out in a folder of its
own. This directory holds a specification of both, the TLC runs that check it
on small instances, and proofs that TLAPS checks for all instances.

`PROJECT.json` lists the components, the runs, the source lines of every
definition, the hazards the properties are for, the disagreements found between
the code and its documentation, and the theorems.

## The system

| component | state | operations | talks to |
|---|---|---|---|
| `FileWatcher` (client) | `paths_`: entry -> last seen modification time | constructor, `start` (one pass: erased entries, then created and modified ones) | calls `action` in the middle of its loops |
| class `client` (client) | the request, `statuscode`, `autherror`, the socket | constructor (starts the resolution) and a handler per asynchronous operation | the server; the global `check_connection` |
| `checksync` (client) | the global list `deleted_files`, a directory iterator | repeat the noted deletions, then compare (GET) and send (POST) every entry | `client`, the folder |
| polling loop and its lambda (client) | - | every second: synchronize if `check_connection == 1`, then a pass of the watcher; report each entry by POST or DELETE, note a deletion if the flag is 0 | `FileWatcher`, `checksync`, `client` |
| `reconnection` (client) | a timer | every 30 s: a `/reconnect` request if `check_connection == 0` | `client` |
| login loop (client) | attempts | `/login` until accepted, three times at most; then the folder is asked for and the threads are started | `client` |
| acceptor, `server`, `main` (server) | the pending accept, the pool of threads | accept, and start the next accept if that went well; stop on a signal and join | `connection` |
| `connection` (server) | socket, buffer, parser and request of each connection | read, write, shut down, on a pool of threads | `request_parser`, `request_handler`, `reply` |
| `request_parser` (server) | the parser state | one character at a time; the body ends at `EOF%` | fills the request |
| `request_handler` (server) | the accounts' folders on disk | GET (compare hashes), POST (replace), DELETE | the file system |
| `reply` (server) | status, headers, content | stock replies, conversion to buffers | read by `client` |
| hashes, base64, MIME types | none | pure functions | - |

The client has three threads: the main one, the initial synchronization `f`
and `reconnection` (`f3`). The later synchronizations `f2` and `f4` are futures
that go out of scope at once, so the main thread waits for them. The threads
share `check_connection` (a plain `int`) and `deleted_files` without a lock. On
the server, each connection carries one request, and all threads of the pool
run the handler on the same files without a lock.

What makes each part correct:

* **watcher**: no edit is missed, wherever it falls relative to the visit of an
  entry, the read of its content and the end of its callback;
* **request**: every one of its asynchronous paths ends, and leaves the flag in
  a state from which the client finds back to the server;
* **synchronization**: it repairs what failed requests have left behind, and
  does not itself break what the watcher keeps in order;
* **client as a whole**: the server ends up with the folder's content when the
  user stops editing and the server is there (README.md:5 of the repository);
* **login**: who has an account gets in, who has none watches nothing;
* **a new start of the client**: it makes good for what was edited in between
  and for what the last life left undone;
* **handler**: a reply says what is the case on the disk; an error leaves the
  disk alone; every request gets a reply (README.md:18);
* **connection and replies**: the server reads what the client has written,
  and the client understands what the server has answered;
* **server process**: it ends between requests only, and a server that accepts
  no more still ends what it has begun.

## The modules

| module | models | state and actions |
|---|---|---|
| `BackupCommon` | what client and server share | entries, contents as numbers |
| `FileWatcher` | `FileWatcher.h`, the folder and its user | `disk`, `clock`: the folder; `paths_`: the map; `phase`, `todo`, `cur`, `status`: where `start()` is. One action per iteration of each loop and per outcome; a callback is a start (`FindErased`, `FindChanged`) and a return (`CallbackReturns`) with anything in between |
| `WatchedMirror` | what polling promises: the abstract specification | adds the copy, an ideal reporter as callback, the invariant `IInv` |
| `WatchedMirrorProofs` | proofs about it | |
| `ServerProofs`, `OverlapProofs`, `RepliesProofs` | proofs about `RequestHandler` and `Server` | |
| `BackupClientProofs`, `SyncProofs`, `RefinementProofs` | proofs about `BackupClient`, `ClientRequest` and `FileWatcher` | each extends the one before it |
| `ConnectionProofs` | proofs about `Connection`, `RequestParser`, `Crypto` and `Reply` | |
| `ClientRequest` | class `client` and the server as it sees it | `check_connection`, `req[t]` (one record per thread: the pending handler, method, path, body, fate of the connection, loaded value of the flag, endpoints left, status of the reply), `server` (up, deaf: listening but accepting no more, or down), `auth` (whether it knows the credentials), `remote`, `faults`. One action per handler and outcome |
| `BackupClient` | `main.cpp`: login, polling, synchronization, reconnection, over several lives of the process | composes `FileWatcher` and `ClientRequest` under `pc[t]`; `tentativi`, `deleted_files`, `seen`, `walk`: where the login and each `checksync` are. One action per step between two points where another thread can be seen; `Exit` is Ctrl-C, `Start` the next life |
| `RequestHandler` | `request_handler.cpp` on concurrent connections: the abstract view of the server process | `kind`, `content`: the disk; `conn[c]`: the request of each connection and how far it is; `alive`: the process. One action per file system call, one per entry for `remove_all` and `create_directories` |
| `Server` | `server.cpp`, `main.cpp` of the server and the life cycle of connections, around `RequestHandler` | `open`: accepted connections, that is, descriptors in use; `accepting`: whether an accept is pending; `stopped`: the io_service; `stored`: the files whose upload was acknowledged and that no DELETE has been for since (history). One action per handler and outcome; `Signal`, `ShutDown`, `StartServer` for the process |
| `RequestParser` | `request_parser.cpp`, the text the client writes, `url_decode` | no state of its own: `Post`, `Compare`, `Erase`, `SignIn` are the client's requests, `RequestText` their text; `Rows` is the switch of `consume` as a table, `Consume` one character, `Parse` one buffer |
| `Crypto` | `base64` and `decode64` of `crypto.cpp` | operators; the buffer that `decode64` returns, and what `std::string` makes of it |
| `MimeTypes` | `extension_to_type` | operators |
| `Reply` | `reply.h`, `reply.cpp`, and the client's reading of the status line | operators: `StockReply`, `ToBuffers`, `ReadStatusLine` |
| `Connection` | `connection.cpp`: one connection from start to end, the checks at the head of `handle_request`, and the client at the other end | `sent`, `wire`: the request and what has not been read of it; `parser`, `stage`, `reply`: the server; `answer`, `client`: the reply on its way and what the client reads. One action per handler and outcome; `HandleRead` takes any piece that has arrived |
| `MCWatchedMirror`, `MCRequestHandler`, `MCServer`, `MCConnection` | instances for TLC | |
| `MCRequestHistory` | `RequestHandler` with the entry as it was when the request came in (history) | `before`; only for `ErrorChangesNothing` |

`BackupClient` runs the server's work as one atomic step (`ServerHandles`).
`RequestHandler` is the detailed view of that step; its property `RepliesTrue`
says when the step may be taken for atomic: when no POST or DELETE of a related
entry overlaps it. The watcher's thread sends one request at a time, so within one
client only the initial synchronization overlaps. `Server` takes the actions of
`RequestHandler` and adds when they can happen: only on accepted connections, and
no new one once the io_service is stopped. `ServerDeaf` of `ClientRequest` is
`AcceptFails` of `Server` as a client sees it. `Connection` ends where
`RequestHandler` begins: of a request that it does not refuse it allows every
result that the handler has for it, and what it refuses, or answers as a login
or ping, is `Dismiss`. Its properties `ReadsWhatWasSent` and
`RepliesUnderstood` are what lets the other modules pass a request from client
to server, and a status back, as a record.

Operators whose comment starts with `Bug:` are no part of a specification.
Each is a mistake the code could have made, with the parameters of the
definition that follows it; put in that definition's place, it makes TLC find
the property that PROJECT.json names violated.

### What the models leave out

* **Text.** In all modules but `RequestParser`, `Crypto` and `Connection`, paths,
  contents and hashes are values. A content is the stamp of
  the write that made it, so equal contents mean the same write; a hash is its
  content. A file that cannot be opened reads as the empty content.
* **Failed writes and names without an extension in the client.** The answer that
  `ClientRequest` gives to a request is that of an undisturbed handler on an entry
  whose name tells what it is: the 500 of a failed write, and the file that becomes a
  folder, are in `RequestHandler` only. Entries are independent there as well:
  what `remove_all` does below an entry and `create_directories` above it is not seen.
* **Directories in the client.** The watcher and `checksync` treat each entry
  on its own, so the client's entries are a flat set. Where a folder that
  vanishes makes the iterator throw, any vanished entry may (`AbandonScan`,
  `SyncAbandon`). The tree matters on the server and is in `RequestHandler`.
* **Requests under way at Ctrl-C.** `EndOfLife` drops them. That the server
  handles one of them after all is the same as that it did so just before the
  exit, unless the client is started again faster than the server gets to it.
* **The pool of threads** of the server is as large as it needs to be. A smaller
  one only takes interleavings away, as no handler waits for another.
* **Descriptors** are counted for connections (`AcceptFails`), not for the
  files that handlers open; memory is not counted.
* **Credentials** are, in `BackupClient`, known or not; `Connection` has the way
  from a hash through base64 to the comparison. The hash function is injective.
* **Time.** A poll, a tick of the timer and a handler come at any moment.
* **Undefined behaviour.** The unsynchronized increment of `check_connection`
  is a load and a store (the build does not optimize). The uninitialized
  `statuscode` of a failed request may or may not read as 404 or 305. Broken
  iterators of the shared list `deleted_files` are left out; each access to it is atomic.
* **Torn reads.** The client's read of a file yields one version of it. A file
  that changes meanwhile has a new modification time and is read again.
* **Characters.** `RequestParser` has those of base64 and otherwise one
  character for each class that the code tells apart. The numbers of the HTTP version and the names of the
  headers are parsed and dropped: nobody reads them.
* **`check_connection` above 1** is one value, `Many`: the code only tells 0,
  1 and the rest apart. Its overflow after 2^31 requests is left out.

## The runs

| run | instance | shows |
|---|---|---|
| `watched_mirror` | 2 entries, up to 3 edits that write, any number of removals | no change is missed (`NoMissedChange`), the invariant proved below, and that the copy becomes the folder (`EventuallyMirrored`) |
| `client_calm` | 2 entries, 2 writes, no faults; every initial state of the server: up to date, older or without the file | the client implements `WatchedMirror` (`Refinement`) and mirrors (`EventuallyMirrored`, `InSyncAtRest`) |
| `client_faults` | 1 entry, 1 write, 2 endpoints, 1 fault of any kind: an outage, a lost request, a failed resolution, a server that stops accepting, Ctrl-C; right and wrong credentials | edits after an outage are mirrored (`EditsAfterRecovery`), an undisturbed synchronization repairs (`CheckSyncRepairs`), so does a new start except for removals (`RestartRepairs`), nobody without an account gets past the login unless a fault hides the rejection (`RejectedStaysOut`), no fault but a server that never answers stops the polling (`MainKeepsPolling`), the client notices that the server is back (`Reconnects`) |
| `request_handler` | a folder with two folders in it, one of which has a file; 2 connections, which are all the descriptors there are; writes that can fail | what a reply says is so (`RepliesTrue`) and the process ends between requests only (`DiesOnlyOnOverlap`), unless a POST or DELETE of a related entry overlaps; an upload that was acknowledged is kept, whatever overlaps (`UploadsKept`); a signal ends the process (`SignalEndsServer`) |
| `connection` | every path of up to 2 of 8 characters and some longer ones; every body of up to 3 characters of the marker, some with the marker; all methods; two accounts and every hash that differs from one of them in one place by one of four digits; pieces of up to 3 characters | the server reads what was sent however it is cut (`ReadsWhatWasSent`), which names arrive as they are (`PlainPathsArrive`), logins and uploads are told apart (`UploadsAndSignIns`), exactly those with an account are let in (`AccountsRecognized`), it never waits for text that will not come (`Answered`), and the client takes a reply for what it is (`RepliesUnderstood`) |
| `initial_sync_race` | 1 entry, no faults | violated (`NothingInvented`): a file is created after the watcher has recorded the folder, the initial synchronization lists it, the user removes it, and the synchronization posts an empty file, which nothing ever removes |
| `lost_request` | 2 entries, 1 lost request | violated (`ChangesArrive`): a new file is posted, the connection is made and then lost, the server comes back, and nothing ever repeats the POST |
| `lost_deletion` | 1 entry, 1 outage | violated: a DELETE that was refused is not noted, since another thread's attempt has counted the flag up. The other half of the property, that what is noted is kept, is violated as well when checked alone: a synchronization that fails clears the list |
| `error_reply` | a folder and a file, 1 connection | violated: a POST answered with 500 has changed the disk |
| `dotted_folder` | a folder `d.x` and a file in it, 1 connection | violated: the second POST ends the server |
| `file_without_extension` | a file whose name has no extension, 1 connection | violated: it becomes an empty folder, with a reply that says `created` |
| `body_with_marker` | bodies of up to 4 characters of the marker | violated: a file with `EOF%` in it is cut off there |

The violated properties are statements of the repository's README; PROJECT.json
quotes them under `findings`.

**Bounds.** `MaxStamp` bounds the writes: with three, one entry can be written
before its visit, between visit and read, and between read and report.
Removals and creations of other entries need no bound. `MaxFaults = 1` is one
whole outage (down and up again), one set of lost requests, one failed
resolution, one failed accept (the restart that mends it is free), or one exit
of the client at any moment: the three threads meet every phase of it. Wrong
credentials are no fault in that count. `MaxTentativi = 3` is the number in the code. `client_faults` uses one
entry, because the watcher and the synchronization treat entries separately
and what one fault does to one entry does not depend on the other; the flag,
which does couple them, is shared by three threads in that run too. The one
other coupling, a vanished folder that makes a synchronization drop the entries
behind it, resets the history variables like a fault, so that the properties
claim nothing of the entries it has dropped. With
`InitialSyncAlone`, edits and faults wait for `f` to end: the runs that pass
say what holds from then on, `initial_sync_race` what does not hold before.
In `RequestHandler`, two connections, three levels and a fork are enough for each call
to meet each other one on the same entry, above it, below it and beside it in the
same folder, and for an accept that finds no descriptor left. The fork matters:
on a chain of entries every two are related, and a request that nothing overlaps
would be alone on the server. With it, two requests create or leave the folder that
their entries share while both are held to their replies.
In `Connection`, the parser has one character of memory outside the body and
the last four inside it: names of two characters meet each rule of `url_decode`
with each neighbour, and bodies of three characters in front of the marker
contain every way to end in a part of it. Larger pieces are sequences of small
ones; three are enough to have the end of a request in the middle of a piece.
The hashes have five digits: like the 128 of SHA-512 that is two more than a
multiple of three, which decides about the padding.

**Fairness.** `WatchedMirror` and `BackupClient` assume weak fairness of each
thread (they are threads of the operating system that never wait for each
other, except main for its own futures) and of the server's answer to a
request it holds. `Connection` assumes weak fairness of the pool of threads,
which runs what is ready, and nothing of the client. `Server` assumes weak
fairness of each handler that runs, of the writes, and of `main`, which ends once
the threads are joined; nothing of the clients, of the signal or of who starts
the server. As `SignalEndsServer` is a liveness property, its run goes without symmetry. Nothing is assumed of the user, who may leave the login prompt unanswered and
the client off, of the faults, or of the server's return: `Reconnects` has that
as its premise, `EventuallyMirrored` that the user has logged in. It needs no
premise on the editing since writes are bounded and a user who goes on removing
has nothing left to remove. A deaf server does not answer and nobody need
restart it: `MainKeepsPolling` excepts the request that is queued there for ever.

## The proofs

`WatchedMirrorProofs` proves, for every set of entries and every `MaxStamp`:

* `Inductive`: `Spec => []IInv`;
* `TypeCorrect`: `Spec => []TypeOK`. Besides the types it says that the erase
  loop only stands on keys that are in the map;
* `WatcherMissesNothing`: `Spec => []NoMissedChange`;
* `CopiesOnlyAdvance`: `Spec => NoStaleOverwrite`, no copy is replaced by an
  older content of the same file.

The only assumption on the constants is `NoPath \notin Paths` (and that
`MaxStamp` is a number).

`NoMissedChange` says that an entry whose recorded time is its current one has
its content in the copy. It is not inductive: the recorded time is set when the
callback starts, the copy when it has reported. `IInv` adds what bridges that
time: if the entry has not changed since its time was recorded, what the
callback has read, and then what it has reported, is its content
(`CallbackFresh`); a write takes a stamp above all recorded ones, so it can
never match one (`StampsBounded`); an entry that is removed before the watcher
has ever seen it leaves nothing behind (`UntrackedHasNoCopy`); and the callback
is in the loop that its status says (`CallbackAgrees`). One lemma per group of
actions shows that the step preserves it.

`ServerProofs`, `OverlapProofs` and `RepliesProofs` are about the server, for
every tree of entries, every set of connections and either value of
`WritesFail`. The tree need not be one: `TreeAssumption` asks that "lies in" is transitive
and irreflexive. They prove:

* `HandlerTypeCorrect`: `Spec => []TypeOK`. Its deep part is the tree: what
  exists lies in folders that exist, and only files have a content. The
  invariant `HandlerIInv` adds that a request that is worked on is one for an
  entry, and that a file which a request has open and which has kept its name is
  a file (`LinkedOK`): else a write would give a content to a folder;
* `ServerTypeCorrect`: `ServerSpec => []ServerTypeOK`. Each step of the process
  is one of the handler or a stutter (`ServerStep`), so the invariants of
  `RequestHandler` hold of it as well;
* `ServerDiesOnlyOnOverlap`: `Spec => DiesOnlyOnOverlap`, if no folder has an
  extension (`NamesTell`; the run `dotted_folder` shows why). What create_directories and remove_all have looked up
  may be out of date when they act on it. `OverlapInv` says that for a clean
  request it is not: all that is left below its entry is in its list, and all
  that is missing above it is (`CleanOK`). Others cannot change that,
  because they create above their own entry and remove below it, a GET does
  neither, and a clean request is apart from the others (`Apart`, `OthersStep`);
* `RepliesAreTrue`: `Spec => []RepliesTrue`, if moreover the files are the
  entries with an extension (`FilesHaveNames`; `file_without_extension`).
  `RepliesInv` carries a clean request from the folders that are there when the
  file is opened, over the empty file that has its name, to a reply that is true
  and stays so until it is sent (`Ready`). That the file is empty when it is
  written to is what keeps a longer content's tail out of it.
* `UploadsAreKept`: `ServerSpec => []UploadsKept`, under `FilesHaveNames`, with no
  condition on what overlaps. `StoredInv` says that the folders of a file that is
  remembered stay, since only a DELETE removes a folder, and that the file is there
  or a POST of it has still to open it (`Safe`); that POST cannot be refused, and the
  end of the process waits for it.

`BackupClientProofs`, `SyncProofs` and `RefinementProofs` are about the client,
for every set of entries, every `MaxStamp`, every number of endpoints and of
login attempts, and every kind and number of faults. The assumptions on the
constants are those that `FileWatcher`, `ClientRequest` and `BackupClient`
declare.

* `BaseInductive`: `Spec => []BaseInv`. The three threads interleave between
  any two of their steps, so every other proof needs to know of each of them
  where it can be while another one moves, and what that says of its data.
  `ControlInv` has the program counters: the tasks are there if and only if the
  watcher is. `WatchInv` has the watcher's fields: in a callback there is an
  entry, it is recorded, and it comes from the loop that its status says.
  `RequestInv` ties the request of each thread to the step that waits for it: its
  method, its entry, and that no thread goes on while a handler is pending.
* `ClientTypeCorrect`: `Spec => []TypeOK`.
* `RejectedWatchesNothing`: `Spec => []RejectedStaysOut`. The flag is reset by
  each attempt and counted up by whatever gets an answer; `RejectInv` follows it
  from the attempt to the decision.
* `CalmSyncRepairs`: `Spec => CheckSyncRepairs`, with no assumption on what
  happened before, nor on what the other threads do meanwhile, other than what
  makes a synchronization disturbed in the sense of the history variable `calm`.
  `CalmInv` says that each entry still has its turn in the walk, or has it, with a
  request whose effect will be right (`Compared`), or is on the server as it is on disk.
* `EditsSurviveFaults`: `Spec => []EditsAfterRecovery`, and `RestartMakesGood`:
  `Spec => []RestartRepairs`, both if `InitialSyncAlone`: user and faults wait
  for the initial synchronization. This hypothesis is needed: `initial_sync_race` is
  the counterexample without it. The invariant is `RepairInv`: besides `BaseInv`
  and `CalmInv`, nothing has a stamp from the future and a new
  stamp is above all others (`StampInv`), so that what is due after a fault
  can be told from what was written before it; the initial synchronization,
  left alone, finds nothing changed and so sends nothing but the files as they are
  (`AloneInv`); an entry written since the last fault is unrecorded, or under way in
  a request that nothing has disturbed, or on the server (`DueInv`), also while
  main synchronizes and compares that entry; and in a life without a fault main
  never synchronizes, so that an entry the watcher does not track is on the server at
  most as it was before that life (`QuietInv`).
* `RestIsInSync`: `Spec => []InSyncAtRest`, and `ClientRefinesMirror`:
  `Spec => Refinement`, if `InitialSyncAlone` and `FaultKinds = {}`, the
  constants of `client_calm`. `WellInv` says what no fault means for
  the client: each request is counted, so that the flag is `Many` from the login on,
  main never synchronizes, and entries it does not track have no copy. The
  refinement is a step simulation. A callback of the client, with the request in it
  and its handlers, is at most one read, one report and one return of
  `WatchedMirror` (`StageAgrees`); the report is the step at which the server
  answers. All steps of the initial synchronization are stutters, because the mirror is
  taken for complete until it ends, and its last step is one, because by then it
  is (`CalmInv`).

Each of these invariants has been checked by TLC before: those of the server on
the instance of `request_handler`, `BaseInv`, `RejectInv` and `RepairInv` on
that of `client_faults`, and these with `WellInv` on that of `client_calm`.

`ConnectionProofs` is about one connection, for every set of requests that the
client can make, all accounts, every size of the buffer and every way to cut the
text into pieces. It proves:

* `TextsAreRead`: `Spec => []ReadsWhatWasSent`, what the parser hands on is what
  the client has put in;
* `ConnectionTypeCorrect`: `Spec => []TypeOK`. Its deep part is that
  `consume()` has a case for every state that it can be in, and that the
  connection reads on as long as, and no longer than, the parser wants more;
* `HashRead`: `CString(Decode64(Base64(s))) = s` for every text without a zero
  byte, and with it `AccountsAreRead`: `Spec => []AccountsRecognized`;
* `PathsArrive`: `Spec => []PlainPathsArrive`;
* `SignInsAreTold`: `Spec => []UploadsAndSignIns`;
* `RepliesRead`: `Spec => RepliesUnderstood`.

`ConnectionAssumption` says what the client gives its constructor, and no more.
The path and the content are any text. The name of the account is one word, as it is
read with `cin >>`, and may have a question mark, which the parser takes for a
control character. The hash is made of bytes other than zero (hexadecimal
digits). The length, a number from `lexical_cast`, is empty in a POST only for
`/login` and `/reconnect`, plain paths without a dot, which have no type either.

`OneLine`, a premise of three of the properties, is not an assumption but a
limit of the format: a file name with a question mark and a line end in it
can read like the rest of a request. Names with one of the two are covered; a
line end is refused, and so is a question mark (`PlainPathsArrive`).

The argument has two halves. `ConnectionInv` says that the parser is where it
would be had it read, in one piece, all that is no longer on the wire
(`WireInv`), and that the reply is one that the handler has for what the parser
has found (`ReplyInv`). This is inductive because reading a text and then another is
reading both (`ParseConcat`). The other half is what the parser makes of the
whole text (`ReadOrRefused`): a plain request is read part by part, method, path,
version, seven headers, body (`ParseRequest`), and one with a control character
in its path or account is refused at the first that is there (`PathRefused`,
`ClientRefused`). A body ends at its first marker, and no text that the body
ends in can be the beginning of an earlier one (`ParseBody`).

What a fold or a recursive function computes for every text needs induction.
The library's theorems for it take an operator as a parameter; `Least` and
`Induction` take a set of numbers instead, and are proved from the
well-foundedness of the numbers, so that the induction hypothesis is the
definition of a set, here of the lengths for which the claim holds.
`Parse` is defined by a fold over sets, which nothing says has a solution:
`FoldExists` shows that it has, and `ParseRuns` that it reads the buffer in its order.

### What no property rules out

Some hazards are in the models, and the properties step around them, since the
code does go wrong there; PROJECT.json lists them without a property. A
synchronization that is due may never be started, because the 1 that asks for it
is counted up before main looks. A request to a server that accepts and never answers
blocks main for ever (`MainKeepsPolling` excepts it). A GET that fails leaves it to the
uninitialized `statuscode` whether the file is sent. A login that gets no answer is
taken for accepted. A walk that is abandoned leaves the entries behind it as
they are. A GET that a POST of the same entry overlaps may judge a file half written,
and requests on an entry and on a folder it lies in may make each other throw.

### What is model-checked only

* The liveness properties (`EventuallyMirrored`, `MainKeepsPolling`,
  `Reconnects`, `SignalEndsServer`, `Answered`): they hold by fairness, which is out of
  the prover's reach.

## Plan

In this order:

1. *(done)* `FileWatcher`, `WatchedMirror` and its proofs; `ClientRequest`,
   `BackupClient`; `RequestHandler`.
2. *(done)* `RequestParser` and `Connection`.
3. *(done)* `Server`: the acceptor, one failed accept, the signal; the client's
   request against a server that listens and never answers.
4. *(done)* Login loop and lives of the client, with what an earlier life has
   left on the server; `Reply`, `MimeTypes`, `Crypto` on the way between the two.
5. *(done)* Proofs about `RequestHandler` and `Server`: types,
   `DiesOnlyOnOverlap`, `RepliesTrue`, `UploadsKept`.
6. *(done)* Proofs about the client: types, the login, the synchronization,
   `EditsAfterRecovery`, `RestartRepairs`, and the step simulation of
   `WatchedMirror`.
7. *(done)* Proofs about `Connection`: what the parser makes of every text, the
   credentials, the path, the reply.

### Not modelled

* `CalcSha512`: three calls of OpenSSL and a conversion to hexadecimal digits.
* `type_to_extension`, which nothing calls, and the server's copy of
  `mime_types.cpp`, which is linked and not used.
* `handle_read_headers` and `handle_read_content` of the client, which need a
  reply with status 200; `RepliesUnderstood` checks that there is none.
* The second `main` of the server, for Windows: the rest of the code uses POSIX
  paths and the client has no counterpart.
* The wording of pages, messages and log lines, and declarations.
* The generated build trees. `CMakeCCompilerId.c` and its C++ counterparts, six
  files that CMake compiles to find out about the compiler, make up two thirds
  of the lines in the repository that have the suffix of a source file; none of
  them is part of the program. What is left is about 2270 lines, of which the
  map covers 60 %; the rest is declarations, includes, comments, output
  and the parts named above.
