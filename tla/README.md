# A verification of memos-js

memos-js is a note-taking server with a web client: a Hono application over one
SQL database (better-sqlite3 on Node, D1 on Cloudflare Workers), file storage
beside it, and a React client that talks to it over `/api/v1`. This directory
holds TLA+ models of the parts where several requests, several browser tabs or a
failure in the middle of a handler decide the outcome, the TLC instances that
check them, and proofs that TLAPS checks for every value of the constants.

| Modules | Subject |
|---|---|
| `Sessions`, `SessionHistory` | sign-in, refresh, sign-out; the stored sessions against an atomic store |
| `Accounts` | registration, profile changes and renames, sign-in through a provider, linked identities |
| `DocumentCalls`, `Documents`, `SettingDocuments` | the JSON setting documents: the calls, what is promised, the handlers |
| `Memos` | memos, comments, relations, reactions, share links, inbox |
| `Attachments` | uploads, storages, links to memos, serving |
| `MemoPages` | lists: filter, order, offset pages, the client's infinite query |
| `ClientToken` | the access token in the browser's tabs |
| `MemoCache` | the client's cached copies of a memo, optimistic changes |
| `MemoEditor` | drafts and saves of the memo editor |
| `*_proofs` | the theorems about the module of that name |
| `MC*.tla`, `MC*.cfg` | the TLC instances |

`PROJECT.json` says which definition stands for which lines, and lists the runs,
the mutants, the hazards and the theorems. Run `tlc -config MCMemos.cfg
MCMemos.tla` for an instance and `tlapm Memos_proofs.tla` for a module of proofs.

## 1. The system

### What is atomic

The server models rest on one fact about the code: **no handler opens a
transaction**. `repository.ts` is a list of functions that send one SQL statement
at a time through `SqlAdapter` (`queryOne`, `queryAll`, `execute`) and await each
of them; handlers call several such functions, and await passwords, signatures,
request bodies, files and remote calls between them.

On D1 (`worker.ts`) every statement is a call to another service, so any two
requests may interleave between any two statements; and a statement may fail, or
the isolate may go away, after any other. On Node the statements of better-sqlite3
are synchronous behind an `async` wrapper, so requests only interleave at the
awaits that leave the microtask queue: the request body, bcrypt/PBKDF2, token
signatures, files, `fetch`. The server models therefore make **one SQL statement
(or one storage operation) with the computation up to the next one an action**,
which covers D1 and includes every interleaving of Node. Where the two runtimes
differ in what they guarantee (`Accounts`, `SettingDocuments`), the runtime is a
variable: on Node `turn` is the request whose chain of microtasks is running, and
nobody else takes a step until that request waits for the world outside.

### Components

| Component | State | Operations | Correct when | Here |
|---|---|---|---|---|
| Sessions: `routes/v1/auth.ts`, `jwt-refresh.ts`, `repository.ts` 380-395, 632-694 | `system_setting` BASIC (secret key), one `user_setting` REFRESH_TOKENS document per user | signin, refresh (rotation), signout, ensureSecretKey | a rotated or removed session never works again; one device does not lose its session to another; no token without a key | modelled |
| Accounts: `routes/v1/users.ts`, `repository.ts` | tables `user`, `user_identity` | register, patch, rename, archive, restore, delete, link, unlink | names unique; only a first account becomes an administrator unasked; a patch lands on one row | modelled |
| Identity providers, SSO: `idp.ts`, `oauth2-idp.ts`, `auth.ts` | `idp`, `user_identity` | configure, sign in through a provider | a link stands until it is unlinked | partly: the exchange is an answer |
| User setting documents: `users.ts`, `user-setting-auth-shortcuts.ts`, `user-webhooks-setting.ts` | one JSON document per user and key | add, change, remove a token, shortcut, webhook; general settings | no update lost, no secret lost | modelled |
| Instance settings: `routes/v1/instance.ts` | `system_setting` | read, patch GENERAL, STORAGE, ... | merges lose nothing; a choice is what is used | partly: no e-mail transport |
| Memos: `routes/v1/memos.ts`, `repository.ts`, `user-webhook-dispatch.ts` | tables `memo`, `memo_relation`, `reaction`, `memo_share`, `inbox` | create, comment, patch, archive, hard delete, set relations, react, unreact, share, unshare, notify, dispatch webhook | notifications and shares lead somewhere, comments stay attached, deleted memos stay deleted | modelled |
| Notifications list: `users.ts` | table `inbox` | list, mark read, delete | a row leads to what it is about | partly: rows in `Memos` |
| Lists, filters, pages: `memos.ts`, `memo-filter.ts`, `useMemoQueries.ts` | none on the server; pages in the client | filter, sort, page by offset, fetch on, fetch again | pages cover what did not move; the filter holds | modelled |
| Attachments: `routes/v1/attachments.ts`, `app.ts` (`/file`), `attachment-storage*.ts` | table `attachment`, blobs or objects on disk, R2 or S3, the STORAGE setting | upload, external link, delete, batch delete, patch, set a memo's list, serve | what was uploaded is served; no file without a row; a memo has the list it was given | modelled |
| Browser token client: `connect.ts`, `auth-state.ts`, `AuthContext.tsx`, `useTokenRefreshOnFocus.ts` | token in memory per tab, `localStorage`, cookie jar, BroadcastChannel, one refresh promise per tab | fetch with refresh and retry, load, focus, sign-out, broadcast | a user stays signed in while the session lives; every fetch ends | modelled |
| Query caches: `useMemoQueries.ts`, `query-client.ts`, `MemoReactionListView/hooks.ts`, ... | cached memos, lists, users, attachments | optimistic update, rollback, invalidation, refetch | a copy that counts as fresh is what the server has | partly: one memo, and lists |
| Editor: `useAutoSave.ts`, `cacheService.ts`, `memoService.ts`, `MemoEditor/index.tsx` | a draft per editor in `localStorage`, the form, a save under way | type, debounce, flush, save, clear | no draft lost, no sent draft back, posted once | partly: no files |
| Live refresh: `sse.ts`, `sse-bus.ts`, `useLiveMemoRefresh.ts` | subscribers | subscribe, emit | | not modelled |
| Migrations, request pipeline, AI routes, pure helpers, entry points and adapters, user interface, scripts | | | | not modelled (section 6) |

### How they interact

- A browser tab calls the server with the access token it holds; on a stale token
  or a 401 the tab refreshes with the HttpOnly cookie (`ClientToken` on the
  browser's side, `Sessions` on the server's).
- The editor reads a memo, sends the difference, and invalidates what is cached;
  mutations write to the cache first (`MemoEditor`, `MemoCache`, `MemoPages`).
- `Memos` writes the inbox rows that the notifications list shows, and then sends
  the webhooks configured in the receiver's setting document.
- An upload may name a memo, and a memo's patch may carry a list of attachments;
  the relation is `attachment.memo_id`, a column that no foreign key guards.
- Memos, attachments, sessions and setting documents all look users up by
  **username** at several places of one request, and an administrator or the user
  may rename the account.
- A storage is chosen by the STORAGE setting *of the moment*, for the put, for the
  delete and for serving; the row only remembers the type that was used.

### What is hard

- *Read, await, write back* of whole JSON documents: the sessions, the setting
  documents, a memo's payload.
- *Checks that age*: a handler reads the memo, the user, the count of users or the
  identity and acts on it several statements later.
- *Failures in the middle*: object before row, reactions before memo, fields before
  rename, relations one by one; nothing is rolled back.
- *Two tabs*: refresh rotation deletes the session it is asked with; tabs share
  drafts under one key.
- *Late answers*: a refetch, a mutation's answer, a timer or a broadcast arrives
  after what it was asked for has changed again.
- *Offsets* into a list that changes between two pages.

`PROJECT.json` lists these at their lines under `hazards`, with the properties
that would show each of them going wrong, and those that no property covers yet.

## 2. How the models are built

Each module is one component: its tables and stores as variables, one record or a
few functions for what each request (or each tab, fetch, call) holds, one action per
statement, storage operation or event. The conventions are the same everywhere.

- A request is a process that is served **at most once**; `pc` (or `req[r].pc`)
  says which statement it sends next, the other fields are the locals of the
  handler. Where the code makes a `crypto.randomUUID()` or a row id, the model uses
  the request itself: it never repeats.
- `XStart` or `Begin` is the part of a handler up to its first statement whose
  outcome can change under it: body, authentication, validation, the first lookup.
- `Crash(r)`, `Lose(r)`, `Fail(t)`: a statement fails (the handler answers 500), a
  process exits, an isolate goes away, a request or its answer is lost. What was
  written stays, since there is no transaction.
- In the client an action is one event with all the continuations it releases:
  JavaScript runs them before the next event.
- Contents that users make (texts, values of fields) are the numbers of the changes
  that made them, so that a property can tell whose value it sees.
- A variable called *history* in its comment is read by no guard; it records what
  a property must know of the past.
- A definition called a *mutant* in its comment is a plausible wrong version of the
  one after it. No specification uses it; `PROJECT.json` pairs it with a property
  that it breaks.

### `Sessions`: `server/routes/v1/auth.ts`

| Model | Code |
|---|---|
| `status`, `username` | `user.row_status`, `user.username` (UNIQUE over all rows) |
| `secret` | `system_setting` BASIC, `secretKey` |
| `docs[u]` | the `REFRESH_TOKENS` document of user `u`, as a set of sessions |
| `expired` | refresh tokens whose time has come |
| `req[r].snap` | the parsed document a request holds between its SELECT and its upsert |
| `EnsureKeyRead`, `EnsureKeyWrite` | `ensureSecretKey` |
| `SigninStart`, `SigninKey`, `SigninUserId`, `AddRead`, `AddWrite` | `POST /auth/signin` with `addRefreshSession` |
| `RefreshStart` ... `RefreshUser`, `PurgeRead/Write`, `RotateRead/Write`, then `AddRead/Write` | `POST /auth/refresh` |
| `SignoutStart` ... `SignoutOwner`, `DropRead/Write`, `SignoutClear` | `POST /auth/signout` |
| `RegisterStart`, `CreateUser`, `ProfileStart` | `POST /users`, `GET /instance/profile`: here for the key and the rows they make |
| `SetState`, `Rename`, `Expire` | other requests and time, as single steps |

Every write goes by *username* to the NORMAL row that has it now (`Holder`,
`PutDoc`), because `upsertUserSetting` selects the user again. The random
30-day/15-minute lifetimes are `Expire`, at any time. A user's own
`PATCH .../settings/REFRESH_TOKENS`, which replaces the document by an empty one, is
what `SignoutClear` does for a browser without a cookie; an administrator's for another
user is not modelled. `SessionHistory` adds three
history variables: `ideal`, an atomic store of sessions; `raced`, the users for
whom two read-write windows have overlapped; `disturbed`, the requests during
which a username changed.

*Properties.* `NoResurrection`: a session that no document has, and that no request
carries in a copy it read, never works again. `SerialUnlessRaced`: outside `raced`
the stored document **is** the ideal one; this says exactly what the
read-modify-write guarantees, and what it does not. `OwnSessions`:
although everything is addressed by username, a document holds sessions of its user
only, unless a rename ran during the request.
`ArchivedFrozen`, `UniqueNames`, `KeyNeverMissing` as their comments say.

### `Accounts`: `server/routes/v1/users.ts`, `auth.ts`, `repository.ts`

| Model | Code |
|---|---|
| `name[i]`, `status[i]` | the rows of `user`: those there before (`Old`), and one per request that inserts |
| `links`, `idps` | `user_identity` with its two UNIQUE constraints; `idp` |
| `closed` | `general.disallowUserRegistration` |
| `BeginRegister`, `Count`, `Look`, `Insert`, `Reget` | `POST /users`: `userCount`, the look-up by name, the hash, INSERT, the reread |
| `BeginPatch`, `Fields`, `Clash`, `Rename`, `Reread` | `PATCH /users/:username`: `updateUser`, then `renameUser`'s check and UPDATE |
| `BeginSso`, `UserInfo`, `Look`, `Insert`, `Avatar`, `SignIn`, `Refused` | `POST /auth/signin/sso` and the registration it may make |
| `BeginIdentity`, `Own`, `Other`, `Upsert`, `Show`, `Drop` | linking and unlinking an identity |
| `Delete`, `Configure` | an administrator archives a user; providers come and go |
| `elders`, `landed`, `renamed`, `shown`, `gone` | history: which rows there were, and which row each statement found |

*Properties.* `Founders`: who registers while an account is there becomes an
administrator only when that was asked for, by an administrator, and registers at all
only if registration is open, unless all those accounts have been archived meanwhile.
`OneRow`: the statements of a handler address their row by name; on Node all of them
find the same one, and a refused rename has renamed nothing on either runtime.
`LinkStands`: on Node no upsert replaces a link that another request made between the
check and the write. On D1 other statements come between
these, and the two properties do not speak of it. Two
registrations of an empty instance that both count no user both become administrators:
`elders` is empty for both, and no statement of the code prevents it.

### `DocumentCalls`, `Documents`, `SettingDocuments`

`DocumentCalls` is what a call on a JSON document asks for and makes of the content
(`Applied`), for every kind of document: access tokens, shortcuts and webhooks (lists
of items with ids), the general setting (merged), other user settings, and the
instance's general setting (merged), AI providers (merged item by item, a missing key
keeps the stored one) and plain settings (replaced). The PATCH that knows neither tokens
nor shortcuts (`users.ts:723`) writes a document that reads as an empty list: `Settings`
has that call for both kinds. Secrets are left out of the answers; a webhook's alone can
be read, by `getSigningSecret`. An entry carries its author and
the author of its secret. `Documents` is the abstract promise: a call takes effect in
one step, on the content of that moment, at most once, and may be lost whole.

| `SettingDocuments` | Code |
|---|---|
| `doc`, `row`, `archived` | the row's JSON, whether it exists, `user.row_status` of its owner |
| `Begin` | authentication, body, `createPat`'s hash |
| `Read`, `Write`, `Reread` | `getUserSetting`/`getInstanceSettingRaw`, `upsertUserSetting`/`upsertInstanceSetting`, the read for the answer |
| `Lose`, `Archive` | eviction between statements; the owner is archived, or restored |
| `late` | history: calls whose copy was overtaken |

*Properties.* `NodeImplements` is the refinement: with the mapping `OnNode`, every
behaviour of a Node server is one of `Documents` (`Abstract!ASpec` as a property, and
as a theorem). On D1 it does not hold - a lost update is a call answered ok that had no
effect on the content - and the mapping holds the abstract document still there;
what remains true on D1 is `FreshUnlessLate`. `SecretsKept`: a stored secret goes only
with a replacement of the list, its own entry, or a write that was overtaken. So it covers
the changes of one webhook and the merge of the providers; the webhooks' PATCH, which
replaces the list, loses what it is not sent.

### `Memos`: `server/routes/v1/memos.ts`

| Model | Code |
|---|---|
| `row[m]` | the memo's row (creator, visibility, state), `None` once hard-deleted |
| `relations` | `memo_relation`, with its UNIQUE constraint |
| `reactions`, `shares`, `inbox` | their rows, named by the request that made them |
| `posted` | the webhooks that were called |
| `account` | `user.row_status` |
| `condemned` | history: memos whose hard delete has begun |
| `FindCreator`, `InsertMemo`, `FindInserted`, `FindParent`, `LinkParent`, `FindParentRow` ... `Notify`, `RereadMemo`, `PostWebhook` | `POST /memos` and `POST /memos/{id}/comments` through `createMemo` and `dispatchMemoCommentWebhooks` |
| `FindPatched`, `PatchMemo`; `ArchiveMemo` | `PATCH`, `DELETE` |
| `FindDeleted`, `DeleteReactions`, `DeleteRelations`, `DeleteRow` | `DELETE ?force=true`, `hardDeleteMemo` |
| `FindSource`, `DropRelations`, `FindRelated`, `InsertRelation` | `setMemoRelations`, one relation at a time |
| `FindReactor`, `DeleteSameReaction`, `InsertReaction`; `DeleteReaction` | `upsertReaction`, `deleteReaction` |
| `FindShared`, `FindShareOwner`, `InsertShare`; `FindUnshared`, `DeleteShare` | `createShare`, `deleteShare` |

`memo_share.memo_id` has `ON DELETE CASCADE` and foreign keys are on by default in
better-sqlite3 and D1, so `DeleteRow` takes the shares along and an `InsertShare`
for a memo that is gone fails. The ids of memos are AUTOINCREMENT: a relation to a
memo that is gone never comes to name another one. A user has one webhook. PROTECTED
behaves as PUBLIC for the signed-in users of the model. Content, payload, tags, pin
and times are not told apart; users are usernames (renames are `Sessions`' subject).
The notification e-mail after the webhook changes no state and is left out. The
second half of a POST or PATCH that also carries attachments is `Attachments`' list
request (`LinkStart`): it starts when the memo's own statements are over.

*Properties.* `InboxTrue`: a notification was made by a comment that somebody else
posted, that was not private, and that hangs from the memo, unless a hard delete of
either has begun. `CommentsHang`: neither relation edits nor interleaved requests
cut a comment off its memo. `SharesHaveMemo`, `ReactionsKept`, `DeletedForGood`.

### `Attachments`: `server/routes/v1/attachments.ts`, `GET /file`

| Model | Code |
|---|---|
| `file[i]` | the row of attachment id `i`: the POST whose content it has, owner, storage type, kind, reference, memo |
| `object[<<s, i>>]` | the object of storage `s` under the key of `i`: the POST that put it |
| `setting` | `storageType` of the STORAGE setting |
| `memo` | the memos that exist |
| `PickStorage`, `PutObject`, `FindUploader`, `FindMemo`, `InsertAttachment` | `POST /attachments`, `createAttachment` |
| `FindDeleted`, `PickDeleted`, `DeleteObject`, `DeleteAttachment` | `DELETE`, and each turn of `:batchDelete` |
| `FindPatchedMemo`, `PatchRow` | `PATCH` of `memo` |
| `FindLinkedMemo`, `ClearLinks`, `SetLink` | `PATCH /memos/{id}/attachments`, `setMemoAttachments` |
| `Served(i)` | `GET /file/attachments/{id}/...`: resolve the storage of the moment, read the row's key from it |
| `SetStorage`, `DeleteMemo` | other requests, as single steps |

A reference is a path (LOCAL), a key (R2) or a URL of a key (S3, which stores the key
when the URL cannot be signed): `Returned`. A POST with an `externalLink` stores no
content, and its link, unchecked, as the reference: `Links` are what clients write, any
object's among them. Both deletes pass the reference of the row, whoever wrote it, to the
storage of the moment, and `Deletes` is what that storage makes of it: R2 and S3 build
the same key, and only S3 turns a URL back into one. Serving uses the key in the payload
instead (`Reads`), of which the R2 and the S3 storage accept each other's (they may be
the same bucket). `Usable` are the types that this runtime can
resolve; the others throw. A client may repeat the `attachmentId` of an earlier
upload and then repeats the file name, which is part of the key. `store[q]` is set
when the storage is resolved; `unlinked`, `switched` and `calm` are history:
which row's delete removed which id's object, a changed setting, and link requests that
no other request crossed. `publicBaseUrl` is never set by the resolver, and the
visibility checks of `/file` are those of `Memos`.

*Properties.* `FileServed`: while the setting names its storage, the file of an uploaded
row is served. Its exemptions are the ways the code has to lose it: a delete of the row
that stopped before the row went, the id uploaded again, and the deletion of an external
link that names its object (`Removed`). The last is an exposure, not a promise: the
property says that there is no other way. `LinksAsAsked`: a memo has the list it was
given, unless requests cross. `NoOrphans` was first stated
without its last disjunct; TLC refuted it with four requests: two deletes of the same
row, and an upload that reuses the id between them. The second delete removes the
*new* row, and the new object stays. The property names that case (`Reused`).

### `MemoPages`: `server/routes/v1/memos.ts` 297, `memo-filter.ts`, `useInfiniteMemos`

| Model | Code |
|---|---|
| `status`, `pinned`, `stamp`, `traits`, `sight` | the columns a list is filtered and sorted by |
| `Counts`, `Meets`, `Sees` | `parseMemoListFilter`: of two clauses of one kind one counts, but each of the flags for links, task lists and code; visibility |
| `memo` | the table, one row for each id; operators on lists take it as `db` |
| `Selected`, `Sorted`, `Slice` | `listMemosTopLevel`: WHERE, ORDER BY, LIMIT and OFFSET. A memo's place is the number of memos before it |
| `NeedsMemory`, `Filtered`, `Serve` | the handler, which matches text in memory on the first `MaxScan` rows |
| `shown`, `again` | the infinite query's pages, as the rows of all of them (the component's `flatMap`) and their number, and the refetch that will replace them |
| `Open`, `FetchNext`, `Refetch`, `RefetchNext`, `RefetchFails` | a query is opened, the next page, an invalidation and its pages one by one |
| `Create`, `Move`, `Delete`, `Pin`, `Edit` | someone changes a memo |

*Properties.* `PagesTrue`: where nothing changed during a walk its pages are the sorted
list from the top, each memo once, to the end, whether paged in SQL or in memory. What
it speaks of is `Reached`: a filter that is matched in memory ends the list with the
`MaxScan`-th row that was scanned, and what matches behind it is never shown. With
changes, the rows of memos that did not change are still the list's, for its viewer.
`NoneSkipped`: with changes, a memo that nobody touched is passed over only for one
that left the pages before it: insertions and rises show memos twice, never hide one.
It is stated of walks no page of which was cut by `MaxScan` (`whole`).

### `ClientToken`: `web/src/connect.ts` and its callers

| Model | Code |
|---|---|
| `mem[t]`, `store`, `chan[t]` | `accessToken` of each tab, `localStorage`, the BroadcastChannel messages under way to it |
| `flight[t]` | `refreshPromise` |
| `page[t]` | the document: loading, signed in, or at the sign-in page |
| `jar` | the HttpOnly refresh cookie |
| `age[g]` | fresh, stale (within the 30 s buffer), expired |
| `live` | refresh tokens with a stored session, the server's side |
| `call[c]`, `cookie[c]` | a request to `/auth/refresh` and the cookie it was sent with |
| `Fetch` | `apiFetch`: token, refresh first or send |
| `Focus`, `Load` | `useTokenRefreshOnFocus`; a new document and `AuthContext.initialize` |
| `Accepted`, `SignedOut`, `Denied`, `DeniedAgain`, `NoAnswer` | the ends and retries of a fetch |
| `Arrive`, `Refused`, `Abort`, `Adopt` | the refresh promise settles with or without a token; the navigation that left its document cut the answer off; a broadcast token is adopted |
| `Serve`, `Check`, `Drop`, `Issue`, `Lose`, `Grow` | the server, the network and time |

An action is one event of the browser with all the continuations it releases:
JavaScript runs them before the next event. The server is the Node one: the check,
the removal and the new session of a refresh are three steps, with a signature
awaited between them; `Sessions` has the finer grain. `Grow` lets a token age as the
code expects it to: it lives 15 minutes and a request less than the 30 s buffer,
except in a scene with faults. A refresh of a document that was left goes on at the
server (it is a fetch without `keepalive`, which the browser cancels and the server does
not notice); its answer may still bring the cookie (`Arrive`), or is dropped (`Abort`). A
sign-out whose document is left is taken not to reach the server. The 30-day end of the refresh token and a second signed-in
user are not modelled; pages are on routes that need a user.

*Properties.* `JarUsable`: however many tabs refresh, reload and focus at once, the
session is not lost to their races, but for one: the answer that a navigation cut off
carried the next cookie, and the one in the jar is spent. That needs no second tab and no
failure, and nothing in the code prevents it; the property says that it is the only way.
A broadcast token does not touch the cookie, so no property speaks of an older one that
is adopted late: it costs one more refresh. `StaysIn`: one tab alone, on a page that is not
loaded again, is never sent to the sign-in page. `FetchEnds`: every fetch, load, focus refresh and sign-out ends.

### `MemoCache`: `useMemoQueries.ts`, `query-client.ts`, `MemoReactionListView/hooks.ts`

| Model | Code |
|---|---|
| `data[q]`, `old[q]`, `fetch[q]` | the copy of query `q` (the memo's own, a list), `isInvalidated`, a fetch under way |
| `page` | the query with an observer |
| `call[c]` | a mutation, an edit or a reaction under way, with `previousMemo` and the answer |
| `Visit`, `Focus`, `Collect`, `Answer`, `Land` | mounting, window focus, the gcTime, a fetch answered by the server and landing in the cache |
| `Patch`, `Patched`, `Retry`, `Fail` | `useUpdateMemo`: `onMutate`, `onSuccess`, `shouldRetry`, `onError` |
| `Send`, `Edited` | `handleSave` and its invalidations |
| `Send`, `ReadAgain`, `Reacted` | `handleReactionClick` |
| `Execute`, `Others` | the server |
| `doubt`, `dead`, and `late`, `sound` in the records | history |

TanStack Query is external and modelled from its version 5.96: cancelling puts the state
before the fetch back, setting data ends invalidation, invalidating refetches what is
observed from the beginning, but not a first fetch that has no data yet. `staleTime` may
be over at any time. A memo stays in its list here; how lists move is `MemoPages`.

*Properties.* `ShownTrue`: when nothing is under way, a copy that does not count as
invalidated is the memo as the server has it. `doubt` names what the code cannot
know, and reading the model's assignments to it is reading the list of its exposures: another
client wrote; a change went through and its answer was lost; an answer or a refetch was
read before another change was executed and lands after it; a mutation cancelled the
refetch that an edit had asked for, marked its copy fresh, and then failed. `NoTrace`: a
change that failed and was never executed is in no copy, unless another mutation began
in its presence and holds it in its snapshot: when both fail, the second rolls back to
the first one's value.

### `MemoEditor`: `useAutoSave.ts`, `cacheService.ts`, `memoService.ts`, `index.tsx`

| Model | Code |
|---|---|
| `draft`, `timer` | `localStorage` entries by key; `pendingSaves` of each tab |
| `page`, `form`, `discarded` | the editor of each tab, its state, `discardedContentRef` |
| `step`, `job` | where `handleSave` is: reading, sending, answered; the state it saves, and its mask |
| `OpenDraft`, `OpenMemo`, `Type`, `Erase`, `Choose`, `Leave`, `Hide`, `EndTab` | the user; `useMemoInit`; `flushDraft` on hide and unmount; a closed or crashed tab |
| `WriteEntry` | the half-second timeout |
| `Save`, `GetMemo`, `UpdateMemo`, `PostMemo`, `Answered`, `Finish`, `Fail` | `handleSave` and `memoService.save` |

*Properties.* `PostedIsGone`: neither the timer nor a flush during the rest of the save
writes a posted text back as a draft. `PostedOnce`: a text is posted twice only after a
POST that went unanswered, or by two editors. `DraftKept`: what is left in an editor is
the draft that the next one finds, if no other tab had it. `SavedAsShown`: an update
makes the memo what the user saw, but for fields others wrote since it was read.

### How the modules compose

`SessionHistory` extends `Sessions` and replaces its `Next` by one that also updates
the history: it is the composition of the concrete document with the abstract store
(`ideal`), and `SerialUnlessRaced` is the relation between the two.
`SettingDocuments` and `Documents` both extend `DocumentCalls`, and the first
instantiates the second with a refinement mapping. `ClientToken` contains the
abstraction of `Sessions` that a browser sees: `live` for the documents,
`Check; Drop; Issue` for `RefreshRecord; RotateWrite; AddWrite`, `Serve` of a sign-out
for `SignoutClear`. `Memos` and `Attachments` share the memo rows: `DeleteMemo` of the
second is `DeleteRow` of the first. `MemoPages` is the server of the lists that
`MemoCache` keeps, and `MemoEditor`'s `Answered` is the `Edited` of `MemoCache`.

## 3. What the runs check

In the server's modules a run stops when nothing more can happen: every request is
served at most once, so the system may really stop; the modules either say so in
`Finished` or their cfg says `CHECK_DEADLOCK FALSE`. In the client's the bound on
changes ends a behaviour. The bounds are the sizes of the constants, the
`MaxTime` and `MaxEdits` of `MemoPages`, the `MaxChanges` of `MemoCache` and
`MemoEditor`, and the CONSTRAINT of
`attachments`: one of the three requests may be a batch or an external link, and behaviours
with such a request, a changed setting or an S3 URL that could not be signed name no memo,
while those that link attachments to memos have none of these. Linking reads no storage
and no reference, and storages do not depend on memos, so neither half misses a case of
the other.

| Run | Instance | What it shows |
|---|---|---|
| `sessions` | 2 users, 3 names, 3 requests, nothing registered at first | first key, registrations, sign-ins, refreshes, sign-outs, renames, archived rows: `TypeOK`, `UniqueNames`, `KeyNeverMissing`, `SerialUnlessRaced`, `OwnSessions`, `NoResurrection`, `ArchivedFrozen` |
| `accounts` | 2 requests, up to 2 older rows, 2 names, 1 provider, both runtimes | `TypeOK`, `Founders`, `OneRow`, `LinkStands` |
| `accounts_linked` | the same | violated: `LinkedSignsIn` |
| `documents` | 2 calls on every kind of document, both runtimes | `TypeOK`, `FreshUnlessLate`, `NodeImplements`, `SecretsKept` |
| `memos` | 2 users (one an administrator), a seed memo PUBLIC or PRIVATE, 2 requests of every kind | `TypeOK`, `InboxTrue`, `CommentsHang`, `SharesHaveMemo`, `ReactionsKept`, `DeletedForGood` |
| `attachments` | 1 user, 1 memo, 3 requests, the storages R2 and S3 (the Workers runtime), external links that are the key of any attachment | `TypeOK`, `FileServed`, `NoOrphans`, `LinksAsAsked` |
| `storage_database` | 1 upload | violated: `ChoiceHolds` |
| `pages` | 4 memos (3 at first, the tag on two), page size 1, 2 changes, a list paged in SQL and one with a tag and two has-clauses in memory, of which 3 rows are scanned | `ListTypeOK`, `PagesTrue`, `NoneSkipped` |
| `pages_words` | 3 memos, a search for two words | violated: `FilterHolds` |
| `client` | 2 fetches of any kind; one tab with faults, two without; under `FairSpec` | `TypeOK`, `JarUsable`, `StaysIn`, `FetchEnds` |
| `cache` | 2 calls, 2 changes; mutations, edits and reactions that fail, and all of them with another client, without failures | `TypeOK`, `ShownTrue`, `NoTrace` |
| `editor` | 2 tabs, home or comment editors with edits, 2 changes | `TypeOK`, `PostedIsGone`, `PostedOnce`, `DraftKept`, `SavedAsShown` |

*Why these bounds are enough.* A race on a document needs a reader, a writer that
overtakes it, and a session to lose: three requests. A lost update of a setting
document, a replaced link, a name that is taken between check and write need two
requests. A rename race needs two accounts and a free name. A notification needs a
poster, an owner and a deleter (archiving and deletion are requests too, and any of
them may stop in the middle); a comment can be cut off by one list or one delete, with
a duplicate failing in the middle. Two uploads of one id and a delete give every
overlap of object and row. Pages of one memo put a boundary behind every memo, and
four memos with two changes let one fall out of the pages read while another is made
at the same time; a walk of three pages is the shortest with a page in the middle. Two
fetches share a promise; two tabs are enough for a broadcast and a common cookie. Two
changes overlap in every way that the cache tells apart: a third would meet the trace
of two that are over. Two texts and two tabs give a draft to lose and one to lose it
to. The theorems of section 4 hold for all sizes, so for what is proved the runs are a
check of the statement rather than its only evidence.

*Symmetry.* Requests, calls and tabs, names and older rows, and users where none of
them is an administrator or the owner of a seed, are interchangeable; `client`, which
checks liveness, uses no symmetry.

*Scenes.* `ClientToken` and `MemoCache` choose in `Init` who acts and whether requests
may fail, so that one run covers a small world with faults and a larger one without.
`StaysIn` speaks of one tab without page loads: a document loaded while the refresh of
the document before it is under way can find its cookie used up, and then shows the
sign-in page although the session lives. With two tabs the same happens by itself.

*Fairness.* Only `client` assumes any: weak fairness of what happens to each fetch once
it is sent, and of each step of a refresh request. It says that the server answers and
the browser runs the continuation of an answer, which is what `fetch` promises; the
code sets no timeout of its own, so a server that never answers would make the fetch
hang. No user action, fault, broadcast or aging is fair. The handlers of the server
promise nothing about ending: any of them may stop between two statements.

*Mutants.* Every property of every passing run has a mutant in `PROJECT.json`: with
that change in the module, TLC reports the property violated under the same cfg.

### Three disagreements with what the repository says

1. `accounts_linked`: "You can connect this provider to sign in with it later"
   (`web/src/locales/en.json:531`). The sign-in through a provider looks for an account
   whose *username* is the identifier; a linked identity of another name is not used.
2. `pages_words`: the filter is the one "produced by the web client"
   (`server/lib/memo-filter.ts:46`), which joins a clause for each word of a search; the
   parser keeps the last of them.
3. `storage_database`: DATABASE is one of the storages (`DIFF-VS-GOLANG.md:16`); the
   PATCH stores it as "DB", which the reader of the setting does not know, and the next
   upload goes to the runtime's default.

## 4. What is proved

The proofs assume only the `ASSUME`s of the modules: that ids of different kinds are
different values (`None` is none of them), that the seeded users are users, that the
inputs have their types. No set is assumed finite, unless a bound is a number.

**`Sessions_proofs`.** `TypeCorrect` needs more than `TypeOK`: that a cookie, a user id
or a name *is there* when a statement uses it depends on the kind of request and on the
statement, so `TInv` adds a `Shape` for each. `NamesStayUnique` is inductive together
with it: `CreateUser` and `Rename` test all rows and change one in one statement.
`KeyAlwaysThere` needs `KInv`: while there is no key nobody is registered and every
request is still in `ensureSecretKey`. `GoneForGood` is an action property: `StepDocs`
and `StepSnap` show that a token enters a document only from a snapshot or from the
request that issues it, and a snapshot only from a document. `ArchivedStandStill`
follows from `Holder` containing only NORMAL rows.
`SerialWithoutRaces` and `SessionsStayOwn` are about `SessionHistory`, each step of which
is a step of `Sessions`. The first needs, for a user outside `raced`, that whoever stands
between the read and the write of his document has read it as it is: then the only
writer of the moment writes the `Intended` change of the ideal document. The second adds
that the name a request works with is that of its user id until a rename disturbs it
(`NameRight`), and that only requests that are over have a token in a document.

**`Accounts_proofs`.** `FoundersUnasked` needs what the count means: a registration
that counted no user found no elder that was not archived since, and `elders` never
grow. `HandlersKeepTheirRow` and `LinksStand` rest on `turn`: on Node whoever stands
between a look-up and its use has the turn, so no other statement changed the row or the
link; the invariant says, for every point of a handler that is reached without a wait,
which row its name has.

**`SettingDocuments_proofs`.** `FreshCopies`: on Node a request that stands at `Write`
after a `Read` has the turn, hence nobody was overtaken; on D1 a copy that is not in
`late` is the document. `NodeRefines` maps each step to a step of `Documents` or a
stutter: `Begin` is `Ask`, `Write` is `Take` - with the fresh copy, `Applied` of the
copy is `Applied` of the document - and the ends are `Answer`. `SecretsStay` looks at
`Applied` by kind of call.

**`Memos_proofs`.** One invariant `IInv` carries everything: the shapes of the
requests, `Known` (the memos a request has found were there), `Posting` (a comment
that is past `LinkParent` hangs from its memo, or a hard delete has begun on either),
`Begun` (rows are made by requests that run), and the two invariants themselves.
`NotificationsTrue`, `CommentsStayAttached` and `SharesStayAlive` are conjuncts or
consequences; `DeletedStayDeleted` uses that only `InsertMemo` makes a row, of a
request that had none; `ReactionsStay` adds which reaction a request has put in.

**`ClientToken_proofs`.** `JarUsable` is not inductive: one must know that an answer
under way carries a token the server knows, that a cookie was an answer that arrived,
and that the requests of a fetch that has not come so far are unused (so that a token
is issued once). `IInv` says these three. `Abort` moves a request from the answered, whose
session is the next one, to the wasted, whose cookie stays in the jar.
For `OneTabStaysIn`, `SInv` describes one tab while nobody signs out and nothing is lost:
there is one refresh at a time, it is sent with the cookie the server knows, so that
none is refused; and a second try has a token of that refresh, which cannot have expired
on the way, so that none is denied.

**`Attachments_proofs`.** Layers: the types and shapes; `CInv`, that a row's object was
put by the POST that made the row, and that what a row and a delete refer to is what that
POST was returned or was sent as its link, so that an object is removed by a delete of its
own id or of such a link; `OInv`, that while the setting stands every storage
resolved is that one, that an object has an upload that holds it or a row that owns it,
and that a delete found the row it removes; `LInv`, where a `SetLink` loop that nobody
crossed has got to. From them `ContentIsServed`, `NoStorageLeak`, `ListsAreSet`.

**`MemoCache_proofs`.** Two invariants. For `NoTrace`, `IInv`: a change not yet executed
has a value of its own that nothing from the server carries (store, answers, fetches),
that stands in its own field of the copies only, and that its own snapshot lacks; a
failure therefore takes it out of all copies, and the guard on `dead` speaks of the only
other place, the snapshots of other mutations. For `ShownTrue`, `ShownInv`: each field
of a trusted copy is the memo's, or the value of a mutation not executed yet, or a call
was executed whose value it lacks; and each field of a sound snapshot is the memo's or
such a mutation's. The end of a call that was executed overwrites, invalidates or
doubts every copy, and the failure of one that was not brings a sound snapshot back, so
that with no call left only the first case remains.

The same module has the proofs about `MemoPages`, the other thing the client has
cached. There is no induction over lists: sorting is by rank. `BeforeOrders` says that
ORDER BY is strict and total, so ranks in a finite set are different (`RankInjective`)
and, by counting, take all values below its size (`RankOnto`); `Sorted` is their inverse
(`SortedPlaces`, `ListsAreOrdered`), and pages one behind the other are one page of their
sizes together (`SlicesJoin`). `ServeFacts` says that the two ways of the handler are one:
a page is a slice of `Reached`, its token names the row behind it, and without a token the
list ends there. The invariant `WalkTrue` of a walk says that the next offset is the page
size times the pages so far, that an undisturbed walk has exactly those rows, and - what
makes `NoneSkipped` inductive - that *while* a walk goes on, of the steady memos whose
place **now** is within its pages no more are missing than have fallen from them.
`MovesUp` and `FallsWhenOthersRise` are the step: a change of one memo lets another one
move up by one place at most; for one to cross the end of the pages it has to stand right
behind it, and the changed memo leaves them. Only one stands there, so a change adds one
to both sides. Hence `PagesAreTrue` and `NothingSkipped`, for any number of memos and any
page size. `SingleClausesHold` is the other side of the finding of `pages_words`: with
one clause of a kind, the has-clauses aside, what is shown of memos that did not change meets all of the filter.

**`MemoEditor_proofs`.** Layers again. `SavesInv`: an open editor's save has its kind, and
a field that nobody crossed is in the mask, or is the memo's already - hence
`EditsSaveTheShown`. `MadeInv`: what is typed next is nowhere yet. `KeptInv`: what a flush
leaves out is being saved and was answered, so the last editor's flush writes; and a
draft that was left has no editor, timer or save - hence `LeftIsKept`. `RightInv`: a
timer has the text of its editor and one that a flush would write; a text that is not
shared is in one tab and under one key; and once its POST was answered it is no draft,
its editor has discarded it and its save is over. Every step but four is `Quiet` for a
text (it gives it to nobody); typing, saving, opening and the answer have a lemma each.
From it `PostedStaysGone`, and with what was sent and remembered `PostsAreSingle`.

*Only model-checked*: the liveness of `FetchEnds`; liveness under fairness is beyond this
prover. Every invariant and every action property of the passing runs has its theorem.
The three violated properties are false, so there is nothing to prove.

## 5. Plan

What is left, in the order of importance:

1. Files in the editor (`uploadService.ts`): the uploads before the memo is posted, and
   what a failed save leaves of them, composed with `Attachments`.
2. Creation, deletion and comments in `MemoCache`; the caches of users, notifications
   and attachments.
3. The payload's read-modify-write in `updateMemo` (`repository.ts:947`) and the memo's
   attachments after a hard delete (`repository.ts:1037`), as histories of `Memos`.
4. Migrations (`migrate.ts`, `migrations/`): versions, interrupted and repeated starts.
5. Proofs: that `Sessions` implements `ClientToken`'s view of the server when
   requests do not overlap.

## 6. What is not modelled, and why

- Live refresh: the route is mounted only when a Node server is configured to, events
  are kept for nobody, and no component of the client calls `useLiveMemoRefresh`.
- Migrations: three scripts of idempotent statements; which of them run again at every
  start is listed under the hazards.
- AI routes, OAuth2 exchange, markdown, EXIF, avatars, serialisation, hashing, e-mail:
  calls to other services and pure functions; no state of the system depends on their
  details. Generated protocol code (`web/src/types/proto`) has no behaviour.
- The request pipeline (CORS, logging, static files) keeps no state. Which routes need a
  user, and the checks of roles and ownership, are guards of the modelled requests.
- Demo mode (a fixed secret) and the two keys of two concurrent `ensureSecretKey`s: the
  second is possible in `Sessions` (`EnsureKeyWrite` overwrites), and then the tokens
  signed with the first are invalid; no property says otherwise.
- Sessions that expire and are never presented again stay in the document: nothing
  bounds it, so there is no property to state.
- Marking a notification read and deleting it: one UPDATE and one DELETE by id.
- Rendering, themes, locales, routing of the web client.
