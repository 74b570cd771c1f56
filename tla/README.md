# Bearly Secure: TLA+ specifications

Bearly Secure (`src/`) is a plushie shop written in Go: `net/http` handlers over
one SQLite database file, with a few pieces of state in the memory of the server.
This directory models the parts in which something can go wrong that a test
would hardly reach, checks them with TLC on small instances and proves the most
important results with TLAPS for instances of any size.

## The system

One server process (`cmd/server`) runs every request in a goroutine of its own.
All durable state is in SQLite: `internal/database/database.go:26-49` opens it
with at most four connections, foreign keys on and a busy timeout of five
seconds. Handlers are not serialised with each other. A statement outside a
transaction is atomic; a transaction owns SQLite's only write lock from its first
write to its end, readers see what was committed before it, and a writer that
waits longer than the busy timeout fails. Handlers check the result of every
statement and answer 500 when one fails.

| Part | State | Operations | Hard because |
|---|---|---|---|
| Cart (`internal/cart`) | `cart_items`: one row per user and product, at most 99 units | `AddItem`, `UpdateItem`, `ListItems` | stock and listing are checked at the time of the click only |
| Checkout (`internal/checkout`) | none of its own: the cart as listed, in local variables | `Submit` lists the cart, calls Acorn, lists it again, creates the order, redirects | two lists and a slow external call before the transaction; overlapping submits of one cart |
| Orders (`internal/orders`) | `orders`, `order_items`, `products.inventory_count` | `CreateFromCart`, `ApprovePawPalOrder` | several statements that must happen together or not at all |
| Acorn, PawPal (`internal/integrations`) | none in the shop | a reservation with a deadline; a signed webhook | timeouts, late and repeated posts |
| Admin (`internal/admin`) | `products` | `CreateProduct`, `UpdateProduct` write the whole row from a form | writes absolute values while checkouts run |
| Sign-in (`internal/httpserver/auth*.go`) | `users.password_hash`, cookies | `Login`, `TOTPLogin`, `RecoverMFA`, `ResetPassword`, `Signup`, `Logout` | every handler reads the user first and acts on that copy later |
| Two-step verification (`internal/auth/mfa`, `internal/account`) | `users.*totp*`, `totp_login_challenges`, `totp_backup_codes`, `mfa_recovery_attempts` | enrolment, challenges with five attempts, single-use steps and backup codes | the same code posted twice; enrolment and clearing race |
| Password reset (`internal/auth/passwordreset`) | `password_reset_tokens` | `Create`, `Validate`, `ResetPassword` in one transaction | single use; everything older than the reset must go |
| Sessions (`internal/accounts`, `internal/auth/sessions`) | `sessions` | create, find, revoke | revocation racing creation |
| Passkeys (`internal/auth/passkeys`) | `passkey_credentials`, `passkey_challenges` | begin and complete login and registration, delete | challenges are single-use; deletions run between the reads and the writes of a login; counters are written last |
| Limiters, load shedder (`internal/httpserver/middleware.go`, `app.go`) | counters in memory under a mutex; tokens in a channel | `consume`, `sweepExpiredCounters`, `LoadShedder`, `recoverPanics` | the clock is read before the lock; slots must come back on every way out |
| Warehouse API (`internal/api`) | `api_keys`, `api_key_usage` | `FindKey`, `ConsumeQuota`, `WarehouseOrders` | the daily quota under concurrency and around midnight |
| Documents (`internal/uploads`, `internal/storage`, `internal/support`) | files plus `uploaded_files`, `imported_tax_documents` | upload, import, encryption at rest by a migration at startup | files and rows cannot be written atomically |
| Reviews (`internal/reviews`) | `reviews` | `Create`, `Update`, `Delete` | ownership is checked in one statement and the write names only the id, which SQLite may give out again |
| Secrets at rest, keyring (`internal/storage`) | `users.*totp*`, the configured key versions | `MigrateTOTPSecrets`, `Encrypt`, `Decrypt` | rows are listed outside the transaction that writes them; processes overlap |
| Starter data (`cmd/seed`, `internal/database/seed.go`) | every table | `Reset` in one transaction | runs while servers hold rows and copies of rows |
| Server life cycle (`cmd/server`) | listener, process | start, drain, stop, die | a draining process has given the port up and overlaps with the next one |
| Storefront, assistant, bot detection, image preview | nothing between two steps | | |

Parts interact by calls within one goroutine and through the database; checkout
also calls Acorn, and PawPal calls the shop back.

What makes each part correct: stock is conserved and an order is atomic; a
refused checkout leaves nothing behind; an order is paid once; a one-time secret
works once; a challenge accepts a bounded number of guesses; a reset retires
everything issued before it; a limiter admits at most its maximum per window and
a shedder gets every slot back; a deleted passkey opens no session; a secret
survives restarts, overlaps and seeding; a review changes by its author; a
document is always readable through its row.

## Modules

| Module | What it is |
|---|---|
| `OrderLedger` | abstract specification of what the shop promises about orders |
| `Vouchers` | abstract specification of what it promises about everything that may be used once: codes, links, challenges |
| `Shop` | carts, the checkout handler, the order transaction, the product form, the webhook |
| `MCShop` | instances of `Shop` for TLC, with two configurations |
| `SumProofs` | lemmas about the sum of a function over a finite set |
| `ShopProofs` | theorems about `Shop`, among them that it implements `OrderLedger` |
| `SignIn` | login, second step, recovery, reset, sessions, enrolment of one account |
| `MCSignIn` | instances of `SignIn` for TLC, with four configurations |
| `VouchersProofs` | what follows from `Vouchers` for whatever implements it |
| `SignInProofs` | theorems about `SignIn`, among them that it implements `Vouchers` |
| `Documents` | tax documents: the migration at startup, uploads, imports, stops and restarts of the server |
| `MCDocuments` | instances of `Documents` for TLC, with two configurations |
| `DocumentsProofs` | theorems about `Documents` |
| `Batches` | abstract specification of what a rate limiter promises each client |
| `FrontDoor` | the chains of middleware, the load shedder, the warehouse API's quota, and the process around them |
| `MCFrontDoor` | instances of `FrontDoor` for TLC, with two configurations |
| `FrontDoorProofs` | theorems about `FrontDoor`, among them that it implements `Batches` |
| `Passkeys` | challenges, logins, registrations and deletions of passkeys |
| `MCPasskeys`, `PasskeysProofs` | its instance for TLC, and its theorems, among them that it implements `Vouchers` |
| `Servers` | server processes that start, serve, drain, overlap and die, and the requests they hold |
| `Reviews`, `Secrets` | two components whose rows a request or a starting process may be holding; both extend `Servers` |
| `Seed` | their composition, with the restoring of the starter data |
| `MCSeed`, `SeedProofs` | its instance for TLC, and its theorems |

`Shop`, `SignIn`, `Documents` and `Passkeys` are checked apart and not composed.
`Shop` and `Documents` share nothing with the others but the user's identity. A
passkey login does write two things that handlers of `SignIn` use. It deletes the
pending TOTP challenge of its browser: for `SignIn` that is a challenge that may
be gone at any time, as `ChallengeExpires` has it. And it inserts a row of
`sessions`, which opens the account pages and ends with a reset, like a session
of a login; `RevokeUserSessions` does not ask who created a row. No session that
`SignIn` creates depends on it. What is not shown is what follows from a passkey
session for two-step verification: whoever has one may turn it off without a
code, as the account page asks for a recent session only. `FrontDoor` stands before all of them and decides only whether a
handler runs. `Secrets` has the columns of `SignIn` in which secrets are stored, with
what `SignIn` leaves out (plaintext, key versions, processes, seeding), and each of
its handlers is one read and one write where `SignIn` has every statement. It is
composed with `Reviews` in `Seed`, since one transaction of `Reset` writes the rows of
both, and both depend on which processes run.

### How concurrency is modelled

A handler is a goroutine; `pc[r]` says which statement request `r` will execute
next. One action is one statement sent to SQLite, with the Go code up to the next
statement. So handlers interleave between any two statements and never inside
one, which is what SQLite grants. A copy a handler keeps in a Go variable
(`user`, `items`, `secret`) is a variable indexed by the request (`row`, `lines`,
`secretRead`), and later
actions use the copy and not the table, as the code does.

Transactions differ by module. The order transaction of `Shop` is modelled
statement by statement: its rollback after half of its lines is the hazard. From
its first `INSERT` it owns the write lock (`writer`), works on `stock`, and other
writers wait or time out. In `SignIn` three transactions (`ConfirmEnrollment`,
`Clear`, `ResetPassword`) begin with a write and have no branch that keeps a part
of their work, so each is one action, and `Fail` covers a rolled back one.
`RecordChallengeFailure` is no transaction: its `UPDATE ... WHERE
attempts_remaining > 0 ... RETURNING` and, when no attempt is left, its `DELETE`
commit one after the other, and are `RecordFailure` and `Discard`. A handler may
fail between the two; the challenge then has a row without attempts, which is no
usable row either.

A statement that a handler sends is an operator of its own, named as the query is
in `internal/database/queries`: `DecrementProductInventory` is a conjunct of
`Decrement`, `ConsumeTOTPStep` of `ConsumeStep`, `UpdatePasskeyCredentialCounter` of
`WriteCounter`. The action around it adds what the handler does with the result.

### `Shop` and the code

| State | Code |
|---|---|
| `listed`, `price`, `inventory`, `active` | rows and columns of `products` |
| `cart`, `rowOf`, `nextRow` | `cart_items`: quantity, and an identity for each inserted row, which the code has as `id` |
| `pc`, `buyer`, `lines`, `reply` | the handler's position, `current.User.ID`, `items` after the second list, the answer |
| `writer`, `stock`, `todo` | the open transaction of `CreateFromCart`: lock, its view of `inventory_count`, items left in its loop |
| `orders` | `orders` with `order_items`: status, lines, total |
| `approvals`, `receipts` | what PawPal has approved; posts answered 204 |
| `rows`, `earlier`, `sold`, `supplied` | bookkeeping for properties; no guard reads it |

`AddItem` and `UpdateItem` are the upsert and update of `cart.sql` with the
handlers' checks. `CreateProduct` and `UpdateProduct` write the whole form (`WriteProduct`).
`Submit`, `AcornReserves`/`AcornTimesOut`, `Relist`/`RelistAndOrder`,
`BeginOrder`/`BusyTimeout`, `Decrement`/`OutOfStock`, `Commit` and `Redirect` are
`POST /checkout` in the order of its statements. `Fail` is a statement that fails
or a context that is cancelled at any of them; `Crash` stops the whole server, after
which SQLite's journal has undone the open transaction. `Webhook` is
`ApprovePawPalOrder` behind the key check. An order made by request `r` is called
`r`, since a request makes at most one.

### `SignIn` and the code

| State | Code |
|---|---|
| `password`, `legacy` | `users.password_hash` and whether `passwords.NeedsRehash` says so |
| `enrolled`, `pending`, `lastStep` | `totp_secret_encrypted`, `pending_totp_secret_encrypted`, `last_totp_step` |
| `codes`, `failures` | unused `totp_backup_codes`, recent failed `mfa_recovery_attempts` |
| `attempts` | `totp_login_challenges.attempts_remaining`, 0 without a usable row |
| `session`, `tokens` | `sessions`, `password_reset_tokens` |
| `clock` | the 30-second step `verifyAt` computes from the time |
| `pc`, `kind`, `sent`, `typed`, `row`, `secretRead`, `step`, `reply` | the handler: position, route, cookie or token, password, its copies of the user and of the secret, the step it verified, its answer |
| `epoch`, `resets`, `readAt`, `born`, `evidence`, `usedIn` | bookkeeping for properties; `epoch` and `resets` count replaced secrets and resets, `usedIn` is the epoch in which a request consumed its step |

Secrets, codes and hashes are opaque. Whether a code is right is a
nondeterministic choice in `VerifyCode`, `ConfirmRead` and `ConsumeBackupCode`:
every outcome is possible at every time, so no property rests on guessing being
hard. `ValidateCustom` is called with no skew, so a right code belongs to the step
in which it is checked, and `clock` is read once for both. A secret is known by its
`epoch`. `TOTPLogin` reads it once (`ReadSecret`) and verifies with that copy, while
`ConsumeTOTPStep` looks at `last_totp_step` only; so what a request consumes is the
step of the secret it read (`evidence`), in an epoch that may be a later one
(`usedIn`). Replacing and clearing the secret both set `last_totp_step` to NULL.

The cookies a browser may send are those it was given: `Cookies` and
`HeldSessions` come from earlier answers, so that a challenge is never used by
someone who was not sent it, but may be used by any number of requests at once.
Expiry (`SessionAges`, `ChallengeExpires`, `TokenExpires`, `FailureExpires`) may come
at any time. A stop of the server is `Fail` of every request in flight: the rows
are all in SQLite and nothing of this component is in memory.

### `Documents` and the code

| State | Code |
|---|---|
| `listed`, `path` | the rows of `uploaded_files` and `imported_tax_documents`, and the file `storage_path` names: 0 for a plaintext, else an `.enc` file |
| `whole`, `torn` | files on disk that hold all, or a part, of their document |
| `copies` | encrypted copies made so far; each gets a new UUID for a name |
| `mode`, `starts` | the process: not running, in `httpserver.New`, listening |
| `todo`, `current`, `stage`, `held`, `sound` | `uploadedRows` and `importedRows` left, the row being migrated and how far, `removeSource`, whether `contents` is all of the document |
| `pc`, `reply` | the handler's position and its answer |
| `cut`, `unrestored`, `halved`, `forgotten`, `clean` | bookkeeping for properties: what stops and failures have left behind |

`ReadSource` ... `CommitRow` are `migrateTaxDocument` in its order. An action is one
operation on a file or the database, and creating a file and writing it are two:
between them the file exists and is torn, which is what a stop leaves. `CommitFails`,
`Restore`/`RestoreFails` and `Discard` are the compensation after a failed commit, and
`DropCopy` may itself fail, as `RemoveDocument` may. The row is updated in a
transaction that is open while the plaintext is removed; nobody reads it before
the commit, since the server does not listen yet, so the update is part of
`CommitRow`, and a stop before that undoes it. The two tables are migrated one
after the other in the order of their rows; the model takes any order. The
document of the seed has a second copy among the fixtures, which `ReadSource` falls
back to (`Seeded`). When the plaintext of another row is missing the start is
refused (`SourceMissing`).

`Arrive`, `OpenFile`, `WriteFile` and `Record` are both `Upload` (one document) and
`ImportTaxDocuments` (the entries of an archive, written one after the other and
inserted in one transaction), after `ReadUpload` or `ReadArchive`. `Create` inserts and
reads back in two statements (`ReadBack`, `ReadBackFails`); `CreateImported` reads
inside its transaction. `Downloads` is what the three download handlers do with a
row: they find it, and `ReadDocument` reads and decrypts the file it names. `Stop`
takes the process away between any two of these steps.

### `FrontDoor` and the code

| State | Code |
|---|---|
| `req` | the request in a handler goroutine: route, place in the chain, address, `X-Forwarded-For`, email, the clock it has read |
| `counters`, `nextSweepAt` | `fixedWindowLimiter.counters` and `nextSweepAt`, for each limiter `New` makes |
| `inFlight` | tokens in the channel of `LoadShedder` |
| `usage` | `api_key_usage.request_count`, by day |
| `server`, `drainBy` | serving, draining with `Shutdown`'s deadline, down |
| `clock` | `time.Now`; at most `MaxLag` ticks pass between a read and its use |
| `batches`, `listed` | bookkeeping for properties: what a limiter has let a subject do, what was answered on a day's quota |

`Path` is the chain `app.go` builds for a kind of route: the global limiter, the
shedder, the origin check, then what is wrapped around the handler. One action is
one element of the chain. A limiter takes two: `ReadClock` is `consume` before the
mutex, `Admit` or `Reject` what it does under it, with the sweep. `Leave` is the way
out of every refusal, answer and panic, and gives the slot back when the request
had one (the deferred receive). Health, static files and the payment webhook pass
none of this and are no routes here.

A limiter is asked about keys and meant for clients: `Key` is computed from the
headers as `clientIPKeyWithTrustedProxies` does, `Subject` is whom the request comes
from. `Arrive` takes any header the client made up, to which each proxy appends the
address it was called from, in one line: `Header.Get` returns the first
`X-Forwarded-For` line of a request and no other, so a proxy that adds a line of its
own instead is outside this model. That the two agree is not assumed but proved
(`SourceIsClient`).

`ConsumeQuota` reads its clock, runs the upsert that is guarded by
`request_count < 5`, and keeps the day it charged; `DenyQuota` is the answer 429,
which the handler gives when the quota is used up and when the database fails.
`Stop` is the end of `Shutdown`, when all are answered or at its deadline; `Start` is a
new process with empty limiters and the rows as they were.

### `Passkeys` and the code

| State | Code |
|---|---|
| `challenge`, `purpose` | rows of `passkey_challenges`: never created, live, expired, deleted; their `user_id` |
| `holder`, `counter` | rows of `passkey_credentials`: user and `counter`, 0 without a row |
| `signs` | the authenticators' own counters |
| `at`, `asked`, `account`, `seen` | the handler: position, posted response, account it found, stored counter it read |
| `session` | logins that have a session |
| `overtaken`, `spent` | bookkeeping for properties |

`Begin` deletes expired challenges and inserts one. `PostLogin` makes a signature,
`PostAgain` posts one again, for its own challenge id or another. `Consume` deletes the
row and looks at its time (`ConsumeLate`: too late or gone). `FindAccount`, `Judge`,
`WriteCounter`, `CreateSession` and `Finish` are `CompleteLogin` in the order of its
statements; `Accept` and `Store` are `CompleteRegistration`; `DeleteCredential` and `Fail`
come between any two. The WebAuthn library is external. What is used of it: a
response is accepted when it signs the consumed challenge with a credential of the
list it is given, and `UpdateCounter` (`SignCount`) never lowers the counter it was
shown. The clone warning it may raise is not read by the code, so a counter decides
nothing; what the model shows is which counter is stored.

### `Seed`, `Reviews`, `Secrets`, `Servers` and the code

| State | Code |
|---|---|
| `up` | how far a process is: rows listed, migrated, serving, draining, gone |
| `at`, `by`, `who` | a request: position, the process that handles it, the user of its session |
| `review`, `target` | rows of `reviews` by id; the id in a request's path |
| `legacy`, `stored`, `pending` | `users.totp_secret`, `totp_secret_encrypted`, `pending_totp_secret_encrypted`, the latter two as key version and secret |
| `active`, `keyring` | the configuration's active version, and the one a process was started with |
| `listed` | `rows` of `MigrateTOTPSecrets` |
| `given`, `known`, `seeds`, `knew`, `truth`, `disturbed` | bookkeeping for properties |

A process is started once; a restart is another process. `Start` lists the
plaintext rows, `Migrate` writes them in one transaction as they were listed, `Serve`
takes the port if it is free. `Stop` gives the port up at once and lets handlers go
on, so the next process may serve meanwhile; `Exit` is the end of `run`, a failure at
startup, or a crash. `Rotate` adds a key version and makes it active, for processes
started from then on. `Reset` is `cmd/seed`: one transaction, between any two steps of
the servers. It inserts the same users in the same order, so user ids mean the same
user before and after; ids of reviews may not, as `CreateReview` takes the highest id
in use plus one.

The column `pending_totp_secret` is written by `mfa.Store` without a keyring only, and
`cmd/server/main.go:55` refuses to start without one; so `pending` has no plaintext,
and `Migrated` is about the active secret.

## What TLC checks

| Run | Instance | What it shows |
|---|---|---|
| `shop_checkout` | 2 customers, 2 products with one unit each, 2 checkouts, caps of 1 | types; stock conserved, and equal to what orders hold; the transaction is isolated; answers are true; a failed checkout keeps the cart; `Shop` implements `OrderLedger` |
| `shop_admin` | 1 customer, 1 product not yet created, 2 checkouts, prices 1 and 3, cap of 3, 3 cart rows, with fairness | stock conserved while products are rewritten; a cart row is sold again by overlapping checkouts only; payment once per approval; each checkout in flight ends |
| `signin_factor` | 4 requests among login, code, cancel, recovery; 2 attempts, 2 steps | a code is accepted once per secret and, when the secret is withdrawn under a request, once more (`StepAcceptedOnce`); attempts bounded; no session without its second factor, and the challenge that led to it is spent (`SessionsAreEarned`) |
| `signin_recovery` | 3 requests among all handlers but cancel; 2 backup codes, 2 links, 2 passwords; an account setting two-step verification up, or with it and a hash in the old format | backup codes used once and always those of the present secret; codes, links and the steps of a secret that stands are vouchers (`ImplementsVouchers`); a reset retires sessions, links and challenges; a rehash changes the password only when its login overlaps a reset |
| `signin_enabled` | 3 requests among login, confirm | finding 1 below |
| `signin_changed` | 2 requests among login, reset | finding 2 below |
| `documents` | 2 plaintext documents, one also a fixture, an upload, an import of 2, 3 starts | no document is lost; a serving server lists complete encrypted files; no plaintext stays; a missing document is explained by a stop or failure at one place; no file without an owner; imports are whole; a start ends |
| `documents_listed` | 1 upload, 1 start | finding 3 below |
| `front_door` | 2 logins at a time behind a proxy, 2 accounts, windows of 2 ticks, a slot, a lag of 1, restarts | every limiter implements `Batches` for each address and account; no memory outlives its window by a window; slots are not given back twice |
| `front_quota` | 2 warehouse calls at a time, a quota of 1, 2 days, a slot, with fairness | no slot lost on any way out; no more lists than a day's quota; a full shedder has room again |
| `passkeys` | 2 users, 2 passkeys, 2 challenges, 2 logins, a registration, 2 signatures each | challenges are vouchers (`ImplementsVouchers`); a deleted passkey opens nothing but what was judged before; counters fall only behind a faster login |
| `seed` | 2 processes, 3 requests, 2 users, 2 review ids, 2 key versions, 1 seeding | secrets kept; plaintext only from a later seeding; only authors write |

`CHECK_DEADLOCK FALSE` stands in the configurations in which a behaviour rightly
ends: a request, a challenge or a process is used once there, and the starts of
`documents` are used up. In `front_door` and `front_quota` requests are used again and
the server is started again, so deadlock is checked: nobody waits for ever on a
slot, a lock or the clock.

### Bounds, and why they are enough

Two overlapping checkouts are the least that race, and the transaction admits
one at a time, so a third only repeats what the second sees; two products are
the least for a rollback after a first decrement. A stock of one makes the last
unit contested; the larger stock of `shop_admin` lets a cart grow, be capped and be
overtaken by an admin's write. `MaxRows` bounds cart insertions: three are a row,
its sale and a new row for the same product.

Four requests in `signin_factor` are a login and three codes for its challenge, of
which two may be wrong; with two attempts the first mistake and the last differ.
Or they are a login, two requests with one right code, and a recovery that clears
the secret after both have read it: the least in which one code opens two
sessions. Three in `signin_recovery` reach, from an account that is setting
two-step verification up, a login, its confirmation and a page or another
confirmation that overlaps; from an account that has it, two recoveries that
overlap, a login with a code whose secret is cleared in between, two resets with
one link, and a login on each side of a reset. Both hash formats matter to
`Rehash` only, which the second account has. `MaxStep` bounds the clock. `failures` is bounded by
the number of requests. Every other variable is finite by itself. The theorems
below show that the bounds do not matter for safety.

Two requests are what races for a slot, a counter or a quota; one source maximum
of 2 and an account maximum of 1 let the limiter that refuses differ. `MaxTime` of 3
with windows of 2 has a window, its end, a sweep and the next window; `MaxLag` of 1
lets a request bring a clock older than the one that opened the window, and is
shorter than every window, as the assumption asks. The windows of the code are of a
minute and longer, but that of search, which is one second: for it the assumption
says that a request is not held up for a second between its clock and the mutex.
Of a search that is, nothing is promised; what such a delay does to a limit is
what `Slack` of `Batches` bounds for shorter ones. `Halves` puts midnight in the middle. `MaxSigns` of 2 is the least for a
counter to fall. Two processes are the least that overlap; one seeding and one
rotation come before, between or after their steps. `MaxReviews` of 2 lets an id
come back, since a deletion frees it.

`MaxStarts` of three in `documents` is a start that stops halfway, one that finds
what it left and fails or stops again, and one that serves. Two documents let
one be done and the other not; that one of them is a fixture reaches both
branches of the choice of the source. The archive has two entries, so that one
can be written and the other not.

Symmetry is used for customers, products, requests, tokens, passwords, accounts,
passkeys, challenges and processes in runs of safety properties only; no action
distinguishes members of these sets. The three runs with liveness properties have
none.

### Fairness

`LiveSpec` of `Shop` has weak fairness of `Checkout(r)`, the steps a checkout's goroutine can
take by itself. The Go scheduler runs a runnable goroutine, a SQLite statement
returns at the latest after `busy_timeout` (`BusyTimeout` is one of these steps), and
the call to Acorn ends at its deadline (`AcornTimesOut` is another). `AcornReserves`
is not among them: Acorn may never answer. Nothing is assumed of customers,
admins, PawPal or failures.

`LiveSpec` of `Documents` has weak fairness of `Proceeds`, what the goroutine of `run`
does next when nothing fails, and its clean-up: it calls nothing that waits for
others, and goes on while the process lives. A step that fails instead disables
the one that would have been next. No failure is assumed, so `MigrationEnds`, which
says that a start comes up or gives up, does not rest on one.

`LiveSpec` of `FrontDoor` has weak fairness of `Continue(r)` for requests that are past
the shedder: statements return, mutexes are held for a few instructions, and the
server's `ReadTimeout` (`internal/httpserver/server.go`) ends the wait for a form.
Nothing is assumed of requests before it, of arrivals, signals or restarts, nor
that the clock ticks. `CapacityReturns` so rests on handlers that end, which is what
bounds the time of an overload.

### Faults

Definitions that a comment calls a fault (`DecrementUnchecked`,
`ConsumeStepTwice`, ...) are not part of `Next`. Each is the definition after it with
a plausible bug: a lost `WHERE`, a missing rollback, a reset that forgets the
sessions. `PROJECT.json` pairs each property with a fault that breaks it, so that no
property is true for want of anything to go wrong.

## Findings

1. `EnabledPageIsTrue` (`signin_enabled`). `ConfirmTOTP` reads the pending secret,
   verifies the code, and then `ConfirmEnrollment` runs
   `SET totp_secret_encrypted = pending_totp_secret_encrypted` without a condition.
   Of two overlapping confirmations (a double click) the second copies the NULL
   left by the first: two-step verification is off, and the page says
   "Two-Step Verification Enabled" and lists backup codes.
2. `ResetPasswordHolds` (`signin_changed`). `Login` verifies a password against its
   copy of the user, and stores that password's new hash with `UpdatePasswordHash`.
   When a reset commits in between, the old password is back after a page that
   said it has been changed. It needs a hash in the old format.
   `RehashKeepsPassword` states, and the proof confirms, that this overlap is the
   only way.

3. `ListedIsReadable` (`documents_listed`). `Upload` removes the stored file when
   `store.Create` fails. But `Create` can fail after its `INSERT`: it reads the row
   back, and the browser may have gone away in between. The row stays, without a
   file, and the page offers its download. `ServedIsReadable` states, and the proof
   confirms, that this is the only such case among uploads and imports.

Other behaviours the model keeps because the code has them, and which the
properties are careful not to deny:

- a cart row added between the second list and the commit is deleted with the
  cart although the order does not contain it;
- overlapping checkouts of one cart may both order it (`NoResale` bounds this to
  overlaps);
- the product form writes the stock it was rendered with, over sales made since;
- a login that read the user before a reset may open its session after it;
- a code of the authenticator is accepted after its secret was cleared or replaced,
  by a request that had read the secret before, even when another request has used
  the same code already, since clearing and replacing forget the last step. One
  code then opens a session more for each such change (`StepAcceptedOnce` bounds it
  to that; `lessonchecks/totpreplay/main.go` has two requests and no change). Of an
  account just cleared this also leaves a last step, which the next confirmation
  forgets;
- the code that confirms an enrolment is verified and not consumed, so the same code
  may be the next second step;
- a stop between the removal of a plaintext and the commit leaves a row without
  its plaintext and a copy without its row: every later start is refused until
  someone repairs it by hand (`MissingIsExplained` names this place and no other;
  `NothingIsLost` says that the copy is still there);
- a plaintext that was half written back when the server stopped is taken for
  the document by the next start, if its first bytes still show a type; the
  complete copy stays on disk and no row names it;
- a passkey login that the library has judged goes on when the passkey is deleted,
  and opens its session (`DeletionStopsLogins` bounds this to logins already judged);
- of two logins with one passkey the slower may store the lower counter;
- a review's id may have been given to another review between the ownership check
  and the write, which then changes a review of another author (`AuthorsWrite`
  bounds this to ids that have come back);
- a process that lists plaintext secrets while another one serves writes what it
  listed over a second factor confirmed or removed meanwhile (`SecretsAreKept`
  excepts such users and no others);
- restoring the starter data leaves a plaintext secret that `has_totp` counts and
  the sign-in handlers do not read, until the next start (`PlaintextIsNewer`);
- a limiter's window may be cut short by the time a request spent between its clock
  and the lock (`Slack` of `Batches`);
- recovery failures are counted before an attempt and recorded after it, so
  concurrent attempts pass `RecoveryLimit` by their number; so is a code verified
  before an attempt is taken from its challenge. The bound that holds is on answers
  that ask for another try (`AttemptsAccounted`).

## What TLAPS proves

All theorems hold for every value of the constants under the named assumptions
of the modules: products and requests are any sets, but for those named below, the
caps are natural numbers, `Prices` is not empty, `"nobody"` names no request, and so
on. None is stronger than what the schema or the code grants. `Requests` of `Shop` are finite
(`RequestsAreFinite`), since its units are summed over them: `orders.id` is a 64-bit
integer. Those of `SignIn` need not be: `AttemptsAccounted` counts sets that its
proof shows to be finite.

### `SumProofs`

The sum over all orders is a fold of the community modules, a recursive function
that is CHOSEN. The library's induction theorems take the goal as an operator, which
no installed prover instantiates. `FiniteSetsBySize` and `NaturalsByOne` state
induction for a *set*: if the set of the subsets (or numbers) of which the goal is
true contains the first and is closed under steps, it is everything. They follow from
the library's theorem that the strict subset order of a finite set is well founded.
With them `PartialSumsExist` shows that the fold's function exists, and `SumChange`,
that the sum changes by what one summand changes by.

### `VouchersProofs`

`OneRedemption` says that nothing is redeemed twice. It needs `ClaimedOnce`: what is
live was not claimed, so a second claim finds it gone. This is proved once, and
`SignInProofs` and `PasskeysProofs` take it over through their refinements
(`FactorsRedeemOnce`, `ChallengesRedeemOnce`).

### `ShopProofs`

`IInv` is the inductive invariant. `StockConserved` alone is not inductive: a commit
replaces `inventory` by `stock`, so one must know how the two differ at that time.
`TransactionIsolated` says it: the committed stock is the private one plus the lines
processed, which survives because no other writer passes `CanWrite`.
`AnswersAreTruthful` needs `OrdersHavePlaces` (an order exists exactly for the
positions after its commit). `NoResale` needs three facts about row identities:
rows are numbered in order (`RowsAreFresh`), a sold row is in no cart
(`SoldRowsAreGone`), and an order counted as earlier was committed before
(`EarlierIsEarlier`). The lemmas `StockSteps`, `OrderSteps`, `TransactionSteps`,
`HandlerSteps`, `CartSteps` and `SnapshotSteps` say which actions can touch the
variables of each part, and the step lemmas need only those cases.

`Refinement` shows that `Shop` implements `OrderLedger` with `stock` mapped to the
committed inventory: `Commit` is `PlaceOrder`, `Webhook` is `PayOrder`, the product form
is `SetStock`, everything else stutters. It uses `IInv` and `SnapshotsAreOrders` (a
listed cart that is being ordered is not empty).

`UnitsSold` proves `SoldUnitsAreOrdered` for any finite number of orders: only `Commit`
makes an order, and adds its lines to `sold` (`CommittedUnits`), so both sides change
by the same (`SumChange`). With `StockConserved` it gives `OrdersFitTheSupply`: the
stock left and all orders together are what the admins supplied.

### `SignInProofs`

`IInv` conjoins `TypeOK`; `Control`, which ties the position of a handler to its
route, cookie, copy of the user and consumed evidence; `Consumption`
(`StepAcceptedOnce`, the two parts of `BackupCodesAccounted`, with the
strengthening `ConsumedBehind`: a step consumed in the present epoch is not after
`lastStep`, whichever secret it was checked against, no step was consumed in a
future epoch, and no used code is in the table or of a future secret); `RetriesCounted`, which
counts the retries of a challenge together with its attempts; `ResetRetiresAll`;
and `Rehashes`, which ties a password about to be stored again to the password at
the time it was read. `WhoConsumes` and its like say which actions matter to each.
`SessionsEarned` follows from `Control` in a state.

`Refinement` shows that `SignIn` implements `Vouchers`. What is given out are the steps
of each secret so far, its backup codes, and links; what still works are the steps
after `lastStep`, the unused codes, and unspent links. A request that consumes a
step when the secret it read does not stand any more is `Late`: it claims nothing
(`LateStep`), and only takes steps of the present secret out of circulation.
`ConsumeStep` in time and `ConsumeBackupCode` are `Claim`, `StartSession` redeems the claim of its request, and
`ResetPassword`, one transaction, is `RedeemAtOnce`. Replacing the secret withdraws the
old steps and codes and gives out others, which is where an `epoch` that a code
carries matters. It needs, beside `IInv`, that codes are checked in steps that have
begun (`StepsHavePassed`). A step is classified twice, by what it consumes
(`WhoConsumes`) and by what it hands over (`WhoTrades`), and no step does both
(`ConsumersOnlyClaim`).

### `DocumentsProofs`

`IInv` is `TypeOK` with two halves that speak of different files. `Old` is about the
documents the migration works on. `NothingIsLost` needs `WorkDisk`, which says for
each stage which of plaintext and copy is on disk and complete, and
`NamesAreFresh`, without which a new copy could replace one that is all there is.
`MigratedRows`, `PlainRows` and `HalvesAreExplained` say the same of rows that are not
in work. `New` is about what requests bring. `HandlerFrame` and `MigrationFrame` show
that the steps of each side leave the files and rows of the other alone, so each
step is looked at for one half only; a stop is looked at for both. No bound on
starts, documents or requests is used.

### `FrontDoorProofs`

`IInv` has one part about requests (`InProgress`) and one for each budget they draw
on: `Limits`, `Slots`, `Quota`. `SourceIsClient` shows from the assumption on proxies
that a limiter's key is the client's own address whatever header it sends;
`KeyIsSubject` extends it to accounts. `Limits` needs `Agrees`: a counter in memory
has the count of its subject's batch and does not expire before the batch's window
less the lag; a subject without a counter has a batch that is over. This is where the
sweep matters: `SweepFacts` shows that it drops nothing a later request could still
count in. `Slots` counts the requests past the shedder, one lemma for each way they
become more or fewer. `Quota` says that answered lists and those charged and not
answered are together at most what the row says. `LimitersKeepTheirPromise` shows
that `FrontDoor` implements `Batches`: an `Admit` is `Open` or `Admit` of one client, a
start is `Forget`, and everything else ticks or stutters.

### `PasskeysProofs`

`Standing` is inductive. `ChallengeUsedOnce` alone is not: it needs `Once` (a request
that holds a challenge is the only one, and the row is gone). `TypeOK` says that no
stored counter is ahead of its authenticator, which needs `Counts` of the responses
and judgements in flight. `DeletionStopsLogins` follows from `Judged`, which ties a
judged login's account to the holder of its key or to a deletion since.
`CountersFallOnlyBehind` is shown for each step that writes a counter.

`Refinement` shows that `Passkeys` implements `Vouchers`: `Consume` is `Claim`,
`CreateSession` and `Store` redeem it, and a failing handler drops its claim, which
brings no challenge back. It needs `SessionsAreLate`: a login has a session only at
its last steps, so nobody redeems twice by going back.

### `SeedProofs`

`Standing` conjoins `TypeOK` with what is known of copies: `Configured` (payloads on
their way are under configured versions), `Known` (a request that has read a review
knows the row that is there, or an earlier one of the id), `FromStarter` and
`Undisturbed` (plaintext in a row or in a process's list is the starter data's, and
for undisturbed users the present secret), and `Lists` (a process that has listed
knows every plaintext but those restored since). `SecretsAreKept` rests on the third
and fourth, `PlaintextIsNewer` on the last, `AuthorsWrite` on the second.

### Only model-checked

- `CheckoutTerminates`, `MigrationEnds`, `CapacityReturns`: liveness under fairness,
  out of the prover's reach.
- The three findings, which are counterexamples.

## What is not modelled, and why

| Part | Reason |
|---|---|
| Sign-up, `UpdateEmail` | one statement each, guarded by UNIQUE; the first creates an account that no other step can reach before, the second writes a column no property reads |
| Listings of orders, products, reviews and documents | they read in one statement and change nothing |
| CSRF tokens, signed links | computed from a session or a key, checked before any step; no state |
| Storefront, assistant, bot detection, image preview | no state between two steps |
| `internal/observability/auth_alerts.go` | no program constructs an `AuthAlertThreshold`; it would be another limiter of `FrontDoor` |
| What `Reset` does to orders, carts, passkeys and files | for a server it is a commit of another writer; files of the starter data are written by no handler again |
| Password, TOTP and cipher algorithms, WebAuthn | libraries; opaque, with every outcome possible where the code asks for one |
| Rendering, logging, configuration, HTTP helpers | wording and parsing; `Rotate` has the one thing about the configuration that state depends on |
| `internal/database/dbgen` | generated; each statement with an effect is an operator of the module of its caller |
| Attacker lab and `lessonchecks` (about a third of the code) | separate programs around the shop, which run against it from outside |

## Running

```
tlc -workers 2 -config MCShopCheckout.cfg MCShop
tlc -workers 2 -config MCSignInFactor.cfg MCSignIn
tlc -workers 2 -config MCDocuments.cfg MCDocuments
tlc -workers 2 -config MCFrontDoor.cfg MCFrontDoor
tlc -workers 2 -config MCPasskeys.cfg MCPasskeys
tlc -workers 2 -config MCSeed.cfg MCSeed
tlapm ShopProofs.tla
```

and so on for the other configurations and the modules whose names end in
`Proofs`. Each run takes at most about two minutes on two workers; the proofs take some
minutes each.
