# SayItRight API: models, checks and proofs

TLA+ modules for the back end in `src/` (a NestJS service over PostgreSQL, through Prisma, and
Redis). They describe what concurrent requests do to the shared state, statement by statement; TLC
checks them on small instances and TLAPS proves the most important results for every value of the
constants.

## 1. The system

| Component (code under `src/src/`) | State | Operations | Talks to |
|---|---|---|---|
| refresh-token sessions (`auth/auth.service.ts`, `auth.controller.ts`) | Redis keys `refresh:<user>:<jti>` with a TTL; the tokens clients hold | login, refresh, logout, logout-all | Redis, table User |
| verification codes (`email/`) | table EmailVerification | send, verify, clean up (never called) | SMTP |
| accounts (`auth.service`, `users/`) | table User: email, password hash, tier | signup, reset password, change password, edit profile, change tier | verification codes |
| templates and credits (`templates/`) | tables Template, CreditTransaction; `User.creditBalance` | create (with charge), update, remove, list | archives (`sourceArchiveId`), accounts |
| e-mail generation (`ai/`) | none of its own | generate-email | JWT and IP guards, sanitising, usage tracking, OpenAI, archives |
| draft and input sanitising (`common/utils/sanitize-input.util.ts`) | `lastIndex` of each forbidden pattern, in the process | sanitizeDraft, sanitizeCustomInputs | generation |
| usage tracking (`common/services`) | table UsageTracking, a row per user and UTC day | check limit, increment | generation |
| guest limit (`common/guards/ip-rate-limit.guard.ts`) | a Map in the process | canActivate, clearExpiredRecords (never called) | generation |
| archives (`archives/`) | table Archive | list (starts a clean-up), read, remove | generation creates the rows |
| expression notes (`notes/`) | table ExpressionNote | create, update, remove, toggle star, list | |
| stateless: tier calculator, template and archive policies, prompts, JWT guards, response interceptor, exception filter, DTOs | | | |

What is hard here is always the same thing: a handler is a sequence of awaited statements without a
transaction, and Node interleaves handlers between any two of them. A value that was checked may be
stale when it is used, and a request may stop after any statement with its earlier writes committed.
There are no locks; what keeps the state sound is a handful of unique indexes, `delete` by id (which
throws when the row is gone), atomic increments and Redis' own commands. Two things live in the process
and are shared by its requests without a statement in between: the Map of the guest limit, and the
`lastIndex` that a regular expression with the flag `g` keeps from one `test()` to the next. A restart
loses both. `PROJECT.json` lists the hazards line by line.

What makes the components correct, beyond their types:

* sessions: a rotated token is not accepted again, except by requests that overlap; a logout that has
  answered has ended the sessions it was to end, except those whose DEL failed; sessions follow the
  abstract token life cycle;
* codes and accounts: a code lets one request pass; every guarded password write used up a code of
  the account's address; one account per address;
* templates: how far concurrency may overdraw credit or exceed the free count; one template per
  archive; charges are in the ledger; the table is a table of owned rows;
* guest limit: how many calls an address gets in any stretch as long as the window, with and without
  restarts;
* sanitising: what is said of a body depends on that body alone, and when a draft keeps a match;
* generation: how far concurrency may exceed the limits; every archived e-mail is counted once, unless
  the counting failed, and no count is overwritten;
* archives: the oldest go first; a finished clean-up has enforced its policy; how many archives too many
  a stale count may cost; the table is a table of owned rows;
* notes: a star is set exactly if the number of toggles is odd, unless toggles overlap; a deleted note
  is never written again;
* listings: what a client that pages through them may miss, see twice or find inconsistent.

## 2. Modules

| Module | Models | Abstract or composed with |
|---|---|---|
| `TokenLifecycle` | what the session store promises: a token is opened once, by a login or as the successor of an ended token of the same user, and ends once | |
| `Sessions` | login, refresh, logout, logout-all | implements `TokenLifecycle` |
| `SessionsProofs` | theorems about `Sessions` | |
| `TemplatePolicy` | `template-policy.config.ts` as operators | used by `Templates` |
| `Templates` | create, update, remove | extends `TemplatePolicy`, implements `OwnedRows` |
| `TemplatesProofs` | theorems about `Templates` | |
| `Accounts` | codes, signup, password reset and change | |
| `AccountsProofs` | theorems about `Accounts` | |
| `IpRateLimit` | the guest guard and the restart of its process | has a specification of its own, `GuardSpec` |
| `SanitizeInput` | `sanitize-input.util.ts` as operators on `lastIndex` | |
| `TierCalculator` | tier and input limit of a user at a moment, as operators | |
| `HttpLayer` | the optional JWT guard and the exception filter, as operators | |
| `EmailEntry` | generate-email up to the usage check: guards, validation, lookup, sanitising | composes the four above, implements `GuardSpec` |
| `EmailEntryProofs` | theorems about `EmailEntry`, and the guard in it | |
| `Generation` | generate-email of a signed-in user from the usage check on: usage rows, archive, tier changes, billing | extends `TierCalculator` |
| `GenerationProofs` | theorems about `Generation` | |
| `Archives` | clean-ups, removals, creation | implements `OwnedRows` |
| `ArchivesProofs` | theorems about `Archives` | |
| `OwnedRows` | what a table of user-owned rows promises: a row is created once, written by its owner alone, what is deleted at once is one user's, and a deleted row never returns | |
| `Notes` | create, update, remove, toggle star | implements `OwnedRows` |
| `NotesProofs` | theorems about `Notes` | |
| `Listings` | a client that pages through archives, templates or notes while the table changes | |
| `ListingsProofs` | theorems about `Listings` | |
| `MC<module>` | symmetry and small values for TLC | |

Conventions. A request runs in a slot `h \in Handlers`: `req[h]` holds its program counter and the
locals that later statements use. One action is one statement on shared state together with the local
code up to the next one: the guard is the code's condition, an early return or a thrown exception is
`Return(h)`. A request that would be refused before it touches anything is no action. `Fail(h)` stops
a request anywhere and keeps what it wrote: an await that rejects, a closed connection, a crash (then
every slot fails). Variables marked *history* are read by no step; they only let properties speak of
the past. Operators commented *Variant* are wrong versions of the definition below them: the mutants
in `PROJECT.json` put them in its place to show that a property notices.

`Sessions`. `live` are the keys in Redis, `sub` the subject of each signed token. Responses are not
modelled: a token may be presented as soon as its session is stored, or never (a lost cookie, an expired
JWT). `SCAN` guarantees keys that are there throughout and leaves the rest open, so a scan visits the
place of each possible key once, in any order, at any time. The pipeline's deletes are one step each.
`logout` is a purge of exactly one key. A DEL that fails does not fail its request (`PurgeDelFails`):
`logout` catches the error and returns, `logoutAll` does not look at what `exec()` reports of single
commands, and the controller answers 200 either way. `failed` remembers, as history, which keys were left so.
Only an error of the scan or of `exec()` itself, or the end of the process, is a `Fail` of a logout.

`Templates`. Prices and free counts are those of the policy; free and premium are the two tiers
`User.tier` can hold, so the policy's `subscription` row is never used (subscribers are charged like
premium users). The policy treats both tiers alike, hence `PUT me/tier` need not be modelled here.

`Accounts`. Time is a bounded clock of ticks; `Minute` and `Lifetime` stand for one and ten minutes. A
code is identified with its row. `cleanupExpiredCodes` is included although nothing calls it.
`changePassword` looks its user up in a statement of its own before the code.

`EmailEntry`. A request waits where the code awaits: for the token to be verified (then the IP guard
runs), for the body (the ValidationPipe comes after the guards, so a body it refuses has been counted by
the IP guard), and for the user's row. `Sanitize` is one step, because nothing is awaited from the draft
to the last custom input. The user's tier is any tier at that moment; an account that is gone is a guest.
A text is reduced to its length, its length without blanks, whether its characters are allowed, and the
places where each pattern matches it. `ProcessRestarts` empties the Map, sets every `lastIndex` to 0 and
drops all requests. What leaves as accepted is what `Generation` starts with.

`SanitizeInput`. `CheckDraft` and `CheckCustomInput` take the `lastIndex` of all patterns and return what
they leave, which is how the code's calls depend on each other. `test()` looks from `lastIndex` on
(`Found`) and leaves it behind the match, or at 0 (`Behind`); `replace()` looks everywhere and leaves 0.

`Generation`. `Today` is the UTC date. The stored tier changes by `PUT me/tier`, the subscriptions by
billing, which is outside `src/` and may do anything, and both count at the moment they are read.
`premiumDays` remembers the days on which a user was premium at some time: on these the limits say
nothing; `uncounted` remembers the e-mails whose counting failed. `EmailEntry` and `Generation` are two
modules because they share no variable: their product would multiply the states of two independent
halves.

`Archives`. Archives are numbered by `createdAt`; `born` is the day. The clean-up's tier and cutoff are
read when it starts and may be stale later; `seen` remembers, as history, which archives it counted.

`Listings`. The rows of one user, numbered by `createdAt` (distinct, although two rows of one
millisecond may tie). One column stands for each that a query can restrict (tone, relationship, purpose,
search text, dates): the conditions are a conjunction, and each behaves like this one. `page` and `total`
are two statements in either order; the changes of the table are single steps here, since `Templates`,
`Archives` and `Notes` look into their handlers. Sorting notes by term is left out. *came*, *gone* and
*calm* in `walk` record what changed, so that the properties can say when they hold.

## 3. Runs

All instances are finite because ids, clock and counters are; every bound is a named constant. The
system may stop (nobody has to send a request, ids and time run out), so deadlock is not checked.

| Run | Instance | Shows |
|---|---|---|
| `sessions_safety` | 2 users, 3 tokens, 2 slots | `SuccessorsOverlap`, `LogoutMissesOnlyErrors`. Three tokens allow a token, its successor and a rival; two slots any pair of races. |
| `sessions_live` | 1 user, 2 tokens, 2 slots, fairness, no symmetry | `ImplementsLifecycle`, `RequestsEnd`: a rotation, a logout or an expiry takes keys from under a scan or a purge. |
| `sessions_claim` | 1 user, 3 tokens, 2 slots | refutes `LogoutAllEndsAll` (`auth.controller.ts:217`). |
| `templates_safety` | 2 users, 3 rows, 1 archive, 2 slots, free count 1, credit up to 1 | the bounds are reached: an account at -1, one free template too many; `ImplementsOwnedRows`: the table is one of owned rows. |
| `templates_claim` | the same | refutes `NoOverdraft` (`template-policy.config.spec.ts:134`). |
| `accounts_safety` | 2 addresses, 3 codes, 2 ids, 2 slots, minute 1, lifetime 2, 3 ticks | three codes: an old valid one, a recent one and a new one; three ticks: a code expires and is purged. |
| `accounts_rate` | the same | refutes `OneCodePerMinute` (`email-verification.service.ts:43`). |
| `entry_safety` | 1 address, 1 user, 2 slots, guest limit 2, window 2, 3 ticks, 1 restart, 2 patterns, 5 bodies, 1 refusal per pattern | `BelowTwiceLimit`, `RestartsAddOneLimit`, `VerdictsAreExact`, `MissesFollowRefusals`. Two windows meet and a restart falls into either; a refusal, a draft that keeps its match, and requests between the two. |
| `generation_safety` | 1 user, 2 slots, limits 2/1, 5 archives, days of 2 ticks, 3 ticks, a subscription that ends at midnight and a cancelled one | `OvershootBounded`, `ArchivedAreCounted`. Two days, so requests cross midnight; both limits are overshot by 1, and five archives leave room to break the bound of either kind (4 basic, 3 advanced). |
| `archives_safety` | 2 users, 3 archives, 2 slots, 2 days, maxima 1 and 2 | `OldestGoFirst`, `CleanupComplete`, `ExcessAsCounted`, `ImplementsOwnedRows`: two clean-ups, or a clean-up and a removal, at once. |
| `notes_safety` | 2 users, 2 notes, 3 slots, 3 toggles | `TogglesCount`, `ImplementsOwnedRows`. |
| `listings_safety` | 3 rows, pages of 1, two texts and null | `PagesMissNothing`, `PagesRepeatNothing`, `TotalFitsPage`. Three pages let rows move across a boundary behind and ahead of the client. |

Faults. `Fail` stops a request between two statements, in every module. In `EmailEntry` the process
restarts: state in the process is lost and the requests under way are dropped (in the other modules this
is `Fail` of every slot, since their state is in the database). A single DEL of a logout fails and the
logout goes on (`PurgeDelFails`). Redis expires keys by itself in
`Sessions`, and a client repeats a rejected request in `Listings`. No message is duplicated or reordered
by the code's own means, so no such fault is modelled.

`accounts_safety` uses a view that forgets `createdAt` and `by` of deleted rows: no step and no
invariant of that run reads them.

Fairness is assumed in `sessions_live` only: `WF(Step(h))`, Node runs a request on as soon as the
awaited command answers (a request whose command never answers is covered by `Fail`). Nothing is assumed
of users, of operators or of the expiry of keys; `Fail` and `PurgeDelFails` never have to happen.

## 4. Where code and text disagree

* `logout-all` (and `logout`, see `LogoutEndsDevice`) does not end a session whose refresh is under
  way: the successor is stored after the scan. A session that grew out of an ended one was issued by
  another request slot (`SurvivorsOverlap`).
* Not run, but stated: `LogoutComplete` in `Sessions`. A rejected DEL of `logout` is swallowed
  (`auth.service.ts:125`) and the errors of single commands that `exec()` returns to `logoutAll` are not
  looked at (171); the answer is 200 with the session alive, where `auth.controller.ts:191` and `217` say
  that it has ended. `LogoutMissesOnlyErrors` says that nothing else leaves one; what may be left after
  a logout is exactly put by `LogoutLeaves`, and where requests do not overlap and no DEL fails both
  lines are right (`LogoutAloneEndsAll`).
* Two creations of templates that read the same balance both charge it. Requests that do not overlap
  keep the balance and the free count exactly (`AloneNoOverdraft`).
* Two overlapping requests for a verification code both get one within the minute; so does a request
  after the last code was used.
* Not run, but stated: `FreeDailyLimit` in `Generation`; advanced requests are not held against the daily
  limit, so a free user gets 10 + 5 e-mails where `tier-calculator.util.spec.ts:396` speaks of 10.
  `OvershootBounded` bounds each kind by itself and says nothing of this.
* Not run, but stated: `ExcessOnly` in `Archives`; a clean-up with a stale count deletes more archives
  than the excess, where `archives-integration.spec.ts:334` says exactly the excess. It deletes too many
  at most as many as others removed since it counted (`ExcessAsCounted`), and without another clean-up or
  removal beside it the sentence is true (`AloneExcessOnly`).
* Not run, but stated: `SignupVerified` in `Accounts`; signup does not ask for a verified address
  although `auth.controller.ts:101` describes it so. Also noticed: codes live 10 minutes
  (`email-verification.service.ts:9`) and not 5 (`auth.controller.ts:40`); generation deducts no credit
  (`ai.service.ts:124`) although `ai.controller.ts:28` says so; the tier does not depend on the
  credit balance (`tier-calculator.util.ts:13-28`) although `README.md:316` of the repository says so; a
  refresh token that cannot be verified throws from `jwt.verify` and is answered with 500, where
  `auth.controller.ts:169` documents 401; a signup that loses the race for an address is answered with
  500 (P2002), where 409 is documented; a refusal by the guest limit has status 429 and the code
  `INTERNAL_SERVER_ERROR`, since the filter names no code for it (`ErrorCode`); the option `length`
  replaces the input limit of the tier, for guests too (`InputLimit`); `[removed]` may be longer than
  what it replaces, so a sanitised draft may be longer than the limit.

## 5. Proofs

All proofs but the three named `...Alone...` (which add `Handlers = {one}`: requests one after the
other) assume only the named assumptions of the modules: constants of the right kind, `None` not
an id, finitely many slots where slots are counted, and for `Accounts` finitely many codes and
`Minute <= Lifetime` (one and ten minutes in the code). A step that preserves an invariant is proved
action by action; what an action does to its own slot is a lemma (`...Slot`, `Returned`, `Went`).

`SessionsProofs`. `IInv` is what is inductive: the invariants themselves are not, because whether a
second successor is issued from one slot depends on what the requests under way have seen. It adds: an
unused jti is nowhere; a refresh works for the token's own subject, and once it has deleted its key the
key is gone for good (`VerifiedRequests`); predecessors have ended (`PredecessorsEnded`); a slot that
was let pass has not issued a successor of its token yet (`AcceptedHasNoSuccessorYet`, which with
`SuccessorsOverlap` is the core of `NoReplay`); and a logout's keys are either still to be scanned,
found, gone, or their DEL failed (`LogoutProgress`, the core of `LogoutCorrect`). `LogoutLeaves` adds
`StoredBeside`: a key of the account that was not there when the scan began was stored by another slot.
`LogoutAloneEndsAll` follows from it, since there is no other slot. `SurvivorsOverlap` adds
`GrownElsewhere`: no session whose predecessor a logout has to end was issued by the logout's own slot.
`Refinement` maps each step to a step of `TokenLifecycle` or a stutter, using `IInv` for the storing
steps.

`TemplatesProofs`. `OverdraftIsBounded` needs `DebtBounded`: the balance minus the number of requests
that have seen enough credit and not yet spent it stays above the bound. A request joins that set only
while the balance is positive, and the set has at most as many members as there are slots. `Refinement`
needs `Writing`: what a request is about to write or delete by id is a row of its user, and an id's owner
never changes once it has one. `ConvertedOnce` is inductive: the unique index is asked in the step that
inserts. `FreeTemplatesBounded` counts the uncharged rows together with the requests about to insert one
(`RoomBounded`): one joins them only while a place is free. `LedgerCovers` does the books with the
requests under way on both sides (`ChargesRecorded`): a recorded charge pays for a template or for a
request that may yet insert one, and what was taken is recorded or about to be.

`AccountsProofs`. `AllPlaced` says for each label what its locals refer to (a code of the request's
address, an account of it). `CodesPassOnce` rests on the delete by id, which succeeds once.
`CodesOverlap` adds `Spaced`: the codes that a slot sent earlier are a minute old when it is about to
store another for the same address. `ChangesAreBacked` counts the writes that a code has to allow, those of
`resetPassword` and `changePassword`: the requests that passed a code and have not written yet, together
with the passwords written, are at most the codes of the address that were used (`Backed`).

`EmailEntryProofs`. `EntryUsesGuard`: each step of `EmailEntry` is a step of the guard or leaves it alone,
so the guard is proved on its own. `GuardHolds`: an address's windows do not overlap and each opens with
its first call (`Windows`), and the record in the Map knows the last one (`Recorded`); a stretch as long
as a window therefore meets two windows at most, and it cannot hold all calls of both, since it misses
the first call of the earlier one. A restart empties the history of the process with its Map.
`RestartsBounded` adds what the processes before have let pass: they follow one another and each opened
its windows in its own time (`Lives`), so a stretch that begins after a process has begun is spoiled by
the later restarts only, and the one that runs at its end adds one limit less (`EarlierBounded`).
`VerdictsHold`: from a `lastIndex` of 0 a custom input is refused exactly for what it holds
(`CheckedFromUnread`), an input that passes leaves 0 again, and the draft leaves 0 whatever it was given
(`DraftChecked`); so `BodyChecked` speaks of a body without speaking of the requests before.
`MissesAreExplained` needs `Explained`: a pattern whose `lastIndex` is not 0 has refused an input that no
draft has paid for yet.

`GenerationProofs`. `OvershootIsBounded` needs `Ahead`: on a day that is not over and on which the user
was not premium, the count together with the requests that were let pass and are not counted yet stays
below limit plus slots, because the count was below the limit when the last of them was let pass; days
to come and days without a row have no counts (`Blank`), so midnight starts afresh. `ArchivedIsCounted`
counts all days at once: `Counted(u)` is a set of pairs, one for each request a row has counted, to which a
counting adds a new one; with the requests archived and not yet counted and the countings that failed it
is always as large as the archive (`Balanced`).

`ArchivesProofs`. `Working(h)` says what each statement of a clean-up has achieved and no later step of
another request can undo: nothing of the user's is older than the cutoff; of what it counted, at most
maximum plus excess is left; what it is about to delete are its user's oldest. Removals only help, and
new archives are younger than everything counted (`InOrder`). `TrimsTheExcess` needs `Saw`, which nobody
can change: maximum plus excess were counted, and at most the excess is about to go. `Refinement` uses
the same invariant: what a clean-up deletes in one statement is one user's, an expiry by its `where` and
the rest by `Working`. `AloneExcessOnly` needs `Untouched`: between count and delete the user keeps what
was counted.

`NotesProofs`. `Reading`: a request in flight refers to a row that exists or existed, for its owner, and
saw no toggle that was not written. With it `TogglesCount` is inductive, and each step of `Notes` is one
of `OwnedRows`.

`ListingsProofs`. The place of a row is the number of matching rows that come before it. Sorting is a
strict order, so places are different and without a gap (`Ranks`), and a page is exactly the rows whose
places it covers (`PageSize`). While no row comes in the midst of the list places only fall, so what was
shown stays on pages that were read (`ShownIsBehind`, the core of `PagesRepeatNone`); while none goes
they only grow, so what is on the pages that were read was shown (`BehindIsShown`, the core of
`PagesMissNone`); `CalmAgrees` compares the two statements while nothing changes between them.

Only model-checked: `RequestsEnd`, which is liveness under fairness, beyond what the prover does. Every
other property of a passing run is a theorem.

## 6. Not modelled, and the plan

Left out for good: the prompts and the parsing of an answer (text), the OpenAI and SMTP calls (external,
no state), `JwtAccessGuard` and the other DTOs (guards without state: a request they refuse does
nothing), the response interceptor (an envelope), the display functions of the tier calculator, wiring.
`updateProfile` writes the user's name, and the password hash on the word of the signed-in user alone,
in one statement by id: it touches no variable of `Accounts`, whose `PasswordsBacked` speaks of the
password writes that a code has to allow.

Left for later, in this order:

1. that `OverdraftBounded`, `FreeBounded` and `OvershootBounded` cannot be improved for any number of
   slots: on the instances they are reached, which says nothing of larger ones;
2. profile edits, and `getUserWithTier` beside changes of tier;
3. ties in the order of a listing (notes by term, rows of one millisecond).
