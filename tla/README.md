# Acme-Jobs in TLA+

A formal model of Acme-Jobs, a Spring Boot 2.1 / Hibernate / MySQL web application in which employers publish
jobs, workers apply for them and auditors write records about them. The code is in `src/src/main/java/acme`
(about 320 Java files); it has no tests. This directory holds TLA+ modules translated from that code, TLC runs that
check them on small instances, and TLAPS proofs for every size.

## 1. Inventory

### 1.1 How the system runs

Every page is served by a subclass of `framework/controllers/AbstractController`, one per role and entity
(`employer/job`, `worker/application`, ...). `handleRequest` starts a transaction, checks the role, asks the command's
service to `authorise`, then runs `doGet` or `doPost`, which call the other methods of the service in a fixed order
(`findOne` or `instantiate`, `bind`, `validate`, then `create`, `update` or `delete`), commits, and runs `onSuccess` or
`onFailure` in a transaction of its own. Services keep no state; what is shared is

* the database: InnoDB tables with a primary key from one sequence, an `@Version` column in every row
  (`DomainEntity`), foreign keys and a few unique columns (`population/create-schema.sql`);
* the field `transactionStatus` of each controller, a singleton that serves all requests of its kind;
* the `Principal` of an HTTP session, which all requests of the session read and `setActiveRole` changes.

### 1.2 Components

| Component | State | Operations | What makes it correct |
|---|---|---|---|
| Job board (`features/employer/{job,duty,application}`, `features/worker/application`, `features/auditor/auditRecord`) | rows of `job`, `duty`, `application`, `audit_record`; the clock | create, update, publish, delete jobs and duties; apply; accept, reject; create and update audit records | a published job is frozen and its duties add up to 100%; decisions are final; nothing refers to a job that is gone or a draft; a deadline closes the job |
| Request controller (`AbstractController`, `ServiceWrapper`, `Request`) | `transactionStatus`; the transaction bound to each thread | start, serve, commit or roll back, hook, catch | the answer says what became of the work; no transaction is left open; every request is answered |
| Transactions (Hibernate and InnoDB, from their use; `DomainEntity.version`) | committed rows; the persistence context of each request | read a snapshot, hold writes, flush, discard | a transaction changes the rows it read, all of them, or none |
| Accounts and roles (`features/{administrator,authenticated,anonymous}/userAccount`, `features/authenticated/{employer,worker,sponsor,notActiveAuditor}`, `features/administrator/notActiveAuditor`) | accounts, role rows, `enabled` | sign up, edit the profile, enable and disable, create and update a role, ask to be an auditor, decide on it | one role of a kind per account; nobody audits who has not asked to; the status changes only on purpose |
| Principal and session (`Principal`, `PrincipalHelper`, `AuthenticationService`) | active role, copy of the roles | sign in and out, renew, set the active role | a principal claims what is true, and after a renewal all of it; a service acts with the role of its controller |
| Message threads (`features/authenticated/{messageThread,canParticipate,message}`) | threads, participations, messages | create a thread, add and remove users, post | the creator takes part; nobody takes part twice; only participants post |
| Sponsors and banners (`features/sponsor`, `BannerRepository`, `BannerAdvisor`) | banners, cards | CRUD; a random banner on each page | a banner is its sponsor's; commercial ones need a card |
| Bulletin (`features/administrator/{announcement,challenge,companyrecord,investorRecord}`, anonymous and authenticated readers) | rows without rules of their own | CRUD | no lost update |
| Customisation, spam filter (`configuration`, the loops in six `validate` methods) | spam words, threshold | update, count | the loop ends and counts what the text holds |
| Database populator (`DatabasePopulator`, `DatabaseUtil`) | the list of a file's entities, attempts, the database | load files, put off what fails, commit, start over | it ends; a file is stored entirely or not at all; what can be sorted is |
| Navigation (`acme.js`, the tags that call it) | the string `return-stack` in `sessionStorage` | push, pop, clear, the browser's Back | Return and a saved form lead where the user came from |

Read-only parts (listings, shows, dashboard) and layout (JSP, CSS, messages, formatters, console tools) change no state.

### 1.3 How they interact

The controller calls the services; every service works through one transaction. `onSuccess` of the role services tells the session of
the new roles after the commit, in a transaction of its own. All requests of a session share one principal, which the controller
changes (`setActiveRole`) and the banner services read. The browser tab keeps its return stack to itself, and a redirect to
`/master/referrer` asks it for the next page. The populator runs alone, on an empty database.

### 1.4 What is hard

Requests interleave: between the reads of one (`authorise`, `validate`) and its writes other transactions commit. Only three
things serialise them: the version column, the foreign keys and the unique columns. Every rule that relates several rows, or
a row and the clock, or a row and a session, is therefore exposed, as is every use of `transactionStatus` and of the principal. In the
web application no code retries and nothing but the database survives a crash, so a crash is a rollback; the populator
does retry, and can be killed between two files. `PROJECT.json` lists each hazard at its line, with the properties that watch it.

## 2. Modules

| Module | Models |
|---|---|
| `Transactions` | service steps on a snapshot, flushes under the version column; the component modules extend it |
| `AtomicRows` | what they promise (abstract): the rows as read are changed together or not at all |
| `JobBoard` | the job board |
| `MessageThreads` | threads, participations, messages |
| `Accounts` | accounts, roles, principals and their renewal |
| `Bulletin` | notices, the customisation, banners, cards, and the active role of a session's principals |
| `RequestController` | `handleRequest` and its transactions, refining `RequestPromise` |
| `RequestPromise` | what a controller promises of each request (abstract) |
| `Populator` | the population launcher |
| `Navigation` | the return stack of `acme.js`, refining `ReturnStack` |
| `ReturnStack` | a stack of listings (abstract) |
| `MC...` | constants for TLC |
| `...Proofs` | theorems, for every value of the constants |

### 2.1 Transactions

`db` maps every id to its committed row: unborn, live with the columns the rules look at, or gone. `tx[t]` is the
persistence context of the transaction of server thread `t`: for each id it has written, the row as its snapshot had it and
the row as it left it.

A POST is two steps. The *service step* is all of `doPost`: its guards are the conditions of `authorise` and `validate`,
evaluated on one REPEATABLE READ snapshot, its effect is the writes left pending (`Hold`). The *commit* is the flush: every
pending update and delete says `where id = ? and version = ?`, so it is refused when a row has moved on (`Unstale`). `Discard`
is any end without a trace: a stale version, a constraint, a deadlock victim, a lost connection, a crash. Any number of threads may
have a transaction open, so the steps of all requests interleave in every way between their reads and their commit. A component
conjoins what its tables check (foreign keys in `JobBoard`, the unique user name in `Accounts`).

`AtomicRows` is what the services rely on: a claim is a set of rows as they were read, and a change happens only while *all columns*
of them are still what they were, and touches no other row. `KeepsRowsAtomic` says that comparing versions is enough for that.

What is abstracted, and why that is sound for the properties:

* A refused request changes nothing and has no step. Refusals about data that no property mentions (spam, euros, a reference
  already in use, a missing justification) only remove behaviours, and the model keeps the behaviours in which the data is fine.
* A form brings the fields of its page. A field the user fills in may hold any value. A hidden or read-only field comes back as
  it was shown, unless a constant says what else it may hold: `bind` excludes next to nothing, so where such a field is a column
  that a property depends on, the constant is there (`HiddenDraft` in `JobBoard`), and the properties say whose forms they are
  about. The same goes for a query string that a page does not send (`Queried` in `MessageThreads`). Fields that are neither on
  the page nor named by a constant do not come; those that come back as shown and are bound once more (`job.title` and
  `job.reference` of an application's decision, `username` of an account's status) are columns that the rows do not hold, or
  that stay what they were. A DELETE binds nothing.
* `findOne`, `bind` and `save` run in one transaction on a managed
  entity, whose version Hibernate takes from the row it loaded: the version the form brings is ignored, and a form filled in from
  an old page overwrites what was saved meanwhile. So an update starts from the row as the snapshot has it;
  the version column guards overlapping transactions, not overlapping users.
* Titles, texts, money and moments are not in the rows.

Bounds: `MaxVersion` on the updates of a row, the number of ids on insertions.

### 2.2 JobBoard

Service steps `JobCreate`, `JobUpdate`, `JobDelete`, `DutyCreate`, ..., `Accept`, `Reject`, `Apply`, `AuditCreate`, `AuditUpdate`, one per service that writes;
`now` is the clock, compared with deadlines in the service step only, as in the code.

* `Sender[t]` is the account whose requests thread `t` serves, and a job remembers its employer: `Own` is the owner check of
  the employer's `authorise` methods. An auditor's check of his own records only chooses who may take a step, as does a worker's
  account, so any thread may act as one.
* A duty's percentage is an integer, so exact; the code adds doubles. `Workload` is the sum the code takes on every use.
* `HiddenDraft[e]` is what the forms of employer `e` bring as the draft that the user does not fill in: the hidden `job.draft` of a duty's form,
  and a `draft` on the form of a new job, whose page has none. Both are bound (`EmployerDutyCreateService:62`,
  `EmployerDutyUpdateService:48`, `EmployerJobCreateService:37`), the first onto the managed job of the duty, so that the flush
  writes the duty and the job (`Saved`). `{TRUE}` is what the pages send: a duty is only edited while its job is a draft. With
  `BOOLEAN` one request publishes a job that nobody has summed. `PublishedWorkload` is therefore about the jobs of employers whose
  forms come back as shown (`AsShown`); every other property of the board holds whatever the forms bring.

Bound: `MaxTime` on the clock.

### 2.3 MessageThreads

`Requester[t]` is the user whose request thread `t` serves. `ThreadCreate` inserts a thread and its creator's participation in one
transaction; `Invite` and `Remove` are the creator's; `Post` needs the author's participation, by a query that throws when
there are two. Nothing is updated.

An invitation names its thread twice. `instantiate` and `validate` take it from the form, `authorise` from the query string, if
there is one (`AuthenticatedCanParticipateCreateService:28`). The page sends none with the POST; `Queried[k]` are the threads that
one may name all the same when the form names `k`, and `Asked(k)` all the threads whose creator `authorise` may find. So where
`Queried[k]` is not empty, the creator of another thread may invite to `k`, himself included.

`OutsiderStaysSilent` is the promise about those who were removed: from a moment at which they take no part and have neither a
post nor an invitation under way, nothing of theirs is added before they are invited again by one who created a thread in
`Asked(k)`, which is *the* creator as far as the pages go. A message authorised before
the removal may still land after it; the property is stated for what the code can keep. `InvolvedOnce` is about the threads without such query
strings, since the requests of two creators may overlap in the others. `CreatorTakesPart` holds of all.

### 2.4 Accounts

An account and its Authenticated role are one row. `session[s]` is the principal of a session, a copy of roles. `hook[t]` is what
remains after the commit: the services that change roles arm it, `Commit` makes it due, `Load` reads the account, `Install`
replaces the session's principal (two steps: they are a query and an assignment), `HookFails` is a throw in `onSuccess`. `SignIn`
needs an enabled account. An administrator's step on another account arms the hook of *his* session, as in the code, so the
other's principal stays as it is.

`DecideAuditor` follows `update` word by word: whenever the form says enabled, an Auditor is saved, for the account of the request that is
decided, in one transaction with the request. How many are saved is finding `accounts_double`; for whom is `AuditorsAsked`.
`SetStatus` writes the status; the user name and the identity on its page are read-only. That user names differ is the
guard of `Commit` (a unique column) and no property.

### 2.5 Bulletin

`active[s]` are the active roles of the principals session `s` has had, the current one last; `desk[t]` is how far a request has got and
which of these principals it holds, for a `Request` takes the session's principal when it is made and keeps it. `Enter` sets the active role of that
principal, `BannerInstantiate` makes a banner for the active sponsor. `ActiveSponsor` is what
`getActiveRoleId` yields when it is used as the id of a sponsor: nobody's, if another request with the same principal has set another role
meanwhile. After `SponsorUpdate` has committed, `Renew` is `onSuccess`: the session gets a new principal, which `loadUserByUsername` makes with the
active role Authenticated, while the requests under way go on with the old one; `Leave` is also an `onSuccess` that throws.
Notices stand for announcements, challenges, company and investor records, whose services are the same up to their
columns. A card is there or not; Luhn's check and the date only refuse.

### 2.6 RequestController

One process per request, each on a thread of its own: `pc` is where it is in `handleRequest`, `phase` which of its transactions
it is in (the work, the hook, the catch block), `verdict` how the service ended. `transactionStatus` is the shared field, `fate`
says of every status whether its transaction was committed or undone, `bound` what Spring has bound to the thread. The
transaction manager is external and modelled from its use: `getTransaction` joins a transaction bound to the thread or
starts one; commit and rollback end the transaction *of the status they are given*, refuse a completed one, and unbind what the
*calling* thread has bound; a thread whose transaction was ended by another has a closed entity manager, and its next access
throws. The step that ends a transaction and the assignment of `null` are two steps, as they are two statements. A call to the manager is one step
together with the assertion before it: two threads inside it with one status are not told apart, and the connection below ends once in
either case. Anything that can throw does so in some behaviour. `onFailure` cannot: no service overrides the empty default.

`Pool` is the number of requests that are served at once.

`RequestPromise` says what a caller relies on: the work of a request is committed or undone, once, and then the answer
(success, errors, panic) tells which; only panic says nothing, since `onSuccess` may fail after the commit. The refinement
maps `work` to the fate of the request's first status and `answer` to the view.

### 2.7 Populator

`run` empties the schema (`Start`) and loads one file after the other. If the exporter or the schema throws, the catch of `run` is
reached with some of the old rows dropped and nothing loaded (`StartFails`). `Open` takes a file's entities in any order, `Try` starts a
transaction, `Persist` persists the next entity, `Defer` moves one that fails to the end of the list and rolls back, `GiveUp`
is reached when the attempts are used up. An entity fails when one of its file that it refers to is not persisted yet, or for a
reason of its own, which the ghost `troubled` remembers. `CommitFails` is the commit that throws: `commitTransaction` catches it, so that
the file is reported as stored. `Break` is the catch of `run`, `Kill` the end of the process at any point; a killed launcher
is started again. Entities that cascade to others are persisted with them, which only makes fewer fail. The map file and the console are left out.

### 2.8 Navigation

`store` is the string in `sessionStorage`, as a sequence of URLs and separators, since `concat`, `lastIndexOf` and `substring` only
ever cut at the separator `>||<`, which no URL contains (browsers escape `<` and `>`). `page` is the page on the screen together with
a ghost, the trail of listings the user has gone through to it; `past` is what the browser's Back leads to. The
actions are what the tags do: a listing's row pushes, a menu entry clears, Return and a saved form pop, a form's GET buttons do neither.
`SiteTyped` says which page leads where; `MCNavigation` gives it an employer's pages.

`KeepsStack` refines `ReturnStack` (the string is a stack), `StackIsTrail` relates the string to the pages (it is the *right* stack). Back breaks
the latter, since `acme.js` does not hear of it, and a choice from the menu mends it: hence its premise `~backed`.

## 3. Runs

| Run | Instance | Shows |
|---|---|---|
| `job_serial` | 2 employers with one request each, 2 jobs, 3 duties, 1 application, 1 record, percentages 0/40/60; one employer's forms as shown, the other's with any draft | one request of each employer at a time: a published job has exactly 100%, if its employer's forms are as shown, and no job more |
| `job_overlap` | 1 employer with two requests, 1 job, 2 duties, 1 application, 1 record, deadlines 1/2, forms with any draft | any overlap: rows well typed, children attached, published rows frozen, decisions final, closed jobs quiet, rows atomic |
| `job_skew` (violation) | as `job_overlap`, but forms as shown | publication and a duty change overlap, both commit: the published job is not at 100% |
| `threads` | 3 users with one request each, 2 threads, one of which may be invited to with the other in the query string, 4 participations, 2 messages | creators stay, nobody takes part twice (in the thread without query strings), who was removed falls silent |
| `accounts` | an administrator and 2 users, each with one session and one request, 2 roles, 2 names | roles, auditors who have asked, principals, renewals and statuses, through rollbacks and failed hooks; rows atomic |
| `accounts_double` (violation) | an administrator and a user, 3 roles | an administrator saves an enabled request again: a second Auditor |
| `bulletin` | a session with 2 requests (a sponsor's), one with 1 (a sponsor and administrator); 1 notice, 1 banner of each kind; renewals | only its sponsor edits a banner; a lone request stores banners of its own, with a card |
| `request_one` | 2 requests, pool of 1 | refinement of `RequestPromise`, no transaction left open, through every combination of throws |
| `request_overlap` | 2 requests, pool of 2 | the field only holds started statuses, each transaction ends once, each step leads on, every request is answered |
| `request_shared` (violation) | 2 requests, pool of 2 | success is shown for work that was not committed |
| `populator` | a flat file of 4 entities, an empty one, a chain of 3; one kill | the launcher never repeats a position and ends, files are whole, flat files are sorted |
| `navigation` | 8 pages, trails of up to 3 listings, 3 pages of browser history | the string is a stack, and the user's trail |

Why the bounds are enough. Percentages 40 and 60 reach 100 in one way and go over in another, 0 is the refused boundary.
Two jobs and three duties let one job be published while another is edited; the second employer's requests come between
every two steps of the first one's, and the clock stands still there, as no duty depends on it. Two updates per row (`job_overlap`) let an optimistic
conflict happen and happen again. The clock 0..1 with deadlines 1 and 2 gives an open job, a closing one and one still open after the
tick. Two transactions are enough for each race between a read and a write; `threads` and `accounts` have three because their
races have three parties: a creator, the one he removes and the one he invites; an administrator, an owner and a second sign-up. In
`request_one` the second request meets whatever the first one left behind. The populator's flat file of four has every position for
the entity the others need; three files and a kill let a restart meet each half-loaded state. `navigation`'s trails of three are
job, duty, and one more than its pages need; `MaxPast` lets Back be used three times in a row. Symmetry is used for ids, names and
threads that no action tells apart, in runs without liveness: not for the two threads of `threads`, which `Queried` tells apart, nor
for the employers of `job_serial`, whose forms differ.

The numbers of distinct states: `job_serial` 1,389,297, `job_overlap` 1,133,070, `threads` 26,605, `accounts` 208,160, `bulletin`
2,939,714, `populator` 6,564; the largest takes a minute and a half on two cores.

Deadlock checking is off in most runs: ids, versions and requests are used up, and then the model stops; the launcher
ends. It is on in `navigation`.

### 3.1 What the three violations say

`job_skew`. `EmployerJobUpdateService.validate` sums the duties of its snapshot and `update` writes the job's row. A request of
`employer/duty`, another controller, that read the job as a draft writes the duty's row. No row is written by both, so neither
version check fails and both commit. An employer who sends one request at a time is safe (`job_serial`, and two theorems): only he writes his
jobs and their duties. `AtomicRows` holds here too: it
is about the rows a transaction writes, and this is about a row it only reads.

`request_shared`. `transactionStatus` is a field of a singleton. Request A has served; request B starts its
transaction on the same controller; A's `commitTransaction` commits B's transaction and unbinds A's. A's work is never
committed, A's user is shown success, B's entity manager is closed under it. The other modules' properties are about transactions that do
overlap and end as they should; the races their runs report are possible between different controllers.

`accounts_double`. `UserAccount.addRole` asserts that an account has no role of the class yet.
`AdministratorNotActiveAuditorUpdateService.update` saves an Auditor whenever the form is enabled, so saving the form of an
enabled request again stores a second one; the auditor's queries for his one role then throw.

More divergences are in the models without a run of their own. Without overlap, a form that brings `draft=false` where the page shows no draft
box publishes a job whose duties nobody has summed, and an invitation whose query string names another thread is authorised by that
thread's creator (2.2 and 2.3). The populator "sorts topologically" only as far as the attempts go:
for a duty, its job and the job's employer in that order, three attempts make the list employer, job, duty, and no fourth tries
it, hence the premise of `SortedIfFlat`. And the comment at `AbstractController:469` says that the referrer "cares of returning to the appropriate listing", which the
browser's Back defeats (hence the premise of `StackIsTrail`).

### 3.2 Fairness

The modules over `Transactions`, and `Navigation`, state none: a user may stop at any time, and no property of theirs is of the form
"eventually". `RequestController` assumes weak fairness of each request's own steps: the container schedules the thread that serves
it, and the calls it makes return or throw. That is what `Answered` rests on. Arrivals are not fair. `Populator` assumes
weak fairness of `Run`, the launcher's own steps: it is one thread and goes on while it is alive. Kills are not fair and `MaxKills`
bounds them; `Ends` is about the last start.

## 4. Proofs

| Module | Theorems | Under |
|---|---|---|
| `JobBoardProofs` | `TypeCorrect`, `OptimisticLocking`, `RowsAreAtomic`, `AttachedToPublished`, `PublicationFreezes`, `DecisionsAreFinal`, `DeadlineCloses` | |
| | `PublishedAddsUp`, `NeverAboveHundred` | `OneRequestEach`, `IsFiniteSet(Duties)` |
| `MessageThreadsProofs` | `TypeCorrect`, `RowsAreAtomic`, `CreatorsTakePart`, `OutsidersAreSilent` | |
| | `NobodyTwice` | `OneRequestEach` |
| `AccountsProofs` | `TypeCorrect`, `RowsAreAtomic`, `NobodyIsDrafted`, `PrincipalsAreBacked`, `StatusIsMeant` | |
| | `OneRoleOfAKind`, `RenewalsAreComplete` | `OneRequestEach` |
| `BulletinProofs` | `TypeCorrect`, `RowsAreAtomic`, `SponsorsEditTheirOwn`, `BannersArePaid` | (`Alone` is part of the property) |
| `RequestControllerProofs` | `TypeCorrect`, `TransactionsEndOnce`, `RequestsOnlyAdvance` | |
| | `OneLeavesNothingOpen`, `OneKeepsPromise` | `Pool = 1` |
| `PopulatorProofs` | `TypeCorrect`, `DeferringLosesNothing`, `FilesAreWhole`, `FlatFilesAreSorted`, `RunsOnlyMoveOn` | |
| `NavigationProofs` | `TypeCorrect`, `ReturnsWhereOneCameFrom`, `StringIsStack` | |

All hold for sets of ids, threads, sessions and users of any size, finite or infinite (but where a sum is taken over
duties: a table is finite), and for all bounds; the assumptions on constants
(ids of different tables differ, files are finite and disjoint, ...) are named in the modules and evaluated by TLC in every run.

`TransactionsProofs` holds the lemmas the component proofs share: `UnstaleIsUnchanged` (if pending reads are optimistic and a flush finds
their versions, the rows are what they were), `HoldKeepsReads`, `FlushKeepsReads` and `DiscardKeepsReads` (every step keeps
`OptimisticReads`), `HoldIsClaim`, `FlushIsChange`, `DiscardIsGiveUp` (every step is one of `AtomicRows`). Each of the four
components over `Transactions` refines `AtomicRows` by these three (`RowsAreAtomic`): what is left to it is that its service steps
raise versions, which is in its `PendingLawful` or `LawfulWork`, and that its commits are flushes.

### 4.1 JobBoardProofs

The argument has two halves. `ServiceIsLawful`: a service step only leaves lawful changes pending, where lawful says what the
services' guards establish (a final row is not updated, an application is not deleted, a child keeps its job, a version goes up by
one). `FlushOverReadRow`: `Commit` overwrites a row only if it still is the row that was read. Neither `TypeOK` nor
`WellAttached` is inductive: what makes an insert safe is what was known when its transaction read the job, so the invariant `IInv`
adds `PendingLawful` (pending changes are lawful, and a pending application's job was published, hence is published or gone) and
`OptimisticReads` (the row a pending change was read from is the current one, or older, or the row is gone). From these two,
`RowStep` says that every step changes every row lawfully, and the action properties follow without looking at the services again.

The two workload theorems are about a sum over several rows, which no version guards. They assume `OneRequestEach`: no two threads serve
one employer. `EachInv` says of every pending work of an employer that the rows it would leave are within the rule (`Held`): the database
*with that work put in* has no job above 100%, and at 100% every published job whose employer's forms come back as shown (`Due`). `ServeHeld` takes this from what `validate` summed;
`CommitHeld` keeps it for the others, since what one employer's commit changes is disjoint from every other's jobs and duties (`Apart`,
`ApartRows`), and what workers and auditors commit is no duty. That sums agree where rows do, and change by what one duty changes, is an
induction over a finite set. The library's rules for it take an operator, so the lemmas of the section Sums go by a smallest
counterexample (`NoSmallest`), an argument on natural numbers that the provers do follow. What a duty's form leaves is two rows at most, the duty and its job, and the job
differs from the one read in the draft alone (`SavedRows`, `LawfulSaved`, `OwnSaved`); if the draft was taken away, the job is not due (`NotDue`). `job_skew` is what happens without the assumption.

### 4.2 MessageThreadsProofs

`CreatorTakesPart` is kept by `PendingLawful`: a pending thread comes with its creator's participation, a pending removal is not the creator's, and since
threads stay for ever this cannot become false while it is pending (`TalksStay`). `OutsidersAreSilent` splits on the step: a
flush adds only what was under way, a service step brings a post under way only for a participant, and an invitation
only by the creator of a talk in `Asked` (`ServiceBringsIn`). `NobodyTwice` assumes that every creator has one request at a time (`OneRequestEach`): in
a thread that only its creator can invite to, a pending
invitation's pair is then in nobody else's work, so what `validate` did not find is still missing when it is flushed (`FlushBringsOne`).

### 4.3 AccountsProofs

`IInv` adds to types, lawful work and optimistic reads that principals, the installed and the loaded ones, are true (`PrincipalsTrue`).
No role is ever taken away nor changes hands, so `KindsGrow`: what was true of a copy stays true, however late it is installed. A
new status comes from a request whose row differs in it, because the row it started from is the row it replaces (`StatusIsMeant`).
`NobodyIsDrafted` needs its own invariant about pending work: a service step holds an Auditor only for an account it has found a request of (`Appointed`), and
since requests are kept (`RolesStay`), it is still there when the Auditor is flushed, by whichever commit (`AuditorInv`).
With one request at a time of each account, `SoloInv` says that a session is its owner's (`AtHome`), that a pending role is the first of its kind
(`StillFirst`) and that a principal loaded but not yet installed misses nothing (`StillComplete`).

### 4.4 BulletinProofs

Whatever other requests make of the active role, the sponsor it stands for can only be the
account's own, or nobody (`ActiveIsOwn`): `SponsorsEditTheirOwn` needs no more. A renewal appends a principal, so the one a request
holds stays where it was (`Screens`, `Held`, `MoreRoles`). `BannersArePaid` is about a request that is alone with its
sponsor: `AloneUndisturbed` says that it finds the active role it set, in the principal it set it in, and that the sponsor's card, read in its snapshot, is still there at its
flush, as nobody else could have cleared it. `InsertsDiffer` (no two transactions insert one id) ties the row that appears to the thread that held it.

### 4.5 RequestControllerProofs

With a pool of one, `OneInv` says where a request is in its transactions: `Where` ties `pc` to what is open (nothing, the
transaction of the current phase, or, in the catch block, the one that was interrupted) and to what the field holds; `Story`
ties `phase` to what became of the work (once past its first transaction, it is committed after success and undone after errors).
`FieldAtRest` and `FieldInTransaction` are the heart of it: alone, a request finds in the field its own open status or
nothing that could be ended. Every lemma `...Step` shows of one statement of `handleRequest` that it is a `GoodStep`: it keeps
`Where` and `Story`, leaves the other requests alone, and makes a step of `RequestPromise` or none (`Kept`). That another
request joins in is the one assumption the proof loses for a larger pool; `request_shared` is what happens then.

Two things survive any pool, and need no more than the types. `TransactionsEndOnce`: a status that is completed is refused, by the assertion
of `isTransactionActive` and, where assertions are off, by the manager itself, so that requests which share the field may end each other's
transactions but none twice. `RequestsOnlyAdvance`: `Progress` counts where in `handleRequest` a request stands, up to 32,
and every step of it, a throw included, makes it larger.

### 4.6 PopulatorProofs

`MovedLast` says what `remove(i)` and `addLast` make of a list, position by position; `MovedLastKeepsAll` that it keeps its entities, and
`ListsHoldAll` that a list without repetition as long as its file holds all of it (by counting). `NotYet` is why files are whole once the schema is new (`NewSchema`): nothing of the current and later files
is stored before `Commit`, and nothing is reported of them. `FlatFilesAreSorted` rests on `Sorted`: in a flat file,
after *n* attempts the last *n* entities all refer to something. An entity that is put off lacks one that refers to nothing, which
therefore stands before those *n* (`DeferSorts`); so it was not among them, and joins them. If no attempt is left, all
refer to something, and there is a chain (`NobodyIsFirst`).

`RunsOnlyMoveOn` orders the launcher's positions lexicographically (run, file, stage of the file, attempts, stage of the attempt, entities
persisted): every step but a kill leads to a later one. All six are bounded by `TypeOK`, so this is the variant that `Ends` rests on, for files of any size.

### 4.7 NavigationProofs

A string is well formed if listings and separators alternate; `Split` then reads the listings at its odd places. The lemmas on
`Pushed` and `Popped` say that concatenating appends one listing to `Split`, and that the last separator is the last even
place, so that cutting there removes one and yields it. With these, `StringIsStack` maps every action to one of `ReturnStack` or a stutter, Back
included. `ReturnsWhereOneCameFrom` needs of every page that it was come to along its trail (the pages remembered for
Back too), and that a choice from the menu starts both afresh.

### 4.8 Only model-checked

Every safety invariant and action property of the passing runs is a theorem. What TLC alone checks is liveness: `Answered` and `Ends`
speak of fairness, hence of ENABLED, which the provers do not handle. Of each, the part that depends on the code is proved, namely that no step leads
back (`StepsForward`, `NeverAgain`); what remains is that a process with a step to take takes it, and that one is never left
without a step short of the end.

## 5. Plan

Done: the eight components of section 2, their runs, and proofs of every safety property the runs check. Left, in this order:

1. The spam count of the six `validate` methods as a recursive function over short texts (termination for non-empty words, dependence on
   the order of the words), in a module of its own without theorems.
2. The composition of a controller's pool of one with `JobBoard`: that behind such controllers transactions end as
   `Transactions` has them end.
3. Sign-out and the active role in one module: `Accounts` renews principals without an active role, `Bulletin` gives sessions
   active roles without signing them out.

## 6. Not modelled

* Third-party JavaScript under `META-INF/resources/libraries` (jQuery, DataTables, Chart.js, Bootstrap, Popper, Font Awesome). It
  is vendored code that draws pages; it makes up nearly all lines of JavaScript in the repository. The application's own
  code is Java, and one script, `acme.js`, of which `Navigation` models the part with state; the rest fills widgets.
* Listings, shows, the dashboard's queries and the random banner: reads without a step. That a page asked for may be gone by then
  (`BannerRepository`) is handled by the code as an empty page.
* The spam filter: a loop over characters. A text it refuses is a refused request.
* Doubles: percentages and money are integers or absent, so rounding is not covered. Luhn's check and the expiry of a card are one Boolean.
* Views and JSP, CSS, message bundles and `ExtendedMessageSource`, formatters and converters, `DatabaseExporter`,
  `DatabaseInquirer`, `Launcher`, the populator's map file: input, output and layout, without a state of their own.
* The registration of commands in `AbstractController`, which happens once, before any request.
* The memory model of the unsynchronised field `transactionStatus`, taken as sequentially consistent, which only hides
  further ways to go wrong.
