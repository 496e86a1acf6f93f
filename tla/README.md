# Verification of ssartnership

TLA+ models of the parts of ssartnership whose correctness depends on the order
of events: deliveries that must not be repeated, leases, compensations, upload
sessions, approvals, row locks, links and codes. Each module is translated from the source at the lines that
`PROJECT.json` ("map") names. TLC checks the models on small instances; TLAPS
proves the theorems of the `*_proofs` modules for every value of the constants.

To run one: `tlc -config PushCampaign_three_runs.cfg MCPushCampaign.tla`, and
`tlapm PushCampaign_proofs.tla`.

## 1. Inventory

The system is a Next.js application over Supabase (Postgres, Storage). Its
concurrency is that of serverless requests: every request or cron call is a
process of its own, calls to the database, to Storage and to push services are
awaited one by one, any of them may fail after taking effect, and the process
may be killed between two of them. Shared state lives in Postgres rows and
Storage objects only. A Postgres function (RPC) runs in one transaction under
row or advisory locks; a PostgREST `update(...).in("status", ...)` is one
statement.

| Component | State | Operations | What is hard | What makes it correct |
|---|---|---|---|---|
| Push campaign delivery (`src/lib/admin-notification-ops*.ts`, `make_notification_campaign_delivery_retry_safe.sql`) | campaign row with lease and token, delivery ledger, in-app rows, subscriptions | read audience, claim campaign, claim delivery, transitions, send, finalize | overlapping cron calls, lost answers, late requests, crash while sending | a subscription is pushed to once; "sent" is true; a campaign is closed by its holder and over delivered rows |
| New-partner announcement (`new-partner-notifications.ts`, partner edit actions) | state row: sent-at, lease | claim, send, record, clear, reset, cron | lease without a token, campaign without an idempotency key | told once per publication, and told in the end |
| Operational notifications (`operational-notifications.ts`) | dedupe key, notice, recipients | reserve, create, roll back, release | compensation that fails itself | one notice per key; a key stands for a notice |
| Image upload sessions (`image-upload/repository.supabase.ts`) | session row, staged and final objects | sign, complete, attach, retainForApproval, discard, expireStale | row and objects change in separate calls; sweep works on a snapshot | one upload, one asset; who can lose an attached image; every session ends |
| Image upload quotas (`reserve_image_upload_sessions`) | sessions and file totals per actor | reserve | advisory locks, counting | quotas hold under concurrency |
| Mattermost sign-up approval (`mm-signup-approval/`, `api/mm/signup`) | approval request, member, upload session | submit, approve, reject, expire, register directly, roll back | approve attaches before its transaction; a conflict discards an upload; registration is a chain of calls with a compensation | one member per account, complete or none; images are lost only to a discard; every request is decided |
| Partner plan billing (`partner-plan-service.ts`, `*_partner_plan_*.sql`) | request, invoice, payment, tax document, partner's plan | request, confirm, approve, cancel, reject, change plan, save profile, overdue sweep | lock order, stale reads before the locks, SKIP LOCKED | paid is never undone; the tier a pending request was priced from stays; which transactions can deadlock |
| Manual member import (`member-manual-import/service.server.ts`) | batch with lease, rows with their delivery, member, photo, set-up link | commit, take over, reissue, complete, expire | no idempotency at the providers, lease takeover, versioned and unversioned updates | one message per delivery key; a row says what happened |
| Member email verification and recovery, password links (`member_email_challenges`, `member_password_action_tokens`, `member_email_login_transitions`) | address, codes, tokens, transitions, Mattermost login | mail a code, verify, move to email, reset, reissue, complete a link, disable | locked and unlocked writers of one member, mail on its way while the address changes | verified means mailed; voided links are dead; one owner per address |
| Mattermost sender registry (`add_mattermost_sender_registry.sql`) | sender rows per generation | save, activate, disable | two lock orders | one active sender; no deadlock |
| Ad coupons (`enforce_coupon_member_total_limit.sql`) | coupons, issues, redemptions | issue, redeem | limits under concurrency | limits hold |
| Graduate verification, Apple Wallet, project showcase, rate limiting, partner benefit usage, metric rollups, member anonymization, manual push broadcast | their own tables | see `PROJECT.json` | little, or one transaction each | see `PROJECT.json` |

Interactions: the cron calls the campaign delivery, the announcement, the
operational notifications and `expireStale`. The announcement sends through the
campaign code (without an idempotency key, so outside the ledger's protection).
The sign-up approval retains, discards and attaches upload sessions. The manual
import issues the set-up links that the member's access paths complete. UI, image
proxy, mocks, scripts and tests keep no state of this kind.

The hazards this code is exposed to are listed in `PROJECT.json` ("hazards"),
each at its line with the properties about it.

## 2. Modules

| Module | Models |
|---|---|
| `PushPromise` | abstract: what a retry-safe campaign promises a subscription |
| `PushCampaign` | the campaign row, the ledger, the runs and their lanes |
| `PushCampaignProps` | its properties and the refinement to `PushPromise` |
| `PushCampaign_proofs` | its theorems |
| `PublicationNotice`, `PublicationNoticeProps`, `PublicationNotice_proofs` | the announcement of a partner |
| `OperationalNotice`, `OperationalNotice_proofs` | the deduped notice |
| `ImageUpload`, `ImageUploadProps`, `ImageUpload_proofs` | the upload session |
| `UploadPromise` | abstract: what an upload promises those who hand its id around |
| `SignupApproval`, `SignupApprovalProps`, `SignupApproval_proofs` | signing up, built on `UploadPromise` |
| `PartnerBilling`, `PartnerBillingProps`, `PartnerBilling_proofs` | plan changes, lock by lock |
| `ManualImport`, `ManualImportProps`, `ManualImport_proofs` | the bulk invitation |
| `MemberAccess`, `MemberAccessProps`, `MemberAccess_proofs` | codes, links and addresses of members |
| `MC*` | constants and symmetry for TLC |

Definitions whose name ends in `M` (and are commented as mutants) are plausible
bugs of the definition they stand before; no specification uses them. They show
that each property can fail: put in the place of the definition, TLC finds the
property violated.

### PushCampaign

One automatic campaign. A *run* is one call of `sendAdminNotificationCampaign`:
`ReadAudience`, `ClaimCampaign`, `Prepare`, then a `DeliveryStep` at a time for
each subscription in at most `Lanes` lanes, `CloseLog`, `Finalize`. `task[r][s]`
is the line of `runPushDeliveryAttempt` that run `r` has reached for
subscription `s`. The four database functions are operators (`ServeCampaign`,
`ServeDelivery`, `ServeTransition`, `ServeFinalize`) that act on the rows in one
step at the database's `now`.

- A call that gets no answer (`NoAnswer`) throws in the caller; its request goes
  on the `wire`, and `Arrive` serves it at any later time, or never. This covers
  lost answers, timeouts and late, reordered requests. Validation errors and
  raised exceptions are a request that is never served.
- The push service takes or refuses a push, and confirms what it took or goes
  silent. `accepted` and `misreported` are ghosts that count the two.
- `Crash` ends a run anywhere. `Unsubscribe`/`Subscribe` are the member's.
- Left out: template rendering, the push log, success bookkeeping on the
  subscription (it changes no modelled state), other channels' texts, and
  preferences (any set of the members is a possible audience). A subscription
  registered again by another member behaves as a claim without an answer.

### PublicationNotice

One partner. Callers are cron passes and editors; `pc[c]` is the query a caller
is about to make, and each query is a step that may fail with or without effect.
Times are ages: `row.lease` is how long ago the lease was taken and `since[c]`
how long ago a caller's claim began, so that `now - lease > staleBefore` reads
`row.lease > since[c] + Lease`. `allowance` is a ghost: it grows by one when the
partner becomes public and for each event after which the code does repeat a
campaign (a record lost to an error or a crash, a lease outlived by its sender,
a reset or a clear behind another caller's back), and falls by one with each
campaign that reached members. `told` says that members got one since the partner
last became public, `overtaken` who has sent a campaign for an earlier publication
and not recorded it yet. `silent` says that the row's "sent" is of an earlier
publication: the reset that had to wipe it failed or died, or somebody overtaken, or
at work since before the partner was hidden, recorded after that reset. Left out: deletion of the partner, members who
join or leave (`reachable` is fixed), the difference between confidential and
private; all clients agree on the time.

### OperationalNotice

One dedupe key, any number of passes. Each statement is a step; one that fails
may have taken effect. A statement that takes effect after its error was seen is
not distinguished from one that took effect at once. Readers of the portal are
the recipient rows.

### ImageUpload

One session. Calls are `complete`, `attach`, `retainForApproval`, `discard` and
`expireStale`; the sweep is called again and again, the others once each. A call
is where `pc[c]` says, and acts on what it read, `seen[c]`; every update of the
row names the statuses it may leave (`Updates`), as in the code. `Query` is an
update that applied, missed or failed with or without effect. Ghosts:
`discarded` (a discard got hold of the session), `halted` (discards that stopped
between removing the objects and closing the row), `swept` (a sweep read the session
while it was attaching). Left out: image
content, other sessions, the upload purposes that never retain or discard. A
call reads the clock with its first query; `Close` writes the current time, for
which the code's earlier reading is equally over; a removal and its retries are
one step, as are the two bucket removals of one clean-up. `PutSource` is the
browser's upload to the signed URL, which is Supabase Storage's code: modelled
as possible for `UrlLife` after signing.

### UploadPromise and SignupApproval

`UploadPromise` is an upload as its users see it: open, attached to one asset, or
closed, where only a discard closes what is attached. `KeepsUploadPromise` shows
that `ImageUpload` implements it (rows "expired" and "failed" are closed, every
unfinished status is open), so `SignupApproval` can be composed with it instead
of with the statements of the upload repository.

One Mattermost account and one completed upload. `Applies` are the POSTs of a
session that needs approval, `Directs` of one that registers at once; `at[x]` is
the await an actor has reached, and a call that fails may have taken effect. An
approval attaches the image and then runs its transaction; that transaction is
one step, with the checks of `Approvable`. `Approves` adds that it does not touch
the dropped columns. The member's image row, consents and session are one step
with any partial effect, since nothing reads them in between. Ghosts: `discarded`
and `culprits` (who discarded the upload), `told`, `abandoned`. Left out: the
verification code before the form; other accounts; deletion of members.

### PartnerBilling

Two brands of one partner account with one billing profile. A connection (`tx[b]`)
runs one function at a time and takes one row lock in a step; a step that commits
applies the whole effect and lets the locks go, `Abort` rolls back. `owner` says
who holds a lock; a connection whose lock is taken has no step, so a deadlock is a
circle of `Waits`. The service's read before a function is its first step
(`BeginCreate`, `BeginChange`, the sweep's scan). Payments and tax documents are
locked after the invoice in every function and are left out, as are amounts and
the events written for the history. Which unpaid invoices are due, and which of
them long enough to be swept, is chosen freely where the sweep reads the clock.
`plan.version` stands for `plan_updated_at`, which a trigger writes whenever a plan
or a period is, so an approval, an administrator's change, a save of the partner and
a sweep all move it. Another trigger makes everyone who updates a partner lock the
one row that counts the versions of the public partner pages (`Cache`), until it
commits: a step of its own after the partner's lock, and one that a sweep takes with
its first downgrade and holds while it goes on. `EditPartner` is
`update_partner_with_benefits_atomic`; other statements that update a partner (a
granted change request, metrics, media) lock one partner and then that row as it
does.

### ManualImport

One batch. Commits, reissues and the cron are processes with one request a step.
A conditional update on `updated_at` is `Write`: it is carried out if the call
knows the row's current version (`holder`), and its reply may be lost, in which
case nobody knows it. `batch.owner` is the same for the lease. `posts` are the
messages a provider accepted, with the delivery key, the call and the link. What a
call does with a row comes from the row as it read it before claiming it
(`snap`). Left out: rows whose photo was staged before common uploads, preparation,
the lifetime of links, and generations, names and channels of the row.

### MemberAccess

Some members, some addresses. A code request (`send`) is four calls, a link
request (`link`) issues one token and delivers it, a completion (`form`) reads the
token and then finishes it in a transaction that locks the member. Database
functions that lock the member row are one step, except
`begin_member_email_login_transition`, whose lock is held over two (`Free`) so that
the address it has looked for may be taken by another member's completion, which
locks another row. `issueManualMemberPasswordReset` takes no lock and is three
steps. A request that stops anywhere takes no further step: there is no fairness.
A code or link is used by somebody only if its message was accepted
(`Received`). `outdone` is a ghost: the links voided by a later move, administrator's link,
reissued set-up link or reset request of the member, and those that came by
Mattermost when the member's login there is ended. A reissue after that end does
make a Mattermost link, which its completion refuses by its channel (`Allowed`);
no property repeats that guard.

## 3. Runs

| Run | Expected | Shows |
|---|---|---|
| `PushCampaign_three_runs` | pass | three runs, a subscription turned on and off: `AcceptedOnce`, `SentIsTrue`, `ResendIsSafe`, `KeepsPromise` (refinement), `LeaseIsExclusive`, types |
| `PushCampaign_progress` | pass | two runs, two subscriptions, one lane: `ClosedMeansDelivered`, `RunsEnd` |
| `PublicationNotice` | pass | two cron passes, one editor, two faults: `RepeatsAreExcused`, `RecordIsCurrent`, `AnnouncedInTheEnd`, types |
| `OperationalNotice` | pass | four passes: `NoticedOnce`, `ReservedMeansNoticed` |
| `ImageUpload_safety` | pass | two completes, two attaches with two assets, a discard, the sweep: `OneAsset`, `AttachedIsStored`, `ReadyIsNotUndone`, `KeepsUploadPromise` (refinement), types |
| `ImageUpload_progress` | pass | every kind of call, two faults: `SessionsClose` |
| `SignupApproval` | pass | two submissions of each kind, an administrator, the cron, a fault: `OneMember`, `CompleteOrRolledBack`, `MemberKeepsImage`, `RequestKeepsImage`, `RequestsAreDecided`, types |
| `SignupApproval_image` | violation | `ApprovalMakesMember` |
| `PartnerBilling` | pass | two connections, two brands, two requests: `PricedOnPlan`, `InvoicesFollowRequests`, `DecisionsDoNotDeadlock`, `MoneyIsKept`, types |
| `ManualImport` | pass | two commits, a reissue, the cron, one row: `SentOncePerKey`, `CreatedIsComplete`, `FailuresAreTrue`, types |
| `ManualImport_photo` | violation | `PhotosAreKept` |
| `MemberAccess` | pass | two members, two addresses, a code request, two links, a completion: `VerifiedByMail`, `MovesOwnTheirAddress`, `VoidedLinksAreDead`, types |

The two violations are bugs of the code; `PROJECT.json` ("findings") quotes what
the repository says and what the run shows. The approval of a request with a
profile image cannot succeed, as its function writes columns that a migration
dropped; and a reissued set-up link removes the stored photo of the member.

Other places where the models behave as the code does and a reader might expect
otherwise, each of which the properties above allow by name: a push whose
connection broke is sent again (`misreported`); a failure of another kind
reactivates a subscription; an announcement whose record failed is sent again
(`allowance`); a partner that is hidden while its campaign is being recorded, and
public again by its period without another edit, is not announced any more
(`silent`; without it TLC refutes `AnnouncedInTheEnd` even without a fault);
`complete` and `attach` close a session that is out of time without
removing its objects; an attach that fails closes the session under another attach
of the same asset; a repeated or losing submission discards the image of the first
(`culprits`); saving a billing profile and asking for a plan lock account and
profile in opposite orders, and a sweep that has taken one plan back waits for its
next partner while the save of that partner waits for the cache version the sweep
holds (`DecisionsDoNotDeadlock` names the two, which the database resolves by
aborting one; an approval or a change of plan cannot take the place of the save,
since the sweep owns the one request either would need to own or find absent); a
paid request
whose partner has moved to another company stays pending; a manual row whose
claim was never answered stays in processing while its batch completes; the cron
of the manual import removes the object of a photo that is already recorded.

Two more such places were found by proving, where a property that had passed on
its first instance turned out to say more than the code does. An earlier
submission of a form whose retention of the upload lands last shortens the time
the image of a later, pending request is kept (`RequestKeepsImage` names it). The
run has no such case, as its requests all end at the same tick; TLC shows it with
`SessionLife` 2 and `MaxTime` 3 and no direct submissions. And a commit that has read a row
as sent claims it by its status only, so that it reports the row as created also
when a reissue has put its own, unsent key on it in between
(`CreatedIsComplete` asks for a message under an earlier key then). Two ways of the
upload repository to lose the image of an attached session are named by
`AttachedIsStored` and are each needed for it to hold: a sweep that reads a session
past its end while it is attaching removes the image, and an attach that has placed
it before links it after; and a discard that fails or dies once it has removed the
image leaves the session attached. Nothing in the repository says otherwise.

**Bounds.** Campaign leases last two ticks and delivery leases one, as the first
outlives the second in the code; `MaxTime` 3 lets both expire while a run is at
work, lets another run take over, and a third from that one. Three runs are a
stale one, its successor and a late request. Two subscriptions are what
`ClosedMeansDelivered` needs: in `PushCampaign_progress` a run that closes
"partial_failed" is followed by one that finds a delivered and a failed row; its
clock stands still, since leases are the other run's subject. In
`PublicationNotice` three edits are publish, hide, publish; two faults are a crash
or error on top of a sender that outlives its lease; ages stop at `Old`, beyond
which no claim distinguishes them. In `ImageUpload` the URL dies before the
session and `MaxTime` lets the session end (and, in `_progress`, also the retained
one); two assets and two attaches are what `OneAsset` can fail on; one fault in
`_safety` and two in `_progress`. In `SignupApproval` the upload lives one tick and
a request two, so that only a retained upload outlives the first tick, and no
request is made that could not time out within `MaxTime`; two submissions of each
kind make every conflict, one fault every partial failure. In `PartnerBilling` two
connections close every circle of two transactions; a longer circle would need a
third, and the proof excludes those of any length; two brands and requests let a
sweep hold one partner and wait for the other; three tiers let a plan change to one
that is neither what was asked for nor basic; partners begin on any tier, so that no
change is needed to reach it; `MaxEdits` bounds what administrators change, of which
one suffices to make a read stale. In `ManualImport` one row
suffices, as rows share only the batch's lease, which a commit also loses between
two steps of one row; a later reissue
may take the row back from the one reissue, cut off or only slow. In `MemberAccess` two links are a link
and the one that voids it, or two moves to one address; two purposes are the two
kinds of code, each with its newest row only, as every reservation closes the older
ones. Symmetry is used only in runs without liveness, over sets whose members no
definition tells apart.

**Deadlock** is not reported where the system really stops: a campaign whose
runs ended with the clock at its bound, a notice whose passes are done, a
session, account, batch or member whose calls are done. In `PublicationNotice` and
`PartnerBilling` it is.

**Fairness.** `PushCampaign`: every awaited call settles with an answer or an
error, so a run that is not killed goes on (weak fairness of the run's own step);
nothing makes a request on the wire arrive, a run start or the clock advance.
`PublicationNotice`: the cron comes round, a call that was made returns, and time
passes; nobody has to edit. `ImageUpload`: time passes and the cron comes round
and finishes its pass; every other call may hang for ever, so `SessionsClose`
does not depend on them. `SignupApproval`: time passes and the cron comes round;
no administrator has to act and a submission may hang. `PartnerBilling`,
`ManualImport` and `MemberAccess` state no fairness: everything there may stop.
Faults are bounded by `MaxFaults`: what the liveness
properties say is that the system recovers once faults stop.

## 4. Proofs

Every invariant and every action property that a passing run checks, and both
refinements, are theorems as well: TLC shows them on an instance, TLAPS for all
values of the constants. The `ASSUME`s are as weak as the code gives: a
subscription has an owner, leases and lifetimes are numbers (those of the
campaign, its deliveries and the announcement positive), rows of an import are
numbered, the null values are outside the sets they complete, the sets of calls
are disjoint. Bounds such as `MaxTime`, `MaxFaults` and `MaxEdits` are any number,
so what is proved holds for runs of any length.

Every proof has the same form: an inductive invariant, its lemma for `Init`, one
lemma or step per action, and short theorems that read the property off it.
Frame lemmas say which steps leave which part of the invariant alone. Each
invariant below was model-checked before it was proved.

`PushCampaign_proofs` (`PushInv`):

- `AtMostOnce` (`AcceptedOnce`), `SentIsNeverALie` (`SentIsTrue`) and
  `ResendIsAlwaysSafe` (`ResendIsSafe`), from `DeliveryInv`. None of the three is
  inductive: that a row may be handed out again depends on who else has its push
  in hand, and on requests still on the wire. `InHand(r, s)` says that run `r` has
  the push of `s` in hand or has reported an outcome that the database may yet
  serve. The invariant says that at most one run has (`OneHolder`), that for as
  long the row is "sending" or isolated (`HeldIsOpen`), and that the number of
  pushes taken and the number misreported differ by what the holder and the row
  say (`HeldBalance`, `RowBalance`).
- `ClosedIsComplete` (`ClosedMeansDelivered`), from `ClosedInv`: whose token the
  campaign carries has read its audience, which no later step changes, and has
  told its members in the app; and rows that are "sent" stay so.
- `LeaseHolds` (`LeaseIsExclusive`): only `ServeCampaign` and `ServeFinalize`
  write the campaign, the one past an expired lease, the other with its token.
- `PushKeepsPromise` (`KeepsPromise`): each step is a step of `PushPromise` or a
  stutter, under `PushInv`, which says what a late request may still find.

`PublicationNotice_proofs` (`NoticeInv`): `RepeatsArePaid` (`RepeatsAreExcused`)
and `RecordHolds` (`RecordIsCurrent`). That `allowance` is not negative is
inductive only with what may yet be spent: `Owed` counts the callers about to
send, and one more where the lease may be taken or members have not been told;
the allowance covers it from the first publication on. `OldRecord` says that a
record of an earlier publication is on its way out or excused, for hidden and
expired partners too; `Recorders`, that whoever is to record has sent for this
publication or was overtaken.

`OperationalNotice_proofs`, for any passes: `NoticeIsUnique` (`NoticedOnce`) and
`KeyMeansNotice` (`ReservedMeansNoticed`), since the key is a lock that is never
stolen and is given back only when nothing was shown.

`ImageUpload_proofs`, one strengthening on another:

- `UploadHasOneAsset` (`OneAsset`), from `IInv`. An attach that has claimed the
  row links and places its asset steps later, so the invariant adds that a row no
  attach has claimed names no asset (`Unclaimed`), and that every attach past its
  claim wants the row's asset (`HoldersAgree`).
- `UploadKeepsPromise` (`KeepsUploadPromise`), from `PromiseInv`: who is between
  reading a session and closing it is a sweep, or a discard that has been asked
  for. This is what allows `SignupApproval` to be built on `UploadPromise`.
- `ReadyStays` (`ReadyIsNotUndone`), and `AttachedStaysStored`
  (`AttachedIsStored`), from `StoredInv`: a sweep that still means to remove an
  asset read the row past its end, while it was attaching or when it had failed for
  good (`SweepsAreKnown`), and what an attach is about to link is stored or excused
  (`LinksAreStored`).

`SignupApproval_proofs` (`SignupInv`): `OneAccountOneMember` (`OneMember`),
`SignupsAreComplete` (`CompleteOrRolledBack`), `MembersKeepImages`
(`MemberKeepsImage`), `RequestsKeepImages` (`RequestKeepsImage`). The unique keys
give one member and, of the requests, one that has the upload (`OneImage`). The rest
says what each actor may rely on where it is: a direct submission has its member
until it ends or rolls back and its image unless somebody else discarded it
(`DirectOK`); administrators and the cron discard only for a rejected request
(`Lost`); while a request waits, the upload has the time of some submission that
retained it (`RetainedFor`).

`PartnerBilling_proofs` (`BillingInv`): `PriceHolds` (`PricedOnPlan`),
`InvoicesAgree` (`InvoicesFollowRequests`), `PaymentsAreKept` (`MoneyIsKept`) and
`DeadlocksAreOfTwoKinds` (`DecisionsDoNotDeadlock`), for circles of any length. The
reason is one: a transaction owns the rows it will act on, and what it read of
them under their locks is still so (`CreateOK`, `ChangeOK`, `DecisionOK`,
`ApprovalOK`, `SweepOK`). For the deadlocks a second invariant says which
transactions may own a row at all (`HoldersOf`); in a circle without a pair of the
two kinds, each lock somebody could wait for is then excluded in turn, from the last
in the order of locks to the first. What a sweep waits for under the cache version
is a partner, and whoever holds that partner can only be a save (`NoCircle`).

`MemberAccess_proofs` (`AccessInv`): `AddressesAreProved` (`VerifiedByMail`),
`MovesAreExclusive` (`MovesOwnTheirAddress`) and `VoidedStayDead`
(`VoidedLinksAreDead`). The unique indexes make addresses and tokens one's own; a live move is for the address its
member has claimed alone (`LiveMovesClaim`, `ClaimsDiffer`); a voided link has lost
its token for good (`OutdoneAreDead`); a link was mailed to the address on file,
or the one that replaced it is verified already (`MailedToFile`).

`ManualImport_proofs`:

- `TypeCorrect` (`TypeInv`), with the step each call can be at and the rows it
  has in hand there; the types include the check constraints of the rows.
- `FailuresHold` (`FailuresAreTrue`), from `ReadyInv`: whoever delivers a link, or
  reports its outcome, does so for a row with its member and photo, and what a
  commit has read of a row stays true of it.
- `KeysAreUsedOnce` (`SentOncePerKey`), from `KeyInv`. No version stops two calls
  from sending for one row, so the invariant says who may still use a key. A key
  is `Fresh` if no message has it and no call is sending under it. The key of a row
  that was not attempted is fresh (`RowKeyFresh`); so is the key that a commit has
  read of a row it may still come to (`SnapKeyFresh`), which it may by its lease or
  as the row's holder (`Held`), and not both it and another (`OneHand`); nobody has
  read the key of a reissue that has not sent (`ReissueUnseen`); who sends does so
  under a key of its own (`FliesAlone`).
- `CreatedAreComplete` (`CreatedIsComplete`), from `ReadyInv` and `MessageInv`:
  what a commit has read of a row's message is still so, or a reissue has come
  between (`SnapKnows`), and whoever is to report a message has an accepted one
  (`HolderSent`).

Each module also has `TypeCorrect`, except `OperationalNotice_proofs`, where the
types are a part of the invariant.

Model-checked only: liveness (`RunsEnd`, `AnnouncedInTheEnd`, `SessionsClose`,
`RequestsAreDecided`), whose proof needs fairness and ENABLED, which the installed
provers do not treat. `ApprovalMakesMember` and `PhotosAreKept` are violated and have
no theorem.

## 5. Plan

1. *Done*: the campaign delivery, the announcement, the operational notice, the
   upload session, the sign-up over `UploadPromise`, partner billing, the manual
   import and the members' codes and links, model-checked; every safety property,
   action property and refinement of theirs proved.
2. `MattermostSenders`: save, activate and disable at the level of their
   advisory and row locks; deadlock and the single active sender, with the lock
   argument of `PartnerBilling_proofs`.
3. `CouponLimits`, `UploadQuota`: counters and limits under row and advisory locks,
   with an abstract counter each implements.
4. Graduate verification, over `UploadPromise` and `MemberAccess`.

Instances of later modules are to share runs: one for the safety and the
liveness of a component where its size allows, as in `PublicationNotice`.

## 6. Not modelled

Components with status `not_modelled` in `PROJECT.json`, each with its reason.
Also not modelled: rendering, templates, logging and audit rows, authorization
and sessions, the UI, image processing and the proxy, Supabase and push services
beyond what their callers observe.
