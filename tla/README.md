# basapp back end: TLA+ models, checks and proofs

The repository is a NestJS API over one MySQL database (Prisma), with Firebase,
Expo push notifications, a mail and CSV queue, and several third-party HTTP
services behind it. Neighbourhoods, companies and governments ("customers") use
it for visits at the gate ("events"), reservations of shared spaces, alerts and
neighbourhood alarms.

Three facts shape every model here. A handler runs until it awaits a query and
may be overtaken by any other handler there, in the same process or in another
instance. Almost no handler opens a transaction around what it reads and what it
writes: its checks are reads that may be stale when its write lands, and a
failure between two writes leaves the first one in place. And much of the work
is started and not awaited: jobs that notify, invite or mirror run on beside
the handlers that come later, and what they throw is logged, or ends the process.

## Inventory

| Component | State | Operations | What is hard | What makes it correct |
|---|---|---|---|---|
| Reservations, booking (`customers/reservations`) | `Reservation`, `ReservationGuests`, `Event` rows | `create` | some twenty awaits between the first check and the insert, no transaction, no unique key; two id spaces for a person (user and list entry); failures after the insert | one mode per slot and capacity, month and pending quotas, nobody in two places, every reservation with its event and guests |
| Reservations, lifecycle (`customers/reservations`, `customers/events`, `users.deleteAcc`) | state and `cancelDate` of a reservation, state and `changeLog` of its event | `cancelReservation`, `cancelReservationAndEvent`, `changeState`, `confirmReservation`, `cancelEvent`, `eventUpdateState`, `attendEventGV`, `deleteAcc` | two rows updated in turns by several services; the change log rewritten from a stale read | a cancelled reservation frees its slot and stays cancelled, the pair of rows agrees, the log keeps every change |
| Authorization requests (`customers/event-authorization-requests`) | `confirmed` and `rejected` flags, gate events, who was told | `create`, `confirm`, `reject` | several residents may answer; event and flag are written in two awaits | one verdict per request, and an event for every verdict |
| Events, ICM and Firebase (`customers/events`, `common/services`, `firebase`) | `Event` rows, `isDelivery` flags, `ExternalEvent` records, invitations held by ICM, the mirror in Firebase | `create` with the job it starts, `cancelEvent`, `eventUpdateState`, `attendEventGV`, the withdrawal at ICM | a job nobody awaits races with cancellation; mirror writes land in any order; a count before an insert | permanents unique, a cancelled visit ends without a live invitation, the guards' screen shows the state |
| Alerts (`alerts`, `customers/neighborhood-alarm`, `sms`) | `Alert`, `NeighborhoodAlarm`, `Checkpoint`, `Notification` rows, the mirror in Firebase | `create`, `decryptSms`, `changeState`, `createCheckpoint`, the alarm's `create`, `sendPushNotifications` | routing by what a geocoder answers; permissions read awaits before they are used; notifications nobody awaits | each alert is its author's customer's or the right government's, only its monitors change it, it is told, the screen shows it |
| Lists with a key (`customers/lots`, `cameras`, `locations`, `holidays`, `event-types`, `reservation-types`, `authorized-users`, `customer-lots`, `users/contacts`, `customers`) | rows with a name, code, date or phone per customer | `create`, `update`, CSV imports | a count of rows in front of the write; a unique index behind some of them, none behind others | no two rows with one key; the service, not the database, answers |
| Accounts (`users`, `customers/authorized-users`) | `User` rows and the person's entries in the lists of residents | `register`, `create`, `update`, `deleteAcc`, the list's `update` | two tables written in turns; names that are unique per type only; a code texted after it is stored | account and entry agree, a deleted account stays deleted, the code that was texted opens |
| Passwords and recovery tokens (`users`, `auth`) | a password, the `PasswordRecoveryToken` row | ask for a reset, reset, change the password, register again | a token is deleted an await after it was used, by an id the upsert keeps | a token works once, the newest one stands, a change by the old password replaces that password |
| Alert types, contacts, categories (`customers`, `users`, `users/contacts`) | alert types of a customer, of its monitors and its residents' contacts; rows of event categories | `customers.update` and `updateEvent`, the contacts' `create`, `update`, `deleteContact`, `users.create` and `users.update` (a monitor's types, who is moved here or away), the retirement of a category | differences to four earlier reads, of rows that others write by hand; a deletion in two steps | who follows the customer's types has them, once |
| Days, locks, holidays (`customers/events`, `customers/reservations`, `reservation-locks`, `holidays`) | the rows of a visit of several days, lock periods by weekday, holiday dates | `divideEventIntoDays`, `validateLock` | weekday, midnight and offset arithmetic | one row per day, without gaps; a lock applies when the customer's own calendar says so |
| QR codes (`customers/events`) | token and image of event rows | `generateQR`, `findByToken` | the rows of a visit share a token | the visitor gets the code of his visit |
| Notifications and push (`customers/notifications`, `push-notification`) | `Notification` rows, read marks, Expo tickets | `create`, massive and per-lot sends, mark as read | one bad token refuses a whole batch | the addressees are those the message names |
| The rest | protocols, useful information, states, templates, files, configuration, health | CRUD, pure I/O | nothing beyond one query each | - |

Components call one another inside a handler: a reservation creates an event,
`cancelEvent` calls `cancelReservation`, `changeState` hands over to it, an
authorization request's `confirm` calls `EventsService.create`, a neighbourhood
alarm and an SMS call `AlertsService.create`, and all of them end in
notifications. They share the rows of `Reservation`, `Event`, `Alert`, `User` and
`AuthorizedUser`, and every service's environment (another handler, an
administrator, an import, the clock) may change those rows between two awaits.
`PROJECT.json` lists the hazards this leads to, each at its line, with the
properties that are about it.

## Modules

Modules do not share variables: each models the rows it is about and takes what
other services do to them as actions of its own (an event cancelled by the gate,
a permission withdrawn, an account deleted). Where two services interact in one
handler or over one pair of rows, as `cancelEvent` and `cancelReservation` or
`users` and `authorized-users` do, one module has both.

| Module | Models |
|---|---|
| `ReservationBooking` | `ReservationService.create`, one action per await whose result a decision or a write depends on |
| `SlotBoard` | what booking promises: an atomic board of slots |
| `ReservationLifecycle` | every later operation on a reservation and its event; it starts where `create` has inserted its row and still writes the rest |
| `EventAuthorization` | `EventAuthorizationRequestService`, with the event its answers create |
| `Verdict` | what a request promises: one verdict, for good |
| `EventDispatch` | `EventsService.create` after its checks, the job that sends the rows to ICM, the operations that change a row, and Firebase |
| `AlertRouting` | `AlertsService`, the neighbourhood alarm and the incoming SMS |
| `Registry` | the `create`, `update` and `loadCsv` of the ten services that keep a list with a key, as one module with a record per service |
| `RequestHandling` | what the handlers of the next three modules, which extend it, have in common: a request arrives, goes from await to await, breaks off, and whom it met on the way |
| `Accounts` | the accounts and list entries of one person: `register`, `create`, `update`, `deleteAcc`, and the list's `update` |
| `Credentials` | the password and the recovery token of one account |
| `Subscriptions` | the alert types and categories of one customer, and who follows them: its monitors and its residents' contacts |
| `Calendar` | `divideEventIntoDays` and the locks `validateLock` finds, as functions of dates |
| `MC<component>` | the small instances TLC checks |
| `<component>Proofs` | the theorems about the component; `PeopleProofs` has those of `Accounts`, `Credentials` and `Subscriptions`. `SlotBoard` and `Verdict` are only implemented: the refinement mappings are at the end of `ReservationBooking` and `EventAuthorization` |

Common conventions:

- `pc[h]` names the next await of handler `h`; everything the code does between
  two awaits is one action. The action named after a query is the query and the
  decision taken on its result. `Ended` states are `done` (answered), `rejected`
  or `refused` (an HTTP error the code throws on purpose), `collided` and `late`
  (an error of the database the client sees as a 500) and `failed` (an await
  threw, or the process stopped: nothing after it happens).
- A variable the comment calls *history* is not in the program. It is never
  read by a guard; properties use it to say that something was due to a race:
  `met[h]` has the handlers that were under way while `h` was.
- A definition marked `mutant` is a faulty variant of the one below it. No
  specification uses it: it is there to show that the property named in
  `PROJECT.json` can fail.
- Configuration that the modelled operations only read (modes, types, spaces,
  customers, alert types) is a constant with the assumptions the code makes.

### ReservationBooking

A request is named `q`, and so is the row it inserts: `rows`, `cancelled`
(`cancelDate` set), `events` and `savedAt` are the tables, `body` the request,
`found` the ids `validateDate` took from the guest table before it asks for the
reservations behind them. `Begin` receives a request, then follow the steps of
`create` in their order: the lookups and `ValidateLock`, `ValidateTime`,
`FindGuests` and `ValidateDate`, `ValidatePending`, `ValidateMode`, `Insert`,
`CreateEvent`, `SaveParticipants`. Other
handlers cancel rows, the clock moves, and any handler may fail at any await.
People have up to two ids, an account's and a list entry's, because the five
queries of the code differ in which of them they look up. The list of locked
slots is a constant: the arithmetic behind it is `Calendar`'s.

### ReservationLifecycle

One reservation (`res`) and its event (`ev`, `NULL` until `create` has
written it), handlers of the eight kinds, and a world that moves: `creating` is
what `create` still has to write, `started` whether `fromDate` has passed,
`deleted` which of its accounts are gone. A reservation has an `Owner` and a
`Creator`, who may be another: `deleteAcc` takes the reservations a user owns or
created, but only the events he owns. `snap` is the change log a handler read
and will write back with its entry, `audience` the ids it collects for its push.
`excuses` records why the two rows may differ: two handlers overlapped, an
operation that writes one row only ran (the deletion of a creator's account
among them), or one failed.

### EventAuthorization

A visit is a request of the gate for one lot; `told` is who was notified,
`confirmed` and `rejected` are its two flags, `events` the gate events answers
have written. `senders` are the residents who may still answer (their list entry
has `sendEvents`); an administrator may change that between any two awaits.

### EventDispatch

A create writes `Days` rows and goes on as `job[c]`, which calls ICM once per
row, records the answer, and flags all rows after the last one. ICM may answer
without data: a delivery is then recorded without a reference, a guest as with
one (`records` has the row and whether the reference came with it). Handlers
change a row's state, read the records and end the invitation they find, or fail
to. `invited` is what ICM holds. A call may be carried out although its answer
is lost. `mirror` is what Firebase shows, `writes` the writes on their way:
they land in any order or are lost. The type of the event, which requests are
copies, and what the customer has (lots known to ICM, Firebase) are drawn from
`Setups` at the start. The histories `answered`, `unflagged` and `unsent` say
for which rows ICM gave a reference, and which cancellations came before the
job's flag and before its call.

### AlertRouting

A report `r` and its alert share a name: `target[r]` is the customer it is for
so far, `place[r]` the district the geocoder gave, `near[r]` the neighbourhood,
`row[r]` the alert. `job[r]` is `sendPushNotifications`, which runs beside the
rest. Handlers are `changeState` and `createCheckpoint`. `member[u]` is the
customer a user is of in the table, `tokens` the customers his tokens were signed
with: administrators move users (`Moves`), and an app's request acts for the
customer in its token (`asked`), a text message for the one in the table. A
district stands for the district, state and country the code compares together.
The pushes themselves, attachments and the positions of trackers are left out.

### Registry

Ten services are built alike: `create` counts the rows with the new key and
inserts, `update` reads the row (`Find`), counts if the key is to change
(`Look`), and writes. What differs is a record: whether MySQL has a unique index
on the key, when the service counts at all, whether `update` finds any row by its
id or its customer's only (`finds`), in whose list it counts (`counts`), whether
it writes the customer too (`moves`), whether it compares what it found once more
by spelling (`exact`, the names of customers), and how it imports. An import either
reads the list first (`List`, `authorized-users`), or leaves the index to skip
what is there (`lots`), or inserts all (`customer-lots`). A row's entry is a list
and a name; `Letters` is what the database, which compares without regard to
case, takes a name for. A request names the list of its caller, an update any
row. `Collide` is the index's refusal. `overtook[h]` has the rows that were given
`h`'s key, or were changed under `h`'s update, after it looked;
`LookedElsewhere(h)` says that `h` changed another customer's row and counted in
its own. One behaviour is about one service, drawn at the start; the map has each
service's record at its own lines.

### Accounts

The plumbing of the handlers here and in the next two modules (`pc`, `req`, `met`)
is `RequestHandling`'s. One person with one phone number. `acct[a]` is a row of
`User` (name, type, home customer, the entry and lot it is linked to, its code),
`entry[c]` her row in the list of customer `c`, `text[a]` the code that was last
texted. The unique index on name and type does not cover accounts without a type,
which are the ones administrators create. `register` finds the entry, then the
account of the customer's type, and writes either a new account, only a new code,
or the whole account moved over; `edit` is the list's `update`, which writes the
entry and then the first account linked to it. `reassign` is what
`PATCH users/:id` changes of an account: its customer, its lot, or both, and
nothing of the entry; `given[a]` remembers a lot the account got that way until a
registration, a move or a sync replaces it. That the same endpoint may also
rename an account (`users.service.ts:829`) is left out, as is everything else about
a user (permissions, push tokens, profile fields).

### Credentials

`password`, the one `row` of the table of tokens and `mailed` are those of one
account; a password and a token are named after the request that made them. A
reset is three awaits: `FindToken`, `WritePassword`, `DeleteToken` by the id it
saw. `CreatePasswordRecoveryToken` is the upsert that keeps the row's id.
`Expire` is the token's lifetime. Hashing is left out: a password is compared as
a name.

### Subscriptions

`follows[f]` counts the rows that subscribe a follower to each type, since no
unique key keeps a contact's single; a monitor has a type or not. `here` says who
is of this customer at present. `rows` and `active` are the categories' rows, which
have no unique key either. `UpdateCustomer` is the one transaction that writes the
differences between the request and what `FindCustomer`, `FindCategories` and
`FindLists` had read. Everybody else writes the same rows by hand: `Choose` (an
owner his contact's types, an administrator a monitor's), `Come` and `Go`
(residents and monitors who are moved here with what they followed elsewhere, or
away), `CreateContact`, `UpdateEvent` (a row of a category is switched on or off)
and `RetireCategory`. `DeleteContactTypes` and `DeleteContact` are the two steps
of a deletion; the second fails on the foreign key if the contact was subscribed
to something meanwhile. The history `apart[f]` has the types in which `f` was set
apart by hand, each until the customer takes that type away, `doubled` the
switches made beside an active row.

### Calendar

No interleaving: a question is drawn and answered in one step, so that TLC goes
through all of them and the theorems hold for each. An instant is a number of
units, `Day` of them to a day; a customer's offset is added to get what its
clocks show. `Divided` is `divideEventIntoDays`, `HasLock` is the search of
`validateLock` for one schedule of one lock. `ClosedOnTheSpot` is the reference:
what a person reads off the calendar and the clock on the wall.

## Runs

All runs explore every reachable state of their instance.

| Run | Instance | What it shows |
|---|---|---|
| `booking_tables` | 3 requests out of 6 bodies, 2 handlers at once, the clock to 2, months of 2 units | Two standing reservations that clash raced, or one joined a slot broken that way before (`SlotClashOnlyByRace`); month and pending quotas are exceeded by no more than the overlap allows (`QuotasHold`); a row without event or guests is due to a failure (`RecordsComplete`); no reservation overlaps one its own search found, however late the search's result is used (`FoundRowsRespected`) |
| `booking_serial` | 3 requests for one slot, one handler at a time, no quotas | Without overlap, `create` implements the atomic board `SlotBoard` (`ImplementsBoard`): the checks themselves are right |
| `lifecycle` | 2 handlers out of all operations, with the event; the creator is not the owner | The pair agrees unless excused (`PairAgrees`); cancelling frees the slot, for good (`CancelledFreesSlot`) and eventually (`CancelEventuallyFrees`); only a race loses a log entry (`LostEntryOnlyByRace`) |
| `authorization_race` | 1 visit, 2 residents, 4 handlers, 2 at once | At most one event per overlapping or repeated answer (`EventsBounded`); an event without its flag belongs to a handler that is, or stopped, between the two (`UnflaggedEventOnlyByFailure`) |
| `authorization_serial` | 2 visits, one of which demands a description, 3 handlers, one at a time | Without overlap a request has one verdict, whatever fails and is sent again (`ImplementsVerdict`); an answer that got as far as its event ends recorded, refused or failed (`AnswerEventuallyRecorded`) |
| `dispatch` | 2 creates of 2 days, 2 handlers out of 4 operations; a customer with ICM, for deliveries or guests, or one with Firebase | A guest's cancellation before the job's flag and after its call ends the invitation (`GuestCancelWithdraws`), a delivery's only one after the flag ends the notice if ICM gave it a reference (`DeliveryCancelWithdraws`); what was withdrawn is not invited again (`WithdrawnStaysWithdrawn`); a visitor's second event is due to a race (`DuplicateOnlyByRace`); Firebase ends up with a row's state unless requests overlapped or failed, or a write was lost (`MirrorAgrees`) |
| `alerts` | 1 report out of 7, 2 later requests out of 4, 4 customers, 3 users of whom one is moved and keeps his token | Where an alert goes (`RoutedByPlace`), who may change it (`ChangedByItsMonitors`); that its author, with a token of its customer, is refused only if it happened outside the district or at a place the geocoder did not know (`AuthorRefusedOnlyAway`); Firebase agrees (`AlertMirrorAgrees`); the alert is told (`AlertEventuallyTold`) |
| `registry` | each of ten services, two customers' lists, two names of which one in two spellings, 3 requests out of 8, 2 at once | Two rows with one key need a race, or a caller who changed another customer's row (`DuplicateOnlyByRace`); so does an answer of the index in place of the service's, but for a customer's name in another case (`CollisionOnlyByRace`) |
| `accounts` | 1 person, 2 customers and a government, 2 lots, 3 requests of 6 kinds, 2 at once, an account that may be there before | Account and list entry have one lot, but for a lot `users.update` gave the account alone (`LinkedLotAgrees`); a deleted account stays deleted (`RemovedStaysRemoved`); a created name was free (`CreatedNameIsFree`); the code last texted opens (`LastTextOpens`); each unless requests overlapped or stopped in a way the property names |
| `credentials` | 4 requests of 4 kinds, 2 at once, tokens that expire | A token works once (`TokenWorksOnce`); the newest one stands until it is used (`NewestTokenStands`); a reset that worked is answered with an error only by a race (`LateErrorOnlyByRace`); a password is replaced by who proved it (`ProvenPasswordReplaced`) |
| `subscriptions` | 3 requests out of 3 updates of the customer, a creation, 2 choices, a deletion, 2 who come, 1 who goes, a switch and a retirement, 2 at once; 2 types, 1 contact and 1 monitor that may be there before, 1 category | Monitors and contacts have exactly the customer's types (`FollowersAgree`); no subscription and no category is there twice (`ListsKeepNoDoubles`); each unless updates overlapped one another or who came to be there, and apart from types somebody set by hand since and rows somebody switched on |
| `calendar` | every visit that begins in two days and ends within five; every slot that begins in two days, of two lengths, under three offsets, with every set of three holidays and 56 locks; days of 4 units | The rows of a visit tile it (`RowsTileVisit`), one per day but for a named case (`OneRowPerDay`); a lock applies when the customer's own calendar says so (`LockedAsOnTheSpot`) |

### Why these bounds

- Every hazard but one involves two handlers and a third that came before or
  comes after. Two at once with three or four in all has each of them; a third
  overlapping handler only repeats the second's effect, except in the two quotas,
  whose bound grows with `MaxInFlight` by definition.
- The clock takes three values: a reservation can be ahead, be the current one,
  and be past. Dates go from 0 to 3 and months have 2 units, so the boundary
  between two months lies inside; the mode with a monthly quota is asked for on
  either side of it.
- The bodies of bookings are chosen so that every check both admits and refuses:
  swapped dates, a party without owner, an owner who is not a participant, both
  ids of a person, a locked slot, times that cross, contain and touch.
- Two days are enough for the job's loop: a row that has been sent and one that
  has not. Two creates are enough for duplicates. ICM and Firebase are never told
  of one another, so a customer with either shows what one with both would. Its
  type and which creates are copies vary only where that is asked about.
- One report is enough for alerts because no operation reads another alert; the
  seven bodies take each branch of the routing and each way in. Four customers
  are the author's, the right one, one that is not active and one that is no
  government. Three users are one of a government, who is moved to the other, one of
  the club and one of no customer, who monitors it. A position is a distance, 250 metres being the first that rounds
  to 0.3 km.
- Two keys are enough for a list: the one asked for, in two spellings, and another
  to change from or to; a file with both is partly there already or not. A second
  list is that of the caller of another customer. The proofs cover the rest.
- Two lots and two customers with lists are what an account can disagree about,
  and a reassignment gives it one, the other customer, or both;
  the government is the customer without a list. The account that may be there
  before has no type, as an administrator makes it, which registration does not find.
- Four requests in `credentials` make a token, replace it, and use either while
  the password is changed: the shortest way to each exception the properties name.
- Two alert types are the one monitors are not given and one they are; the
  updates add one, remove one, and leave them alone. A second contact, monitor or
  category would repeat the first: no operation of one looks at another, and the
  updates treat all alike.
- A day of four units has a first, a last and two inner ones; offsets of -1, 0 and
  2 put a slot into the day before, the same and the next.
- Handlers are interchangeable, and so are residents and requests where the run
  declares them symmetric. Runs with temporal properties use no symmetry.
- In most runs everything ends up answered: their `.cfg` turns the deadlock
  check off and says so. The authorization and alert runs, where permissions may
  always change, keep it on.

### Fairness

`FairSpec` asks for weak fairness of the steps of a handler that has started:
Node's event loop resumes every promise that settles, and Prisma's queries
settle with a result or an error (`failed` is one way to settle). Nothing is
assumed of clients, of third parties without a timeout (Google, ICM, GiroVision),
or of Firebase: that is why a report is only required to finish once the
geocoder has answered, and why `EventDispatch` claims nothing temporal at all.
The modules from `Registry` on have nothing that must happen behind an answer:
each of their handlers ends with its last await, and what is wrong after it is
what their safety properties say.

### Where the code does not do what it says

Four more configurations show, by a counterexample, where a comment in the code
promises what the code does not do. They are not part of the list of runs: run
them by hand (`tlc -config X.cfg M`) to see the shortest way there.

| Configuration | Module | What TLC finds |
|---|---|---|
| `BookingSlotRace.cfg` (`SlotExclusive`) | `MCReservationBooking` | two handlers that overlap book one slot in different modes, which `validateTime` says it excludes (`reservations.service.ts:451`, `:464`) |
| `BookingCapacity.cfg` (`SharedSlotCapacity`) | `MCReservationBooking` | the people in a shared slot are summed with the first row's guests for each row (`:482`) |
| `BookingGuestIds.cfg` (`GuestNotDoubleBooked`) | `MCReservationBooking` | a guest under his second id is not found: the ids of one table are looked up in another (`:506`) |
| `LifecycleNotify.cfg` (`ParticipantsNotified`) | `MCReservationLifecycle` | the push of a cancellation is addressed to the ids of guest rows (`:1768`) |

Other observations; the models behave as the code does:

- `validateDate` looks for participants, so an owner who is not a participant of
  his own reservation may be in two places (`reservations.service.ts:690`).
- Its five comparisons miss a reservation inside another that shares one end
  with it (`:734`); `FoundRowsRespected` excepts exactly that case.
- The quota per lot grows with the lots a resident has in addition, but their
  reservations are not counted (`:767`, `:776`).
- Rows of guests get the flag `isDelivery` once ICM has them
  (`events.service.ts:255`); cancelling then takes a guest for a delivery (`:1244`)
  and his invitation stays. `GuestCancelWithdraws` is therefore about guests
  cancelled before the flag.
- ICM may answer 200 without data: a delivery is recorded without a reference and
  flagged all the same (`external.service.ts:174`), and no cancellation ends its notice.
- `deleteAcc` cancels the reservations a user created for somebody else without
  their events (`users.service.ts:977`), and sets no `cancelDate`.
- A user who is moved acts for his old customer until he logs in again, and for the
  new one afterwards: checkpoints for an alert he raised with the other token are
  refused, wherever it happened (`alerts.service.ts:1036`).
- Five services find the row to update by its id alone and count under the caller's
  customer. An administrator of another customer makes a second location or holiday
  of one name that way, with nothing running beside him
  (`locations.service.ts:72`, `holidays.service.ts:65`); for cameras, event types and
  reservation types the unique index refuses with a 500. A reservation type is also
  moved to the caller's customer (`reservation-types.service.ts:57`).
- `customers.service.ts:73` compares names with `===` after a query that does not
  regard case: a name in another case passes the check and meets the index.
- `PATCH users/:id` with a lot changes the account and not its entry
  (`users.service.ts:833`).
- An administrator may give a monitor any types (`users.service.ts:632`, `:799`), an
  owner his contact; a resident who is moved keeps contacts with the other customer's
  types. The next update of the customer adds a type they have already a second time.
- `updateEvent` switches a category's row on beside an active one
  (`customers.service.ts:601`); the updates that follow keep both.
- With a home nearer than work, work's neighbourhood is stored
  (`alerts.service.ts:649`); with equal distances, none. `NeighborhoodIsClose`
  asks for one of the two only.
- An alert whose district is not known goes to whichever active government the
  query returns first (`:124`). Its author can then not post checkpoints (`:1036`).
- The staff told of an alert handed to another government is that of the author's customer (`:881`).
- `sendPushNotifications` compares the type's name with `arrived-well` (`:302`),
  `create` compares its type (`:889`): messages of safe arrival do notify.
- The SMS endpoint is a `GET` without a key: a gateway that repeats one makes a
  second alert.
- A reservation's `fromDate` is compared with the clock when `cancelReservation`
  reads it (`reservations.service.ts:1745`); the update may land after it.
- The calls to ICM have no timeout (`external.service.ts:157`): a connection that
  never answers stops the job for good.
- `loadCsv` gives reservation types to the entries it finds by name alone
  (`authorized-users.service.ts:272`), those of other customers included.
- Two accounts may be linked to one list entry; an edit of the entry passes its lot
  on to the first (`authorized-users.service.ts:189`). `LinkedLotAgrees` names it.
- Moving to a customer by its secret key does not ask that the entry be active
  (`users.service.ts:732`), as registering does.
- Who registers again after deleting the account cannot delete it again: the
  name of the first one is taken (`users.service.ts:939`); `DeleteAcc` collides.
- `holidays.update` counts the holiday it updates: to keep the date is refused.
- `contacts.update` hands an object to `changeRelationTable`, which expects an id
  (`contacts.service.ts:218`).
- `ShouldIgnore` and the kinds of day compare instants: a holiday stored at
  another hour than the customer's midnight is none. `LockedAsOnTheSpot` assumes
  midnights.
- The rows of a visit share a QR token, `generateQR` updates one of them
  (`events.service.ts:674`).

## Proofs

The theorems hold for every value of the constants that satisfies the modules'
assumptions: any number of handlers, customers, days, alerts, keys. The
assumptions are what configuration and callers guarantee (a quota is a natural
number, a request names finitely many people), and that the mark `NULL`, "no
value", is none of the values. The two `Serial` refinements add `MaxInFlight = 1`.

Each theorem follows from the type invariant together with what the phases mean
(which handler has read, inserted or found what when it is at a given await;
`TypeInv`, in `PeopleProofs` `AccountsInv`, `PasswordTypes` and
`SubscriptionsInv`), and a strengthening of the property:

| Module | Theorem | Argument |
|---|---|---|
| `ReservationBookingProofs` | `TypeCorrect` | a handler's row is there exactly from the insert on |
| | `SlotClashNeedsRace` | `beside[q]` keeps who was past `validateTime` without a row when `q` ran it, so `Raced` says exactly that both passed before either inserted. `WindowRaced`: any two handlers past it and yet to insert have raced. `RowsSeen` and `PairsSeen`: a standing row of the slot was seen by the later handler, or raced with it. `LetThrough`: who saw a row it clashes with was let in by another row that clashes with that one, so it saw a clash, and by induction that one goes back to a race |
| | `SerialSlotExclusive` | for `MaxInFlight = 1`: between the check and the insert nobody inserts, so what `validateTime` saw is still the slot |
| | `RecordsCompleteInvariant` | `RecordsInv`: no handler is turned away after its insert; the event is dealt with before the guests, and the guests before the answer |
| | `FoundRowsStayRespected` | `FoundInv`: the rows found keep their bodies and can only stop being active, so a comparison made once stays true; `CollidesMisses` is what the five comparisons let through |
| | `QuotasAlwaysHold` | `QuotaInv`: rows and the handlers a count has let through are one load (`MonthLoad`, `PendingLoad`), which an insert does not change; a check adds at most the handlers under way to what it counted (`MonthBound`, `PendingBound`) |
| | `SerialImplementsBoard` | for `MaxInFlight = 1`: every step is a step of `SlotBoard` or leaves the board as it is; an insert finds the slot as its checks did |
| `ReservationLifecycleProofs` | `TypeCorrect`, `CancellationFinal` | no action clears `cancelDate` |
| | `AnsweredCancelFrees` | `Freed`: a handler past its cancelling write has set `cancelDate` |
| | `CancelledRowIsFree` | only a handler that sets `cancelDate` writes the cancelled state, but for the two the property names; `changeState` hands that state over to the cancellation |
| | `LogLosesOnlyByRace` | `SnapExplained`: an entry made before a handler read the log and missing from what it read had been overwritten by then; `WroteOnce`: an entry is made once |
| | `PairStaysEqual` | `OneAtATime`: without an excuse at most one handler is under way, after `create` has ended, no account but the owner's was deleted, and the rows agree except half way through the handler's two writes |
| `EventAuthorizationProofs` | `TypeCorrect`, `FlagsFollowEvents`, `EventsAreFlagged`, `RequestsAreTold` | inductive with the phases |
| | `EventsAreBounded` | `CountInv`: while a request waits, the answers recorded for it are still in flight or failed; from the first flag on no more are admitted, and those that were are at most `MaxInFlight` |
| | `SerialImplementsVerdict` | for `MaxInFlight = 1`: every step is a step of `Verdict` or leaves the verdict as it is; a request with an unflagged event has no other handler |
| `EventDispatchProofs` | `TypeCorrect` | a job only concerns rows that were written |
| | `GuestsAreWithdrawn` | `CancelInv`: a handler that read no flag cancels the way of a guest, whatever is recorded (`ReadsFlag`), and one that called ICM when the row was past its call has ended the invitation for good, because the job sends each row once (`GuestOK`, with `SentInv`) |
| | `WithdrawnForGood` | `SentInv`: only rows a job has sent are invited or withdrawn; it goes forward and sends each row once |
| | `DeliveriesAreWithdrawn` | `CancelInv`: the job has recorded the reference of every row it is past and was given one for, and flags the rows last; a record without one is of a row ICM gave none for, or of an earlier withdrawal (`RecordsOK`). So a request that takes its row for a delivery, alone on it, picks the reference and ends the notice (`NoticeOK`) |
| | `MirrorCatchesUp` | `MirrorInv`, row by row: without an excuse at most one request is under way, every write on its way carries the row's state, and a row that is not shown yet has a request, its create or a write to come |
| | `DuplicatesNeedRace` | `SeenClear`: a create that was let through saw no live event of the visitor but those a later request put back |
| `AlertRoutingProofs` | `TypeCorrect` | from the geocoder on a report has a customer and an author with one; checkpoints, jobs and writes come after the insert |
| | `RoutedRight`, `AscribedClose` | `PlaceInv`: while a report is raised the customer and the neighbourhood its alert will have are already right; `RowsStay`: no later step changes them |
| | `AlarmsAreAlerts` | calls are started after the insert, by an alarm only |
| | `AuthorFollows` | `MonitorInv` (a checkpoint refused was for an alert of another customer than the one its token names) with `PlaceInv` (an alert is of another customer than its report acted for only if it was handed over) |
| | `AlertsAreShown` | `MirrorInv`, as for events: at most one request is at its write, and what is on its way is the alert's state |
| | `OnlyMonitorsChange` | `MonitorInv`: past the permission query a handler's user is of the customer or had permission, past `existAlert` the alert is that customer's |
| `RegistryProofs` | `TypeCorrect` | what a request asks for has the shape of its kind, and each service is one of the combinations that occur |
| | `DuplicatesNeedRace` | `IndexInv`: with an index there are no twins at all (`NoTwins`); without one, `LookInv`: whoever holds a key a handler is about to write, after counting, got it after the count (`Covered`), or the handler's own row changed, or the handler `LookedElsewhere`. `SetInv`: who gave a row its entry is done, so what it had missed when it wrote stays so |
| | `CollisionsNeedRace` | `LookInv` at the moment of the refusal |
| `PeopleProofs`, Accounts | `AccountsTypeCorrect` | `AccountPhase`: at each await a handler holds the account, entry and lot its kind has found by then; with `HandlersMeet`, shared by the three modules: two handlers under way at once have met, what was asked and met stays, an answer is final |
| | `RemovalIsFinal` | `FoundInv`: a handler that is to write a deleted account held it before the deletion and met it |
| | `CreationFindsTheNameFree` | `CreateInv`: an account that has the name when `create` is about to insert got it from a handler the creation met |
| | `TextedCodeOpens` | `CodeInv`: a code is of a registration that wrote it to that account; `TextInv`: the last text is that registration's, or of one it met, or its own text is still to come or lost |
| | `LotsAgreeAtRest` | `LinkInv`: a linked account has its entry's lot, or was `given` another, or the difference is explained as the property says, or an edit is about to pass the lot on; `ReadInv` and `SyncInv`: a lot that was read, or is to be passed on, is still the entry's unless the handler met an edit |
| `PeopleProofs`, Credentials | `CredentialsTypeCorrect` | a token's row was made by a request that asked for one |
| | `TokensWorkOnce` | `PairInv`: two resets that found one token met each other, because `GoneInv`: after a reset ended the table does not hold its token |
| | `NewestStands` | `NewestInv`: the table holds the newest token or none; `TokenInv`: who deletes the row has met whoever put another token into it |
| | `LateErrorsNeedRace` | `TokenInv`: while a reset is to delete its row, the row is there or another reset it met has deleted it |
| | `ProvenReplaced` | `PasswordInv`: between the comparison and the write the password is the proven one or was set by a request that was met |
| `PeopleProofs`, Subscriptions | `SubscriptionsTypeCorrect` | `SubscriptionStepFits`: a contact's row is not there before the request that creates it, counts are natural numbers, and a monitor's 0 or 1 |
| | `FollowersHaveTheTypes` | `SawInv`: what an update that met no other has read of the types and the list is still so when it writes, but for followers who came or were created beside it; who has the old types then has the new (`FollowersTurned`). `FollowInv` keeps that up between updates, in every type a follower is not apart in, but for deletions half way |
| | `DifferencesDoubleNothing` | `OnceInv` from `SawInv`: what an update adds was not the customer's, so who was not set apart in it did not have it. `CategoryInv`: two active rows of a category go back to a switch beside an active row or beside an update, because the rows an update has read are those there are but for switches and retirements it met |
| `CalendarProofs` | `VisitsTiled`, `VisitsByDays` | `QuotientUnique` and `DaysLater`: adding whole days moves the date and keeps the time; the last row ends with the visit because its whole days and what is left are less than two |
| | `LocksAsOnTheSpot` | `MidnightByDate`: an instant at local midnight is the day's start exactly if the dates agree |

The properties of `FlagsFollowEvents`, `RequestsAreTold`, `AscribedClose`,
`AlarmsAreAlerts`, `CancellationFinal`, `AnsweredCancelFrees`,
`SerialSlotExclusive` and the type invariants but those of `Accounts` and
`Subscriptions` are no longer in a run; all others are also checked by one, which
shows that the instances reach the states the theorem is about (the mutants break
it there).

Only model-checked, and why:

- the liveness properties `CancelEventuallyFrees`, `AnswerEventuallyRecorded` and
  `AlertEventuallyTold`: fairness is out of the prover's reach.

## Not modelled

- Notifications and read marks: whom a message is for is one query over filters,
  a read mark one update; what is told of alerts, requests and cancellations is
  modelled with those. A push batch is one call whose failure its callers model.
- QR codes: `findByToken` reads the row of a token, `generateQR` draws its image
  with a library and stores it in that row together with the visitor's `dni`,
  without looking for duplicates. `EventDispatch` is about visitors whose `dni` is
  given from the start.
- The insert at GiroVision, Traccar and Cybermapa: one call each, whose result
  nothing depends on.
- Protocols, useful information, event categories (but for their retirement, which
  is an action of `Subscriptions`) and states, templates, reservation modes and
  spaces: one query per operation, without a check in front of it that another
  request could overtake.
- Permission guards and token verification: stateless per request; what they
  decide is which of the modelled handlers a client may start.
- Configuration, files, mails, SMS providers, health, the proxies of external
  services, pipes and filters: pure I/O, or glue of the framework.
- Migrations and seeds: SQL and data without behaviour. The keys the modules rely
  on are taken from `schema.prisma`. Seeds are more than half of the repository's
  lines, which bounds the share any model of its behaviour can cover.
- Fields that no decision depends on (names, texts, images, coordinates beyond a
  distance) in every module.

## Plan

Done: the modules above, with their abstract specifications and runs, and every
safety property and refinement of a run as a theorem. Left, in this order:

1. The step from the two mirrors to what they share: `EventDispatch` and
   `AlertRouting` prove the same shape of invariant about rows, writes and
   excuses; a common module as `RequestHandling` would state it once.
2. An abstract specification for `Accounts` without overlap (a person has one
   account per name, its lot is its entry's), as `Verdict` is for requests.
3. `Notifications`: addressees of massive and per-lot messages, and the batch one
   invalid token refuses, once more than its callers depend on it.
