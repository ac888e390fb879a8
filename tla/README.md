# Verification of tic-tac-toe-backend

This directory holds TLA+ specifications of the NestJS backend in `src/`, the TLC
configurations that check them on small instances, and TLAPS proofs about them.
Line numbers in comments refer to files under `src/src/`.

## 1. The system

The backend is one node process in front of Postgres (Prisma) and Redis. Node runs one
handler at a time, but every `await` lets other handlers run, so the unit of interleaving is
one database query, one Redis command or one transaction. That is the step of most modules
here. What a handler read before an `await` may be stale when it uses it; most of what can go
wrong in this code has that form.

| Part | State it keeps | Operations | Talks to | Hard part |
|---|---|---|---|---|
| Rooms service (`rooms.service.ts`) | rows of `Room`, column `User.roomId` | create, join, leave, update, rejoin, inRoom | Postgres; emits `ROOM_DELETED` | checks and counts made on rows read before or without locks |
| Rooms gateway (`rooms.gateway.ts`, `ws-auth.guard.ts`) | sockets, their channels, `pendingLeaves` timers | connect, disconnect, five events, auto-leave after 60 s | Rooms service, Socket.IO | timers against reconnects, disconnects during a call, restarts |
| Tic-tac-toe engine (`ttt.engine.ts`) | none (pure) | init, isValidMove, applyMove | called by the game service | draw against win, turns |
| Game service (`game.service.ts`, `game.repository.ts`) | `Game`, `Move`, `Room.currentGameId`; Redis keys state, moves, meta | startGame, makeMove, endGame, abandonGame, getState, onRoomDeleted | engine, Postgres, Redis, events | several keys and stores without a common transaction, expiry |
| Sessions (`auth.service.ts`, `auth.guard.ts`) | `RefreshToken` rows, blacklist keys | sign-in, sign-up, refresh, logout, revoke one or all, change password | Postgres, Redis, JWT | two stores, overlapping refresh and revocation, rounding of times |
| Auth controllers (`auth.controller.ts`, `sessions.controller.ts`, `roles.guard.ts`) | the cookie in each browser, the role in each access token | the requests for the above, admin requests | Sessions, browsers | replies that are lost or late, tabs that share a cookie, roles that change after a token was signed |
| Chat (`chat.service.ts`, `chat.gateway.ts`, `chat.controller.ts`) | one Redis list per room | addMessage, the event `chat:message`, getMessages, onRoomDeleted | Redis, Socket.IO, Rooms service, events | three commands per message, readers that join in between, late messages, clean-up after crashes |
| Users and availability (`users.service.ts`, `availability.service.ts`, worker) | `User` rows, two Bloom filters in memory | create, update, delete, Google sign-in, nightly rebuild | Postgres, events, worker thread | the filter follows the table by events and is replaced by a stale copy |

Not modelled, since they keep no state or only wire things: the controllers of rooms and users
(they hand a validated request to a service), DTO validation, interceptors, configuration, the
exception filters but for the fact that an error leaves the cookie alone, the Redis and Prisma
drivers, bootstrap, scripts and deployment files. The drivers are seen as commands that may fail;
that ioredis repeats a command left unanswered by a broken connection (`redis.module.ts:69` keeps
this default), so that an RPUSH may count twice, is outside the models. `AppModule` does not import
`GameModule`, and no gateway calls `startGame` yet; the game service is modelled as its tests
and its interface present it, with any caller. `UsersService.delete` is exported but called by
no controller.

## 2. Modules

```
RoomTables <- Rooms (atomic) <= refined by = RoomsService (interleaved)
                    ^---- extended by ---- RoomsGateway (sockets, timers; the service in one step)
TicTacToe <- TicTacToeGame (abstract game) <= refined by = GameService (Redis + Postgres)
Sessions <= implemented by = AuthController (cookies, replies, roles)
Blacklist (the times of one token), Chat (one room and a reader), Accounts
```

* **RoomTables**: the rows as a record of columns, and each write of `RoomsService` as a
  function on rows. `DeleteRoom` includes the foreign key's `ON DELETE SET NULL`. The next owner
  is any remaining player, since the query that picks `remaining[0]` has no order.
* **Rooms**: each call in one step: what the service promises when calls do not overlap. RoomsService and
  RoomsGateway extend it, for the rows `db` and the checks of `join`; its own steps are `AtomicNext`, its
  specification `AtomicSpec`.
* **RoomsService**: each call as a record that moves through its queries, with what it read.
  The writes of a transaction are one step (READ COMMITTED, row locks); its reads are steps of
  their own. A commit may fail (`Abort`) and the process may die (`Crash`). `Overlap` says which
  calls may be in flight together: `"any"` is the code as it is; the two other values describe
  clients that keep out of each other's way, and show what the code then guarantees.
* **RoomsGateway**: an event passes the guard (Redis), the service (Postgres) and the rest of
  the handler, as three steps. Channels are sequences, because `handleLeave` takes the first
  room of the insertion-ordered `client.rooms`. A timer remembers the `roomId` of the socket at
  the disconnect, as its closure does. The events under way are records of their own (`call`), and name
  their socket: Nest runs the handlers of one socket concurrently, so a client that does not wait for
  the acknowledgement of an event overlaps it with the next one (hazard "overlapping events"). Assumed
  in every environment: guard and service take less than the 60 s of the timer (`CallsEnded`), and
  channels are entered and left at once, as Socket.IO's in-memory adapter does.
* **TicTacToe / TicTacToeGame**: the engine's functions; a game driven over every position.
  The board and its lines are parameters, so the engine is checked on the real board and the
  service on a small one.
* **GameService**: the rows and keys of the games of one room. TTLs are counted in ticks. Time passes
  whenever it likes (`Tick` has no guard but its bound), so in every environment a key may expire
  between any two commands of a call: between the two GETs of a move, before its SET, which brings the
  state back, or before its EXPIRE, which then does nothing.
  `onRoomDeleted` does nothing: the listener reads a field the event lacks and throws.
* **Sessions**: the sessions of one user. `password` and `parent` of a row are history, kept to
  state properties. Tokens do not expire here; **Blacklist** is about the times only, with a
  clock in fractions of a second.
* **AuthController**: EXTENDS Sessions with the browsers of the user. A request conjoins the
  action of Sessions that the handler calls with the cookie it works on, and enters a record in
  `reply`; when the call has ended, `Reply` changes the cookie (`SetCookie`), or `LoseReply` drops
  it. `claim` is the role signed into the access token of a session, `role` that of the row, which
  `Demote` changes. A request may present the access token of any session, whatever its cookie.
  Replies that change no cookie are left out, and so are refused requests.
* **Chat**: the list of one room and another player who reads it; a message is its number. The
  commands of a call go over the one connection of the client, which answers in order (`InTurn`).
  The number is given, and RPUSH sent, without an await in between, so `Push` does both.
  `Emit` is what `handleSend` does after the await, and reaches whoever is in the channel then.
* **Accounts**: nicknames as sequences of suffixes, the filter as the set of names it reports
  (the names added, and any of `FalsePositives`). E-mail addresses behave alike and are left out.
  `refused` remembers for whom Google sign-in failed because of a nickname.

GameService, Sessions, AuthController, Chat, Accounts and RoomsGateway have a variable `hazards`, chosen in `Init`
from the constant `Environments` and never changed: what the environment may do in this behaviour
(overlapping calls, failures, restarts, two sockets of a user, ...). The code excludes none of it, and
some properties hold whatever occurs. Others hold only without certain
hazards, and say so: `hazards = {} => ...`. This is how one run shows both what the code guarantees
and which condition a stronger guarantee needs; a hazard that a condition excludes is not caught by
that property, and the list of hazards in PROJECT.json says so. The modules are abstractions with all
hazards too: what they leave out in every environment is named with each module above and in
section 5. `PlaysTheGame` maps a behaviour whose environment is
not calm to a game that never begins, so it says nothing of those. RoomsService has the constant
`Overlap` for the same purpose. Accounts has one entry of another kind: "conflicts name their target"
is how the unit tests mock the database, and is absent in the program as it is configured.

Operators commented as "A mistake" are variants of the operator below them with a plausible bug.
No specification uses them; each has been put in the place of the original to see that the
property it belongs to fails.

## 3. Runs

| Run (cfg) | Shows | Bounds |
|---|---|---|
| rooms_disjoint_calls (RoomsDisjoint) | calls on different users and rooms, with rollbacks and crashes: `ActsAtomically` (they implement Rooms), `SeatsCorrect`, `OwnerPlays`, `OwnershipInherited` | 4 users (one more than fill a room and sit in another), 3 rooms, 2 seats, 3 calls |
| rooms_one_join (RoomsOneJoin) | `MembersSeated`, `AnnouncedRoomsAreGone`, `SeatsNotOversold`, `WaitingHasSeat`: one join of a room at a time, all else interleaved | 3 users, 2 rooms, 3 calls |
| rooms_two_joins (RoomsOverfull) | **violation** of `SeatsNotOversold`: overlapping joins put three players in a room of two | 3 users, 2 rooms, 2 calls |
| engine (TicTacToe) | `TurnsAlternate`, `ResultIsRight` | the real board, all 5480 reachable positions |
| game (GameService) | always: `ResultWrittenOnce`, `CurrentHasNoResult`; one call at a time: `StateIsReplay`, `MetaOutlivesState`, `EndedLeavesRedis`; calm: `RecordIsTheGame`, `DecidedGamesLeave`, `PlaysTheGame`; keys expire at any moment in all of them | 2 games of a room, one of them played; 3 cells, 1 line, 2 calls, TTL of 2 ticks; environments: calm, room lost, failures and room lost, overlap |
| auth (AuthController) | always: `OnlyRevokedBlacklisted`; no failures: `RevokedGetsBlacklisted`; no lost reply: `CookieIsUnspent`; no overlap: `RefreshedOnce`, `DemotionSticks`; none of them: `OldPasswordsOut`, `ActiveIsHeld` | 3 sessions, 2 browsers, 2 calls, 2 password changes; environments: calm; one request at a time with failures, lost replies and a demotion; overlap; overlap with failures and lost replies |
| blacklist_times (Blacklist) | `RefusedButForLastSecond`: the gap of the blacklist is shorter than a second | a second of 3 ticks, TTL of 2 s |
| chat (Chat) | always: `LatestInOrder`, `HeardInOrder`; unless a process dies in addMessage: `Bounded`, `NoGap`, `GoneInTheEnd` | 3 calls, cap 2, 5 messages, 1 reader; two environments, both with a crash during leave and a last player who goes to another room |
| accounts (Accounts) | always: `CallsEnd`; unless a rebuild overlaps calls: `TakenIsReported` | 2 persons, 3 names, 2 attempts, 2 calls; four environments: calls overlap each other or a rebuild, each with the driver in use and with that of the unit tests |
| accounts_retry (AccountsRetry) | **violation** of `RetryHelps`: the first nickname conflict of a Google sign-in is thrown | as before; the driver in use, one call at a time |
| gateway_calm (GatewayCalm) | calm: `SeatedIsWatched`; also with restarts and failing leaves: `ReturnedIsKept`, `ListenersPlay`, `UpdatesReachTheirRoom` | 3 users, 2 rooms, 2 sockets, 2 events under way, 1 timer, five kinds of events; those two environments |
| gateway_any (GatewayAny) | with all hazards: `EntriesAreArmed`; calm: `AwayLeaves` | 1 user, 1 room, 2 sockets, 2 events under way, 2 timers; calm and all hazards |

The type invariants of Rooms and RoomsService are theorems; the other modules' inductive invariants
say of the types what the proofs need. Their `TypeOK` (`AuthTypeOK`), with the bounds of the
run, holds in every run when `INVARIANT TypeOK` is added to its cfg; the cfgs leave it out for what
says more.

The bounds are chosen so that every interesting case occurs: a user who moves from one full room
to another, an owner who leaves, three players for two seats, a board that fills up without a
line and one where the last mark makes a line, more messages than the cap plus the calls that are
still to trim, a second attempt that collides with a name another person just took. Ids, moves,
messages and password changes are bounded in the guards, each with a comment that names the
bound; `IdsUsedUp` and `NothingLeft` say that such a run may end there, so that a deadlock
elsewhere is reported. In the environment of Accounts where a rebuild overlaps calls, one call is
in flight at a time, which keeps the run small; the overlap of calls is in the other environment.

In the played game of the game run the line is two of three cells, so that a win by the third
move and a draw are both reached; the real board is checked by the engine run. The second game is
created, replaces the first as the current one, and is abandoned.

### Known deviations

The code differs from what its comments, tests or names suggest in the following places. Two of
them, named in brackets, are kept as violation runs. The others were found with the models: where
a property has a condition (`Overlap`, `hazards`), removing the condition gives the
counterexample; the rest are written into the actions as the code has them.

Rooms (`modules/rooms/rooms.service.ts`)

* :71 Overlapping joins both see a free seat and put three players in a room of two (rooms_two_joins).
* :88 The status is computed from players read before the transaction: a join that counted a player
  who is just leaving leaves a room `Playing` with a free seat, where nobody can join any more.
* :184 A leave that saw itself alone deletes the room under a player who has just joined; the
  foreign key resets that player's `roomId`, so no user sits in a deleted room.
* :182 Two leaves that each saw the other stay leave an empty room behind.
* :194 The owner may be handed the room after it has left, while another player has come.
* :54 Two overlapping creates of one user leave the first room without players.
* :165 A former owner can rename the room if it left after the check.
* :81 A join that empties the old room deletes it without `ROOM_DELETED`, even with no overlap;
  chat and game of that room are not told (`chat.service.ts:13` relies on the event).

Gateway (`modules/rooms/rooms.gateway.ts`)

* :167 A join from a room in which one was alone returns no left room, so the socket stays in the
  old channel. A later leave takes that channel for its room and tells it, not the room left. This is
  the hazard "join from own room".
* :167, :177 The handlers of one socket overlap if its client does not wait for the acknowledgement. A LEAVE looks up
  its channel before the service runs. Overlapped by a JOIN of another room, it emits the
  new room's state to the old channel. A JOIN overlapped by a LEAVE that found no channel yet ends with
  the socket in the channel of a room its user does not play in. So `UpdatesReachTheirRoom` and
  `ListenersPlay` are about clients that wait.
* Timers: after a restart or a failed leave of the timer nobody removes a user who is away. A socket that drops
  while its call runs may cancel its own timer. All three break `SeatedIsWatched`. A
  second socket of a user, a chat event (whose handler does not cancel) or a call during the timer's
  leave end with a user taken out of the room it was acknowledged in, which breaks `ReturnedIsKept`.

Game (`modules/game/game.service.ts`)

* :122 `getState` abandons every game that is not in Redis, also one that is `Finished` (its result
  stays), or one whose creation has not reached Redis yet.
* :137 `onRoomDeleted` reads `payload.room.currentGameId`, the event carries `currentGameId`: it
  throws, and the game of a deleted room stays `Active`.
* :76 Overlapping moves are validated against the same position: both are stored, one is lost from
  the state.
* :92 When the metadata expire after a move has read them, EXPIRE does nothing, while SET renews the state: the
  game stays visible without metadata, and every further move is refused with `not found` until the
  state expires too. `MetaOutlivesState` says that metadata are lost in no other way.
* After a failure between the last move and `finish`, the decided game stays in play, and
  `isValidMove` (`ttt/ttt.engine.ts:52`) does not ask whether it is over.

Sessions (`modules/auth/auth.service.ts`, `auth.controller.ts`)

* :179 A refresh token can be used twice by overlapping refreshes.
* :235, :281 A session opened with the old password while it is changed, or left by a crash before the
  revocation, survives the change.
* `sessions.controller.ts:42` "All but the current" never finds the current session, since it
  compares ids of access tokens with ids of refresh tokens: all are revoked.
* `auth.controller.ts:139` The old refresh token is spent before the new one has arrived. A browser that
  loses the reply keeps a cookie that is refused for ever with `Token already revoked`, and the new
  session stays open until it expires. This is the hazard "loss" of `CookieIsUnspent`.
* `auth.controller.ts:109` Logout ends the session of the cookie, not that of the access token. With a
  cookie that has fallen behind, or a second sign-in over the first, a session stays open that the user
  believes to be closed: `ActiveIsHeld` needs a calm environment.
* `roles.guard.ts:48` A role taken away stays in the access tokens signed before, until they expire;
  `DemotionSticks` says that no new one gets it, if no request overlaps the change.
* :90 The remaining TTL is cut to whole seconds: a revoked token may be let through for less than
  a second at the end of its life.

Chat and accounts

* `chat.service.ts:50` When the process dies before EXPIRE in addMessage and the list has no TTL yet, a missed clean-up
  leaves it for ever. A message under way when the room is deleted brings its list back, with a TTL.
* `rooms.service.ts:81` The chat of a room that its last player left by joining another one is deleted by
  its TTL only, an hour after the last message.
* `chat.service.ts:53` The comment says that the oldest messages are kept; LTRIM keeps the newest.
* `users.service.ts:115` Google sign-in tries another nickname only if `error.meta.target` names the
  column, as `users.service.spec.ts:253` has it. PrismaPg, the adapter of `prisma.service.ts:25`, does not report
  `meta.target` (`exception.filter.ts:120`), so the first conflict is thrown and the retry is never
  reached (accounts_retry).
* `availability.service.ts:38` A name created while the worker reads the table is missing in the
  new filter and is reported as free; the unique column still refuses it.

### Fairness

Liveness is checked where something must happen after the caller is gone: the chat of a deleted room
disappears (`GoneInTheEnd`), creating an account ends (`CallsEnd`), a user who stays away leaves its
room (`AwayLeaves`). The assumptions are weak fairness of the steps of a call in flight (Postgres and
Redis answer, with success or an error), of the timers of node, of the delivery of an event unless
the process dies, and of the expiry of Redis keys. The steps a client may take (starting a call,
connecting) are never assumed to happen, and no strong fairness is used.

## 4. Proofs

TLAPS proves, for every value of the constants that satisfies the named assumptions:

* **RoomsProofs**: `AtomicTypeOK`, `SeatsCorrect`, `OwnerPlays` and the action property `OwnershipInherited` of
  Rooms. The inductive invariant `AtomicInv` adds that nobody sits in a room that does not exist and
  that ids are used once: that a room without players is deleted needs that seats and status agree,
  and that the owner can be handed on needs that the owner plays. The first half of the module holds
  the facts about the writes of RoomTables, which RoomsServiceProofs and RoomsGatewayProofs cite too.
* **RoomsServiceProofs**: `TypeOK`, `MembersSeated` and `AnnouncedRoomsAreGone` of RoomsService for
  every `Overlap`. The strengthening `IInv` says of each step of a call what the ids in its record
  may be by then: ids it has read are of rooms that live or are dead, never of rooms to come, and
  the room of a call about to emit is dead.
  The same module proves `SeatsNotOversold` and `WaitingHasSeat` when a room is joined by one call and
  a user makes one call at a time. `SeatInv` says that what a join counted can only shrink, and that
  what a leave is about to vacate is still its user's seat.
  Last, `ActsAtomically` when no two calls share a user or a room: RoomsService implements Rooms. `DInv`
  says that what a call has read is what it would read now (`UpToDate`), and that the rooms of two calls
  are apart; `Touches` bounds what each write can reach, so that the others stay up to date
  (`Undisturbed`). Then each commit is the step of Rooms its call stands for, and every
  other step is a stutter.
  `DisjointCallsKeepRooms` carries over what is proved of Rooms.
* **TicTacToeGameProofs**: `TurnsAlternate` and `ResultIsRight` for every finite board with any lines, also
  overlapping ones. `GInv` says that the result is that of the board, that the marks are as
  many as the turns taken, and that one player at most has a line: before a move nobody has one, and
  the move can only complete lines of its maker, so the first line found (`Min`) is as good as any.
* **AuthControllerProofs**, first part: Sessions. `OnlyRevokedBlacklisted`, whatever overlaps and fails. The
  strengthening says that a call about to write the blacklist has deactivated the rows it found, and
  that a row once revoked stays so. Its types are `TypeOK` without the bound on password changes,
  which belongs to the run. `RevokedGetsBlacklisted`, if no command fails: `Covered` says that what is
  revoked and not yet refused is held by a call that is about to refuse it. `RefreshedOnce`, one call
  at a time: predecessors are revoked, so that whoever may be refreshed has no successor yet, and
  the one under way has revoked its session before it issues (`FirstRefresh`). `OldPasswordsOut`,
  without any hazard: sessions are current unless a change of the password is between its
  update and its revocation, and then it holds all of them (`Changing`).
* **AuthControllerProofs**, second part: every behaviour of AuthController is one of Sessions, so that
  `OnlyRevokedBlacklisted` carries over; `CookieIsUnspent` unless replies are lost; and `DemotionSticks`.
  A reply could replace a cookie by a token that was exchanged meanwhile, or leave the old one in another
  browser. `AInv` excludes it: a session is in one cookie or one reply at most (`OnePlace`), the one
  being refreshed has left its reply (`ParentsDelivered`), and only the browser that will get
  the new session holds the old one (`ToHolder`). For `DemotionSticks` the invariant says that an
  administrator's reply is only under way while the row says so. `ActiveIsHeld`, in the calm
  environment: a session that works is in a cookie or in the reply under way (`HeldOrComing`), and
  the cookie a reply will replace is of a session that its call ends first (`Replaced`).
* **AuthControllerProofs**, last part: Blacklist, the times of one token, which share no state with the calls
  (its specification is `TimesSpec`).
  `RefusedButForLastSecond` for every TTL and resolution of the clock: the whole seconds of the TTL reach
  the end of the lifetime but for less than one (`TtlReaches`), the clock may run on before the key is
  set, and the row is not older than the token, so the key ends within the last second (`NearEnd`).
* **ChatProofs**: `LatestInOrder` and `HeardInOrder` in every environment, `NoGap` and `Bounded` unless a
  call dies half way, for every cap and any number of calls. The list keeps a suffix of what was sent, whoever
  trims. `InOrder` says that calls do not overtake each other, so the one that emits has the oldest
  message; `Joined` says that from a message still to be told on, all are still to be told,
  which is what a reader needs that asks in between. `Bounded` needs no more than the types, and counting:
  a push adds a message and a call that is to trim, a trim cuts to the cap.
* **GameServiceProofs**: `ResultWrittenOnce` and `CurrentHasNoResult` of GameService in every
  environment, for any number of games and calls, any board and any engine: the invariant only speaks
  of the shape of the rows, and adds that a game not yet created has no result. With one call at a
  time and no failure (`OneByOne`), `MetaOutlivesState` and `EndedLeavesRedis`, for every TTL and whenever keys
  expire, also during a call: `Safe` says which step of
  the only call may have left the keys of its game uneven, or those of an ended game undeleted.
  On top of it (`FInv`), `StateIsReplay`, `RecordIsTheGame` and `DecidedGamesLeave`: a game no call is busy
  with shows where its moves lead to, and in a calm environment its moves are legal and it is
  undecided (`AtRest`); `InHand` says at each step of the only call how far its game is from that: the
  position it has computed is ahead of the moves until the push, the keys outlive the result until the
  delete. It gives the refinement `PlaysTheGame` too: the abstract position is the one a move has in hand
  (`Mover`), since the state key may expire under it and come back with SET. The step that computes the
  next position is the move of TicTacToeGame, and an expiry loses the game only when no move has it in hand.
* **AccountsProofs**: `TakenIsReported`, however calls overlap each other, since a rebuild that overlaps
  no call has read every name that is taken (`Reported`).
* **RoomsGatewayProofs**: `EntriesAreArmed` of RoomsGateway with all hazards. A step can only spoil
  an entry by touching its timer: a timer has one user, so no two entries share one, and whoever
  cancels is a user, which holds since the socket of an event has a bearer, also when events of one
  socket overlap. For clients that wait for each acknowledgement and without the other hazards, but
  across restarts and failing leaves (`Orderly`), `UpdatesReachTheirRoom`, `ListenersPlay` and `ReturnedIsKept`; in the calm
  environment also `SeatedIsWatched`. All from `CalmInv`: an open socket is in the channel of its `roomId` and no
  other, which is the room its user sits in but for the one event under way (`SocketsCalm`, `CallsCalm`,
  `OneCall`); a user has one socket, or
  one timer that still waits and can be cancelled, never a timer and a socket that is
  recognised (`OneEach`, `Cancellable`); and whoever sits in a room has one of them (`Watched`).

Where something is shown for every move list or every number (a replay, a first
winning line), the modules define it by a recursive function or the
minimum of a set, and the proof takes the least counterexample (`Least`, from the well-founded order
on Nat): the library's induction theorems take an operator as a parameter, which the provers
at hand cannot instantiate.

Assumptions are those in the modules. Ids: `None` is no user, room, game, session, browser, name
or timer, and no position or result. Finite sets where something is counted: users, sessions, calls of Chat,
persons, cells. Sizes: at least two seats, positive TTLs, caps and attempts. In Accounts, the names form a
finite set of sequences of suffixes, which is also the bound of the run; in GameService some game is
played, and the two markers of TicTacToeGame (not begun, lost) are no positions.

Only model-checked: liveness (`GoneInTheEnd`, `CallsEnd`, `AwayLeaves`), for which TLAPS has no rule
for `ENABLED`. Every other property of the passing runs is a theorem.

## 5. Not modelled, and what could be added

* Two flaws are written into the actions as the code has them and so have no property: `jti` of access
  and refresh tokens mixed up (`sessions.controller.ts:42`) and the payload of `ROOM_DELETED` read
  wrongly (`game.service.ts:137`). Once they are repaired, the actions `Excepted` and
  `OnRoomDeleted` follow, and the natural properties are that the caller's session survives and that
  no game of a deleted room stays `Active`.
* Saturation of the Bloom filter (`availability.service.ts:118`): `createNickname` loops until the filter
  says no. The models bound the false positives, so the loop ends. E-mail conflicts follow the same
  path as nickname conflicts without the retry.
* Repeated commands of the Redis driver, see section 1.
