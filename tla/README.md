# A TLA+ development of enzyme

enzyme is a self-hosted team chat: a Go server over one SQLite file, a web, a
mobile and a desktop client.  Clients call a REST API and keep one server-sent
event stream (SSE) open, over which the server pushes what happens; a client
shows what its caches hold, which events, answers, optimistic updates and
refetches all write.  This directory models the parts of the server and of the
clients in which several goroutines or requests, the clock, or a failure decide
what a user sees.

Paths are relative to `src/`; `internal/` stands for `src/server/internal/`,
`shared/` for `src/packages/shared/src/`.

## 1. Inventory

The server is one process.  Every HTTP request runs in a goroutine; one
goroutine owns the hub's registry (`Hub.Run`), one stores events
(`runStoreLoop`), one per periodic task runs it again and again
(`internal/scheduler`).  They share the database (each statement atomic, almost
never a transaction around a read and the write that depends on it), the hub's
maps under one `RWMutex`, and Go channels.

A client is one thread.  Its state is the query cache (TanStack Query), a few
stores and component references; its steps are the handlers of events
(`shared/sse/cacheUpdaters.ts`), of answers to requests (`shared/hooks`), of
fetches and of timers.  Each is atomic; what is hard is their order: an answer,
an event and a refetch about the same thing may come in any.

| Component | State | Operations | Interacts with | What is hard | What makes it correct |
| --- | --- | --- | --- | --- | --- |
| Scheduled messages (`internal/scheduled`, `handler/scheduled_message.go`) | rows of `scheduled_messages`: status, time, content, attachments, retries | schedule, edit, delete, send now; worker: recover, list, claim, send, settle | channels (access), messages, hub, files | two senders, stale copies, crash between post and delete, sends longer than the recovery threshold | sent at most once, never lost, a due message settles |
| Task scheduler (`internal/scheduler`) | tasks, a wait group | register, run on a ticker, stop | every periodic task | a task that panics or overlaps itself | runs of one task follow each other for ever |
| SSE hub (`internal/sse/hub.go`) | registry user → connections, register and unregister channels, a `Send` buffer per client | register, unregister, broadcast to workspace, channel or user, disconnect a user | every handler, every stream | two channels and one select, full buffers, closed channels, many tabs | presence agrees with connections, no send on a closed channel, a disconnected stream ends |
| Stream handler (`internal/sse/handler.go`) | the connection, its point of progress | greet, initial presence, replay, stream, leave | hub, event log | snapshot against registration and live events | what a stream shows converges to what is |
| Channel member cache (`hub.go`) | channel → members, read through from `channel_memberships` | add, remove, fill from a query | channel, message and workspace handlers | a query without a lock, two updates in two orders, a handler that ends between the row and the entry, a restart | the entry is the table |
| Event log (`hub.go`, `events.go`) | `workspace_events`, the store queue | enqueue, store, expire, replay since an id | broadcasts, reconnecting clients | order of ids, of storage and of delivery; limits; crashes | an event missed is replayed |
| Bans (`handler/moderation.go`, `router.go`) | `workspace_bans`, a verdict cache of 30 s | ban, unban, check | hub | a cached verdict against a ban, a check that fails, a reconnection against a disconnect | a banned user's streams end |
| Blocks, pins, moderation log | rows | block, pin, log, list | messages | filters applied everywhere | a blocked user's messages are hidden |
| Channels and direct messages (`internal/channel`) | channels, memberships, a hash of a DM's members | create, join, add, leave, archive, convert a DM to a group | hub, workspace | two requests that create the same DM; a member added to a DM while the DM is opened | one DM per set of people; archived channels do not change |
| Workspaces, roles, invites (`internal/workspace`) | workspaces, memberships with roles, invites with a use count | join by invite, leave, remove, change role, transfer | channels, hub | check-then-act on roles and on the use count | there is an owner; an invite is used at most so often |
| Messages, threads, reactions, read state (`internal/message`, `thread`) | messages, reply counts, reactions, read positions | send, edit, delete, react, mark read, subscribe | channels, hub, notifications | commit, re-read and broadcast are steps that others fall between; counters maintained beside the rows they count; read positions that move back | counters equal what they count |
| Notifications (`internal/notification`) | `pending_notifications`, preferences | notify, cancel, digest | hub (is the user online?), email, push | online at one moment and not at the next; sent and not deleted | a message is announced by stream, push or mail, once |
| Presence manager (`internal/presence`) | a table of statuses | nothing calls its operations | hub | - | - |
| Rate limiter (`internal/ratelimit`) | a counter per address, rule and window | allow, clean up | router | window boundaries | no more than the limit in a window |
| Authentication (`internal/auth`) | sessions, reset and verification tokens | log in, log out, reset, verify | users, email | a token used twice at once | one use per token, a reset ends sessions |
| Client: event stream (`apps/*/src/lib/sse.ts`, `hooks/useSSE.ts`) | the connection, a reconnection timer, the id seen last, presence, the ban shown | connect, break, reconnect, refuse, disconnect, remount, background | stream handler, `/auth/me` | errors, timers and clean-ups in any order; refusals; a greeting that is a snapshot beside a replay that is old | one way back to a stream, no second stream; presence converges |
| Client: message and thread caches (`shared/sse/cacheUpdaters.ts`, `shared/hooks/useMessages.ts`) | the channel's list, a thread's replies | handlers of message and reaction events; send, reply, edit, delete, react, with optimistic updates and rollbacks; refetch | event stream, messages | own event against own answer, counts kept beside the rows, a snapshot older than an event, a rollback to an old list | both caches converge to the server's rows |
| Client: message history pages (`useMessages`, `apps/web/src/hooks/useVirtualMessages.ts`) | pages with cursors, detached mode | load older and newer, evict, jump, refetch, take in live messages | messages, event stream | a page is fetched while another replaces it; the live edge is evicted | no gap but known ones; older messages can be reached |
| Client: channel list (`shared/hooks/useChannels.ts`, `apps/web/src/pages/ChannelPage.tsx`) | a row per channel: unread count, type, star, membership; the mark-as-read timer | channel events, mark read and unread, star, join, leave, archive, refetch | channels, messages, event stream | counts made in two places, late answers, crossing broadcasts, rollbacks of the whole list, a timer tied to what was rendered | the row follows the server's; a star settles; unread messages get marked |
| Client: typing indicator (`shared/hooks/useTyping.ts`, `shared/stores/presenceStore.ts`) | the throttle and stop timer of the typist; expiries and a sweep of the reader | type, stop, send, switch channels; receive, expire, sweep | hub | four constants in two files, lost and late stops, a sweep that runs only while somebody looks | no ghost stays, a typist does not flicker |
| Files, emoji, users, link previews, push tokens, email, configuration, telemetry, database, user interface | rows, forms and I/O | - | - | mostly I/O | - |

`PROJECT.json` lists every component with its status and the reason, and the
hazards that the properties are for, each at its line.  Beside them the code is
exposed to these, which are variants of a listed one or which no property covers:

* the copies that the worker lists at the start of its run, so that a later edit is
  ignored (`internal/scheduled/worker.go:41`), and the lists of attachments that
  `DeleteFile` and an edit both write whole (`internal/scheduled/repository.go:198`):
  not covered, see section 4;
* a page reload, which makes the user offline and online again
  (`internal/sse/hub.go:107`): nothing waits, so there is nothing to check;
* two `DisconnectUserClients` of one user, which check and close `Done` without a lock
  (`internal/sse/hub.go:512`): not covered, check and close are one step of `SSEHub`;
* failed statements whose error is ignored (`internal/handler/message.go:64`,
  `internal/sse/hub.go:303`), covered by `CacheExactUnlessAstray`; a store queue that
  a crash forgets (`internal/sse/hub.go:352`), by `Accounted`; a join beside
  `LeaveWorkspace` (`internal/channel/repository.go:466`), by `ChannelMembersBelong`;
  the whole list put back after a failed reaction (`shared/hooks/useMessages.ts:436`),
  by `ListConverges`.

## 2. Modules

| Module | Models | State ↔ code | Actions ↔ code |
| --- | --- | --- | --- |
| `ScheduledMessages` | scheduled messages and their worker | `rows` the table, `files`, `access` the sender's right to post; `pc`, `loc`, `batch` the point, the copied row and the listed rows of each goroutine | one action per SQL statement: `BeginUpdate`/`CommitUpdate` (`GetByID`, `Update`), `BeginDelete`/`CommitDelete`, `BeginSendNow`, `StartRun` (`ResetStuckSending`), `ListDue`, `MarkSending`, `CheckAccess`, `CreateMessage`, `BroadcastPanics`, `DeleteSent`, `Settle` (`MarkFailed`, `IncrementRetry`), `DeleteFile`/`SelectAttached`/`DetachOne`; environment: `BecomeDue`, `BecomeStale`, `ChangeAccess`, `Crash` |
| `Outbox` | abstract specification: scheduled messages without table, worker, handlers or faults | `state`, where each message is | `Schedule`, `Edit`, `Claim`, `Deliver`, `Miss`, `Delete` turn one message; `Reclaim` puts claims back that are taken for dead; `Crash` |
| `SSEHub` | the hub's registry, streams and broadcasts, of one workspace | `registerQ`, `unregisterQ`, `send` the Go channels; `registry` the clients in `Hub.workspaces`; `hub` what `Run` is about to broadcast; `closed`, `done` closed channels; `handler` the point of every `Events` call; `view` the presence its reader believes in | `Register` … `Unregister` follow `Handler.Events`; `HubRegister`, `HubUnregister`, `HubAnnounce` are `Hub.Run`; `Broadcast`, `DisconnectUserClients`, `CloseDone` the rest of the server |
| `PresenceFeed` | abstract specification: presence without connections, queues or goroutines | `online`, `announced` | a user comes or goes; the change is announced before the next |
| `BanEnforcement` | extends `SSEHub` with the ban check and `BanUser` | `banned` the table, `banCache` the verdicts, `check`, `other` and `banning` the points of requests | `CacheHit`, `CacheMiss`, `ReadBan`, `ReadBanFails`, `StoreVerdict` are `BanCheckMiddleware` in front of a stream, `OtherMisses`, `OtherReads`, `OtherFails`, `OtherStores` in front of any other request; `CreateBan`, `AnnounceBan`, `Disconnect`, `BanReturns` are `BanUser` |
| `MemberCache` | the hub's cache of one channel's members against the table | `members` the table, `cached`/`cache` the entry; `at`, `user`, `after`, `result`, `complete` the requests | `Join`, `JoinUntold`, `LeaveChannel`, `LeaveWorkspace` change the table; `CacheAdd`, `CacheRemove`, `Lookup`, `Query`, `Fill`, `Deliver`, `DeliverPanics` are the hub; `Restart` |
| `EventLog` | broadcasts, their storage and one client that reconnects | `storeQ`, `log`, `send`; `stream`, `from`, `replay` the handler; `seen`, `received` the client | `Serialize`, `Enqueue`, `Push` are `BroadcastToWorkspace`; `Store` the store loop; `HubRegister`, `Greet`, `Query`, `Replay`, `StartStreaming`, `Receive`, `Heartbeat` are the handler; `Connect`, `Disconnect` the client; `Expire`, `Crash` |
| `Workspaces` | one workspace: roles, one invite, the rows of its default channel | `role` is `workspace_memberships`, `general` `channel_memberships`, `inviteRole` and `useCount` the invite; `at`, `actor`, `target`, `value` the requests | `BeginRemove`, `CheckRank`, `ReadRole`, `CountOwners`, `Delete` are `RemoveWorkspaceMember`; `BeginLeave`, `CommitLeave` `LeaveWorkspace`; `BeginChange`, `ReadTarget`, `Demote`, `Assign` `UpdateWorkspaceMemberRole`; `BeginInvite`, `InsertInvite`, `ReadInvite`, `AddMember`, `IncrementInviteUseCount`, `Enter` the invite from its making to the default channel; `BeginJoin`, `BeginAdd` the other ways into that channel; `GiveUp`, `GiveUpHalfway` a failed statement |
| `ClientStream` | a client's stream, and presence and ban as its screen shows them, against one server | `online`, `log`, `kept` the server's presence, events and stored events; `handler`, `attached`, `ended`, `since`, `buffer` one call of `Handler.Events`, its place in the hub and its `Send` channel; `wire` what it has written; `source`, `timer`, `lastId` the `SSEConnection`; `hook`, `active` the effect and the app's state; `view`, `banShown`, `me` the stores and `/auth/me`; `platform` web or mobile | `Accept`, `Greet`, `ReplayMissed`, `WriteNext`, `HandlerReturns` are the handler, `HubAdds` the hub's `Run`; `StreamBreaks`, `StreamEnds`, `Forbidden`, `Unauthorized`, `Opened`, `ReconnectTimerFires`, `Receive` are `SSEConnection`; `RunEffect`, `CleanUp`, `AppStateChanges` its owner; `BanUser`, `PeerComes`, `Crash` and others the server |
| `MessageCache` | one root message, its replies and reactions in two caches | the message rows of the server; `unsent` what its handlers have committed and not broadcast; `wire` the events on their way; `list`, `thread` the caches; `pending` the mutations; `lf`, `tf` the fetches | `HandleNewMessage`, `HandleMessageUpdated`, `HandleMessageDeleted`, `HandleReactionAdded`/`Removed` are `cacheUpdaters.ts`; `Ask*`, `*Success`, `Rollback` the hooks; `Commit*` the server's transactions, `Reread`, `Announce`, `Untold` the rest of its handlers |
| `MessagePages` | the pages of a channel's history | `pages` with the parameter each was fetched with, `isDetached`, the fetch under way | `NextPageParam`, `PreviousPageParam`, `HasMore` and `Page` are the cursors of client and server; `Fetch*`, `Jump*`, `HandleNewOnFirstPage`, `MissMessage` and eviction |
| `ChannelList` | one row of the channel list | `chan`, `mine`, `log` the server; `stream` the changes and their events on their way, with a place for each change that sends none, and `sent` how many are broadcast; `row`, `fetch`, `reqs`, `timer`, `viewing` the client, `rendered` what its page last showed | `Handle*` are `cacheUpdaters.ts`; `ClickStar`, `Click`, `AutoMarkAsRead` and the answers `ReadSucceeds`, `UpdateSucceeds`, `ChangeSucceeds`, `StarSucceeds`, `StarFails` the hooks; `Render` the page and its effect; `ServerFinds`, `ServerMarks`, `ServerDoes`, `Announce`, `ServerAnswers` the server's handlers; `Elsewhere` what other users and devices do |
| `TypingIndicator` | one typist and one reader, second by second | `sentAge`, `stopIn`, `stopFor` the references of `useTyping`; `expires`, `sweepIn`, `watching`, `badge` the store and its subscribers; `wire` the requests | `OnTyping`, `StopTimerFires`, `OnStopTyping`, `SwitchChannel`; `Arrive`, `Lose`; `SweepFires`, `Watch`, `ToggleBadge`, `ClearPresence`; `Tick` |
| `MC*` | instances for TLC | | |
| `*Proofs` | theorems | | |

A step of a model is what one goroutine does without letting another see
anything in between: one SQL statement, one critical section of `Hub.mu`, one
channel operation.  What is read in one step and used in a later one is in a
variable of its own, so every stale read of the code is a stale read of the
model.  History variables (`posts`, `reclaimed`, `announced`, `overtaken`,
`early`, `dropped`, `late`, `unchecked`, `fresh`, `freshCache`, `freshOther`, `astray`,
`excused`, `missed`, `owed`, `deleted`, `stale`, `joined`, `peak`, `strayed`, `refused`,
`blame`, `counted`, `skewL`, `skewT`, `lost`, `skipped`, `skewed`, `dipped`, `age`,
`watched`, `prompt`, and the marks `why` and `crossed` of an event) are read by no guard;
they are what the properties are about.

Data are abstract: an id is a model value or a number that only order matters
for, an event of the hub is a presence change or "other", the time of a row is
whether it is due, its age whether it is over five minutes.

`BanEnforcement` composes two components: its actions call those of `SSEHub`.  It
is proved to implement `SSEHub` (`BansImplementHub`).
`SSEHub` is shown to implement `PresenceFeed` (`PresenceIsFed`), and
`ScheduledMessages` to implement `Outbox` (`OutboxKept`), by TLC and by proof.
For the outbox, `Stage` maps a row, its holders and its history to one word: a row
in "sending" that somebody holds is on its way, one that nobody holds is stranded,
one deleted under its holder is recalled.  A message that was sent twice, that is
queued after it was sent, or that is gone though neither sent nor deleted by its
user is "astray", for which the outbox has no step.  Once a row is reclaimed during
or after a send (`SentOnce`, section 4) the outbox promises nothing more.

## 3. Runs

| Run | Question | Distinct states |
| --- | --- | --- |
| `scheduled` | With a user's requests, the worker, an attachment and two crashes, failed statements, panics or slow sends: sent at most once unless reclaimed, nothing lost, queued means unsent; is the whole an outbox, and does a due message settle (under `FairSpec`)? | 370 k |
| `hub_streams` | Two tabs and a second user: panics, closed channels, presence, refinement of the feed | 467 k |
| `hub_ends` | Do disconnected streams end and finished ones leave the registry, with channels of capacity one (under `FairSpec`)? | 64 k |
| `bans` | By which ways does a stream outlive the ban of its user, the second of two included? | 4.2 M |
| `member_cache` | Is a channel's entry exact, but for recorded causes? | 2.1 M |
| `event_log` | Is every event accounted for, whatever fails? | 1.6 M |
| `workspaces` | Do owners go only by their own hand or by a race; do invite uses and the default channel follow the membership? | 1.3 M |
| `message_cache` | Do the channel's list and the thread come to show what the server has, when broadcasts, own answers, refetches and rollbacks come in any order, but for recorded causes? | 6.1 M |
| `client_stream` | Is there always exactly one way back to a stream, or a refusal; is presence wrong only for four named causes; does a client that may have its stream get it (under the fairness of `Spec`)? | 1.0 M |
| `typing` | Does every ghost go, and does one who types on stay on the screen? | 2.7 M |
| `message_pages` | Are the gaps between the pages of a history only known ones, and can the client go on to older messages exactly when there are some? | 2.7 M |
| `channel_list` | Does the row follow the server but for recorded causes, does a star settle, does an open channel get marked as read? | 4.8 M |

All of them hold.  Every property has a mutant in `PROJECT.json`: a plausible
bug in one definition that makes TLC report the property.

Four type invariants (`TypeOK` of `ScheduledMessages`, `ClientStream`,
`MessageCache` and `ChannelList`) hold on the same instances and are not part of a
run: they say what the variables contain, and the runs keep to what could go wrong.
That of `ScheduledMessages` is proved (`TypeCorrect`).

"But for recorded causes" means a history variable that is set where the code is
known not to account for something: `astray` in `MemberCache`, `skewL` and
`skewT` in `MessageCache`, `blame` in `ClientStream`, `lost` and `skipped` in
`MessagePages`, `skewed` and `dipped` in `ChannelList`.  Each definition that sets one names
the cause, and a sound fetch clears it, so that these properties say: nothing
else makes the two differ.  Two were put right by proofs that would not go
through.  In `MessagePages` a cause was missing: a message whose event comes after a
fetch or a jump that already shows newer ones is put in front of them, and those
between are passed by (`PassedBy`).  In `MessageCache` a rollback to a list that had
not changed set `counted` back although the replies it stands for had changed, one
deleted and one posted, so that a deletion handled twice went unblamed.

## 4. What the code does not meet

Statements of the documentation, of a comment or of a handler's own promise that
the code does not keep.  The first group is stated as a formula beside the module's
properties; put into a configuration, TLC finds the behaviour.  No run carries
them: the runs are about what does hold.

* **`SentOnce`** (`ScheduledMessages`): a scheduled message is sent twice.  An edit
  reads the row as pending, the worker claims it, the edit writes it back as
  pending (`Repository.Update` asks for nothing but the id), and a second claim
  succeeds.  This needs no failure at all.
* **`OnlineUsersConnected`** (`SSEHub`): a client that is never removed.  A
  connection that ends at once leaves an entry in both `register` and
  `unregister`; the select may take the latter first.  The user is then online for
  ever, and the next broadcast sends on a closed channel and panics; in `Hub.Run`
  and in the goroutines that notify and fetch link previews nothing recovers it.
* **`MembersReceive`** (`MemberCache`): after a restart, the first join of a channel
  makes an entry of the joiner alone, which is never refreshed.
* **`MissedEventsReplayed`** (`EventLog`): the greeting has an id greater than those
  of the missed events; if the connection breaks before the replay, the client
  asks next for what follows the greeting.
* **`AlwaysAnOwner`** (`Workspaces`): of two owners one removes herself by
  `RemoveWorkspaceMember`, which counts the owners and deletes the row in
  statements of their own; in between the other leaves.  Only an owner makes an
  owner, so there will never be one again.
* **`EditsReachEveryCopy`** (`MessageCache`): neither `handleMessageUpdated` nor
  `useUpdateMessage` ("Update in all message caches", `shared/hooks/useMessages.ts:236`)
  touches a thread's cache; an open thread shows the old text of an edited reply.
* **`UnbanReachesClient`** (`ClientStream`): a 403 stops the client for good
  (`apps/web/src/lib/sse.ts:63`), so the event that lifts the ban has no stream to
  arrive on, and the toast "You have been unbanned"
  (`apps/web/src/hooks/useSSE.ts:180`) is never shown.
* **`DetachedUntilNewerLoaded`** (`MessagePages`): a live message goes to the front
  of the first page even when that page is far from the live edge; its id becomes
  the cursor for newer messages, the gap is never filled, and detached mode ends
  as if nothing were missing (`apps/web/src/hooks/useVirtualMessages.ts:60`).

### Further disagreements met while modelling

* A `DELETE` that passed its check before the claim is acknowledged, and the
  message is sent all the same; the worker sends the copy it listed at the start
  of its run, so an edit made meanwhile is lost although the API says that
  messages "can be edited or cancelled before delivery"
  (`server/openapi.yaml:2082`).
* An edit in flight writes back the attachment list it read and restores the
  reference to a file deleted meanwhile (`internal/scheduled/repository.go:193`).
* A send that panics after the message was created leaves the row in "sending";
  it is sent again five minutes later.
* A presence change that falls between a client's registration and its
  `presence_initial` may arrive twice; one that falls before the registration and
  after the snapshot never arrives (`apps/website/src/docs/notifications.md:88`).
* The 30 seconds of grace before a user is offline
  (`apps/website/src/docs/notifications.md:84-86`) are implemented by the presence
  manager, which is never told of connections; the hub announces at once.
* A ban "removes the user's membership"
  (`apps/website/src/docs/moderation.md:16-25`); `BanUser` keeps it and relies on
  the check.  `InvalidateBanCache` has no caller, so a verdict cached before the
  ban lets a client that reconnects within 30 seconds in again; a verdict read
  before the ban may even be stored after it; and when the database fails, the
  check lets everyone through (`internal/server/router.go:212-221`).  Nothing ends
  such a stream if it enters the registry after `BanUser` has looked there
  (`OnlyLateStreamsEscape` says that it takes both, and that there is no other way).
* Two overlapping `DisconnectUserClients` of one user may close `Done` twice.
* The web client makes a new `EventSource` after each error and so never sends
  `Last-Event-ID`; only the mobile client does.  Of more than 100 missed events
  the rest are never replayed (`apps/website/src/docs/security.md:109`).
* `getChannelMembers` caches the result of a query that failed.
* When the channel cannot be read again after `AddMemberToDM` has committed
  (`internal/channel/repository.go:569-573`), the handler returns and the new member
  is never put into the hub's entry.  A broadcast that panics in `LeaveWorkspace`
  (`internal/handler/workspace.go:299-303`) skips `RemoveChannelMember` for its own
  channel and for the rest.
* `RemoveWorkspaceMember` leaves channel memberships and streams as they are;
  `LeaveWorkspace` cleans them up.
* Two requests that use an invite at once are both checked before either is
  counted, and an `AcceptInvite` that fails after its first write is not counted
  at all: an invite for one can bring more (`InviteBringsItsUses` says how many).
* A user who is promoted to owner while a request about her is under way can be
  removed or demoted by somebody else
  (`apps/website/src/docs/permissions.md:56`).
* Handlers commit, read again and broadcast in steps of their own
  (`internal/handler/message.go:406`, `411`, `466`), an edit with a fetch over the
  network in between: of two changes of one message the older row may be broadcast
  last, and stays in every cache.  A send whose attachments cannot be linked has
  stored the message and broadcasts nothing (`internal/handler/message.go:216-218`).
  Removing a reaction, and an edit, are acknowledged without an event when the channel
  cannot be read.
* Reaction events do not reach a thread's cache; a reaction made in the thread panel
  has no rollback, one made in the list restores the whole list as it was; the
  answer to an edit carries no reactions and replaces the cached message.
* The greeting sets who is online and drops nobody
  (`shared/stores/presenceStore.ts:74`): a peer who left while the stream was down
  stays online.  On mobile the replay comes after the greeting, so an old change
  may override it.  A peer who comes after the handler has read who is online and
  before `Run` has taken the stream from its queue, or while the stream's buffer is
  full, is not shown.
* After a refusal the "Reconnecting" state stays; with an expired session the web
  client retries for ever.
* `useTyping` keeps its references when the channel changes: one who types on in
  another channel clears the first one's stop timer, the stop goes to the new
  channel only, and the reader of the first waits for the expiry.
* A jump replaces the pages, and a fetch that was under way then replaces the jump's
  page; what arrived while any fetch was under way is overwritten by it.  A refetch
  ends at a page that was fetched towards the newer end and has no more there.
* `MarkMessageUnread` sends `channel.read`, and `handleChannelRead` sets the count
  to zero on the user's other clients.  The server counts the user's own messages
  as unread and replies sent to the channel not at all, the client the other way
  round; a deletion lowers the server's count only.
* `MarkChannelRead` reads the latest message, writes it down and broadcasts in three
  steps: a message that is posted in between counts on the server and not on the
  client.  Two updates of a channel that commit in one order and broadcast in the
  other leave every client with the older type.
* A channel made private is announced to its members alone, so the filter for others
  in `handleChannelUpdated` (`shared/sse/cacheUpdaters.ts:373-376`) is never needed
  and they keep the row.  One who is added to a channel by somebody else is not
  told; nor are a user's other clients when she leaves or stars one.
* The late answer to mark-as-read sets a count to zero that newer messages have
  raised; a mark-as-read that fails is not tried again while the count stays; a count
  that goes to zero and back before the page is rendered again does not arm the timer
  (`apps/web/src/pages/ChannelPage.tsx:163`); one
  who leaves, loses the answer and is added again keeps the star she had on her screen.

## 5. Bounds

Bounds are constants, named in the module that declares them.

* `MaxFaults`, `MaxEdits` (`ScheduledMessages`): one message, one edit, two
  faults of any kind; one handler, used again and again, beside the worker.  All
  interactions in the code are between rows of one id, and a double send needs
  one stale writer and a row claimed twice; what two handlers do to each other is
  left to the theorems, which hold for any number.  `MaxRetries` is 2 instead of 3, so that
  giving up is within reach.
* `QueueCap`, `BufferCap` (`SSEHub`): 2, or 1 where being full is the point (the
  code has 256 and a configured value).  Two tabs of one user and one of another
  give first, middle and last connections; a connection is used once, and a
  reload is the second tab.  `MaxEvents`, `MaxKicks`: 1 or 2 events beside
  presence changes, which are not bounded.
* `MaxBans`: two bans of one user, so that a ban follows one that was lifted; two
  events, so that both are announced.
* `MemberCache` has no bound but its sets: two users and three requests, of
  which any number are finished and begun anew.
* `MaxUses`, `MaxFaults`, `AskedRoles` (`Workspaces`): an invite for one use and
  one join given up halfway.  Roles are asked for as "owner", which an invite turns
  into "member", and "admin", which an owner may give and an admin may not; members
  and guests are in the initial states, which are all that have an owner and the
  default channel in order.  Two users and two requests, used again and again: with
  two owners each race in the code is between two requests.  One invite.
* `MaxId` (`EventLog`): five ids: one to begin with, and enough for a greeting
  between events; `ReplayLimit` is 1 in place of 100, `StoreCap` and `BufferCap` 1.
* `MessageCache`: one root, one reply that is also sent to the channel, both the
  user's own, so that every way into both caches is open to them; `MaxOps` three
  changes asked of the server, so that two may cross, be told in the wrong order or not
  at all beside a third, `MaxPending` one mutation and `MaxFetches` one fetch.  An own
  answer, its event and a refetch fit in, in any order.
* `ClientStream`: one peer, `ReplayLimit` and `BufferSize` 1, a log of `MaxEvents` 3: what was
  there before and two events (goes, comes, or the other way round),
  `MaxFaults` 2 breaks, network errors or restarts, `MaxMounts` 2 so that a clean-up is
  followed by a new effect.
* `MessagePages`: pages of 2 in place of 50, `MaxPages` 2 in place of 20 (an eviction
  needs one page more), a backlog of 5 messages and 7 in all: three pages and two
  live messages.
* `ChannelList`: `Habits`: a behaviour has two changes of the server (three, if all
  that happens is reading and posting), and its requests are those of one set, any
  number of times but one of a kind at a time; the state space of all of them at once
  is out of reach, and the theorems have no such bound.
* `TypingIndicator`: two channels, requests one second late at most, two under way;
  the throttle, delay, expiry and sweep have the code's values, in seconds.

Symmetry is used for requests, broadcasters and tabs, in safety runs only.
`CHECK_DEADLOCK FALSE` is set for the hub: when all connections have come and
gone, or a panic has ended the process, it has nothing left to do; for the
workspace, which its last member can leave; and for `ClientStream`, `MessageCache`
and `ChannelList`, which rest when their bounds are used up and everything has been
answered.

## 6. Fairness

* `ScheduledMessages!Fairness`: the scheduler calls `ProcessDue` every 30
  seconds for ever, one call after the other (`scheduler.go`), so the worker is
  weakly fair; a goroutine in the middle of a send or a handler goes on; five
  minutes pass over any row.  Users, faults and the loss of access are under no
  obligation.  Faults are finitely many: with a database that fails for ever
  nothing settles.
* `SSEHub!HubFairness`: Go's select picks at random among the ready cases, so a
  registration or an unregistration that is ready again and again is taken
  (strong fairness); a goroutine blocked on a full channel gets its turn (strong
  fairness of `Register` and `Unregister`); all else is weak fairness of
  goroutines that are runnable.  Nobody is obliged to connect, to hang up or to
  broadcast.  `Alive` restricts it to a process that has not panicked.  `FairSpec`
  is the hub under it.  `FairBanSpec` is the same with bans, and no more: no ban,
  check or expiry of the cache has to happen; it implements `FairSpec`
  (`FairBansImplementHub`), so what `hub_ends` checks holds with bans too.
* `ClientStream`: weak fairness of the server's acceptance (`Accept`) and of the end of
  a stream that the server has closed (`StreamEnds`), of the answers to a connection
  attempt (`Opened`, `Forbidden`, `Unauthorized`), of the
  delivery of what is on the wire, of an armed timer and of the fetch of `/auth/me`.
  Breaks and crashes are finitely many, and nobody has to open the app, ban or lift
  a ban; `Reconnects` is only about a client that in the
  end is active and allowed for good.

## 7. Theorems

TLAPS proves the following for all values of the constants, from the
assumptions named in the modules (`SchedAssumption`, `HubAssumption`,
`BanAssumption`, `MemberAssumption`, `LogAssumption`, `WorkspaceAssumption`,
`TypingAssumption`, `ListAssumption`, `ClientStreamAssumption`,
`MessageCacheAssumption`, `PagesAssumption`) and nothing else.

* `ScheduledProofs`: `TypeCorrect`, `AtMostOnce`, `NothingLost`,
  `QueuedRowsUnsent`, `OutboxImplemented`, `EndsAreFinal`.  At most one chat message is not inductive: it says
  nothing of a send under way.  The invariant `IInv` adds, for each row that was
  not reclaimed, that it has one holder, that a held row is in "sending" or gone,
  that a posted one is too, and that the holder stands after the post exactly if
  there is one (`ClaimInv`).  Each action is looked at for the row it touches;
  `ClaimFrame` deals with all the others.  For the refinement `IInv` also says that
  whoever is about to delete has seen the row (`DeletesBorn`), and keeps every
  message on a stage of the outbox (`NeverAstray`).  Each action turns one message
  (`LedgerTurn`), reclaims some (`LedgerReclaim`) or leaves all where they are
  (`StageFrame`, `LedgerStays`).  `EndsAreFinal` is read off the outbox alone: sent and
  withdrawn are the ends of a message.
* `HubProofs`: `HubTypeCorrect`, `OnlyOvertakenPanics`, `StreamsStayOpen`,
  `PresenceFollowsRegistry`, `HubImplementsFeed`.  `HubInv` ties the point of
  each handler to the queues: before it registers a client is in neither queue
  nor registry, until it has left it is not closed, once registered it is not
  queued again.  The feed needs what the pending announcement will make true
  (`AnnouncedInv`).
  `ViewsConverge`, that a reader ends up seeing who is online, needs an invariant
  about the contents of every buffer (`BuffersOK`): the last thing in a buffer
  about a user is the last that was announced of her, so a buffer that says
  nothing of her has a reader who knows (`ReaderKnows`).
* `HubProofs`, bans: `BansImplementHub`, `BansKeepHub`, `BanTypeCorrect`,
  `BansReachWhatTheySee`.  The composition implements the hub alone
  (`BanStepIsHubStep`): the check only delays or refuses a connection, and `BanUser`
  comes in by operations the hub has anyway.  All that is proved of the hub,
  its refinement of the feed included, therefore holds with bans too, where no run
  checks it.  The hub's part of
  each step is typed by the lemmas about the hub; `Reached` follows one client
  through the three stages of `BanUser`.  For the other half of
  `OnlyLateStreamsEscape`, `VerdictsAreOld` says of every place where a verdict may
  be (a request, another request, the cache) that while a ban is in force none that
  was read since it says "clear".
* `HubProofs`, member cache: `MemberTypeCorrect`, `CacheExact`.  `IInv` adds
  that what a request has read and not yet entered agrees with the table
  (`ReadsFresh`), which is what a join or leave in between would break if it did
  not owe an update; a join that will never be told breaks it, and is a cause.
* `EventLogProofs`: `LogTypeCorrect`, `NothingElseLost`, `LogInvariant`.  `IInv`
  adds that ids are in order, that what has passed the queue is stored, queued or
  excused, and that a replay starts before everything that is still to come.
* `WorkspaceProofs`: `WorkspaceTypeCorrect`, `OwnersLeftToRacesAlone`,
  `OwnersStandDownAlone`, `InviteUsesBounded`, `ChannelBelongs`, `MembersReach`.
  `IInv` says for each point of a request what the request has found out about
  its target (`Fresh`), and that this still holds unless another request has
  changed a role since (`stale`): a role written makes every other request under
  way stale, so whoever is not stale acts on the truth.  The uses of the invite
  need how many requests are between the check and the count (`UsesCounted`).

* `ClientStreamProofs`: `StreamTypes`, `StreamHasOneWayBack`,
  `StreamPresenceErrsForACause`.  `OneWayBack` is inductive once the app's own flag
  agrees with its state (`WayInv`).  For presence, what a peer will
  be shown as when all that is written or buffered has been read (`Shows`) is what the
  server has, or one of the four causes is on record (`PeerInv`); what is in the buffer
  of a handler that has not greeted yet is kept apart (`BufferTrue`), since the
  greeting will be written before it; nothing but the mark of the connection comes
  before a greeting (`GreetingFirst`).
* `MessageProofs`, the caches: `CopiesAreTidy`, `NothingTwice`.  An event, an
  answer and a refetch each write a whole list, and a rollback puts an old one
  back, so the invariant is about every list that may become a cache
  (`CopiesInv`): the answers under way and the lists kept too are free of
  duplicates.
* `MessageProofs`, the pages: `PagesInvariant`, `PagesTypes`, `HolesHaveCauses`,
  `OlderStaysReachable`.  The window is a chain: each page shows an interval of
  ids, but for messages with a cause, and begins where the next older one ends
  (`ChainOK`); the newest page ends at the live edge or knows that it does not
  (`EdgeOK`).  The pages a fetch set out from have the same invariant, for the
  server as it was read (`FetchOK`), and what a page says of older ones stays true
  when newer ones come (`Older`).  A refetch goes through the pages one by one; it
  is a recursive function, whose existence and course are shown by looking for the
  least place where they fail (`LeastOf`), in place of the library's induction
  theorems.
* `TypingProofs`: `TypingTypeCorrect`, `GhostsGo`, `TypistStaysShown`.  `IInv` says
  that an entry's age and its time left add up to the expiry (`ClocksAgree`), that
  the next sweep is no further than the interval (`SweepIsNear`), and that in a
  prompt spell of typing the entry outlasts first the throttle and then the stop
  timer (`SpellIsCovered`): this is where the four constants meet.
* `ChannelProofs`: `StarsSettle`, `UnreadGetsMarked`, `RowsFollow`.  `MarkIsOnItsWay` is inductive
  by itself, given the fields of the rows (`ShapeInv`): each way to show a row is
  compared with what was rendered.  For stars `StarInv` adds that a copy of the row, cached,
  fetched or kept for a rollback, is starred only with a membership that the server
  still has (`CopiesOK`), and that a copy with the wrong star has a star under way
  whose answer will ask for the list again (`StarIsOnItsWay`).  Neither needs what
  the counts are.  `RowsFollow`, that the row is the server's when all has come in,
  is about a history: the rows that the server had before each entry of the stream
  (`FollowInv`, the `h` of `HistoryOK`).  Each is what the handler makes of the one
  before (`Past`), unless their entry skews, as those do that were broadcast in
  another order; the cached row is the oldest of them, but for a reading position,
  a count and a type that something on its way will put right (`RowOK`: `Broken`,
  `CatchesUp`, `TypeComes`); a fetch and an answer remember which of them they read
  (`ListFetchOK`, `ReadOK`, `UpdateOK`).

For most proofs TLC checked the strengthening first, on the instances above.

Only model-checked: `DueMessageSettles`, `DisconnectEndsStream`, `GoneIsForgotten`,
`Reconnects` (liveness is beyond the prover), `ListConverges` and `ThreadConverges`.

## 8. Not modelled, and why

Creation and settings of a workspace, invites without a limit, and the direct
messages a new member is given; the wording of events and, in `SSEHub`, the
heartbeat; several workspaces and channels at once (they share only the lock, except
that a channel event goes to one workspace);
notifications to one user, which are never stored; the limits on the number and
time of scheduled messages; the order in which listed rows are visited (any
order).  Panics after a scheduled row was deleted or settled end the worker's run
early and change no row.  `MessagePages` takes the order of ids for that of the commits:
ids are made before the row is inserted, so two messages of one instant may be listed in
the other order.  `TypingIndicator` counts whole seconds, and its timers fire in time.
A shutdown is a crash: it waits for tasks, and a stop
of the server leaves what a crash leaves.  The remaining components are listed in
`PROJECT.json`.

Of the clients: pins, link previews, mentions, search, the lists of all unreads and
threads, DM suggestions, the notification count, thread subscriptions, signed addresses of files, drafts and
scheduled messages as lists (one request each, refetched after it), and stars made on
another device.

Most of the repository's TypeScript is outside the reach of a state model and stays
there: the types generated from the API description, the emoji tables, and the React
components and screens, which render what the caches hold and keep local form state.
The modules cover the code that decides what is in those caches.

## 9. Plan

1. **Composition**: `ClientStream` with `MessageCache`, so that the gaps of a
   reconnection are those that the caches see.
2. **Channels and direct messages**, the server's side: the hash of a DM and its unique
   index, a member added to a DM while the DM is opened, the conversion to a group.
3. **Workspaces**, the rest: settings (`UpdateWorkspace` reads them, changes some
   and writes all), invites without a limit, the order of workspaces.
4. **Notifications**: the choice of stream, push or pending mail, and the digest
   worker against users who come online.
5. **Sessions and tokens**, **rate limiter**: small modules; the limiter against a
   reference definition.
