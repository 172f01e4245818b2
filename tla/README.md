# A TLA+ model of chat-py

This directory holds TLA+ specifications of the chat-py packages (`packages/*`), the TLC
configurations that check them on small instances, and TLAPS proofs of the properties that matter
most, for every value of the constants.  `PROJECT.json` is the index: components, runs, the lines of
code each definition stands for, hazards, findings, theorems.

- [The system](#the-system)
- [What can go wrong](#what-can-go-wrong)
- [The modules](#the-modules)
- [The runs](#the-runs)
- [Fairness](#fairness)
- [The proofs](#the-proofs)
- [What the runs found](#what-the-runs-found)
- [What is left out](#what-is-left-out)
- [The plan](#the-plan)

## The system

A bot is one or more Python processes.  Each has a `Chat` with one adapter per platform and one state
adapter; all processes of a bot share the state backend.  Everything in a process runs on one asyncio
event loop, so code between two `await`s is atomic within a process, and nothing is atomic across two
`await`s or two processes.

| Part | State it keeps | Operations | Talks to |
|---|---|---|---|
| `chat/chat.py`: message pipeline | none of its own between messages; dedupe marks, locks, history, subscriptions are in the backend | `process_message`, `handle_incoming_message`, `_handle_drop`, `_dispatch_to_handlers` | called by adapters as a background task; calls the state adapter and the bot's handlers |
| `chat/chat.py`: lifecycle | `_initialized`, `_init_task` | `handle_webhook`, `initialize`, `shutdown` | adapters' `initialize`/`disconnect`, the state adapter's `connect`/`disconnect` |
| `chat/chat.py`: other events | modal contexts in the backend | `process_action`, `process_reaction`, `process_slash_command`, `process_modal_submit`, `process_modal_close`, ... | handlers, without a lock |
| `chat/thread.py`, `channel.py` | caches of one object (subscription context, channel, name) ; thread state in the backend | post, stream, edit, `set_state`, `subscribe`, message iterators | adapter, state adapter, message history |
| `chat/plan.py`, `postable_object.py` | the task list, the message it is bound to, the chain of queued edits | `on_posted`, `add_task`, `update_task`, `reset`, `complete`, `_enqueue_edit` | adapter |
| `chat/message_history.py` | one list per thread and channel, in the backend | `append`, `get_messages` | state adapter |
| streaming: `from_full_stream.py`, `streaming_markdown.py`, `_remend.py`, `ThreadImpl._fallback_stream` | text so far, a held-back table, fences; the message being edited | push, render, finish; placeholder, editor task, final edit | adapter |
| state adapters: memory, redis, ioredis, pg | subscriptions, locks, cached values, lists, queues, each with an expiry | the `StateAdapter` protocol (`chat/types.py` 410-447) | dictionaries; a redis server; a database |
| platform adapters: Slack, Discord, Google Chat, GitHub, Linear, Teams, Telegram, WhatsApp | tokens, bot identity, caches, socket or polling tasks | `handle_webhook`, `initialize`, `disconnect`, posting and fetching | platform APIs; `Chat.process_*` |
| formatting: markdown, cards, JSX, modals, emoji, AI conversion, serialization | none | conversions | each other |

**Interaction.**  A webhook reaches `Chat.handle_webhook`, which awaits the initialization and hands
the request to its adapter; the adapter verifies and parses it and calls `process_message` (or another
`process_*`), which starts an asyncio task and returns, so that the platform gets its answer.  The task
marks the message in the backend (`dedupe:{adapter}:{id}`), appends it to the histories of its thread
and channel, takes the lock of thread or channel, reads the subscription, runs the handlers of one
route and releases the lock.  Handlers call back into threads, plans and state, and so into adapter
and backend.

**What makes a part correct.**

- *Message pipeline*: at most one handler run per lock key while locks are valid; one handling of a
  message per dedupe window although platforms redeliver; routing by the subscription that holds under
  the lock; history complete before the lock is asked for; locks that leave the backend only by their
  owner, their TTL or force; every task ends.
- *Lifecycle*: concurrent first webhooks share one initialization; nothing is handled before everything
  is up; shutdown reaches every adapter; what is shut down stays down; no call hangs.
- *Plans*: at most one task in progress; edits of one message in order and one at a time; the message
  shows the last mutation once the queue has drained; a failing edit holds nobody up.
- *State adapters*: one contract, whatever the backend: exclusive locks with a TTL, values, lists and
  queues that run out, newest entries kept at the limit, each queued entry handed out once.
- *Threads and channels*: iterators miss no message and repeat none; what was posted can be edited.
- *Streaming*: the message ends as what was streamed, but for Markdown that ends open and is healed, whatever
  fails, and no task outlives the post.
- *Events and modals*: the handlers run that were registered; a submit comes back to where its modal was
  opened, with the values that were filled in.
- *Cards*: what a card says is shown, what it offers can be pressed and comes back as it was given.
- *Platform adapters*: an answer lands where the event was; follow-ups find the thread; each message is
  handled once and the bot's own never; one polling loop, which loses no update; tokens that stay good.

## What can go wrong

The behaviours that are hard here, and hard to test: tasks of several processes that interleave at every
`await`; platforms that deliver a message again; locks that expire under a running handler; calls of the
backend that fail, or whose answer is lost; a process that dies half-way; callers that are cancelled,
which asyncio passes on into the tasks they await; `gather`, which raises while its other coroutines go
on; initialization that races shutdown; entries that have run out but are still stored; operations of
several statements on a shared database.  `PROJECT.json` lists them line by line under `hazards`, each
with the properties that would catch it, or with the reason why none does yet.

## The modules

| Module | Models | How it is checked |
|---|---|---|
| `Dispatch` | `Chat.process_message` .. `_dispatch_to_handlers` (chat.py 518-542, 1005-1187), locks and dedupe keys as `set_if_not_exists` and `acquire_lock` make them | `MCDispatch`, `DispatchProofs` |
| `PlanEdits` | `Plan` and its edit queue (plan.py), posting (postable_object.py 94-120) | `MCPlanEdits`, `PlanEditsProofs` |
| `ChatLifecycle` | lazy initialization and shutdown (chat.py 195-260) | `MCChatLifecycle`, `ChatLifecycleProofs` |
| `StateContract` | the `StateAdapter` protocol as an abstract store (types.py 410-447) | the abstract side of three refinements |
| `MemoryState` | `MemoryStateAdapter`, whole | `MCMemoryState`, `MemoryStateProofs` |
| `SharedStore` | parameters and expiry that redis and the database have in common | through the next two |
| `RedisState` | `RedisStateAdapter`, whole; `IoRedisStateAdapter` by inheritance | `MCSharedStores`, `SharedStoresProofs` |
| `PgState` | `PostgresStateAdapter`, statement by statement | `MCSharedStores`, `SharedStoresProofs` |
| `SharedStores` | one of the two, with its clock and connections | `MCSharedStores`, `SharedStoresProofs` |
| `AdapterCalls` | what adapters hand to `Chat` (`process_*`) and pages of messages | with the next ones |
| `SlackAdapter`, `DiscordAdapter`, `GoogleChatAdapter`, `GitHubAdapter`, `LinearAdapter`, `TeamsAdapter`, `TelegramAdapter`, `WhatsAppAdapter` | one adapter each: thread ids, webhooks, posts, edits, reactions, pages, direct messages; and the platform it talks to, as far as the adapter uses it | through `Adapters` |
| `Adapters` | the eight behind the one interface that `Chat` sees | `Webhooks`, `Paging` |
| `Webhooks` | a chat on one platform: people write, events are delivered, a handler answers (chat.py 520-565, 713-915, 1001-1029) | `MCPlatforms` |
| `Paging` | `messages`, `all_messages`, a channel's `messages` and its `threads` over an adapter's pages (thread.py 227-297, channel.py 322-396) | `MCPlatforms` |
| `Streaming` | one post of a stream, on each of its ways (thread.py 356-520 and the adapters' `stream`) | `MCPlatforms`, `ChatTasksProofs` |
| `Cards` | a card, built, posted, edited and pressed (cards.py and the adapters' own) | `MCPlatforms` |
| `Events` | reactions, actions, commands, and modals with their stored contexts (chat.py 544-650, 716-976) | `MCPlatforms`, `ChatTasksProofs` |
| `TelegramPolling` | `start_polling`, `stop_polling`, `_polling_loop` (Telegram adapter.py 396-453, 1588-1646) | `MCPlatforms`, `ChatTasksProofs` |
| `TokenGrants`, `LinearTokens` | installations and tokens of Linear (adapter.py 526-708, 1436-1544) | `MCPlatforms`, `LinearTokensProofs` |
| `ChatTasks` | what runs on as tasks: polling, streams and events, with their constants | through `Platforms` |
| `Platforms` | the seven worlds of the platforms, one per behaviour | `MCPlatforms`, `PlatformsProofs` |

**Dispatch.**  A *delivery* is one call of `process_message`: a task with a program counter `pc`.  Each
action is what a task does between two awaits: `Receive`, `Accept`/`SkipDuplicate` (the dedupe mark),
`AppendHistory` (one list each, in either order, as `gather` allows), `Acquire`/`Conflict`/
`ForceRelease`/`LoseRace` (`_handle_drop`), `ReadSubscription`, `HandlerReturns`/`HandlerRaises`,
`Release`.  Faults are actions of their own: a call that raises, a call that takes effect and whose
answer is lost (the task fails, the lock or mark stays), an append that raises while the other goes on
by itself, a process that dies with all its tasks.  `Tick` lets time pass: keys carry what is left of
their TTL.  Tokens are fresh random strings, so the task stands for its token.  Handlers may change the
subscription of their own thread at any time (`ChangeSubscription`), and so may event handlers that take
no lock (`UnlockedEvent`).  `evicted`, `window` and `disturbed` are auxiliary: they record forced locks,
the time since the duplicate check and foreign changes, and no action reads them.  The strategies
"queue" and "debounce" fall back to "drop" in the code, and do in the model.

**PlanEdits.**  The model of a plan is its list of statuses and a version number; what a message shows
is the version rendered into it.  `AddTask`, `UpdateTask`, `Reset` and `Complete` change the list and
queue an edit: a runner that waits for the future before it (`RunnerStarts`, `Fire`), calls the adapter
(`EditSucceeds`, `EditFails`) and completes its own.  Callers are cancelled at each point where they can
be: before the runner's first step, while it waits (there `contextlib.suppress(BaseException)` swallows
the cancellation), while it edits.

**ChatLifecycle.**  `CallEarly`, `Resume`, the phases of one initialization task with a coroutine per
adapter under `gather`, cancellation of a caller (which cancels the shared task), and `shutdown` with its
collected errors.  After an error `gather` returns and the other adapters go on initializing.

**StateContract** is the abstract specification of a state adapter: every operation takes effect at
once, and time takes what has run out.  Where adapters differ on purpose or by nature, three constants
say which way: `Durable` (nothing is lost with a connection), `Blocks` (a value that has run out may
still keep `set_if_not_exists` from setting), `Lapses` (a queue may go with its last entry).  Where no
doc decides, it leaves the choice: a lock that has run out may be extended by its last owner or not.

**MemoryState** keeps what the code keeps: dictionaries whose expired entries stay until an operation
comes across them.  The refinement mapping shows of each entry how much time it has left; the mapping
of `KeepsContract` is at the end of the module.  **RedisState**: each operation is one command or script
of the server, run by any of several processes.  **PgState**: each SQL statement is a step and operations
of several statements (`get`, `append_to_list`, `enqueue`, `dequeue`) interleave with others' and may
stop half-way; the statement that dequeues is two steps, for under READ COMMITTED its subquery reads a
snapshot and its DELETE looks again.

**The adapters** are written as functions, for they do nothing between two awaits that others could see:
`HandleWebhook(e, self)` gives the calls of `Chat` that an event leads to and what the adapter keeps then,
`PostMessage` the place where a message comes to stand, `EditMessage`, `AddReaction` the set of messages
that are reached, `FetchMessages` a page.  A thread id is the sequence of what is put together in it, and is
taken apart as the code does it, with its ambiguities.  The first section of each module is the platform
(external): where messages may stand (`Spots`), which events one leads to (`Sent`, `Changed`, `Reacted`,
`Pressed`, `Commanded`).  What an adapter keeps, its own id or the parents of Discord's threads, is `self`;
Linear's and WhatsApp's configurations are chosen in `Initial`.

**Webhooks** puts one of them behind a chat.  `Write` lets a person write anywhere, `Deliver` delivers any
event of any message, at any time, again or never, and runs its task to the end (how tasks interleave is
`Dispatch`): own events are skipped, messages deduplicated, and the handler posts once.  `up` says whether
the platform answered Discord's question for the parent of a thread.

**Paging**: `Arrive` and `Delete` change the platform's messages between two pages (`NextPage`);
Telegram's pages come from the adapter's cache and WhatsApp's are empty, so that the history is iterated.
The threads of a channel are what Slack and Google Chat filter out of each page of its messages.

**Streaming**: `way` names the way of a post: the stream methods of the adapters, which edit by time and at
the end (Slack), also when the source fails (Discord, Google Chat), with each chunk (Teams) or post once
(GitHub, Linear, WhatsApp), and the fallback, with a placeholder or without.  Chunks come in kinds that the
renderer and the normalizer tell apart.  Post and editor task share renderer, last content and stop event;
each request may fail before or after it has taken effect.  `Remend` cuts the text at a link that does not end
and closes a marker that is open.  `Render`, the renderer's `render()`, is what it makes of the text without the rows held
back; `Finish`, its `finish()`, of all of it.  The last edit sends the raw text (`GetText`), but whether it is made at
all (`FinalNeeded`) depends on a comparison of two healed texts, `Finish` and the last content.

**Cards**: `Make` and `Nest` build a card, `Post` and `Edit` send it in one of four forms, and eight
converters put it into what the platform shows and what can be pressed.

**Events**: each event is a task; `Ran` says how a handler ended.  Storing a modal's context, opening the
view, getting and deleting the context are steps of their own, so that submits, closes, time-outs and
failing calls come in between.  Contexts are stored under a uuid; `Opening` is what one is drawn for, a task and how
many of its handlers have run, so no two openings share one.

**TelegramPolling**: flag, event and task are fields of the adapter, so calls and loops that overlap see each
other's.  The server numbers updates and forgets those below the offset of a request, also when its answer
is lost.

**LinearTokens**: one organization's installation, shared by processes, or the token for client credentials,
kept by one process.  The server may give no refresh tokens, fixed ones, or ones that are good for one use.
A handler runs in the context of the installation its webhook found, and refreshes that one (`GetInstallation`).
`TokenGrants` holds constants, assumptions, state and promise, so that the module that is checked can extend them.

**Platforms** holds seven small worlds, one per behaviour (`world`): webhooks, paging, streaming, cards,
polling, events, tokens.  They share no data, and each property speaks of its own world.  Polling, streams and events come to it through
`ChatTasks`, so that what is proved about them does not carry adapters and cards along.  Likewise **SharedStores**
holds redis and the database.  The MC modules give constants their values and define nothing else of the system.

Bounds have names: `MaxShutdowns`, `MaxPosts`, `MaxTime`, `Cap`, `MaxRows`, `MaxLog`,
`MaxMessages`, `MaxUpdates`, `MaxChunks`, `MaxParts`, `MaxEvents`, `MaxTokens`; they appear in guards only.

## The runs

| Run | Instance | Properties |
|---|---|---|
| `dispatch` | m1 delivered at two processes, m2 at the second; channel lock, history kept, LockTTL 1, DedupeTTL 2 | `TypeOK`, `LeaseExclusive`, `HandledOncePerWindow`, `RoutedUnderLock`, `HistoryComplete`, `OnlyOwnerReleases` |
| `dispatch_progress` | the same messages; the second process is configured "concurrent" and takes no lock; fairness | `LocksAreFreed`, `DeliveriesEnd` |
| `plan_edits` | three callers, one post, native edits | `TypeOK`, `OneInProgress`, `SettledShowsAll`, `OneEditAtATime`, `CallersReturn` |
| `plan_order` | three callers, one cancelled | `EditsInOrder`: violated |
| `lifecycle` | three webhooks, two adapters of which one may fail, a state adapter that may fail, one shutdown | `TypeOK`, `OneInitialization`, `ReadyWhenHandled`, `ShutdownReachesAll`, `CallsEnd` |
| `shutdown` | one webhook, two adapters, one shutdown, no failures | `StaysDown`: violated |
| `memory_state` | two threads, three locks, two values, TTLs of 1 to 3 ticks, five ticks, lists and queues up to 4 | `TypeOK`, `KeepsContract` |
| `shared_stores` | two processes on one store, either redis or the database; TTLs of 1 and 2 ticks, three ticks, four rows, max_length 2 | `StoresTypeOK`, `StoresKeepContract`, `PgListSettles`, `PgHandedOutOnce`, `PgQueueKeeps` |
| `pg_dequeue` | the same | `PgDequeueAtomic`: violated |
| `platforms` | the seven worlds, with the bounds below | `PlatformsTypeOK`; *webhooks*: `NoSelfReply`, `RepliesLand`, `FollowUpsFound`, `EditReaches`, `HandledOnce`; *paging*: `HistoryComplete`; *polling*: `NoUpdateLost`, `OneLoop`, `TasksEnd`; *streaming*: `FinalShown`, `TasksEnd`; *cards*: `CardArrives`; *events*: `ModalReturns`, `HandlersRun`; *tokens*: `TokensGood` |
| `history` | the paging world alone | `NewestFirst`: violated |
| `final_edit` | the streaming world alone | `RawTextShown`: violated |

What the properties of `platforms` show:

- `NoSelfReply`: an adapter that knows who it is answers neither its own messages nor its own reactions,
  by whatever event they come back.
- `RepliesLand`: the thread id made of an event leads the post back to where the event was.
- `FollowUpsFound`: who writes where the bot has answered is heard in the thread of the answer, the one
  that was subscribed to; a direct message that the bot opens reaches the person, and its answer is heard
  as a direct message.
- `EditReaches`: what was posted is edited, edited again and reacted to by its id, and nothing else is.
- `HandledOnce`: a message is answered once, though it may come by several events; none is dropped because
  of another's mark.
- `HistoryComplete`: over pages that change, no message that stays is missed, none comes twice, and the
  order is the promised one, for the adapters that page as they are asked; nor is a thread of a channel
  missed, unless a page had none.
- `FinalShown`, `TasksEnd`: when a post of a stream returns, its message shows all of it (`WholeShown`).  Markdown
  that ends open is shown raw, or healed when an edit or the first post came to that before; what healing leaves nothing
  of leaves the placeholder (`HealedShown`).  When a post has ended, however it did, its editor has (`EditorIsOver`);
  and it ends if its source does.
- `NoUpdateLost`, `OneLoop`, `TasksEnd`: no update is confirmed before it is processed; calls that do not
  overlap leave at most one loop; a stop returns.
- `CardArrives`: text is shown in order, controls come back with the ids and values they were given.
- `ModalReturns`, `HandlersRun`: see the hazards at chat.py 948 and 846.
- `TokensGood`: the installation that is left can be refreshed; who asks gets a token with time left.

Properties name the cases they leave out, where an adapter is known not to do it (`Served`, `InSession`,
`Orderly`, `OpensThread`, `TakesCard`, ...); what the code does there is listed under
[What the runs found](#what-the-runs-found).

**Why the bounds are enough.**  The interference in `Dispatch` is between two tasks on one lock key, and
between two deliveries of one message; a third delivery adds a successor that takes the lock which one
task lost and another wants.  With LockTTL 1 every point of a task may be the one where its lock runs
out; DedupeTTL 2 lets a mark outlive a lock.  In `PlanEdits` three edits are the least with an edit that
has both a predecessor and a successor; a fourth repeats the pattern, which the proof confirms.
In `ChatLifecycle` three callers are one that starts the task, one that shares it and one that comes
after; two adapters are the least for which one fails while another runs.  In the stores, one entry may
run out before, with and after another, and lists and queues overflow by one and by two.  Operations on
different kinds of data share nothing but clock and connection, so the MC modules explore one kind per
behaviour (`kind`); the store is chosen likewise.  No symmetry is used: constants tell the deliveries
apart.

On the platforms, four messages (`MaxLog`) are a message, its answer, a follow-up and the answer to that, or
two of each in different places.  Four messages in pages of two are two pages with one to arrive
and one to be deleted; `PerPage` 3 is above the limit asked for and below the number of messages.  Three
calls of start and stop are a start, a stop and one that meets either; three updates in answers of two are a
full answer and one to come.  Three chunks are one before, in and after an edit.  Three parts of a card nest
twice and overflow a row of `RowSize` 2 (5 in the code) and `ReplyButtons` 2 (3); contents and
controls are one of each kind that a converter treats in a way of its own.  Three events are one that opens a
modal and two for it; a context lives one tick, which may come anywhere.  `MaxOptions` 1 (10) has room for
one of two options.  Two callers refresh, install or are refused beside each other; three tokens are the
first and one of each of them; `Lifetime` 3 and `Buffer` 2 give a token with more left than the buffer, just
the buffer, less, and nothing.  The proofs of polling, streams, events, tokens
and stores confirm theirs for all sizes.

`CHECK_DEADLOCK FALSE` is set everywhere: each instance has finitely many calls, posts or ticks, and the
system may rest when they are used up.  That nothing hangs before is what `DeliveriesEnd`,
`CallersReturn`, `CallsEnd` and `TasksEnd` say.

Every property of a passing run has a mutant: a definition with a plausible bug (a lock acquired
whatever it holds, a release without a look at the token, a trim that counts expired rows, ...) under which the
same run finds it violated.  Mutants stand next to what they mutate, with a comment.

## Fairness

`Dispatch`: weak fairness of each task's own steps (the event loop runs every ready task, a backend call
returns or raises, the bot's handlers return) and of time.  Faults, crashes and redeliveries have none.
`PlanEdits`: weak fairness of each runner and caller (`Run`) and of the post.  Mutations, cancellation
and failure have none.  `ChatLifecycle`: weak fairness of resuming callers, of the initialization tasks
and of shutdown, once begun; no call need ever be made.  That handlers and adapter calls end is an
assumption on bot and platform: the code sets no timeout.  The stores have no liveness property.
`TelegramPolling`: weak fairness of each call's and each loop's next step: requests to Telegram have a
timeout, and the event loop runs what is ready.  Calls, cancellations and updates have none.  `Streaming`: weak
fairness of the source, of the post and of the editor; that the source ends or fails is an assumption on the
bot.  An edit of the editor need never fall due.

## The proofs

All eight proof modules are checked from nothing by tlapm, with Z3, Zenon and LS4 as its only backends.

- **`DispatchProofs`**: `TypeCorrect`, `Exclusion`, `OncePerWindow`, `RoutingIsCurrent`,
  `HistoryBeforeHandlers` and `ReleasesAreOwn`: all safety properties of the pipeline, for any number of
  deliveries, messages, threads and processes, any configuration and any TTLs.  Exclusion is not
  inductive; `LeaseBacked` is: a task whose lease has time left finds, in the backend, the entry of its
  key with its own token and the same time left.  Two leases on one key would be two entries.  It needs
  `LockersOnly` (only tasks that take locks hold a lease) and types.  Likewise `WindowBacked` (a dedupe
  key outlives the window of the task that set it) carries `HandledOncePerWindow`, `AppendsTracked` (in
  the history step, each list has the message or is still to get it) carries `HistoryComplete`, and
  routing rests on exclusion: whoever changes the subscription under a valid lock would be a second
  owner.  Assumed are only the types of the constants and TTLs above 0.
- **`PlanEditsProofs`**: `TypesKept`, `SingleTaskInProgress`, `SettledPlanIsShown`, `EditsAreOrdered`.
  The invariant says what a chain is: callers are numbered by their mutations (`TurnsDiffer`), the chain
  ends at the last of them (`ChainIsLast`), an edit not yet sent waits for the one right before it
  (`Linked`), and a sent one has nothing unfinished before it (`SentInTurn`).  The order holds while no
  caller is cancelled, and the run `plan_order` shows why the condition is there.
- **`ChatLifecycleProofs`**: `InitializedOnce`, `HandledWhenReady`, `NothingForgotten`, from an invariant
  that says that the running task is the one the chat knows (`RunningIsCurrent`), that what the current
  initialization has done still stands (`Standing`), and that a shutdown leaves up only what it has yet
  to disconnect or could not (`ClosingDown`).
- **`MemoryStateProofs`**: `ContractKept`: `MemoryState` implements `StateContract`, one lemma per
  operation, for any threads, values, TTLs and sizes; `TypeCorrect` is the only invariant it needs.  The
  heart is that an operation which drops expired entries shows nothing (an entry past its expiry and a
  missing one are both "nothing left"), and that trimming commutes with the mapping of a queue.

- **`SharedStoresProofs`**: `StoresContractKept`: every step of redis, by any of any number of processes, is one of
  `StateContract` or shows nothing, and so is every statement of the database that concerns subscriptions, locks and
  values; `StoresTypeCorrect`, `EntriesHandedOutOnce`, `ListsSettle`, `QueuesKeepEntries`.  The invariant of redis is
  that the key of a queue outlives its last entry: were it otherwise, the contract's queue would still hold what
  redis has dropped.  In the database rows are numbered once (`Numbered`: below the sequence, apart from each other,
  what a process has seen too), and what was handed out is no longer stored (`HandedOutOnce`).  Its lists are
  a `Stretch`: the rows stored are the newest ones without a gap, and too many of them only while somebody is still to trim
  or a trim was cut off.
- **`ChatTasksProofs`**, about the tasks.  *Polling*: `UpdatesAreProcessed` (`NoUpdateLost`) and `OneLoopRuns`
  (`OneLoop`), for any number of calls, loops and updates.  No update is lost because no loop, running or not, has an
  offset above what was processed (`OffsetsBacked`).  One loop runs because, while calls do not overlap, every
  running loop is the task that the adapter knows, the task that a stop awaits is that one too, and
  none runs beside a call that resets the webhook (`TaskIsLoop`).  *Streams*: `EditorIsOver` and `WholeShown`, two of the
  three parts of `FinalShown`, say nothing of a stream under way; what carries them is that the editor lives no longer than
  the post that joins it (`EditorInTime`), and that once the last content sent is the whole text, perhaps with a marker
  closed, the message shows it, and the renderer has nothing else for the editor to send (`LastIsShown`): so the post may
  skip its final edit.  That rests on two facts about healing: a text healed is no longer than the text but for one marker, and a
  marker that closes leaves nothing to heal (`RenderedIsText`, `ClosedByMark`).  Teams has no final edit at all, and needs that each chunk is shown when it
  has come (`TeamsShows`).  *Events*: a task has run the handlers before the next that matches (`RanInOrder`); no two
  views share a context (`OpenedOnce`); a context stays until an event of its view has taken it along, times out or was
  never stored (`ContextsKept`), and an event that has read and not got it was preceded by one that has (`RelatedSoFar`).
- **`PlatformsProofs`** brings them to the module that is checked: each world takes the steps of its own module and
  leaves the data of the others alone, so that `PlatformTypesKept`, `StreamsShown` (`EditorIsOver` and
  `WholeShown` of `FinalShown`), `HandlersRunInOrder` (`HandlersRun`) and `ModalsComeBack` (`ModalReturns`) hold of the whole.
- **`LinearTokensProofs`**: `TokensStayGood` (`TokensGood`), for any number of callers and tokens, any
  lifetime and buffer.  An installation that is not stored yet is its caller's alone and still accepted
  (`NewIsOwn`); if the stored refresh token is spent, somebody holds its successor or it was lost
  (`SpentIsReplaced`); and what an installation says is left of its token is wrong by less than the buffer
  (`Close`), because storing one takes less time than the buffer: requests time out after 30 s, the buffer is
  5 minutes for installations and an hour for client credentials.  This is the one assumption about time, and a guard of `Tick`.

Assumed of the constants are their types, that what stands for nothing is not one of the things (`None`, `NoMessage`,
`Never`, `Unknown`), and that TTLs, limits and lifetimes are above 0.

Only model-checked:

- liveness (`LocksAreFreed`, `DeliveriesEnd`, `CallersReturn`, `CallsEnd`, `TasksEnd`): the provers have no ENABLED;
- `NoSelfReply`, `HandledOnce`, `RepliesLand`, `FollowUpsFound`, `EditReaches`: statements about what eight adapters compute of the
  events and thread ids that their first sections lay down, where a proof would unfold what TLC enumerates;
- `HistoryComplete` and `CardArrives`: both compare the outcome of a recursion over pages, or over the tree of a card, with
  what went in, which takes induction over data;
- `HealedShown`, the third part of `FinalShown`: it compares texts but for their blanks, which takes induction over
  sequences.  It was also checked with streams of four and five chunks.

The conditions of each `IndInv` were first checked by TLC as invariants.

## What the runs found

Five runs end in a violation, each of a sentence that the repository says about itself:

1. `plan_order`: plan.py 291-293 promises that edits fire strictly in the order of the mutations, even
   under concurrent callers.  A caller that is cancelled while its runner waits makes the runner go
   ahead, because the runner waits under `suppress(BaseException)` (plan.py 304).
2. `shutdown`: `Chat.shutdown` does not await or cancel an initialization under way; it goes on, connects
   everything and marks the chat initialized after shutdown has returned (chat.py 244-260).
3. `pg_dequeue`: the comment over `dequeue` says that it atomically takes the oldest entry.  Of two
   clients that pick the same row one gets nothing, although the next row is live.
4. `history`: thread.py 229 says of `messages` that it iterates newest first.  It yields each page from its
   end, but Slack's `fetch_messages` reads no direction and pages from the oldest on; nor do Google Chat,
   GitHub and Linear page backward.
5. `final_edit`: streaming_markdown.py 17-18 says that the raw text is there for the final edit.  That edit is
   skipped when the healed text equals the last one sent, healed too (thread.py 506): after `Done [see` the message
   stays at `Done`, after `[note` at the placeholder, while `SentMessage` and the history hold the raw text.

What properties except by name, because an adapter does not do it:

- *Google Chat*: nothing sets `bot_user_id`, so over Pub/Sub the bot takes its own messages for others'
  (`NoSelfReply`); `remove_reaction` deletes everybody's reactions with the emoji (adapter.py 966-994); an
  edit to a text has the update mask "text" (adapter.py 933), so the old card stays, though the docstring over it
  says that both are replaced.
- *GitHub*: `remove_reaction` while the bot does not know who it is removes nothing or a stranger's
  (983-1032).
- *Discord*: `add_reaction` to a message that has opened a thread asks in the thread, and finds nothing.
- *Telegram*: a deleted message as cursor is not found, and the iteration begins again (1347-1362); every
  card raises `TypeError` (`bold_format=`, 476 and 557).
- *Threads of a channel*: a page of messages without a thread ends the iteration, though others may follow
  (channel.py 391-393); Slack's threads come by the age of their first message, not "most recently active
  first" (371), Google Chat's once for each page.  Discord refuses the three-part ids of channels (957),
  Telegram compares the id of the channel with that of the chat (722) and finds none.
- *Slack*: a card wrapped as `{"card": ...}` is dropped; a reaction's thread is that of the message reacted to.
- *WhatsApp*: a fourth button is dropped; messages to another number are answered from the configured one.
- *Linear*: each prompt of an agent session makes a thread id of its own; webhooks use an installation
  without refreshing it (776-788), and their handlers refresh that copy; a refresh that ends after a revocation stores the
  revoked installation again.
  With several organizations `parse_message` compares the author with the default bot's id only (985), not with
  that of the installation, so that the bot's own comments are not told from others' (`NoSelfReply`).
- *Teams*: answers go to the configured service URL, whatever the activity's was.
- *Queues*: types.py 392 says of `expires_at` that stale entries are discarded on dequeue; the memory adapter
  returns them, as does redis while the key lasts.  `StateContract` lets `dequeue` return them.  On redis a queue's
  key has the lifetime of its last entry, which may take earlier, longer-lived ones along; `Lapses` allows that.
- *Modals*: a response with errors leaves the modal open, but its context is gone; the initial option of a
  radio select beyond the tenth is not shown.

Other behaviours the models show, on which no document takes a side: a refused or crashed delivery keeps
its dedupe mark; a failed initialization stays in `_init_task` until a shutdown; a plan caller cancelled
before its runner's first step leaves a future that is never completed, and later edits wait for ever;
the database revives expired rows of a list on the next append, and a run-out value blocks
`set_if_not_exists` there until somebody reads it; an append without a TTL keeps a list's expiry on
redis and removes it in memory.

## What is left out

- Wording: names of keys, log lines, serialization, the text of messages and cards.
- Telling time: redis and the database use their server's clock, callers their own; there is one clock.
- In memory: a TTL of 0, `max_size` 0, and that `get_list` returns the stored list itself.  In redis:
  connection errors, which change nothing.  In the database: the lazily made pool, the counts that are
  returned, entries without `expires_at` (stored as already expired), sequence numbers that commit out
  of order.  All lists and queues of the database are asked for the same maximal length.
- In the pipeline: a callable `lock_scope` and `on_lock_conflict` are any function into their values;
  patterns and mention detection are the sets `Mentions` and `HandlersOf`.
- Liveness of redeliveries: nothing promises that a message is handled at all.
- In the adapters: verification of requests, formatting and attachments, tokens of GitHub and Teams,
  OAuth, workspace subscriptions of Google Chat, the gateway and socket connections themselves, ephemeral and
  scheduled messages, the home tab, the age of cached parents.  A handler posts once per event.
- In polling: `drop_pending_updates`, how long a back-off is, and `auto` mode.  In the tokens: more than one
  organization; credentials without a lifetime only as one case of `told`; a handler in a webhook's context
  makes one call.
- In threads: `set_state` and the caches of one object; in streaming: code fences (in one rows are not
  held back, and markers not closed), a link cut within its address, and the append-only text
  (`get_committable_text`); JSX, emoji, conversion and serialization.

## The plan

What is left, in the order of its worth:

1. `ThreadState`: read-merge-write of thread and channel state, cached subscription.
2. `StreamRender`: `StreamingMarkdownRenderer` as a function of the chunks, checked over bounded inputs.  A first
   enumeration of `get_committable_text` (`streaming_markdown.py:92`: "Get the append-only-safe prefix") found
   the lines `|-|`, a fence, `| r |`, `|-|`, after which the committed text is not an extension of what was
   committed before: a fence directly under a table line closes the table and is then read as a plain line.
3. `SlackSocket`: connect, acknowledge, dispatch, disconnect; the token caches of GitHub and Teams.
4. `ExclusiveWork`: an abstract specification of the pipeline (work on one key is exclusive while leases
   last), refined by `Dispatch`; and the pipeline composed with `StateContract` in place of its own backend.

At most a dozen runs are kept: related small modules share one, as the stores and the platforms do.
