# mcp-gatehound in TLA+

mcp-gatehound is a gateway between MCP clients on the internet and one laptop: it authenticates a
request, decides by policy or by asking a human whether the call may go ahead, runs it against an
upstream or a local command, and logs it. This directory specifies the parts of it where the order
of events decides whether it is right, and the pure parts that a mistake in would change what a call
does; model-checks them with TLC; and proves the central results with TLAPS for any number of calls.

File names below are relative to `src/crates/gatehound-core/src/` unless they say otherwise.

## The system

| Component | State it keeps | Operations | Talks to |
|---|---|---|---|
| Approval queue (`approval.rs`) | `waiters` (id -> oneshot sender), the `pending` table, one receiver in each held task | `hold_from`, `resolve`, `list`, `cancel_all`, drop of `Held` | held by `run_call`; answered by the window; cancelled by `serve_on` and on quitting; writes rules and the admin log |
| Idempotent dispatch (`actions/mod.rs`, `actions/proxy.rs`) | the `sends` table, one `IdempotencyClaim` per running call | `begin_idempotent`, `complete`, drop | `run_call`, the limiter, the upstream |
| Rate limiter (`actions/proxy.rs`) | recent instants under an async mutex | `acquire`, `commit`, drop of the guard | wraps every action of its tool |
| Listener lifecycle (`lib.rs`, the app's `main.rs`) | `GatewayStatus`, the token slot, one cancellation token and one health monitor per run of `serve_on` | `serve_on`, `set_status`, `set_paused`, `start_listener`, quit | starts and stops everything else |
| Call path (`mcp.rs`) | one row of the request log per call | `run_call`, `Gateway::fire` | policy, approvals, dispatch, log |
| Policy and rules (`policy.rs`, `store.rs`) | the `identities` table | `resolve`, `set_decision`, `seed_decision`, `rename_tool_rules`, `forget_*` | read by every call; written by approvals, tokens, tool edits |
| Issued tokens (`tokens.rs`, `store.rs`) | the `tokens` table | issue, revoke, delete, touch | authentication; resets the wildcard rule of its identity |
| Authentication (`auth.rs`) | the cached JWKS | `authenticate`, `verify`, `jwks` | Cloudflare's certs endpoint, tokens |
| Exec runner (`actions/exec.rs`) | a semaphore of slots, the child and its process group | `run`, `run_queued`, `spawn_collect` | child processes |
| MCP upstream (`upstreams/mcp.rs`) | the session under an async mutex | `ensure_session`, `rpc`, `healthy` | a remote MCP server |
| HTTP upstream (`upstreams/http.rs`) | none | `call` | a REST server |
| Publisher (`publish.rs`) | the child, the publish state, the last line, the ready flag | `start`, `stop`, `state`, the drain task | cloudflared, tailscale |
| Event bus (`events.rs`) | a bounded broadcast channel | `emit`, `subscribe` | the window, the tray, headless auto-approve |
| Configuration, packs, scripts (`config.rs`, `pack.rs`, `scripts.rs`) | the file and the script bodies | load, validate, merge, write | read once at start |
| Shells (`gatehound-app`, `gatehound-headless`) | the listener slot, the publisher | commands from the window or the command line | everything above |

What is hard in it, and what makes each part correct:

- *Approvals.* A hold is one row, one map entry and one channel, changed under different locks by
  the held task, by the operator (perhaps twice, perhaps on a stale screen) and by shutdown, while
  a timer runs and the client may hang up. No call may go ahead without an allowing answer of its
  own; an answer counts once; only a client's "always" becomes a rule, and leaves a trace; the card
  goes when the hold does; every hold ends.
- *Idempotency.* Looking up and claiming a key are two steps; the request may take effect although
  its reply is lost; the process may die at any point. One call owns a key; a replay is the result
  of a call for the same thing; nobody takes over a key whose call died. (That one key acts once is
  promised and not kept: a key is given back with a lost reply.)
- *Rate limits.* The cap is checked long before the call is recorded, with failures and hang-ups in
  between, under a lock held across sleeps and network calls.
- *Lifecycle.* A resume can start a new `serve_on` while the previous one drains; they share the
  queue, the status and the slot. Pausing should cut no call short, take effect, and be shown.
- *The operator's edits.* The file, the script bodies and the rules are changed one after another,
  with calls, the command line and a crash in between, and every command starts from the
  configuration being served, not from the file. A token must not land on another client's rules; a
  rename must not change what anyone may call; a saved file must load.
- *Commands.* A call can wait for a slot, run, be cut off by its own timeout, by the call deadline or
  by the moment its fallback takes over, and be abandoned in each of these. It must give back its
  slot once, be over by the deadline whatever used the time up, leave no process running, and say
  which limit it met.
- *The call itself.* Policy, hold, deadline, limiter, upstream and the log follow one another while
  the client may hang up, the upstream may lose the answer or forget the session, and another call
  or a health probe holds the session's lock. A call acts at most once, only as decided; its row
  says what happened; it ends.
- *The door.* Keys rotate at the team's pleasure, the cached set is shared, and two fetches may
  overlap. A key in force is found, a withdrawn one is accepted for the cache's life and no longer.
- *Publishing.* `start` runs on a task of its own, `state` and `stop` on the main thread, the daemon
  and its drain wherever they like, and what was started outlives the process. The panel must not
  call a published gateway private, and quitting must take down what was stood up.
- *Arguments, packs, scripts, settings.* No interleaving, but many cases: an argument that passes
  the check and never reaches the command, a plan that differs from the import, an export that
  carries a credential, a save that swaps the file's credential for the environment's.

## Modules

| Module | Models |
|---|---|
| `HumanGate` | what holding a call for a human promises: the abstract specification of the approval queue |
| `Approval` | the approval queue, step by step |
| `ApprovalProofs` | proofs about `Approval`, and that it implements `HumanGate` |
| `KeyLedger` | what an idempotency key promises: the abstract specification of idempotent calls |
| `Idempotency` | `dispatch_idempotent`, the claim, the `sends` table and the requests on the wire |
| `IdempotencyProofs` | proofs about `Idempotency`, and that it implements `KeyLedger` |
| `RateLimit` | one tool's limiter and the calls under it |
| `RateLimitProofs` | proofs about `RateLimit` |
| `Lifecycle` | runs of `serve_on`, their health monitors, the shell's pause, resume and quit, and the calls in flight |
| `Console` | the window's commands that edit the file, the script, the rules and the tokens; restarts |
| `ConsoleProofs` | proofs about `Console` |
| `Exec` | the calls to one command: slots, queue, limits, fallback and processes |
| `ExecProofs` | proofs about `Exec` |
| `Call` | `run_call` over the policy, the hold, dispatch and the MCP session, beside the health probe |
| `CallLog` | what the log promises of a call: the abstract specification of the call path |
| `CallProofs` | proofs about `Call`, and that it implements `CallLog` |
| `Front` | the factors a request passes, the cached key set and its renewal; extends `Protocol` |
| `FrontProofs` | proofs about `Front`, `Forms`, `ConfigFile` and `Trade` |
| `Publisher` | `start`, `state` and `stop` over one child, the drain, the backends and the process |
| `ShellProofs` | proofs about what the shells start and stop: `Publisher` and `Lifecycle` |
| `Protocol` | operators: the revision of one request, and its reply |
| `Arguments` | operators: declared arguments, the check of a call's, and the command line made of them |
| `Settings` | operators: the configuration, the environment over it and back, validation |
| `Scripts` | operators: interpreters, the scan of a body, reading and saving it |
| `Packs` | operators: checking, planning, merging and building a pack |
| `Connect` | operators: a connection as the pack it makes |
| `Requests` | operators: what an HTTP operation makes of the arguments |
| `Forms` | the pure parts a call meets: each action takes one call, line, request or wire, the properties say what its answer must be |
| `ConfigFile` | the configuration file: made or found, launched from with the environment over it, saved over, launched again |
| `Trade` | packs in the window: one read and planned, its missing files pointed at, imported; tools exported; scripts saved and deleted |
| `MC*` | instances for TLC: concrete mappings and inputs; `MCForms` drives `Forms`, `ConfigFile` and `Trade`, and `MCDispatch`, `MCShell` and `MCFront` each two parts side by side |

`Settings` extends `Arguments`, `Scripts` `Settings`, `Packs` `Scripts` and `Connect` `Packs`: what one
validates or merges is defined by the one before. `Forms` extends `Scripts`, `Requests` and `Protocol`,
`ConfigFile` extends `Forms` and `Connect`, and `Trade` `ConfigFile`.

Comments marked `Mutant:` define deliberately wrong variants of the operator that follows; no
specification uses them. Each shows that one property notices one plausible bug.

### Approval

`phase[c]` is the point the held task has reached in `hold_from`: `recorded` after `add_pending`,
`waiting` once registered and polling, `expired` when the timeout has found the channel empty but
still holds the receiver, `writing` and `tracing` around `set_decision` and `log_admin`, `leaving`
and `clearing` inside `Held::drop`. `chan` is the oneshot, `waiters` the map, `pending` the table.
`listed` is what the operator sees: any past `list`. A press on a listed card is `Press`: it removes
the sender and sends in one step, because the sender is then owned by the press; if nothing could
take the answer the press clears the row in a second step (`ClearGone`). `cancel_all` is two steps,
`CancelWaiters` and `CancelRows`. `Crash` ends all tasks and keeps the tables; `Restart` clears the
table as `Gateway::build` does. `delivered`, `trail` and `refused` are history: what `resolve`
reported as delivered, the admin rows, and which call's row the store refused to delete or to write.
`NoOrphanCard` excuses a card for the refusal of its own deletion by its own hold and for nothing
else: a rule or an admin row that could not be written leaves no card behind. Store operations fail at
most `MaxFaults` times. Row texts, events and timestamps are left out; a poll happens before the
clock is read, as in `tokio::time::timeout`.

### Idempotency

`pc` follows one call through `begin_idempotent` and `dispatch_idempotent`; `state`, `want` and
`result` are the columns of the key's row: absent, claimed or complete, what it was claimed for,
and whose result it holds. `want` stands for the tool and the digest of the arguments together, so
digests that collide are not modelled. `wire` is the request: it may take effect (`Takes`) at any
time after it was sent, listened to or not. The claim's drop is the step `Release`. Initial rows are
whatever an older run left, all of them from before the tool column (`Legacy`); rows with a tool are
produced by the run itself. The limiter is two outcomes, `Send` and `Stopped`.

`Release` gives the key back however far the call got, so `ActsOncePerKey`, which the repository
promises, is violated (`idempotency_twice`). What holds is `DeadKeyStaysTaken`: a call that died with
the process, which could not release, keeps its key from everyone for good.

`KeyLedger` keeps of this who owns which key, what each client is told, and which result a key was
spent on: taking a key is one step there, giving it back and telling the client another, and death
takes every owner at once. `ToldBy` and `Entry` are the mapping: a call that is `releasing` still
owns its key and has told its client nothing yet.

### RateLimit

`recent[c]` is the age in ticks of the instant that call `c` recorded, which in the code is an element
of the vector `recent`; a call records one at most, so its name tells them apart. An age saturates at
`Window`, beyond which all ages are alike, and `Live` are those that `retain` leaves. `last` is whose
record was pushed last. `queue` is tokio's fair mutex, `holder` its owner; the action runs while `holder` is
set. `HangUp` drops the future wherever it waits. `hits` is history: the age of each request that
went upstream.

### Lifecycle

`srv[s]` is where one run of `serve_on` is: `starting` (bind), `serving`, `draining` (axum's
graceful shutdown), `releasing` (`cancel_all`), `marking` (`set_status(Paused)`, aborting the
monitor), `ended`; `failing` is the error branch of `start_listener`'s task. `slot` is
`AppState.listener`; the check in `set_paused(false)` and the start are two steps (`ResumeCheck`,
`ResumeStart`) and several commands may run side by side. `QuitApp` is `RunEvent::Exit` or
`restart_app`; after it the process may go at any time (`Gone`). A monitor past its probe is
`reporting` and out of reach of the abort. Only one run can hold the port (`Bind` needs no other
`serving`). Calls come in on a serving run, or from the Debug tab (`Window`), and may be held once.

### Console

`cfg` is `Gateway.cfg`, fixed while the app runs; `disk` is the file; a configuration is reduced to
what kind of action each tool has, the recorded digest of the one script, and the `[[identity]]`
seeds. `body` is the version of the script on disk, so a digest matches when the two are equal.
Validation (`Valid`) is what it asks of scripts and seeds; whatever else it may find wrong is
`WriteRefused`. `rules` is the table `identities`, `held` the calls waiting in Approvals.

The window's commands that edit are synchronous functions and run one at a time on the main thread,
so `Command` needs `doing = Idle`; a command of several steps leaves the rest in `doing`: the rules
after the file (`MoveRules`, `ForgetTool`, `AskAbout`), the file after the script
(`WriteFile`), the row, the grants and the secret of a token (`StoreToken`, `GrantTool`,
`ShowSecret`). Between the steps come held calls, the `Always` of a held call (`Remember`, whose task
does not look at the token again), the command line (`CliRule`, which builds a gateway and so seeds
first) and the end of the process (`Stop`). `rename_tool_rules` is one step: it holds the store's
lock, and only a crash inside it is lost by that. The store and the disk do not fail here.

`tokens[k].chosen` (which follows renames), `said` and `unchecked` are history: what the operator
ticked for the token, which pairs were ruled on since the identity was last chosen for a token (by a
person, by an `Always`, or by a seed at a start), and whether the last change to the file or the
script went without a validation. `TokenIsNarrow` is what the comments on `identity_for` and
`Store::issue_token` promise between them: no rule of an earlier client of that name is inherited.
It depends on both halves of `Taken`, and on the rules being dropped only after the row is gone.

### Exec

`stage[c]` is where `ExecRunner::run` is with a call: `queued` in `run_queued`, `running` with a slot in
`spawn_collect`, `quick` in the `spawn_collect` of the fallback, which takes no slot. `free` counts the
semaphore's permits and `queue` is its fair queue, which a call that gives up leaves (`Unqueue`).
`limit` is what the configuration says, chosen in `Init` among those `Config::validate` lets through (a
fallback is due before the deadline); 0 is none. `age[c]` is `started.elapsed()`, `since[c]` its value
when the process was started, so `Room(since[c])` is the timeout around `collect`. Both go back to 0
when a call is done, to keep the states few.

`procs[c]` holds kinds of processes: the one started (`leader`), one it started in turn (`worker`),
and one that has closed its pipes (`detached`). `collect` ends when both pipes do and the leader has
exited, hence `Exited`; a command may also never end. `KillGroup` is the drop of `KillGroup` and the
child: everything in the process group goes at once, SIGKILL being taken as immediate. A process
that leaves the group (`setsid`) is out of the gateway's reach and of the model. Missing or refused
arguments are `Refuse`; a command that cannot be started, `StartFails` and `FallBackFails`. The
output cap, the environment and the writer of stdin, which has a task of its own, are left out: they
delay a command and do not change what its call does next. A call here is a job (`Jobs`), since
`MCDispatch` has the calls of `Idempotency` beside it.

Timers are punctual: a tick waits until due timers and free slots have been dealt with. So
`DeadlineKept` is exact, where a loaded machine adds its latency. A command that finishes at the
very tick its time is up may be seen either way.

### Call

`pc[c]` is where `run_call` is with a call: `held` in the queue, `deciding` once it may go ahead,
`running` in a command, and, for an MCP server, `entering` `ensure_session`, `introducing` and
`notifying` under the session's lock, `posted`, `answered` or `rejected`, and `stale` before `rpc`
forgets the session. `Fires` says what each call is, with what the policy says of it; the queue is one
outcome of the hold (`Approval` has the rest), a command acts and ends within a deadline of its own
start (`Exec`), refused arguments and a full limiter are `Dispatch` ending in `failed`, and the replayed
key of an idempotent tool (`once`) is `Dispatch` ending in `replayed`. `Probe` is the health monitor's
ping, which shares session and lock and is dropped after three seconds wherever it is.

A session is `none`, `known` to the server or `forgotten` by it; a server forgets all of its sessions
at once, and a stateless one (`stateful` FALSE) rejects none. A request on the wire may be taken
whether or not anyone still waits, and its answer may be `Lost`. `try[a].n` counts the requests of
one rpc, and `again` is history: whether the server forgot once more after the first refusal.
`age[c].all` is the time since the call began, `.part` since its hold or its command did; a hold
takes no time but its wait, and an MCP call has no deadline: only its client's timeouts, which
`Lost` and `IntroFails` stand for.

`CallLog` keeps of all this one row a call and its leave to act: `open` until it is decided, `armed`
while it goes on or its request is under way, `spent` once it has acted or cannot any more. A row is
written once and stays true: `ok` of a call that has acted, `refused` or `replayed` of one that never
will, while `failed` promises nothing. `Leave` and `Entry` are the mapping; a client that hangs up and
a server that restarts only lose leave (`Drop`), and a request taken after its caller has gone still
acts (`Act`).

### Front

`req[r].stage` follows one request through `authenticate` (a bearer refused, no Access token, or
`keys` to look up), `verify` (`asking` the team, `told` with a set not yet kept) and `handle_mcp` (`in`,
then `answered` or `calling`, which is where `Call` begins). `cache` is the key set and the instant it
was kept; a fetch stands for what the team published when it answered (`got`) and replaces the
cache whatever another request kept meanwhile, so a slower, older answer may replace a newer one.
`had` is history: the key was published when the request came. Signatures and claims are either
verdict (`Judged`); tokens are active or revoked when the request comes. One key is enough, since
verification asks about one kid; the sets keep or lack it.

### Publisher

`start`, `stop` and `look` are where the three operations are. `start` stores the child (`Store`)
only after the grace (`watch`), and the state after that (`Settle`); `state()` takes the child's
lock (`LookAtChild`) and then the state's (`LookAtState`). `daemon` is the process that was spawned,
`command` and `applied` the tailscale command and the configuration it leaves, which survive the
gateway as they do in fact. The constant `MaxRuns` bounds the processes, each with any configuration
that `check` accepts: the second finds what the first left applied. `raced` and `kept` are history:
`stop` began before `start` was done, and the undoing command failed. `ToldLoopbackIsTrue` is about
a finished `start`: during the grace the panel says loopback with a tunnel already up. A look that
falls between `Store` and `Settle` reaps a dead child and forgets it, and the panel then says
published with nothing behind it; `DeathIsTold` excepts this window. The commands have no timeout,
so `stop` may wait for one for ever; no liveness is claimed.

### The operators, `Forms`, `ConfigFile` and `Trade`

These modules are the gateway's pure functions, over records with the fields that decisions read. An
input of `Forms` is one call of one tool (`Tools`, `Sends`), one line of a script (`Lines`), one request
to a REST upstream (`Ops`, `Fills`) or one wire. `ConfigFile` is a history: a file is found or made
(`Find`, `Make`), the gateway is launched from it (`Launch`), the Publish panel and the form for
services save over it, always an edit of what runs and not of the last save (`Panel`, `AddConnection`),
and after `Quit` it is launched again. `Trade` is one window: the configuration it was launched with,
which stays, and the folder of scripts beside it, which does not. `Open` is the launch, when every body
is what its digest says (`Runnable`, the validation at start); `SaveScript` and `DeleteScript` change
bodies after that, and so does `Apply`, an import taken or refused half-way. `Inspect` is
`inspect_pack`, which reads a pack and plans it against what runs; `PointAt` is one answer of the
operator to `missing_files`, applied by `resolve_file` before it is planned again; `Export` is `export`
and `export_tools`, over any tools in any order, each once (a tool that the command line names twice
makes a pack that stands against itself). The configurations have no two upstreams of one name, which
`Upstreams::from_config` refuses (`Running`); the command line also exports a configuration that does
not run, and that is left out. `PlanForetellsImport` is what the plan is good for: a refusal is the
import's refusal, and what is let through is what is imported, except over a body that changed since the
launch (`Rewritten`), where the import alone notices. The scripts' folder is beside the configuration
(`Roomy`). An export that is not every tool in the order of the configuration takes only what its tools
need (`Scoped`): the code compares position by position, so the same tools in another order are a
choice. `MCForms` gives the sets. Values are the ones that the code tells apart: a word, a dashed word,
a number, one too long, null; a dot segment, a slash; a credential from the file, from the environment,
typed or pasted. `Rules` of `Scripts` has the needles of the scan that share characters with an
exception, and one of each severity. Query, body and what a command line gets appended are functions and
sets: their order depends on nothing. A segment of a path is a text, a placeholder, or a text followed
by one. The path of a script is rendered with the rest of its command (`exec.rs:158`), so a folder with
a brace in its name is read as a placeholder; `Lower` takes the path to have none.

What the models of these parts allow, and their properties exclude by name or do not touch: the file a
first run makes holds every credential the environment gave, and that run's first save takes them out,
so an app launched from the Dock then lacks them; a token pasted for a connection without a typed name
is stored nowhere; only credentials are restored on saving, so another setting the environment gave (the
listen address, the backend) is written down; the panel validates what it was given, not what
`PUBLISH_VIA` makes of it; `validate_arguments` trims the names it compares, and the call then uses them
untrimmed; a placeholder after a dot, as in `/v1/.{x}`, leaves the dot alone in its segment when it is
sent an empty text, and the request moves (`path_value` looks at the value and not at the segment;
`Straight` asks the operator to write no such path); an optional argument placed by hand in a template
makes calls that keep to the schema fail, and so does an idempotent tool's own key when it is declared
as optional, since the check asks for it and the schema does not (`KeyLeftOpen`, `config.rs:303` and
`377`); a line too long to read is told as that alone, whatever else is on it; `env_var_name` gives
`my-mail` and `my.mail` one name; a tool whose command is missing does not import, which a comment says
it does (`main.rs:1577`); the values of an `env` table are exported; a merge refused late has written
script bodies; a digest is checked on loading only; `pack`'s check of inline tokens looks at HTTP
upstreams without `token_env`; and a legacy version in `_meta` wins over a modern header.

## Runs

| Run | Question | Bounds |
|---|---|---|
| `approval` | does nothing go ahead on another's answer, no card outlive its call, does every hold end, and does the queue implement `HumanGate`? | two calls, one pair, one call by hand, one store failure, any number of presses, shutdowns, crashes |
| `dispatch` | is a key replayed rightly and kept from others once its call died, and does dispatch implement `KeyLedger`? Is a command's deadline kept, is nothing left running, is the error right? | four calls on one key, one for another thing, two store failures, any number of crashes; three jobs, one slot, five settings of the limits |
| `idempotency_twice` | does one key act once? (no) | the same four calls, no store failure |
| `ratelimit` | do the cap and the spacing hold, and does everyone get out? | four callers, cap 2, spacing 2, window 5 |
| `shell` | does what is published carry a factor or a warning, is the panel right, does quitting take it down? Does a pause cut nothing and take effect, does the status heal? | every configuration, two processes; two runs of `serve_on`, one call, two resume commands |
| `publisher_orphan` | does quitting take it down also when the gateway quits while it starts? (no) | one process |
| `console` | do tokens keep apart and stay narrow, do renames carry decisions, do checked edits load? | two tools, one script of two versions, two clients, two tokens, one pack seed, four commands or restarts |
| `console_loads` | does the app start from every file it saved? (no) | the same, three commands |
| `front` | are keys found and dropped in time, is every request answered? Are the pure parts, the file and the packs what their users take them for? | two requests at a time and any number in turn, one key, cache life 2, fetch 1, five instants; the inputs listed in `MCForms`, and every wire |
| `forms_scan` | is the half of a line that matters reported? (no) | the inputs of `front` |
| `forms_plan` | does a plan say what the import says? (no) | the inputs of `front` |
| `call` | does a call act once and as decided, is it over in time, and does the path implement `CallLog`? | a write, and one call of seven kinds beside it, two of them idempotent; deadline 2, hold 3; any number of pings and forgettings |

`dispatch`, `shell` and `front` each check two parts that share no variable. The variable `about` says which
of the two a behaviour is about; the other stays as it began, so the states are the sum of the two and
not their product, and nothing is checked of one part that its own module does not say.

Two calls are enough for the queue because calls meet only through the map, the table and a shared
rule, and each interaction is between two of them (one pair for both makes the rule shared); proofs
cover any number. Four calls on one key give a holder, two rivals for the same thing and one for
another. Four callers under a cap of two fill the window, are refused, and let one instant be pruned
while others are queued. Two runs of `serve_on` are an old one draining and a new one serving; two
commands are the smallest race for the slot. In `Console`, four commands are enough to issue, revoke,
issue again and rule in between, or to edit, restart, edit and restart; a rename needs two names, and
a second identity is what `identity_for` falls back to. Only commands and restarts are counted; the
steps that finish them, held calls and starts are not. In `Exec` one slot and three calls give a
holder, a waiter and one behind it; the five settings are a timeout alone, a deadline above it, a
fallback under a deadline, one due with the timeout and one after it. In `Call` one partner is enough,
since calls meet only at the session and its lock, where the probe is a third; the deadline of 2
leaves a hold one tick and a command two. In `Front` the clock runs two cache lives, so that a set
grows old, is renewed and grows old again. `CHECK_DEADLOCK FALSE` stands where the system may
really stop: every call has ended, or the process is gone.

### Fairness

Weak fairness of a task's own steps: tokio polls ready tasks and fires timers, and code without an
await runs to its end. For an action it means the timeouts that configuration cannot turn off: a
hold is at most ninety seconds, an HTTP client and a command have timeouts, so `Fail`, `Finish` and
`Expire` happen. `Front` and `Call` assume it of each request's own steps, a fetch or an exchange
ending in failure at the latest by its client's timeout; `Call` assumes besides that the session's
lock, a fair mutex, comes round to everyone who waits (SF). A clock ticks. Nothing is assumed of the
operator, of clients, of upstreams, or of the store working. `Console`, `Exec`, `Publisher`,
`Idempotency`, `Forms`, `ConfigFile` and `Trade` have no fairness: what is checked of them is all safety. The
fairness of `shell` and of `front` is that of `Lifecycle` and of `Front`, action by action.

### What the code does that its documentation does not say

Five are runs that TLC ends with a trace:

- `publisher_orphan`: `stop` kills the child it finds, and `start` stores the child only when its grace is
  over. A gateway that quits in between leaves the daemon, or the configuration of a command still
  running, behind it, which is what `stop` on the way out is there to prevent.
- `console_loads`: renaming a tool changes its name in the file but not in the seeds that name it,
  and is the one edit that writes without validating. A seed for a tool that is not there is refused
  at the next start.
- `idempotency_twice`: the upstream acts, its reply is lost (or the client hangs up, or the record
  cannot be written), the claim is dropped and with it the key; the retry acts again. Only a call that
  failed before it acted should be retried so, and the code cannot tell. `src/README.md:384`,
  `gatehound.example.toml:182` and `actions/proxy.rs:136` say that a key keeps exactly this from happening.
- `forms_scan`: an exception is looked for on the whole line, so `re.compile(p)` excuses `compile(src)` beside
  it, and `urllib.parse` a bare `urllib`. `scripts.rs:433` and `490` say that the half that matters is
  reported.
- `forms_plan`: a script is saved, or deleted with its tool, and the running configuration keeps the digest
  of the old body until the next start. A pack is then shown as one that can be imported, because a plan
  verifies no body, and importing it is refused. `pack.rs:237` says that the answer is the one the import
  gives.

The models allow more of the kind, worth knowing when reading the code and not checked by runs of their
own. `resolve` returns success once the answer is in the channel, but only the held task writes the
rule: a client that hangs up between leaves nothing remembered or logged (`Approval`). `cancel_all` runs
after axum's drain, which waits for the held calls: on a pause a held call times out rather than being
released (`Lifecycle`). The slot is checked and filled in two steps, and a listener that failed to bind
empties it unconditionally, so one may serve with no token in the slot (`Lifecycle`). Every command
edits a copy of the configuration the gateway was started with, so a tool added since is gone from the
file after any other save (`Console`). The hold and the command each have a clock, so a client may wait
up to two deadlines less a second where `config.rs:612` says end to end (`Call`, `WithinTwoDeadlines`).
A call whose session went stale may forget a newer session, at the price of another introduction
(`Call`). The column `replayed` is read off the answer of any tool (`mcp.rs:547`), so for a tool that is
not idempotent it is the upstream's word if that has a member `duplicate`, where `store.rs:33` says NULL
(`Call`, `Answered`). A set of keys that is too old is no help when the team does not answer: nobody
gets in by Access until it does (`Front`). Also: a hold that falls between the two halves of
`cancel_all` waits with a sender and no row (`Approval`); requests that fail upstream are never counted
by the limiter (`RateLimit`); an older run's last steps release the holds of a newer listener and mark
it paused (`Lifecycle`, the second disjunct of `PauseCutsNothing`; `StatusHeals` says the status
recovers); a monitor past its probe may report after `MarkPaused`, and then nothing sets the status back
(`StatusHeals` is about a listener that stays up, so no property catches it); an edit of a script that
is cut short between the body and the file leaves a file whose digest does not match, from which the app
does not start (`Console`; `CheckedEditsLoad` excuses these edits by name); a rename moves the rules at
once, while the gateway serves the old name until it restarts, so a client that was denied the old name
is decided by its wildcard or asked (`Console`); a seed removed from Access comes back at the next
start; a script tool added as denied gets a rule for the identity `*`, which `decision_for` looks up for
nobody, so it is asked about rather than hidden as the log says; a revoked token's held call still
writes its `Always`, after `forget_identity` dropped the rules, and a token issued under that name then
has it (a human gave it, so `TokenIsNarrow` counts it as said); a fallback due no sooner than the
command's own timeout, which validation accepts, never answers for a command that got its slot at once
and is too slow: that call ends with "timed out" (`Exec`).

## Proofs

`ApprovalProofs` proves, for any finite or infinite set of calls, any pairs and any bound on
failures (the assumption `CallAssumption`), that `Spec` keeps `TypeOK`, `AllowedOnlyOnOwnCard`,
`AnswerSurvivesShutdown`, `NoOrphanCard`, `AlwaysLeavesTrace`, `OneAnswerPerCard` and
`RulesOnlyFromAlways`, and implements `HumanGate`. The argument is one inductive invariant, `IInv`
(in `Approval`): a sender still in the map has sent nothing (`WaiterInv`, so a second press finds no
sender); what the channel carries is what `resolve` reported (`AnswerInv`, so the outcome follows
from an answer to this card); a task that writes a rule belongs to a client and has an "always" in
its channel (`ActingInv`); what has not been asked yet has no answer and no row (`EarlyInv`); a
shutdown outcome comes from a dropped sender (`OutcomeInv`). None of the safety properties is
inductive without these. `GateStep` maps each step to one of `HumanGate` or to a stutter: `verdict`
is read off `phase` and `outcome`, and the call is let through when its drop is complete.

`IdempotencyProofs` proves the type invariant, `OneHolderPerKey`, `ReplayIsOfTheSameCall`,
`OneFreshResult`, `RowsSettle` and `DeadKeyStaysTaken`, for any calls, keys and wants, and that
`Spec` implements `KeyLedger`. Its `IInv` adds to mutual exclusion that a row's result is the fresh
answer of a call that acted for what the row says (`RecordInv`), what each point of the code implies
about the wire and the answer (`TaskInv`), and that a call that died after sending leaves a claim
nobody holds (`LostInv`). `LedgerStep` maps the steps: `FindRow` is a replay or a refusal, `Claim`
takes the key, `Complete` spends it, `Release` gives it up, `Crash` is `Die` of every call that lives;
the lookup, a lost reply and a hang-up change nothing that a client or a rival can tell. Because a
replay needs that the row's result answers what the row says, the mapping rests on `RecordInv`.

`ConsoleProofs` proves `TypeOK`, `TokensKeepApart`, `TokenIsNarrow`, `RenameCarriesDecisions` and
`CheckedEditsLoad`, for any names, clients, tokens, packs and bounds (`ConsoleAssumption`). The first
of the tokens' needs `ApartInv`: an identity chosen for a token (`ChoiceIsFree`) is still no token's
when the row is written, because no other command of the window runs in between and nothing else
writes rows. `NarrowInv` is why a token stays narrow: while it is being issued, its identity has
no rule but those it was granted or that somebody has made since, and from then on every step that
adds a rule adds it to the rulings, or moves one the rulings or the grants already cover. A rename
is proved case by case of which names have a rule (`MoveRules` is one step). `CheckedEditsLoad` is
inductive as it stands: a checked save establishes it, and every other step either leaves file and
script alone or leaves a note of what it has not checked.

`ExecProofs` proves `ExecTypes`, `SlotsKept`, `DeadlineKept`, `NoStrays` and `BlameIsRight`, for any calls,
any number of slots and any limits that validate (`ExecAssumption`). `IInv` adds the types, that what
runs was started in the past (`Past`), and that only a call that is done has an outcome (`Early`).
`RoomFits` is why the deadline holds: a process started before the deadline has no more time than is
left, so a tick that may happen because nothing is overdue cannot pass it. `SlotsKept` counts with
`OneMore`: a step moves one call into or out of the running ones. `BlameIsRight` needs besides that no
process is older than its room and no waiter older than the deadline (`InTime`), so that a limit
that is met is met exactly.

`CallProofs` proves `TypeOK`, `ActsAtMostOnce`, `RowTellsTruth`, `ActsOnlyAsDecided`,
`WithinTwoDeadlines` and `StaleTwiceOnlyIfForgotten`, that the session's lock excludes
(`OneIntroduces`), and that `Spec` implements `CallLog`, for any calls of any kind and any deadline and
hold (`CallAssumption`). The inductive invariant follows one request: the lock is held exactly through
an introduction (`LockInv`); an actor has at most one request on the wire, and it is the one it waits
for, or nobody waits (`WireInv`); a call whose request has not been taken has not acted, and one whose
request was taken has none left (`ActsInv`), which is why sending again after a refusal cannot act
twice; what is past the decision, on the wire or acted was decided (`DecidedInv`); a refusing row
belongs to a call that can send nothing more (`RowInv`). The deadlines need the two clocks apart
(`ClockInv`). `LogStep` maps the steps: a decision arms or closes, `Run` and a request the server takes
act, every other end of a call fails it or tells what it did (`EndLogs`); that a call without leave
cannot act rests on `ActsInv` and `WireInv`.

`RateLimitProofs` proves `TypeOK`, `CapKept` and `SpacingBeforeAct`, for any number of callers, any cap,
spacing and window (`RateAssumption`). The cap was checked long before the call is recorded: it holds
because only the lock's holder sleeps or acts (`HolderInv`), nobody records meanwhile, and ageing only
removes records (`CapInv`). A request is older than its own record (`RecordInv`), so the requests in a
window are no more than the records in it and the one under way. What is left of the sleep covers
what is left of the spacing (`RestInv`).

`FrontProofs` proves `TypeOK`, `WithdrawnKeyExpires` and `SteadyKeyIsFound`, for any requests and keys, any
cache life, fetch time and bound on the clock (`FrontAssumption`). The argument is about stale
answers: what a fetch was told was true after the fetch began (`Honest`), so the set that is kept, by
whichever fetch is kept last, is never older than it says by more than one fetch (`CacheInv`).

The same module proves three properties of `Forms` for every input: `SentIsActedOn`, `RequestIsAsDeclared`
and `ServedAsDeclared`, of `FormsSpec`, whose steps are among those of the run. 
`FormsAssumption` gives tools, templates and operations their types and says that a path's segment, as
the operator wrote it, has no slash. `FormsInv` says only that an input is one of the sets'; the rest is
about operators. *Calls*: a name declared once stands for its declaration (`FirstIsIt`), what is lowered
to a script's command keeps its arguments (`RunsIsCalled`), a schema asks for what the check asks for
(`ConformingIsChecked`, `DescriptionAgrees`), and everything checked is named by a hole or appended
(`CheckedIsNamed`, `FilledIsNamed`, `BuiltActsOn`); an interpreter's own templates have no holes
(`BuiltAsPreviewed`). *Requests*: an encoded argument is never a dot segment nor two segments
(`EncodedStays`), and a parser that resolves dot segments leaves a path without any alone: the function
that walks it is compared with the path itself at the least place where they would part (`Least`,
`PlainPathStays`, `PathLeads`), and a text of the operator's joined with an argument is none either
(`JoinedStays`). *Wires*: each of the replies, case by case.

Of `ConfigFile` it proves `FileKeepsItsSecrets`, for any files that have the fields of a configuration
(`FileAssumption`) and whatever they, the environment, the panel and the form say. `Provenance` is the
invariant: each credential of what runs is the file's, or the environment's over the file's and
remembered with it, once for each slot; only a first run has a file made of what the environment gave.
A launch and a first run establish it (`LaunchedFrom`, `MadeFirst`), no edit touches it, and from it
follows what `for_disk` writes back (`SavedAsGiven`). The rest is about finding an upstream by its name:
transformations that keep names keep which one is found (`FirstOfBoth`), so a credential put back, put
over or pasted is the one that is read (`SecretsPutBack`, `EnvironmentGives`, `TokenGoesIn`), and a merge
of one upstream changes no other (`PutSome`, `OnePutIn`).

Of `Trade` it proves `PlanForetellsImport` and `PackStandsAlone`, for any configurations and packs that
have the fields of one (`TradeAssumption`), any scripts saved, deleted and imported over, any files
pointed at and any choice of tools, of `TradeSpec`, whose steps are among those of the run. Folds cannot
be reasoned about by an induction over sequences here; instead, the steps that a fold takes are shown to
exist (`PutInSteps`, `SavedInSteps`, `KeptInSteps`) and what they keep is carried from zero upwards by a
least counterexample (`Upwards`). So what is put in is found as it was put in and the rest as it was
(`AllPutIn`), a body lies where its script's belongs (`BodiesWritten`), and what is kept is all that was
to be, in no name twice (`KeptIs`). *Importing*: a merged tool's script is the pack's own and was just
written, or lies as it lay (`MergedScriptsAreSound`); so validation with the folder and without it,
where bodies are not looked at, come to the same (`ValidWithout`) unless one that stays was rewritten,
and then validation with the folder refuses (`RewrittenIsInvalid`): with them go the plan and the import
(`PlanSays`), and all that a merge changes bears a name of the pack, each of which is told
(`ChangedAreTheirs`, `TheirsAreTold`). `TradeInv` says that what runs stays what was launched, that the
folder keeps room for any script (`DeletedStaysRoomy`, `MergeLeavesRoom`), and that what is shown stays
a pack that fits, whatever is pointed at (`PointedFits`). *Exporting*: what a chosen tool needs is taken
(`NeededIsWanted`) and travels without its credential (`ExportedUpstreams`, `ExportedScripts`,
`ExportedSeeds`), so the pack can be read (`ExportedFits`), each tool fits in the empty gateway as it
did where it came from (`ImportedToolFits`), and nothing stands against the import (`ExportIsTaken`).
That what is exported was chosen from what runs is part of `TradeInv`.

`FrontProofs` holds the proofs of what a request meets at the door and past it. Those of `Front` and
of `Forms` need nothing of the others; those of `Trade` build on those of `ConfigFile`.

`ShellProofs` proves `TypeOK`, `SecondFactorOrWarned`, `ToldLoopbackIsTrue`, `QuitUnpublishes` and
`DeathIsTold` of `Publisher`, for every configuration that is accepted and any number of processes. What
runs was asked for (`AskedInv`); where `start` is says what there is and what the panel is told
(`StartInv`); a process that has not begun to stop holds its daemon or has seen it die (`HeldInv`), and
from there on stopping takes down what is left (`StopInv`). Of `Lifecycle` it proves `ListenTypes` and
`PauseCutsNothing`, for any listeners, calls and resume commands: a call that is not over belongs to a
listener that serves or waits for it (`ListenInv`), so the listener that releases the holds has none of
its own.

Only model-checked, and why:

- Liveness (`EveryHoldEnds`, `EveryCallerEnds`, `EveryCallEnds`, `EveryRequestAnswered`, `PauseTakesEffect`,
  `StatusHeals`): it rests on fairness, hence on ENABLED, which the prover does not have.

`AnswerSurvivesShutdown`, `AlwaysLeavesTrace`, `OneAnswerPerCard` and `RulesOnlyFromAlways` of
`Approval`, `OneHolderPerKey`, `OneFreshResult` and `RowsSettle` of `Idempotency`, `SlotsKept` of
`Exec`, `RowTellsTruth` of `Call`, `OneIntroduces` of `CallProofs` and the type invariants are proved
and in no run; the runs check what is nearest to a user instead. Each inductive invariant was found with
TLC on the instances of the runs before it was proved.

## Plan

The models are built and their safety is proved. What is left: to say of `Front` what it promises to
a client as an abstract specification, in the way of `HumanGate`, `KeyLedger` and `CallLog`, and to
prove that it implements it; and to shorten the longer proofs.

## Not modelled

- The window's rendering, client bundles, redaction and the queries over the log: text, or functions
  nothing depends on.
- The event bus: a lagging receiver loses events, and only the headless auto-approving printer acts
  on one; a hold it misses ends by its own timer, which `Approval` has.
- Two processes on one database (the headless command line builds a gateway too, and so clears the
  cards of the running one): the tables have one user in every module but `Console`, whose `CliRule` is
  the command line's rule and its seeding.
- Of the publisher: asking the backend for its URL, and descriptions of its state. A daemon left by
  a crash is unknown to the next process, in the code and in the model.
- Of MCP upstreams: listing their tools. Of HTTP upstreams: credentials and responses.
- Of `Console`'s neighbourhood: issuing a token from the command line (it takes the name as it is and
  keeps exact rules the identity already has, where the window looks for a free one), tokens marked
  revoked by it, more than one script, a script changing its file name, upstreams.
- Signature checks, TOML, and SQLite itself are taken as they are used: a statement is atomic, and may
  fail.
