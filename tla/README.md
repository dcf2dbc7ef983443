# Verification of Agent OS and Teamly

TLA+ modules that model the agent platform (`agent-os`) and the knowledge base
(`teamly`) of this repository, configurations that check them with TLC, and
proofs checked by TLAPS. Every module says at its head what it models;
`PROJECT.json` maps each definition to the lines it translates, lists the hazards
of the code with the properties that cover them, and gives for each property a
mutation of the model that breaks it.

## 1. Inventory

### Agent OS

| Component | State | Operations | Who it talks to |
|---|---|---|---|
| Run state machine `domain/runStateMachine.ts` | none: a table of status edges | `transition`, `isTerminal` | called by the worker, the runtime and the orchestrator, with a status they read earlier or with a literal |
| Control plane `api/controlPlane.ts` | none of its own; run, dead letter, chat and agent rows | create and requeue runs, team view, chat, hiring | repository, queue |
| Queue `adapters/queue.bullmq.ts`, `queue.inMemory.ts` | jobs, deliveries under way, stall counts | `enqueue`, deliver, acknowledge, redeliver after a worker's death | worker pool |
| Worker `worker/worker.ts` | slots | count the attempt, dispatch, retry or bury | queue, runtime, repository |
| Runtime `agent/runtime.ts` | the conversation and step index of one attempt | the tool loop, status writes, memory | model, tools, repository, event bus |
| Orchestrator, planner, phase `orchestrator/*` | parent row, child rows, what the parent holds in memory | plan, sort, dispatch, await, debate, aggregate | model, queue, event bus, repository |
| Event bus and SSE `events/bus.ts`, `adapters/events.redis.ts`, `api/server.ts` | subscribers of each run | publish, subscribe | orchestrator and browsers listen to runs |
| Chat `api/controlPlane.ts`, `agent/chatPrompt.ts` | the thread's rows | send, list, fill in replies, clear | runs, through their rows only |
| Browser page `api/ui.ts` | arrays of bubbles, pollers, streams, typewriters, the file and the quote of the next message | submit, attach, reply, react, load, poll, retry, clear | HTTP and SSE |
| Catalogue `teams/templates.ts` and hiring | agent and prompt rows | `hireTeam`, `createAgent` | repository |
| Seed `prisma/seed.prod.cjs` | the same rows | `upsertAgent` for each member of the team | the database, beside whatever else runs |
| Repositories `adapters/repo.prisma.ts`, `repo.inMemory.ts` | rows of runs, steps, letters, messages, agents | one method per call of the port | production runs on the one, the tests on the other |
| Memory stores `adapters/memory.*.ts` | records of an agent | `remember`, `recall` | the runtime, before and after a run |
| Documents `adapters/documents.rich.ts` | none | a file to text, or a refusal | the chat's attachment |
| Tools, sandboxes, search, model adapters, PII masking, metrics | child processes with timers; the masking table | one call each | the runtime |

The API and the worker pool run in one process in production (`main.ts`), share
the database and Redis with any further process, and are otherwise only coupled
through rows, jobs and events. Production queues the children of an orchestration
(`index.ts`, `asyncChildren: true`); the development root executes them inside
the parent's slot.

### Teamly

| Component | State | Operations |
|---|---|---|
| Editor `Editor.tsx` | text, debounce timer, status shown | type, flush, leave |
| Pages `services/pages.ts` | page, content and version rows | create, save, move, archive |
| Search index `services/indexing.ts` | passages of each page | delete and insert, after each save |
| Enrolment `services/enrollment.ts`, `lms/*` | enrolments, progress, attempts | enrol, complete a lesson, submit a quiz, recompute completion |
| Authoring `services/courses.ts` | courses, lessons, quizzes | generate from a space, add a quiz |
| Access, comments, spaces, AI adapters | rows, none in memory | single lookups and inserts |

### What is hard here

* Every `await` is a point where another slot, request or process runs; almost no
  write is conditional on what was read before it.
* One run's life crosses four writers: the request that creates it, the worker
  that executes it, the runtime inside the worker, an operator who re-opens it.
* A job may be delivered twice, a worker may die between two writes, a publish
  may find nobody listening yet.
* A parent waits with its slot for children that need a slot.
* The browser remembers indices into an array that is replaced under it, and
  answers that nothing calls off: of a parser, of a reaction, of a poll.
* What the tests pass on is not the repository that runs in production.
* A retry writes over what the attempt before wrote, its costs included.
* Autosaves, version numbers and the search index are three writes of one save.
* A course's completion is recomputed by whoever comes by, from several reads.

`PROJECT.json` lists each of these hazards at its line.

## 2. Modules

| Module | Models | State and steps |
|---|---|---|
| `RunStateMachine` | the status table | operators only |
| `RunLifecycle` | abstract: what a run promises to whoever submitted it | one status per run; queued, running, ended, re-opened |
| `ExecutionPlane` | `createRun`, `requeueDeadLetter`, queue, worker, the envelope of `executeRun` and `executeOrchestration` | rows (`status`, `attempts`, `deadLetters`), jobs by stall count, the program counter of each slot and request; one action per awaited read or write |
| `Planner` | `normalizePlan`, `topoSort` | operators over plans |
| `TeamPhase` | `deriveTeamPhase` | operator over child rows |
| `Orchestration` | `executeOrchestration`, inline or queued children, bus | parent and child rows, jobs, slots, the coordinator's locals, lost with the attempt, and what each child was asked as |
| `ChatThread` | `sendChatMessage`, `getChatHistory`, `backfillChatReplies`, `clearChatHistory`, prompt assembly | the thread, the run rows it looks at, the requests under way |
| `ChatClient` | the chat of one browser tab, over `ChatThread` | bubbles, indices held by submits, polls and typewriters, submits whose answer is lost |
| `AgentLoop` | the turns, tool calls, masking and step trace inside one `executeRun` | the conversation and masking table of an attempt, the run's rows of steps and stored answer, what providers were shown |
| `ModelCli` | `ClaudeSubscriptionModelProvider`, the sandbox of `code_exec` | for each child process: phase, what it wrote and what was read, its timer; the program in a sandbox; the promise |
| `Roster` | `hireTeam`, `createAgent` | agent rows with their prompt, requests under way |
| `RepositoryInMemory` | `repo.inMemory.ts`: the abstract specification of the port | rows in insertion order, what the last call returned; every call one step |
| `RepositoryPrisma` | `repo.prisma.ts` | tables with nulls and marks; the same calls, a reaction in two statements; the patches it did not apply |
| `Memory` | `RepositoryMemoryStore`, `InMemoryVectorMemoryStore`, `PgVectorMemoryStore`, and the runtime around them | records in the order of time; what each run recalled of what its search came upon |
| `Seed` | `seed.prod.cjs` | the rows of one name, with their versions; seeds, and agents made by hand write by write, cut anywhere |
| `Composer` | the chat's input line: `selectAgent`, file picker, `renderAttach`, `setReplyTarget`, submit; `extractDocument`, `RichDocumentParser`, the display text and prompt of `sendChatMessage` | picks under way, what is attached, what the page says of it, the quote, what was sent |
| `EventBus` | `InMemoryEventBus`, `RedisEventBus` | the listeners of one run and what they heard; commands to and messages from Redis; the connection |
| `Reactions` | `toggleReaction`, `reactToMessage`, `toggleChatReaction`, `loadChatHistory` | the row, what the page shows, clicks and loads under way |
| `TeamView` | the team panel of `ui.ts`: submit, poll, open, reload, event stream | tasks, polls that cannot be called back, the one timer the page knows of, the panel, the stream |
| `PageTree` | `createPage`, `uniqueSlug`, `movePage`, `archivePage`, `buildPageTree` | parents, addresses, archived pages, creations under way |
| `PageStore` | `Editor.tsx`, `savePageContent`, `indexPage` | content, versions, passages; the component and the save of each editor |
| `Courses` | `enroll`, `completeLesson`, `submitQuiz`, `recomputeCompletion`, `gradeQuiz`, `courseProgress` | the growing course, one learner, several requests, cut anywhere |
| `MC*` | constants of the instances TLC checks | |
| `*_proofs` | theorems and proofs; of the edges all in `AgentEdges_proofs` | |
| `Induction` | lemmas on numbers the proofs share | |

How they compose: `ExecutionPlane` extends the status table and, with `INSTANCE
RunLifecycle`, is shown to implement the abstract lifecycle. `Orchestration`
extends the planner and the phase and takes the worker's retry policy in one
step, since `ExecutionPlane` has it in many. `ChatClient` extends `ChatThread`:
its actions conjoin the server's step with the page's. `RepositoryPrisma` is
shown, with `INSTANCE RepositoryInMemory WITH` nulls read as undefined, marked
letters left out and the patch of a requeue applied, to implement it. `MCTeamly`
puts the three parts of Teamly side by side, and looks at the rounding of scores
in states of its own; `MCAgentEdges` the parts of Agent OS that nothing else
waits for (`AgentLoop`, `ModelCli`, `Roster`, `Seed`, `Memory`, `TeamView`,
`Composer`, `Reactions`, `EventBus`, and the repository's runs, letters and
messages). The parts share no state while they run, so a behaviour works on one
of them, chosen at the start, and the states add up.

What is abstracted throughout: texts (a message is who said it and for which run;
an output is which agent type wrote it and its verdict; a save is which edit of
which editor), formatting, logging, and audit rows, which nothing reads back.
Outside `AgentLoop` and `ModelCli` a call to the model or a tool succeeds or
throws. Time is only order: a timer may fire whenever it is armed.

### Points of the translation worth knowing

* `transition()` judges what the caller hands it. `StartRun` judges the status
  read two steps earlier, `MarkSucceeded` the literal `running`, the runtime's
  catch judges nothing; all three write blindly. That is in the model as it is in
  the code, and the exclusion theorem is what makes it harmless without faults.
* `AttemptsPatched` is the one difference between the two repositories that the
  execution plane's properties can see: the in-memory one applies a patch of
  `attempts`, Prisma's `updateRunStatus` does not.
* `Faults` names groups of calls that may throw, by what catches them. `dropped`
  is a history variable: the runs of which the code itself let a job or request
  go. `tries` counts attempts since the last operator decision.
* `LateSubscription`: Redis' SUBSCRIBE is sent and not awaited, so a child may
  end before it counts.
* A text in `AgentLoop` is the set of what matters in it: secrets, masking
  tokens, and a word for the rest. A model may answer with all it was shown, a
  tool may return its input or a secret of its own.
* `KeepsCreated`: Prisma's upsert of a step changes only its output and its
  costs, the in-memory one replaces the row.
* After the success is written the audit and the memory are, inside the same
  `try`: `Closes` may throw, and the run is executed again over the rows and the
  answer it has stored.
* `sandbox` in `ModelCli` says which of the two a program runs in. `index.ts`
  deploys the subprocess sandbox, where the command `timeout` holds the limit and
  kills the process group. Docker's limit is a timer of Node that kills the
  client; the container is a process of its own (`ContainerEnds`).
* A stream's answer is what `handleLine` keeps: the last result, else the last
  message, else the tokens (`Answer`).
* The answer of a submit may be lost wherever the request is (`SubmitLost`), and
  the server goes on as it was.
* A child is read after it was heard to have succeeded. `ReadsFailure` is the
  case that it has not any more: a subtask's attempt fails, a round is passed
  over.
* `asked` in `Orchestration` is a history variable: under which kinds and types
  the attempts of a task have asked for each id. `Reassigned` (an id given to two
  roles) and `Misnamed` (a subtask called like a round of the debate) name what
  nothing in the code rules out.
* Every turn masks the whole conversation anew. In which order secrets that turn
  up together get their tokens is not told apart (`Ask`); that each keeps its
  token is.
* In `ModelCli`, 'exit' and the end of the pipes are apart, as in Node: what was
  written may be unread when the process is gone.
* `RepositoryInMemory` has the calls as the program makes them: the arguments a
  caller passes (`PatchesAssumption`, `LimitsAssumption`). Outside of these the
  two adapters differ; section 5 says where. They also differ in one call
  production makes: the patch `{ attempts: 0, error: undefined }` of a requeue
  (`controlPlane.ts:479`), which the in-memory one spreads over the row and
  Prisma's does not write. `kept` records what such a patch has left in a row,
  and the refinement mapping (`AsPatched`) says that nothing else differs, and
  until when: an attempt counted since counts on top, an error written since is
  the same in both.
* In `Memory` closeness is the number of shared words. The lexical store's
  tokenizer only knows `a-z0-9`, so it sees the words in `Latin`; the vector
  stores see all. pgvector goes by an approximate index over the rows of all
  agents and looks at agent and kind afterwards
  (`prisma/migrations/20260606110000_vector_memory/migration.sql:8`), so
  `Reaches` may leave any of an agent's records out. Its over-fetch loses nothing
  of those reached for the call the runtime makes, since it asks for every kind
  the statement lets through.
* `getRunTeam` reads a task and its children in two awaits
  (`controlPlane.ts:214-216`); `Phase` reads both at once, and of what a reader
  sees in between nothing is claimed. The page starts a chat from `localStorage`
  (`ui.ts:453`); `ChatClient` starts from an empty one, and a history load
  replaces either.
* `Composer` has a file's format apart from what the browser's type and the name
  say of it; `Document` lists how people's files come.
* `Percents` in `Courses` is a set: where the exact percentage lies at a half,
  floating point may have it on either side.
* `overlap` and `calm` in `Reactions`, `beside` in `Seed`, `cut` in `Courses` and
  `spent` in `AgentLoop` are history variables.
* `clean` in `TeamView` is a history variable: nothing of another task was on its
  way or on the screen when the current one was asked for.
* `overlapped` in `ChatClient` and `grown` in `Courses` are history variables
  that tell the situations apart in which a property is claimed.
* Next.js sends one client's server actions one after another; `PageStore` takes
  that from the framework.

## 3. Runs

| Run | Question | Distinct states |
|---|---|---|
| `ExecutionPlane_nominal` | Without infrastructure faults, are runs exclusive, never lost, final, buried when failed, settled, and is the abstract lifecycle implemented? | 88 k |
| `ExecutionPlane_faults` | With every call failing, a worker dying, requests cut and racing, Prisma's repository: what still holds? | 870 k |
| `ExecutionPlane_reverted` | Are terminal statuses final when a write around the success throws? No. | violation |
| `ExecutionPlane_budget` | Does an operator's requeue start a fresh budget? No, with Prisma. | violation |
| `Orchestration_inline` | Any planner answer, retries, a crash, two debate rounds | 948 k |
| `Orchestration_queued` | Two tasks on two slots with queued children that retry, die, and are missed, and a subtask called like a round | 307 k |
| `Orchestration_redelivered` | A child's job delivered twice after a crash, on three slots, and a planner that swaps the roles of two ids | 48 k |
| `Orchestration_retry` | Does every task end when a child is dead-lettered? No. | violation |
| `Chat_tab` | One tab and the server, two questions, answers that are lost, and one of: cut request, retry, clear, leaving | 594 k |
| `Chat_cleared` | Does a cleared thread stay cleared? Not past a history request under way. | violation |
| `AgentEdges` | Two attempts of the tool loop, child processes against their limits, three hires, two seeds beside an agent made by hand, two runs that recall and remember, the team panel over two tasks, two files and two messages, three reactions against a load, three listeners on either bus, the two repositories call by call | 2.4 M |
| `Teamly` | Tree, editing and courses; grading of quizzes of up to 50 questions | 1.3 M |

What the passing runs show:

* **Execution plane.** Without faults at most one claim on a run exists over
  slots, jobs and requests, through every retry and requeue; every claim agrees
  with the row; nothing open is unclaimed; a failed run has its dead letter;
  every run ends. With everything failing, the attempt counter of a run exceeds
  `MaxAttempts` by at most one for each operator request and one for each crash,
  and a run only stays open where the code visibly dropped its job.
* **Orchestration.** `topoSort` rejects exactly the plans nobody can execute; a
  subtask is dispatched only with its dependencies' outputs; the summary is the
  last contribution; review and revision alternate over every retry; completed
  children are not executed again; inline, every task ends. With queued children
  a task fails to end in exactly two ways: its child's event is gone, or every
  slot is held by a waiting parent. What a report shows, also when a crash
  delivers a child's job twice, is what the agent of the child's row wrote, and
  another role is only credited with it where two plans of the task gave the id
  to two. A task that has asked no subtask by the name of a round shows the round
  it is in, and any task under way shows that it is.
* **Chat.** A prompt that quotes an answered question quotes the answer, a
  history answer accounts for every question, a reply is stored once and only of
  a succeeded run, whatever overlaps. On the screen, a waiting bubble has someone
  working on it, unless the answer to its own submit was lost, and answers come
  below their questions if the user waited for each.
* **Edges of Agent OS.** Wherever an attempt is, the rows of the trace up to its
  last step hold its outputs, although an earlier attempt wrote there, be it one
  that had stored its answer before it threw; providers are never shown a secret,
  whatever tools bring in, and what readers see has no masking token in it. When
  a model call or a program has settled, no child and no timer of it is left and
  the answer is what one process said that ended well; a program that runs on is
  in a container whose client was killed. A hire that went through has the whole
  team on the roster, doubled only by overlapping requests or by hand, and an
  agent lacks its prompt only where its request was cut. A seed that went through
  alone leaves its text as the current prompt, whatever seeds and hands were cut
  before it, and makes no version where the text is the same. What is recalled
  are the closest of the records the search came upon, of the kinds asked for,
  from each of the stores. What the metrics say a run has cost is never more than
  was spent, and never less than its last attempt. The chip above the input line
  names the file that would be sent, a file goes out once, to a reader that
  understands it, and the thread shows a message as the page did. Reactions that
  do not overlap add up, and a load made alone mends the page. Listeners of a run
  come and go without another one missing an event, once Redis has obeyed the
  subscription he relies on. Whatever the tests see of the in-memory repository,
  production sees of Prisma's, but for what a requeue's patch leaves in the row.
  The panel polls a task to its end through lost answers, missed events and
  reloads, unless the server answers a poll with an error or another task's polls
  were still about.
* **Teamly.** No page leaves the tree except below a cycle, a creation alone
  finds its address, the history holds every content and the current content is
  the newest version, an edit is lost only where the editor shows it or the user
  leaves, a page whose last indexing went through is found by what it says unless
  two saves overlapped, and a course that did not grow is marked as completed
  only when everything is done, and always then unless a request was cut and none
  has loaded the progress since. Rounding passes nobody who is more than half a
  percent short of the threshold, and fails nobody who reached it.

### Bounds, and why they are enough

Bounds are constants of the modules (`MaxCrashes`, `MaxRequeues`, `MaxAttempts`,
`MaxEvents`, `MaxEdits`, `MaxMembers`, `MaxPieces`, `Passages`) and appear in
guards only. A hazard listed in `PROJECT.json` needs two actors on one run, page
or course and a third step between theirs; the instances have two of everything
that races. Two runs matter where runs compete for slots
(`ExecutionPlane_nominal`, and two parents on two slots in
`Orchestration_queued`); three attempts distinguish the first, a middle and the
last. `AnyAnswer` contains every dependency relation on two subtasks and a choice
of relations on three, with unknown ids, duplicates, unknown and unhired types.
Chat windows of two and three messages are smaller than the thread the instance
can reach, so truncation happens. Two attempts of two turns with two secrets let
a longer attempt precede a shorter one and a second secret turn up after the
first has its token; two pieces per process leave one read and one unread, or one
that a later one replaces; two polls are the one of an old task and the one of
the new. Three reactions are two that overlap and one after; two seeds are one
that is cut, or beside it, and one that mends, and two rows the one it finds and
one made by hand. `Earlier` holds more scratch of other runs than is fetched (`4
* Limit`) and a note without an embedding; a repository writes one status, since
  none is treated unlike another; `Files` has one file at the page's limit of 20
  MB and one above. Among the quizzes of up to fifty questions are those with a
  percentage that lies at a half (1 of 8, 23 of 40). No run uses symmetry or a
  state constraint.

### Fairness

`ExecutionPlane`: each slot and each request under way goes on (weak fairness; a
slot's steps stay enabled). Nobody must submit, requeue, fail or crash. A model
call that fails again and again ends because attempts are counted, not by
fairness. `Orchestration`: something that can be done is done; attempts, plans
and rounds are bounded, so no loop hides behind it, and crashes are not part of
it. `ChatClient`: the server's steps, the end of a run, answers, timers and polls
happen; users and connection losses owe nothing. Teamly has no liveness property:
a dropped save is not retried by anything in the code. The edges have none
either: `PanelFollows` says as an invariant that somebody still asks.
`CHECK_DEADLOCK` is off because every system here rests when nobody asks for
anything.

## 4. Proofs

| Module | Theorem | Assumes |
|---|---|---|
| `ExecutionPlane_proofs` | `TypeCorrect`, `LossIsDeclaredHolds`, `AttemptBudgetHolds` | nothing |
| `ExecutionPlane_proofs` | `ClaimsSoundHolds` (`ExclusiveExecution` and `ClaimsAgree`), `TerminalIsFinalHolds`, `RunsAccountedForHolds` (`NoLostRun` and `FailureRecorded`) | `Healthy` |
| `ExecutionPlane_proofs` | `LifecycleImplemented`: the refinement of `RunLifecycle` | `Healthy`, `AttemptsPatched` |
| `Planner_proofs` | `TopoSortCorrect` | a plan `normalizePlan` may accept |
| `Orchestration_proofs` | `AttemptsTracked`, `SortSoundHolds` | nothing |
| `Orchestration_proofs` | `ChildExclusiveHolds`, `CompletedChildrenReusedHolds`, `DependenciesReadyHolds` | `NoRedelivery` |
| `Orchestration_proofs` | `DebateSoundHolds` | `NoRedelivery` |
| `Orchestration_proofs` | `AttributionHolds` | nothing |
| `Orchestration_proofs` | `PhaseTruthfulHolds` | `MaxCrashes = 0` |
| `ChatThread_proofs` | `ThreadTypeCorrect`, `PromptsSeeReplies`, `ThreadIsSound` (`HistoryAccounts` and `RepliesEarned`) | nothing |
| `ChatClient_proofs` | `TabActsOnThread`: the refinement of `ChatThread`; `TabPromptsSeeReplies`, `TabThreadIsSound` | nothing |
| `ChatClient_proofs` | `WaitingBubblesAreWorkedOn`, `AnswersAreUnderQuestions` | nothing |
| `AgentEdges_proofs` | `TraceIsTheAttempts`, `SecretsStayInside`, `BurnWasSpent` (the tool loop) | nothing |
| `AgentEdges_proofs` | `EventsAreHeard` (the buses), `CallsSettleCleanly` (child processes), `MemoriesAreEarned`, `ReactionsAddUp` | nothing |
| `AgentEdges_proofs` | `HiresFillTheRoster`, `SeedsRefreshThePrompt` (agents and their prompts) | nothing |
| `AgentEdges_proofs` | `PanelsFollowTheirTask`, `FilesGoAsShown` (the page) | nothing |
| `AgentEdges_proofs` | `PrismaActsAsTestedHolds`: the refinement of `RepositoryInMemory` | nothing |
| `Teamly_proofs` | `HistoryIsWholeHolds`, `EditsKeptHolds`, `FoundAsWrittenHolds`, `TreeSoundHolds` | nothing |
| `Teamly_proofs` | `CompletionRightHolds` | `Questions # {}`, `ScoresTell` |
| `Teamly_proofs` | `CompletionRightAsDeployed`, `TensTell` | thresholds in tens, 1 to 19 questions |
| `Teamly_proofs` | `RoundingIsLenient`, `RoundingLenientHolds` | fewer than 200 questions |
| `Induction` | `LeastNumber`, `NumberInduction`, `StepwiseUpTo` | lemmas of the others |

Beyond the last column each theorem rests on its modules' assumptions on
constants, and on nothing else. They hold for any sets of runs, slots, requests,
readers, tasks, plans, pages, editors, lessons and questions and for any budgets,
windows and rounds. What the modules assume is what the program gives: sets that
are there are finite (`Slots`, `Nodes`, `Lessons`, `Questions`, `Texts`), values
that stand for "none" are none of the others (`SlotAssumption`,
`NullAssumption`), an answer of the planner is a finite list of subtasks
(`AnswerAssumption`), a patch and a limit are what callers pass
(`PatchesAssumption`, `LimitsAssumption`), a team is a list (`RosterAssumption`),
a text has finitely many words and records are of the kinds there are
(`MemoryAssumption`), a message has finitely many secrets and none of them is a
number, which is what masking tokens are here (`LoopAssumption`), clicks and
loads are numbered (`ReactionsAssumption`), seeds too (`SeedAssumption`), and a
file is one of those listed, at any size (`FilesAssumption`).

### The execution plane

`Healthy` says that no call outside the attempt itself fails, no worker dies and
control-plane requests come one at a time. Each of the three is needed by one of
the theorems: a throw around the success write breaks `TerminalIsFinal` (run
`ExecutionPlane_reverted`); a crash after the retry was queued, or two requeues
that both saw the run failed, break `ExclusiveExecution`.

* **Exclusion.** `ExclusiveExecution` is not inductive: a requeue creates a
  claim, and only the row (`failed`) says that no other exists. `IInv` therefore
  joins it with `ClaimsAgree`. A claim moves (`ClaimMoves`), ends
  (`NothingClaimed`) or is made for a run that has ended (`Unclaimed`). Terminal
  finality follows from the same invariant, although no write checks anything.
* **Loss.** A slot in its last step inside the try still claims a run, but goes
  from there to `complete` without a look at the row, which another slot may have
  turned back to `running`. `OpenRunsHeld` asks for a holder other than such a
  slot and is inductive under every fault. `NoLostRun` is then `LossIsDeclared`
  with `dropped = {}`.
* **Budget.** A bound on a counter is not inductive either: a queued job, a slot
  that may still come to a retry and a request about to enqueue each stand for an
  attempt to come. `Counted` adds their number (`Outstanding`) to the attempts
  beyond the last one that may be retried; only a new run, a request that passed
  its check and a crash raise the sum. So the counter exceeds `MaxAttempts` by at
  most one for each of the latter two, with every fault and race. Prisma never
  resets the counter, so there it counts all executions of a run, however often
  an operator asks for more.
* **Refinement.** `LifeInv` says that a claim stands for what is left of the
  budget, and that the counter in the row and the attempts since the last
  operator decision agree. With it every step is one of `RunLifecycle` or a
  stutter. Without `AttemptsPatched` this fails: the run `ExecutionPlane_budget`
  shows how.

### Orchestration

* **Sorting.** `SortInv` after `n` turns: the counters count the dependencies not
  yet sorted, what waits for none of them is sorted or queued, nothing twice,
  everything after what it depends on. When the loop ends early, whatever is not
  sorted depends on something that is not sorted either, so no ranking of the
  subtasks exists: of those left, the one ranked lowest would have to be queued.
  An order that is returned executes the plan. `SortSound` carries this over to
  every plan an attempt comes to sort.
* **Attempts.** `TrackInv` holds under crashes and redelivery: an attempt holds
  one slot and has no job, and where it is, how much it has contributed and in
  which round it is fit the order of its plan (`OnTrack`).
* **Children.** `ChildrenInv` adds that a queued or executed child is the one its
  parent waits for. A redelivered job of a child breaks that (the parent is
  redelivered too and queues it a second time), so these theorems ask for
  `NoRedelivery`: children run inline, or the process does not die. TLC finds the
  counterexamples otherwise, as section 5 says of `CompletedChildrenReused`. That
  dependencies are there when a subtask is dispatched needs both: outputs come in
  the order of the plan, and what counts as an output has succeeded.
* **What was asked.** `AskInv`: whatever attempt is at work, and whatever row
  there is, was asked for under its id (`AskRemembered`), and nothing that was
  asked is forgotten (`NothingForgotten`). The planner owes nothing: it may give
  an id to another role on each attempt, or a subtask the name of a round. A task
  of which that is true stays one (`StaysMisnamed`), so an exception made for it
  is never taken back.
* **Debate, credit, phase.** `DebateInv` ties review and revision rows of a task
  to each other over its retries, unless it is `Misnamed`; that a success shows
  its contributions with the summary last needs no exception. `CreditInv` ties
  every row to the agent that was asked first and every contribution to its row,
  through crashes and redelivery; the role credited is the one the last plan
  asked, so it is another one only where two were asked for the id. `PhaseInv`
  says which rows can be active at all: the child the attempt waits for. A crash
  leaves its child's row active while nobody is at work on it, hence `MaxCrashes
  = 0`.

### Chat

* **Chat.** A request's prompt is complete because its backfill works off a
  backlog: `SendBacklog` says that whatever the request knew to be succeeded and
  still finds in the thread is answered or still in its `todo`. That needs that
  what is known stays settled (`KnownSettled`), that rows match the requests that
  make them (`RowsMatch`, `Asked`), and that replies are younger than their
  questions (`RepliesEarned`), since a window that cuts the thread would
  otherwise cut the answer and keep the question. `ReadBacklog` is the same for
  history requests. The conjunction `IInv` was checked by TLC before it was
  proved.
* **The tab over the server.** Each step of the page conjoins at most one step of
  the server, so `ChatClient` implements `ChatThread` without a mapping, and its
  two theorems hold of the tab.
* **Waiting bubbles.** A bubble that waits is made together with the submit or
  the poll that will write to it, and a history answer that replaces the array
  starts a poll for every bubble it makes wait. Whoever then stops writing to a
  bubble has just written to it, or is a submit whose answer was lost.
  `NoneAwaited` adds that nobody waits for a submit that was not made.
* **Answers under questions.** The property speaks of a tab at rest; `Calm` says
  what it takes to come to rest rightly if the user waits for each answer. Either
  nothing is asked (`Quiet`): each question on the screen has its reply but for
  one that is being typed, and whichever history request is under way finds or
  fills in the reply of the last. Or one question is on its way (`Flying`), the
  last on the screen, and nobody else touches the tab: it is being posted,
  stored, executed and polled, or given up because its request was cut. From one
  to the other lead a poll's reply, the typewriter's last word, leaving, loading,
  clearing. `Covers` says how far back the screen goes: a history answer whose
  window is cut could otherwise show a reply whose question it leaves out, or the
  reverse.

### The edges of Agent OS

Each edge has a specification of its own (`BusSpec`, `LoopSpec`, `CliSpec`,
`MemorySpec`, `RosterSpec`, `SeedSpec`, `PanelSpec`, `ComposerSpec`,
`ReactionsSpec`, `RepoSpec`), whose actions `MCAgentEdges` runs.

* **Event buses.** The process waits for neither of Redis' commands, so the
  invariant is about what Redis will know once it has obeyed what is on its way
  (`Wanted`): that equals whether anybody listens. A listener may rely on the
  subscription from where no command is left (`Relied`), and what he has not
  heard is in a message on its way or lost with the connection (`Heard`).
* **Trace.** Rows are written at the position the attempt counts to, so its own
  are a prefix of the trace however long the one before was (`TraceInv`). The
  answer is stored after the last row; an attempt that throws after that begins
  the next one with the answer in the row and a trace that is written over, so
  what is claimed of it is claimed of the attempt that stored it last.
* **Masking.** The table only ever holds secrets, and a model says nothing but
  tokens of that table and words of its own (`MaskInv`), so what is restored has
  no token left in it. That nothing goes out unmasked holds because each turn
  first learns every secret of the whole conversation, tools' included.
* **Costs.** Partial sums are compared row by row, with one place where the two
  traces may differ, the row written over (`SumsCompare`). An answer that is not
  yet written down has been spent and not reported (`BurnInv`).
* **Child processes.** `StageSound` says that only the process that is awaited
  can run or be stopped: those before it are over, their timers with them, and
  those after it have not begun. A process that runs has its timer, and nothing
  is read that was not written, in its order (`SaysExactly`). A program outlives
  its process only in Docker and only if its client was killed.
* **Memory.** What a store returns is at the top of what its search came upon,
  for whatever set that is; for the stores in memory it contains everything that
  shares a word with the task. For the lexical store the rank is a score with the
  record's age as its last digit. For pgvector the over-fetch of `4 * Limit` rows
  is enough because all rows the statement lets through are of kinds asked for.
  `Earned` survives later writes since it speaks of what was known when a run
  began.
* **Roster.** Until a request is cut, everybody of its team is on the roster or
  among those it has left to make, and of the latter it has made none itself
  (`LeftAreMissing`). A request that was over when the names were read adds
  nobody after that, so its members were seen (`EarlierAreSeen`): two of a name
  are by requests that overlapped, or by hand.
* **Seed.** Seeds start in their order, and those that meet another seed, or a
  hand between the writes of their row, are known to have (`InTurn`); what a seed
  has read still holds if none was beside it (`ReadsHold`). As long as none met
  another and none was cut, the newest version of a row is its current one or
  about to be linked (`VersionsInLine`), which is why no text is written twice in
  succession.
* **Team panel.** `PanelFollows` with one addition: while the panel is `clean`,
  polls, result and stream are all about the task last asked for, so no answer of
  another task clears its timer.
* **Composer.** A pick that was read becomes what is attached until the message
  goes or the chip is dropped, so a file goes out once. The reader of a document
  is the first rule that matches it, and for each kind listed that reader
  understands it.
* **Reactions.** While the server has one click at a time, the row holds the
  emojis that an odd number of handled clicks named (`ClicksCounted`). While it
  is calm, the page shows the row, or one click is under way and the page shows
  what it will make of the row (`OnlyClick`). A load that was asked for alone
  brings the row.
* **Repository.** The theorem is the refinement itself, under the mapping that
  applies the patches of requeues: `RepoInit` maps to the abstract initial state,
  every statement maps to the call it makes or to a stutter (`ToggleReads` of a
  message that is there). It needs an invariant, `RepoInv`: the types, and that a
  reaction between its two statements still is what the row would give. The
  assumptions are what callers pass: a patch with an output or an error that is
  there, or that of a requeue; a limit of a chat listing that is not zero.

### Teamly

Each part is proved about a specification of its own (`StoreSpec`, `CourseSpec`,
`TreeSpec`); `MCTeamly` runs the same actions.

* **History.** A number that was read is at most one more than there are versions
  (`ReadNumber`). The unique index lets a save commit only if it is free, so it
  is exactly the next one, whoever else saved meanwhile.
* **Edits.** `Sending`: what an editor shows is the last text it sent unless its
  timer is armed, and the first it sent is what the server works on. The answer
  that empties its queue is therefore that of what it shows.
* **Search.** `FoundBy` follows the only author of a page through save and
  indexing: what an indexing has read stays the content until it is over, since
  nobody else commits and his own saves wait.
* **Tree.** That pages are listed is proved of every state: the walk up from a
  page either leaves the tree, and then the page is listed after as many levels
  as it took steps; or it takes more steps than there are pages, meets one of
  them twice, and that one is above itself. Addresses: of one more number than
  there are addresses taken one is free, and while nothing is inserted it stays
  so.
* **Courses.** `MarkInv`: if everything is done and the mark is missing, somebody
  is still on the way to set it, or a request was cut since the progress was last
  loaded; and whoever is about to write has seen what stays true. Rounding enters
  where "passed" is read as "has the share asked for"; `ScoresTell` says that it
  may be, `TensTell` that it may be for what is deployed.
* **Rounding.** Division with remainder: a score is within half a percent of the
  share, and a half may have gone either way.

### How, and what is left

Every invariant was checked by TLC on the instance of a run before it was proved.
The library's induction theorems take an operator, which the provers at hand
cannot instantiate; `Induction` therefore states induction for sets of numbers,
and recursion as a function iterated up to a bound. The model follows:
`topoSort`, the walks of the page tree and its levels are recursive functions
over the numbers up to the length of the plan or the number of pages, and so is
the sum of a trace's tokens.

Beyond the prover and left to TLC: everything under fairness (`RunSettles`,
`SettlesUnlessDropped`, `ParentSettles`, `SettlesOrHangs`, `AnswerShows`). Every
other property of a passing run has its theorem. The type invariants of
`ChatThread` and of the edges are proved and have no run of their own.

## 5. Where the code and what is said of it disagree

Four runs show one disagreement each; `PROJECT.json` quotes the lines: a success
turned back to running (`runtime.ts:311`), a requeue that does not reset the
budget (`repo.prisma.ts:260`), a parent that waits for ever after a child's dead
letter (`orchestrator.ts:383`), a reply that comes back to a cleared thread
(`controlPlane.ts:433`).

Further ones are stated as properties and can be reproduced by changing a
configuration (those marked with nothing but a run by naming them there):

| Property | Configuration | What happens |
|---|---|---|
| `FailuresReachOperator` | faults, `MaxCrashes = 1` | the worker dies between the failed status and the dead letter; the redelivered job skips the terminal run |
| `SuccessIsFinal` | faults, `MaxCrashes = 1` | the worker dies after it queued the retry: two jobs of one run, and one reverts what the other finished |
| `DeadLettersAreFailed` | faults | an operator re-opens a run between its failed status and its dead letter |
| `RunSettles` | `Faults <- PrologueFaults` | the table has no edge from queued to failed, `transition` throws in the worker's catch, the run stays queued |
| `ParentSettles` | two parents, two slots, queued children | every slot is held by a parent that waits for a child's slot |
| `ParentSettles` | `LateSubscription = TRUE` | the child ends before Redis has confirmed the subscription |
| `CreditsTheAuthor` | redelivered | a retried task is planned anew and gives an id to another role: the child of the first attempt is reused and its answer credited to an agent that never wrote it (`orchestrator.ts:130`), though contributors are tracked for a "readable, attributed team report" (`orchestrator.ts:117-118`) |
| `PlanIsExecutable` | inline | cyclic plans are accepted and thrown at later |
| `NoChildLeftRunning` | inline | a child that threw stays running when its task has failed |
| `CompletedChildrenReused` | redelivered | a child delivered twice is executed after it succeeded |
| `QuestionsIntact` | `Chat_tab` | with two questions outstanding a poll that holds an index into the array a history load has replaced writes over the user's own message (`ui.ts:602`), though "the server thread is the source of truth" (`ui.ts:498`) |
| `ToolsSeeOriginals` | edges | tools are called, and their calls stored, with masking tokens for values (`runtime.ts:273`) |
| `TraceIsOfOneAttempt` | edges | a longer first attempt leaves its end behind the answer of the second; with Prisma a row keeps the role it was created with |
| `NothingRunsOn` | edges | Docker's timer kills the client `docker run`, which tells the daemon nothing: the program runs on when its call has settled as timed out (`sandbox.docker.ts:80`); `README.md:33-35` of agent-os has either sandbox enforce the limit |
| `NoLateTokens` (a `PROPERTY`) | edges | a stream whose time was up is still read while the buffered call works: its tokens reach the bubble |
| `HiredOnce` | edges | two overlapping hires each find nobody and hire everybody (`controlPlane.ts:158` calls it idempotent) |
| `HiredWithPrompt` | edges | an agent whose prompt was never linked counts as hired when the team is hired again |
| `PollGoesOn` | edges | the answer of an old task's poll arms a timer that, firing, clears the new task's: nobody polls it (`ui.ts:333-343`) |
| `GoComesBack` | edges | the task ends before its event stream is open; the button waits for that event |
| `SentAsShown` | edges | a file is attached, another is picked and cannot be read: the page shows the error, and the next message takes the first file along; or the chip says "reading" while the older file goes out (`ui.ts:699-711`) |
| `BothKept` | edges | two reactions that overlap: the second write leaves the first out (`repo.prisma.ts:219-229`) |
| `ShownIsStored` | edges | a reaction that failed stays on the page (`ui.ts:572`); an answer that is overtaken, or written into an object a load has replaced, too |
| `OnlyRelevant` | edges | pgvector has no floor: it recalls what has nothing to do with the task, where the in-memory stores recall nothing; the lexical store takes a task without Latin letters for no query and recalls the newest |
| `RelevantIsFound` | edges | pgvector's index leads to rows of other agents, which are then filtered out: a run that has words in common with a record recalls nothing |
| `AnswerIsOfTheTrace` | edges | what is written after the success throws, and the next attempt writes over the rows the stored answer stood in (`runtime.ts:237-254`) |
| `RememberedOnce` | edges | the write is done and not heard of, and the run runs again: it is remembered twice (`runtime.ts:246`) |
| `NothingMissed`, `NothingFromBefore` (`PROPERTY`s) | edges | Redis passes an event on before it has obeyed the SUBSCRIBE of who listens already; a listener hears what was on its way to one that has left ("Same EventBus contract", `events.redis.ts:3`) |
| `SeededOnce` | edges | two deployments seed at once and each makes the member; of two of a name, one keeps its old prompt (`seed.prod.cjs:153`) |
| `BurnIsSpent` | edges | a retry writes over the rows of the attempt before, and what that cost is gone from the metrics (`repo.prisma.ts:298`) |
| `AutoCompletes` | Teamly | a request is cut between what the learner did and the recomputation: everything is done, the course is not completed, and the page of a lesson that is done offers no further request (`enrollment.ts:23`), though "the course auto-completes" (`src/teamly/README.md:14-15`) |
| `DoneWhenShown` | Teamly | from 200 units on, 199 of 200 are shown as 100 % |

Seen while modelling and not stated as properties: tokens are un-masked chunk by
chunk, so a masking token split over two chunks reaches the user
(`runtime.ts:172`); a task opened from the list is shown with the result of the
one before (`ui.ts:339`). A planned subtask with the id `review` is shown as a
round of the debate, although ids are matched to be "precise so an ordinary
subtask ... isn't mistaken for a round" (`phase.ts:40`), and the debate takes its
output for the first review (`orchestrator.ts:209`); one with the id `rev1` is a
revision nobody has asked for, which the debate would reuse. `Misnamed` names
these tasks, and the passing runs have both plans. In the chat, a connection lost
during a submit leaves the bubble waiting until the thread is loaded again,
though the server has the question and answers it (`ui.ts:738-739`: nothing
catches the rejection; `SubmitLost`, `lost`); an index past the end of a replaced
array throws before the poll starts (`ui.ts:742`); a file picked for one
colleague goes to whoever is open when the message is sent (`ui.ts:487-497`
leaves `chatAttachment` alone), and is lost when the post fails; a PDF with
neither type nor extension may be taken for text (`documents.rich.ts:108-111`).
Of two toggles of one message one may find it deleted between its statements:
Prisma throws, and the answer is a 500 where the in-memory repository says 404. A
requeued run shows the error of before in production until another one is
written, and none on the repository of the tests (`repo.inMemory.ts:167`,
`repo.prisma.ts:270`); its attempts count on (above). The two repositories also
differ where no caller looks: `createRun` returns the existing run in memory, as
the port says ("returned unchanged", `ports/repository.ts`), and the new one with
Prisma; a chat listing with a limit of zero is everything in memory and nothing
with Prisma; runs made in the same millisecond have an order in memory only. In
Teamly: the answer to a save shows "all saved" over an edit typed meanwhile, and
leaving then drops it (`Editor.tsx:30`); of two saves with the same version
number one fails and is not retried; the passages of two overlapping indexings
mix; an indexing that fails after its delete leaves the page unfindable; a course
is listed while it is generated, and its completion is not recomputed when it
grows; the quiz form sends one option per question, so a question with several
correct ones cannot be answered right (`lms-actions.ts:46-50`).

## 6. Not modelled

The complexity gate, the heuristic planner's wording and the composition roots
(stateless choices, which the models leave open or have as constants); the search
and document tools and the single-request model adapters (a call that returns or
throws); the hashing of texts into vectors; the audit log (nobody reads it); the
wildcard subscription of the event buses, which nothing in the program uses, and
a lost connection of the publisher. Teamly's access control, organisations and
sessions are role comparisons in front of every action; comments and spaces are
single inserts; rendering, and regenerating the search index by script, are left
out. Positions of lessons and modules are counted before they are used, but one
generation adds them one after another. `PROJECT.json` gives the reason for each
component.

## 7. Plan

In order of importance; what is done is above.

1. Teamly: authoring beside learners (`courses.ts`), publishing and access as
   guards in front of the operations.
2. The streaming of tokens to the event bus from inside an attempt, with chunks
   that split a masking token (section 5).
