# A verification project for EnvPool

EnvPool runs a vector of reinforcement-learning environments in a C++ thread
pool. A driver sends a batch of actions, worker threads step or reset the envs
the actions are for, and the driver receives the resulting states in batches:
all the envs that were sent, in order (synchronous mode), or whichever
`batch_size` of them finished first (asynchronous mode). This directory holds
TLA+ models of the engine that does this (`src/envpool/core/`), of the layer
between it and Python, and of those families of envs whose state is discrete; the
TLC configurations that check them; and TLAPS proofs.

    tlc -workers 2 -config ActionBufferQueue.cfg ActionBufferQueue
    tlapm StateBufferQueueProof.tla

## 1. Inventory of the system

### The engine, `envpool/core`

| component | state | operations | called by |
|---|---|---|---|
| `ActionBufferQueue` (action_buffer_queue.h) | a ring of `2 * num_envs` action slices, two position counters, three semaphores | `EnqueueBulk`, `Dequeue`, `SizeApprox` | `Send`, `Reset`, the destructor; the workers |
| `StateBuffer` (state_buffer.h) | the arrays of one batch, a packed pair of offsets, two counters, a semaphore | `Allocate`, `Offsets`, `Done`, `Wait` | `StateBufferQueue`; `done_write` in the workers |
| `CircularBuffer` (circular_buffer.h) | a ring with two semaphores and two counters | `Put`, `Get`, `TryGet` | the stock inside `StateBufferQueue` |
| `StateBufferQueue` (state_buffer_queue.h) | a ring of state buffers, `alloc_count_`, `done_ptr_`, the stock, its creator threads, `quit_` | `Allocate`, `Wait`, the creator loop, the destructor | `Env::Allocate`; `Recv` |
| `AsyncEnvPool` (async_envpool.h) | the two queues, the envs, the workers, `stop_`, `stepping_env_num_` | `Send`, `Reset`, `Recv`, `Render`, the worker loop, the destructor | the Python binding |
| `Env` (env.h) | the last action batch, `current_step_`, `order_`, the slice it writes | `SetAction`, `EnvStep`, `ParseAction`, `Allocate`, `PostProcess` | `SendImpl`; the worker loop |
| `Array`, `Dict`, `Spec`, `EnvSpec` | reference-counted memory, configuration | slicing, conversion | everything |

Data flow: `Send` gives each env its action (`SetAction`), then puts one slice
per env into the action queue. A worker takes a slice, steps or resets that env,
and the env asks the state queue for a row (`Allocate`), writes it and reports
it (`Done`). `Recv` waits for the buffer at the head of the state queue to be
complete and replaces it by a fresh one from the stock.

What is hard here:

* *No queue checks for room.* The action ring, the ring of state buffers and the
  rows of a buffer are indexed by counters modulo a size. They are correct only
  because no more work can be outstanding than their sizes allow.
* *Counters instead of locks.* Positions are taken by `fetch_add` and used later;
  completion is detected by an equality on the old value of a counter.
* *Buffers are destroyed while others hold raw pointers.* `Wait` swaps a
  `unique_ptr` that workers dereference without synchronisation.
* *Two modes in one code path.* In synchronous mode a `Send` may step only some
  envs; the rest of the batch is made up with additional done counts and skipped
  positions.
* *Shutdown* with slices still queued, and with creator threads that wait for
  room in the stock.

What makes each component correct:

* `ActionBufferQueue`: each slice is handed to one worker, once, in order; no
  slot is overwritten before it is taken or read before it is written.
* `StateBuffer`: concurrent requests get disjoint rows; `Wait` returns exactly
  the rows that were written, and afterwards nobody touches the buffer.
* `StateBufferQueue`: `Allocate` never meets a full buffer, nobody holds a
  replaced one, batches leave complete and in order of allocation.
* Stock: nothing stocked is lost, nobody receives a null buffer, the destructor
  ends.
* `AsyncEnvPool` with `Env`: one thread at a time in an env; each request is
  answered once with what it asked for, or with a reset where one is due;
  synchronous answers come in the order asked; `Recv` and the destructor return.

### Between the engine and Python

| component | state | operations |
|---|---|---|
| `PyEnvPool` (py_envpool.h) | references to numpy arrays that are given back under the GIL | `PySend`, `PyRecv`, `PyReset`, the destructor |
| `EnvPoolMixin` (python/envpool.py) | the mapping and the env ids of the last `recv` | `send`, `recv`, `step`, `reset`, `async_reset`, `_infer_players_env_id`, `is_async` |
| `Env::ParseAction` (env.h) | none; reads the action batch of the env | picks the rows that belong to the env |

With several players per env the rows of an action have to be matched to envs:
by `players.env_id`, which the Python layer infers from the last `recv` if the
caller leaves it out. What is hard: the inference uses what *was* received, for
envs that are sent *now*; the last copy of an action array may be dropped by a
worker, which then needs the GIL; and the destructor joins the workers while it
holds the GIL. Correct is: a step is handed exactly the actions of the env's own
players, from the array last sent for it, which is alive; all arrays are given
back; and every call returns.

### The environments

An env is sequential: `Reset`, `Step`, `IsDone`. Their state is a board, a grid, a
level, a hand of cards; what is hard in them is not threads but long sequences of
legal calls, several agents acting in one step, and values computed in one step
for the next.

| family | state | what is hard | what makes it correct |
|---|---|---|---|
| `jumanji/` | a board or a graph and its mask | masks and bodies computed ahead; agents of one step one after the other | the board stays one that the rules can reach, agents keep apart, a step pays what it did |
| `pgx/` | a board, chains, hands or pots, castling rights, whose turn it is | chains and pseudo-liberties kept incrementally, ko, repeated positions, a board that is turned around after each move | masks are the rules, chains are what a flood fill finds, rights follow the moves, ends pay the winner |
| `minigrid/` | a grid of things, an agent that carries one | positions noted when a level is made, while things move | levels can be won, things are in one place, what is paid is so |
| BabyAI (`minigrid/impl/babyai_*`) | a mission of up to four instructions with verifiers that remember | verifiers look things up again only after a drop | a mission succeeds exactly when, and in the order in which, its parts are done |
| `marlgrid/` | a grid, several agents in the cells | an order of agents that is drawn in each step, agents who are done or come back | one cell per agent, pictures that show others where they are, bonus tiles that pay in their cycle |
| `atari/` | an emulator, two pooled frames, a stack, lives | games that end within a frame skip or within the no-ops of a `Reset`; episodes of one life | observations are of one game, episodes end with a life, games are cut in time |
| others | simulators, external engines | numerics | see section 5 |

## 2. Modules

| module | models | uses |
|---|---|---|
| `ActionFifo` | abstract: what the action queue promises | |
| `ActionBufferQueue` | `ActionBufferQueue`, one action per semaphore operation, `fetch_add` or slot access | implements `ActionFifo` |
| `StateBuffer` | one `StateBuffer`, one action per atomic step | |
| `StateBufferQueue` | the ring of buffers between workers and `Wait` | takes `StateBuffer::Allocate` as one step |
| `StockBuffer` | the stock of fresh buffers: `CircularBuffer`, the creators, the destructor | |
| `ActionBufferQueueProof`, `StateBufferProof`, `StateBufferQueueProof`, `StockBufferProof` | the theorems about the four modules above | the module each is named for |
| `VectorEnv` | abstract: what a pool promises its driver | |
| `AsyncEnvPool` | the pool: `Send`, `Reset`, `Recv`, workers, envs, destructor | takes `ActionFifo` and the blocks of `StateBufferQueue`; implements `VectorEnv` |
| `AsyncEnvPoolProof` | the theorems about the pool | `AsyncEnvPool` |
| `Players` | whose action is whose: `recv`, `_infer_players_env_id`, `send`, `ParseAction` | |
| `PlayersProof` | the theorems about it | `Players` |
| `ActionLifetime` | who keeps an action array alive, and the GIL | |
| `ActionLifetimeProof` | the theorems about it | `ActionLifetime` |
| `Game2048`, `Sokoban`, `Snake`, `Minesweeper`, `SlidingTile`, `Tetris`, `RubiksCube`, `GraphColoring`, `Routing` | the games of those names for one agent; `Routing` is cvrp_env.h; each has its own table of moves, as in the code | |
| `Cleaner`, `Connector`, `RobotWarehouse`, `Foraging`, `JobShop`, `Fleet` | those for several agents or machines; `Foraging` is level_based_foraging_env.h, `Fleet` multi_cvrp_env.h | |
| `MiniGridLevels` | things, the agent, one action, the picture; what `GenGrid` and `GenMission` return | |
| `MiniGrid` | the tasks as they are played | `MiniGridLevels` |
| `BabyAI` | the verifiers of missions | `MiniGridLevels` |
| `MarlGrid` | several agents on one grid | the cells and directions of `MiniGridLevels` |
| `Atari` | frames, no-ops, lives over an external emulator | |
| `BoardGames` | what the games of pgx have in common | |
| `LineGames` | tic-tac-toe and connect four, which share their variables and the end of a step | `BoardGames` |
| `StoneGames`, `CardGames` | hex and othello; Kuhn poker and Leduc hold'em | `BoardGames` |
| `Go`, `Chess`, `AnimalShogi` | the games of those names | `BoardGames` |
| `Teams` | the six games of several agents and `MarlGrid`, of any sizes; a behaviour plays one of those in `Games` | the seven modules |
| `TeamsProof` | the theorems about them | `Teams` |
| `Environments` | `Teams` and a small instance of every other env | all of these |

The modules of the engine are checked as they are, with the constants of their .cfg files;
`StateBufferQueue` and `AsyncEnvPool` end with the configurations those name.

Names follow the code: an action is a method or one of its steps, a variable is a
field without its underscore (`allocPtr` is `alloc_ptr_`). Program counters
(`spc`, `wpc`, `pc`, `rpc`) say which step of a method a thread takes next. The
operators marked `Mutation:` are plausible bugs; no behaviour uses them, they
show for each property that it can fail.

### ActionBufferQueue

`EnqueueBulk` is `LockEnqueue`, `AllocPositions`, `WriteSlot` (once per slice),
`Publish`, `UnlockEnqueue`; `Dequeue` is `WaitItem`, `LockDequeue`, `ClaimSlot`,
`ReadSlot`, `UnlockDequeue`. `Call` and the return of `Dequeue` carry the
callers' protocol in the set `outstanding`: a slice, that is an env together with
what it is asked, is not enqueued again before a worker has it. An env can be
asked for one step and one reset at a time at the most, hence
`Cardinality(Slices) <= 2 * NumEnvs`. This is weaker than what the pool's driver
does, and it is all the queue needs. Two things are left out: empty bulks, which
only pass through `sem_enqueue_`, and the destructor's bulk of empty slices,
which may exceed the ring; it can only overwrite slices that are read after
`stop_` is set and are dropped unread.

`ActionFifo` says that a bulk becomes available as a whole, behind earlier ones,
and that each slice goes to one worker. The refinement mapping counts a slice as
available from the signal on `sem_`, and as taken when a worker claims its
position, so the tokens that workers hold in between are counted as well.

### StateBuffer

A request is one `Allocate` with the `Done` that belongs to it. `CountAllocation`
and `TakeOffsets` are the two `fetch_add`s; `offsets` is the packed word, kept at
its width with `Half` for 2^32. The initial states choose which requests come,
how many players each has, and their orders; `CallsAllowed` restricts that to
what the pool does: with an order, or with an additional count, the requests are
exactly the rest of the quota. `Write` is one step, since `SlicesDisjoint`
shows that no two requests share memory.

### StateBufferQueue

`TakePosition`, `ReadPointer` and `AllocateRow` are `Allocate`; the last is
`StateBuffer::Allocate` in one step, which module `StateBuffer` takes apart. A
request that finds its buffer full goes to `thrown`, as the exception that
nobody catches. `Wait` keeps all its steps; the swap is two, because
`std::swap` leaves a null pointer in the ring for a moment. Each buffer has an
`id`, and a worker remembers the `id` it looked up. A behaviour is of one
`config`, the batch and the mode. In asynchronous mode a
request begins whenever it is not outstanding; in synchronous mode `BeginRound`
is one `Send` for any list of envs and the next one follows a `Wait`. A round
may be empty: then `Wait` is called with nothing stepping.

### StockBuffer

The creators' loop, `Put`, `TryGet`, `Get` and the destructor. Which buffer is
which does not matter, only whether a slot holds one. `TryGet` on an empty stock
changes nothing (`Wait` makes a buffer itself).

### AsyncEnvPool

The driver's view is `asked`, the envs it has asked and not yet received. It keeps to
the contract of `docs/content/python_interface.rst`: no env is asked again before its
state was received; when `is_async` of envpool.py says synchronous (`IsAsync`) a
`Recv` follows each `Send` or `Reset`; otherwise they may run in two threads. The
pool's own `is_sync_` (`IsSync`) also wants one player per env: a `config` with
several players is a pool that the two call differently. The action queue is the FIFO
that `ActionBufferQueue` is shown to implement. Blocks of rows are numbered from
the head, so the state space is finite; that the ring never wraps into a block in
use is `NoOverflow` of `StateBufferQueue`. `RunEnv` is `PreProcess` with `Reset`
or with `ParseAction` and `Step`: it reports what was done (`did`), the steps
since the reset and whether the episode ended.

`VectorEnv` is what a driver may rely on: each asked env answers once; it resets
if it was asked to or if its episode had ended, and then drops the action;
batches have `Batch` answers, or in synchronous mode are the answers to the last
list in its order; `trunc` is right.

### Players and ActionLifetime

In `Players` a row of an action is the pair of the env and the player it was meant
for; the code never sees the pair, it sees a mapping. The caller either gives the
mapping or leaves it to `_infer_players_env_id`, whose early returns are all there,
and may send for other envs than it received, among them envs that report no players.
`ParseAction` takes one slice of the batch when the rows are contiguous and gathers them
otherwise. `OwnPlayersAct` compares what the env is handed with what was meant, and
`InferenceSuffices`, a part of `IInv`, says that the Python layer does not refuse to infer.
Without a mapping from the caller both are about the sends for which what is inferred must
be right (`CanInfer`): every env has a player to act for, and the envs came with the last
`recv` or, in whatever batches they came, have as many players each. For envs of other
batches with different numbers of players the code guesses equal shares; nothing says that
the guess is right, and no property does. `InferredPlayersAct` is about all envs of the last
`recv`, those without players included.

`ActionLifetime` counts references to the arrays. `PySend` takes one, each env
keeps a copy until its next `SetAction`, `ParseAction` hands slices that own
nothing to `Step`, and whoever drops the last copy needs the GIL. The destructor
joins the workers while it holds the GIL; it does not lock up because a worker
drops the arrays of an env only in `SetAction`, which the thread of the driver runs.

### jumanji

Each module has the `Reset` and `Step` of one game with its helpers under their
names. What is drawn at random is chosen nondeterministically; grids are small
instances of the template parameters; times are counted as in the code. Replayed
and configured episodes are kept where they are how the game starts (boards of
2048, demands, layouts) and left out where a header names them so. `JobShop` and
`Fleet` begin at any of their `Starts`, the default one or a configured one: operations with
the mask of those that may start and machines that are already at work; demands
with the loads of the vehicles. In `Routing`
the capacity is a float, at its 24 bits of precision, and so are its refusals.

### minigrid and BabyAI

A world is the grid, the agent, its direction and what it carries; `Acted` is one
action. A level is what `GenGrid` of a task may return on a grid of the smallest size
that holds the task: the set of all its results, rejection sampling included. An
episode may end at any step of the tasks in `CutShort` (or with `Timeouts`) in place
of a count of steps, so `max_steps_` needs no bound. The mask of `GenImage` is
computed by the same two sweeps over the rows.

In `BabyAI` a verifier remembers the positions of its things, what the agent carried
before and whether it is done. Instructions are lists of one or two
groups of one or two actions; `Asked` says which are asked in a step.

### MarlGrid

`Step` puts back agents who are not active, lets the agents act in any order and
retires those who are done. The record that is passed on holds the agents, who is in
each cell in order of arrival, and what each is paid. `laps` is history: the bonus
tile an agent began with, the one it came to last and how often it was paid.

### Atari

The emulator is known by the time since `reset_game`, its lives and whether the game
is over; the lives may be lost and the game may end in any frame. A screen is the
set of the times it shows. `Reset` and `Step` keep the order of the code: no-ops,
fire, the pooled pair, the stack, `elapsed_step_`, lives.

### pgx

Boards, masks and chains are those of the code, with numbers of chains and signs for
colours. Hex and `Go` renumber chains when they join; `Go` keeps the three sums over
pseudo-liberties from which atari is read, the ko point and the history of
positions. `Tried` are illegal actions an instance tries, `Points` the points of the
board it plays on, `First` the actions it begins with, `Coins` the draws of who begins.

`Chess` has one operator for each thing `ApplyMove` changes (the board, the castling
rights, the square of en passant, the plies without a capture or a move of a pawn), which
`UpdateLegalActionMask` and `Step` both use, as the code does; an action is the squares it moves
between and the piece it promotes to instead of its label. `seenKeys` holds positions
instead of their hashes. `played` is a history variable, from which the properties tell
what may be castled or taken in passing without looking at the rights and the square the
code keeps. `AnimalShogi` keeps the labels and the flat histories of boards and hands. The
episodes are those of `Lines` and `Offered`: openings that lead to the cases.

## 3. Runs

| run | instance | question |
|---|---|---|
| `action_queue` | 2 senders, 2 workers, ring of 2, 2 slices, bulks of 1 or 2 | is the unchecked ring safe, does it implement the FIFO, is every slice delivered |
| `buffer` | up to 4 requests of 1 or 2 players or with an order, batch 3, any additional count, `Half = 7` | are slices disjoint, do rows follow the order, is `Wait`'s result complete, compact and quiet, does it return |
| `ring` | 3 envs; batches of 2 with 4 requests, or synchronous rounds of 0 to 3 in any order; ring of 6, 19 positions | does the ring wrap safely, are batches complete and in order, do counters realign |
| `stock` | 2 creators, stock of 6, 8 takes | is nothing null or lost, does the destructor end when the stock covers it |
| `stock_stop` | 1 creator, stock of 6 | does the destructor always end: **no** |
| `pool` | 2 envs, 2 workers: batch 1, synchronous, and batch 2 with several players | is an env ever used by two threads, can a thread always go on, does the pool implement `VectorEnv`, is `stepping_env_num_` right, do `Recv` and the destructor return; is the invariant of the proof one |
| `pool_reset` | 2 envs, 2 workers, batch 2, several players | does the reset of some envs return where `is_async` says synchronous: **no** |
| `lifetime` | 2 envs, 2 workers and 3 arrays | does every step read the live array last sent for its env, does every call return; is the invariant of the proof one |
| `players` | 2 envs of 0 to 4 players, batches 1 and 2 | is every step handed its own players' actions, is the mapping inferred wherever the caller can count on it; is the invariant of the proof one |
| `players_dead` | 2 envs of 0 to 2 players | is every step handed its own players' actions when the mapping is inferred for the envs of the last `recv`, those without players included: **no** |
| `envs` | fifteen games of jumanji, sixteen tasks of minigrid, BabyAI with and without done actions, marlgrid, Atari | do boards stay whole, do agents keep apart, do steps do and pay what the rules say |
| `pgx` | nine games: go on 2 x 2 and on a corner of 3 x 3, lines of chess and of animal shogi | are masks, chains, captures, ends and rewards what the rules say |

Why the bounds are enough. Every ring wraps: `MaxEnqueued = 4` lets up to six
slices through a ring of two, `MaxPositions` 19 exceeds the positions of the ring of
six buffers (12 or 18), `MaxTakes = 8` exceeds the stock of six. The
number of slices or requests is the largest the contract allows (the asynchronous
ring has four of six, enough for two complete batches to overlap). Two workers show
every pairwise interleaving, and batches of one out of two envs let a worker fill the next
batch while `Recv` holds the one before. That larger pools, with batches that stay partly
filled, show nothing else of `IInv`, `NoEnvRace` and `NeverStuck` is what their theorems say. `MaxEpisodeSteps = 1` gives reset,
step, end, automatic reset. Three sends give an array that is kept by one env while
two later ones go through the others. Four players in an env make
its rows both contiguous and scattered, and as many rows as envs (two) can come from one
env.

The games are small but whole: each instance holds every rule of its module (merges,
pushes and a box at the wall, tails that are entered, regions that meet earlier ones,
pairs of agents that make for one cell, captures, ko and superko, raises up to the limit),
plays to the end of an episode and through a reset. Atari has actions of three
frames, stacks of three, up to three no-ops, episodes of up to four steps, games of two
lives and of none, with and without episodic life and fire reset. The picture of an
agent in minigrid is 3 x 3; those of marlgrid are 3 x 3 and 5 x 5, with and without
offset. Where a set of levels is filtered in `Environments`, the others
are mirror images or are reached by turning and walking.

In `envs` and `pgx` the properties of the games are conjunctions of sub-properties, one
for each game (`game = "Snake" => Snake!BodyIsPath /\ ...`), under a name that
says what they have in common. The sub-properties are stated and commented in the
modules of the games, and each has at least one mutant of its own.

Symmetry is used in `ring`, which has no liveness properties.
Deadlock is checked in `envs`, `pgx`, `players` and `players_dead`, where an episode that ends is
reset and a driver always has an env to ask or to receive. It is
not checked elsewhere: nobody is obliged to call, so every model may stop in its
idle states, and the bounds on counters end the behaviours they cut. `NeverStuck` is what
the pool has in its place: it stops only where nobody is inside of a call.

Fairness. Weak fairness of each thread's own steps: the scheduler runs every
thread, and a thread blocked on a semaphore is not enabled. The calls
(`Call`, `Send`, `Reset`, `Recv`, `Begin`, `TryGet`, the destructors) have none.
In `StockBuffer` the creators contend for `stock_buffer_put_mu_`: strong fairness of
`LockPut` says that a mutex that keeps becoming free is granted in the end, which
an implementation on a futex gives in practice. The property needs every
creator to see `quit_` and not a particular one to win. In `ActionLifetime` the
thread that runs other Python code gives up the GIL (the interpreter switches
threads), and strong fairness of the three steps that take it says that a thread
which asks for it gets it in the end. The workers never take it there; nor would it help
them, as the destructor holds it while it joins them.

### Findings

`stock_stop`: the destructor of `StateBufferQueue` sets `quit_` and then `Get`s one
buffer per creator, so that a creator blocked in `Put` goes on and sees `quit_`
(state_buffer_queue.h:108-112, "stop the thread"). If the last `Wait` took the
only stocked buffer, and the creator that put it sees `quit_` before it makes
another, it leaves its loop, and the destructor waits in `Get` for a buffer that
nobody puts. `DestructorStopsStocked`, in run `stock`, shows that
it ends when the stock holds a buffer for each `Get`, or was never used.

`pool_reset`: `is_async` of envpool.py compares `num_envs` with `batch_size`,
`is_sync_` also wants one player per env. With several players and a batch of every
env the Python layer says synchronous, `reset` of some envs is defined there, and its
`recv` waits for a full batch that nobody completes.

`players_dead`: an env may report no players when all are dead (new_env.rst:184).
`_infer_players_env_id` then drops the mapping of the last `recv`, and when there
are as many actions as envs it takes one for each: an env without players is given an
action of another's.

### Observations

Behaviour of the code that the models show and that no document of the repository
contradicts; the properties are stated so as to hold of it.

* BabyAI with done actions: a mission of two parts cannot succeed when its first part
  needs "done", since the same "done" is passed to the second part, which fails on it.
* A BabyAI goto succeeds in front of the cell a thing was taken from: positions are
  looked up again only after a drop. Grey descriptions also match walls.
* minigrid's fetch, goto_object and put_near keep things off the cell where the agent
  stood at the end of the last episode.
* Atari: `elapsed_step_` is not set back when the game ends in the no-ops of
  `Reset`, so the new game may be cut earlier; and when a game ends before the last
  two frames of an action, the last observation repeats the pool of the step before.
* MarlGrid: without ghost mode and respawn an agent that is done stays in the goal's
  cell and blocks it for the others. With a single bonus tile nothing is ever paid for
  it. With an even `view_size`, which no registered task has and nothing refuses,
  an agent that faces down or left is not at its own cell of the picture.
* Animal shogi: a move shifts the history of boards and that of hands by eight places
  (animal_shogi.h:250-254), though their rows have 12 and 6, so a row of the past is no
  longer a board. In every position explored `rep` is 0: no draw by repetition.

## 4. Proofs

TLAPS proves every safety property of the four modules of queues and buffers, of the pool,
of the players' actions and of the lifetime of actions, both refinements, and that the agents
of the seven games of `Teams` keep apart, for all values of the constants:

| module | theorem | states that always |
|---|---|---|
| `ActionBufferQueueProof` | `Inductive` | `IInv` |
| | `TypeCorrect`, `DequeueCorrect`, `SlotsRaceFree` | `TypeOK`, `DequeueReturnsSent`, `NoSlotRace` |
| | `FifoImplemented` | `ImplementsFifo`: the ring is an `ActionFifo` |
| `StateBufferProof` | `BufferInductive` | `IInv` |
| | `AllocatedDisjoint`, `ReturnsQuiet` | `SlicesDisjoint`, `QuietOnReturn` |
| | `ReturnsWritten`, `ReturnsInOrder` | `WaitReturnsWrittenRows`, `RowsFollowOrder` |
| `StateBufferQueueProof` | `RingInductive` | `IInv` |
| | `RingNeverOverflows`, `BuffersStayAlive` | `NoOverflow` (a part of `IInv`), `NoStaleBuffer` |
| | `BatchesComplete`, `BatchesInOrder` | `BatchIsComplete`, `OldestFirst` |
| | `RowsInOrder`, `RoundsAligned` | `SyncOrder`, `AlignedBetweenRounds` |
| `StockBufferProof` | `StockInductive` | `IInv` |
| | `TakenNeverNull`, `StockedNotOverwritten` | `NeverNull`, `NoOverwrite` |
| `AsyncEnvPoolProof` | `PoolInductive` | `IInv` |
| | `EnvsDoNotRace`, `SteppingNumIsRight` | `NoEnvRace`, `SteppingNumIsOutstanding` |
| | `PoolNeverStuck` | `NeverStuck` |
| | `PoolImplementsVectorEnv` | `ImplementsVectorEnv`: the pool is a `VectorEnv` |
| `PlayersProof` | `PlayersInductive`, `OwnPlayersActAlways` | `IInv`, `OwnPlayersAct` |
| | `InferenceSufficesAlways` | `InferenceSuffices` (a part of `IInv`) |
| `ActionLifetimeProof` | `LifetimeInductive`, `StepsReadLiveArrays` | `IInv`, `StepReadsLiveArray` |
| `TeamsProof` | `TeamsInductive`, `AgentsStayApart` | `IInv` of `Teams`, `AgentsKeepApart` |

`IInv` is the inductive invariant of its module, a conjunction of named parts that stands
at the end of the module. `TypeOK` is its first part, so the runs that check `IInv` check the types with it.
(That of `Teams` is the conjunction of those of its games; run `envs` checks `AgentsKeepApart`,
and holds with `IInv` among its invariants as well.) Each proof has one lemma per action, and in
it one step per part of `IInv` that the action can disturb; what several actions leave
alone is shown once, in lemmas named `...Frame`. The last lemma is
`IInv /\ [Next]_vars => IInv'`, and a theorem adds `Init => IInv` by PTL.

**ActionBufferQueue.** `IInv` adds to the properties: the two inner semaphores are
locks (`MutexInv`); the tokens of `sem_`, with those that workers hold, count
exactly the filled positions from `donePtr` on, and a bulk being written owns the
last positions (`PositionInv`); the slices at the positions that are not yet
returned (`Window`), and those of the bulks that have no positions yet, are
outstanding and pairwise different (`OutstandingInv`); every filled slot of the
window holds what was sent (`ContentInv`). Different slices, at most as many as there
are slots, make the window no longer than the ring (`WindowFits`, a cardinality
argument). So two positions of the window are in different slots (`WindowSlots`). A
sender writes at a position of the window at or behind `donePtr`, a reader stands just
before it: no write hits a filled slot or one that is being copied. A worker
that claims a position holds a token, so the position is filled.

The refinement of `ActionFifo`: what is available are the slots from `donePtr` on, one for
each token, whether in `sem_` or with a worker that has claimed no slot yet. `Publish` is
then `Put` of the whole bulk, `ClaimSlot` is `Take` of the oldest slice, the beginning of an `EnqueueBulk` is `Call` and the end of a `Dequeue`
`Return`; every other step stutters. One lemma per action says which.

**StateBuffer.** `CountInv`: `allocCount` is the number of requests that were counted,
`doneCount` that of the reported ones with what `Wait` added, no more than `Batch` are
admitted, and the signal of a complete quota is in one place: about to be given, in the
semaphore, or taken. `PlaceInv`: the halves of the packed word are the
rows that were handed out; without an order the slices fill both arrays from the
start. That one half never overflows into the other (`Packed`, `Capacity`) needs
`Batch * MostPlayers < Half`, an assumption: a batch has fewer than 2^32 players. When `doneCount = Batch` the
requests that report are all those that were admitted (`Quota`, `Quiet`), so that nobody
is between `TakeOffsets` and `Done` when `Wait` goes on, and every row is written.

**StateBufferQueue.** The positions that requests hold and `Wait` skipped are exactly those
from the block of the head to `allocCount` (`WindowInv`). At most `2 * NumEnvs` requests
are outstanding, by assumption, so the window is shorter than the ring of `(NumEnvs \div
Batch + 2) * 2` buffers (`Window`): requests whose buffers are at the same place are of the
same block (`SamePlaceSameBlock`), of which there are `Batch` at most.
Then a buffer counts its users (`CountInv`), which is why it never refuses one,
has their rows (`RowInv`), and is complete only when all its positions are taken, skipped
and reported; a request that has not reported is in the head's block only while the
count is short, and so the buffer `Wait` takes out is nobody's (`PointerInv`).
`BatchInv` says what `Wait` holds after the truncation. In synchronous mode
`ProtocolInv` says that the orders number the round, and that what is missing from it is
`additional`.

**StockBuffer.** The semaphores count the positions between `head_` and `tail_` and
the free slots, but for the calls in progress (`SemInv`); exactly the stocked
positions hold a buffer (`ContentInv`). So what `Get` finds is filled and
what `Put` finds is free. The number of takes is bounded in no way that matters: the theorem holds
for every `MaxTakes`.

**AsyncEnvPool.** An env that is asked is in one place on its way to the next `Recv`, and
in it once: in the list of the `Send` that runs, in the queue, held by a worker, in a row of
a block, in the batch that `Recv` is about to return (`PlaceInv`, `OnceInv`). That
is what keeps the threads apart, since the driver asks no env twice: a worker that is
not yet done with an env holds it, one that is only about to call `Done` has its row. There
are then no more positions than envs, and blocks are filled one after the other: each has
as many positions as it has users, rows written and reported (`CountInv`), and every user a
row of its own, free until it writes (`RowInv`; in asynchronous mode rows are filled from
the front). Hence a head whose count is full has all its rows written and
nobody in it (`HeadComplete`), and moving the blocks by one disturbs no worker. `SyncInv`
and `SyncRowInv` say that in synchronous mode queue, workers, rows and the
batch of `Recv` are about the list of the last `Send`, each row at the order of its slice,
and what `stepping_env_num_` and `additional` are in between. `RequestInv` carries the
request of an env from `Send` to the worker that runs it, `StopInv` keeps the slices of the
destructor out of the envs.

The refinement of `VectorEnv`: the answer of an env is what its worker, its row or `Recv`
holds (`Tells`), and by `IInv` there is at most one. `Send` and `Reset` are `Ask`, `RunEnv` is
`Answer`, `Return` is `Deliver`; all the other steps stutter, because they carry an answer from
one place to the next and lose or double none (`QuietStep`, `SilentStep`). The abstract
specification is taken without fairness: that requests are answered in the end is
`RecvReturns`, which stays with TLC.

`NeverStuck`: whenever the pool has something to do, some thread can take its next step.
Only two waits could last for ever, those of `Recv` and of the destructor. `Recv` waits for
the head to be complete. Nothing asked is lost: until the pool stops, an env that is asked is
in one of the places named above (`NoneLost`, an invariant of its own on top of `IInv`).
If neither the sender nor a worker can go on, all of these are empty but the rows, so
every outstanding env has a position. Blocks are filled one after the other, so the head has
`Batch` of them as soon as that many envs are outstanding, or in synchronous mode with those
that `additional` makes up for, and nobody is in it any more: it is complete, and `Recv`
goes on. The destructor waits for the workers. It leaves one slice for each, and a worker
that finds `stop_` set takes no second one, so there are at least as many slices in the queue
as workers that will come back to it (`Coming`). `RecvReturns` and `DestructorJoins` add
that what can go on does; that is fairness and stays with TLC.

**Players.** The rows of a send are a concatenation over the envs of the list
(`FlattenSeq`). That it holds the rows of each env as one segment, at the sum of the lengths
before it, is shown once (`FlattenLayout`). It takes induction over data: the library's
induction theorems take an operator, which the provers cannot instantiate, but the
one about least elements (`WFMin`) takes a set, and `SetInduction` follows from it. `InOrder` then says the same of rows in
either order, by a function that numbers the rows of an env. `LastInv`: the mapping of the
last `recv` has a row for each player of the envs it came with that were not asked again,
since an env changes its number of players only in a step. So when the envs of a
send came with the last `recv` and have a player each, the inferred mapping is the cached one,
or the env ids where there is one row each, and both are the envs of the rows. Envs of other
batches that have as many players each have a row in equal shares, and that is what is inferred
(`EqualSharesRight`): the cached mapping is of no use for an env that it does not name, and it
names only envs of the last `recv`, the other half of `LastInv`. `BatchInv` keeps all that in
the action an env was left, until `ParseAction` takes its rows. With a row for each
player and in order, the slice and the copies of `ParseAction` are the same thing.

**ActionLifetime.** An env is in one place from the call that asks it to the call that
receives it: in the list of a `Send`, in the queue, with a worker, reported, or with the
driver (`PlaceInv`); so `SetAction`, which replaces what an env holds, is never about an env
that a worker steps. `StopInv`: the slices that name no env are there only once the pool
stops, and all workers have left when the envs are destroyed. `ArrayInv`: an array that was
given back is held by no env and by no `Send`; each env holds the array last sent for it,
but for those a `Send` has still to come to; and what a worker reads is what its env holds.
An array is given back when the last of its holders lets go, a `Send` or
an env, and never by a worker, because `PostProcess` keeps the batch (`KeepBatch`).

**Teams.** One lemma for `Init`, `Reset` and `Step` of each game. Where agents act one after
the other, `Step` folds their turns (`after[i]`): a turn is shown to keep the invariant, and
`TurnsKeep` carries it over any number of turns, an induction on sets like that of `Players`;
that such a recursive function is defined at all is `TurnsStay`.
Robots are compared with where the others were, and by pairs with
where they go, so the cells they come to differ (`WarehouseStepInv`); a cleaner goes
to no wall and cleans where it comes to. `Wirings` (`ConnectorIsWiring`) says of the wires
that every cell shows whose head, path or target it is, and a turn writes the two cells of
its own agent only. The load of a vehicle is what its checks left: a customer is served by
one that has enough, which is filled at the depot; a load that was configured stays what it was
until a first customer is served or the depot is passed (`Fits`). Of a job that the mask of the start offers,
`JobsPlaced` says that it waits, runs or is completed, in one way only: two machines cannot start the same, because an operation
names its machine, and what runs has time left until the step that completes it. What a
machine was at work on from the start, a job of the game or not, it ends when its time is over (`Over`).

In `MarlGrid` the positions of the agents and the lists of who is in a cell are kept twice.
An agent who is placed is in one list, once (`Once`); `RemoveAgentFromCell` takes it out of
that list and leaves the others' (`Removed`, `AgentLeaves`), `push_back` puts it in one from
which it is absent (`Added`, `AgentComes`). `AllPlaced` is the invariant in the course of a step,
while others have still to act, and holds for every order that the shuffle may give
(`AllHaveActed`); retiring with respawn takes an agent off the grid and puts it back
(`AgentRetires`). The grid stays walled all around, so the cell in front of an agent is always
in it (`FrontInBounds`): the `CHECK` of `DoAgentStep` never fails.

`SizesAssumption` says how the sizes fit together. What the code makes sure of is in it (fixed sizes,
clamped cells, no more robots than rows), and what it takes from its configuration without a look:
that wires, foragers and food start in different cells, and that no machine starts at work on a
job whose operation the mask still offers. The other numbers of a configured start are
arbitrary: times, machines and demands may be negative, and a load may exceed the capacity.

Assumptions: the `ASSUME`s of the modules, no others. They are facts of the callers or of
the constructor: finitely many threads and requests, at least one env, batches of at
most `NumEnvs`, the contract on slices, and a quota that fits into a half word; for the pool
also that `Nothing` is neither an answer nor a row, for `Players` that it is no mapping, and for
`ActionLifetime` that the null pointer is no array and no env. TLC
evaluates them in the runs of their modules. The bounds that keep the models finite
(`MaxEnqueued`, `MaxPositions`, `MaxTakes`, `MaxSends`) are arbitrary numbers in the proofs.

Only model-checked: liveness (`EverySliceDelivered`, `WaitReturns`,
`DestructorStopsStocked`, `RecvReturns`, `DestructorJoins`, `CallsReturn`: fairness and
`ENABLED` are out of the prover's reach), what a step of a team changes and pays
(`StepsFollowRules`), and the other envs. Their games are checked whole on
small boards: their rules are closures, chains and walks over boards, each its own
induction, and each property is about one game.

## 5. Not modelled

In the engine and the Python layer:

* The memory of arrays, their types, shapes and strides; seeds; `Render`; the
  construction of envs by a thread pool, CPU affinity; conversions between numpy,
  Gymnasium and dm_env; XLA and JAX, which wrap the same calls.
* Weak memory: the counters and semaphores are taken as sequentially consistent,
  as the code's default-ordered atomics are; plain accesses are checked for races
  where they matter (`NoSlotRace`, `NoEnvRace`, `NoStaleBuffer`).
* Wrap-around of 64-bit position counters.
* The semaphore and the thread pool, which are third-party code, and a semaphore
  destroyed while a `signal` is still inside it.
* Several threads in `Wait`: a comment in the code excludes it, and the Python
  layer has one receiver.
* Envs that throw, and envs that do not call `Allocate` in a step.

Of the environments:

* jumanji: bin_pack, flat_pack, knapsack, tsp, sudoku, maze, mmst, pac_man,
  search_and_rescue; episodes that are replayed from a file; rendering.
* pgx: Gardner chess, shogi, backgammon, mahjong and 2048; the planes of
  observations; collisions of the hashes of positions (a hash is its position);
  actions of chess and animal shogi that leave the board, which write outside of it.
* minigrid: locked_room, multi_room, four_rooms, playground, blocked_unlock_pickup
  and the WFC tasks; missions as text; the missions of most BabyAI tasks, which
  combine the instructions that are modelled.
* toy_text: six games of about a hundred lines whose state is one position or hand.
* MuJoCo, Box2D, Highway, classic control: numerical simulation. A discrete model of
  a floating-point integrator would be a different program; what these envs have
  besides (`IsDone`, `max_episode_steps`) is what `AsyncEnvPool` takes an env to be.
* ViZDoom, Procgen, Google Research Football, image processing: wrappers of external
  engines and libraries.

This is why the share of source lines behind the models is small: most of
the repository's lines are numerical simulation, tables and renderers.
All of the code where threads meet is modelled, save `Render`.

## 6. Plan

1. `BatchQueue`, the abstract specification of `StateBufferQueue`, and the
   refinement; `CircularBuffer` on its own with several getters and putters.
2. Theorems about what a step of a team pays (`CleanedOnce`, `FoodPaidOnce`, `ServedByOne`), and
   about the games for one or two players whose rules need no recursion (connect four,
   Kuhn poker, the cube), with an inductive invariant for each.
3. More games: shogi, Gardner chess, backgammon, jumanji's maze, mmst and pac_man;
   the remaining tasks of minigrid. Lines of chess that end in too little material, which
   is compared with the rule on boards of a few pieces (`FewPieces`) but never reached.
4. The frame stack of MuJoCo's pixel observations as an instance of that of `Atari`.
