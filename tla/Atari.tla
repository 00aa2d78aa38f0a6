------------------------------- MODULE Atari -------------------------------
(* AtariEnv (atari_env.h): the frames an observation is made of and the episodes that
   are made of the lives of a game.  The emulator is external: it is known by the time
   since reset_game, the lives and whether the game is over.  A screen is the set of the
   times it shows, one or, pooled, two; -1 is any time of an earlier game.  Pixels,
   rewards and discounts are left out. *)
EXTENDS Integers, Sequences, SequencesExt

CONSTANTS
  FrameSkip, StackNum, NoopMax, MaxEpisodeSteps,
  Options     \* the values of [episodicLife, fireReset, lives], lives being those of a new game

VARIABLES
  options,
  env,        \* the emulator: [t, lives, over]
  maxpool,    \* maxpool_buf_
  stack,      \* stack_buf_
  elapsed,    \* elapsed_step_
  lives,      \* lives_
  done,
  played      \* history: the steps taken since reset_game
vars == <<options, env, maxpool, stack, elapsed, lives, done, played>>

NewGame == [t |-> 0, lives |-> options.lives, over |-> FALSE]

\* What one act can lead to.
Acted(e) ==
  IF e.over THEN {e}
  ELSE {x \in [t : {e.t + 1}, lives : {e.lives, e.lives - 1} \cap Nat, over : BOOLEAN] : x.over => x.lives = 0}

Aged(frames) == [i \in DOMAIN frames |-> {-1}]
----------------------------------------------------------------------------
\* Mutation: the two screens are pooled although the game ended between them.
ToPoolAlways(left) == FrameSkip > 1
\* Whether Step pools: all its frames were played.
ToPool(left) == FrameSkip > 1 /\ left = 0

\* PushStack.
Pushed(frames, screen, pushAll) ==
  IF pushAll THEN [i \in DOMAIN frames |-> screen] ELSE Append(Tail(frames), screen)

----------------------------------------------------------------------------
\* Mutation: a game that was cut short goes on in the next episode.
MustRestartIfOver(forced) == forced \/ ~options.episodicLife \/ env.over
MustRestart(forced) ==
  forced \/ ~options.episodicLife \/ env.over \/ elapsed >= MaxEpisodeSteps

\* Mutation: the stack keeps the frames of a game that ended in the no-ops.
NoopUnpushed(s) ==
  {IF e.over THEN [s EXCEPT !.env = NewGame, !.anew = TRUE] ELSE [s EXCEPT !.env = e] : e \in Acted(s.env)}
\* One no-op, with reset_game if it ends the game; pushAll is push_all, anew is history.
Noop(s) ==
  {IF e.over THEN [env |-> NewGame, pushAll |-> TRUE, anew |-> TRUE] ELSE [s EXCEPT !.env = e] : e \in Acted(s.env)}

\* Reset up to reading the screen.
Warmed(forced, noops) ==
  LET restart == MustRestart(forced)
      begun == [env |-> IF restart THEN NewGame ELSE env, pushAll |-> restart, anew |-> restart]
      idle == FoldLeft(LAMBDA states, k : UNION {Noop(s) : s \in states}, {begun}, [k \in 1 .. noops |-> k])
  IN  IF options.fireReset THEN UNION {{[s EXCEPT !.env = e] : e \in Acted(s.env)} : s \in idle} ELSE idle

\* Mutation: lives_ is what the last step left.
LivesSeenStale(e) == lives
LivesSeen(e) == e.lives

Reset(forced) ==
  \E noop \in 1 .. NoopMax :
    \E s \in Warmed(forced, noop - IF options.fireReset THEN 1 ELSE 0) :
      /\ done \/ forced
      /\ env' = s.env
      /\ maxpool' = [(IF s.anew THEN Aged(maxpool) ELSE maxpool) EXCEPT ![1] = {s.env.t}]
      /\ stack' = Pushed(IF s.anew THEN Aged(stack) ELSE stack, {s.env.t}, s.pushAll)
      /\ elapsed' = IF MustRestart(forced) THEN 0 ELSE elapsed
      /\ lives' = LivesSeen(s.env)
      /\ done' = FALSE
      /\ played' = IF s.anew THEN 0 ELSE played
      /\ UNCHANGED options

\* One of the frames an action is repeated for: the last two, at most, are kept.
Framed(s) ==
  LET pooled == IF FrameSkip < 2 THEN FrameSkip ELSE 2
  IN  IF s.over THEN {s}
      ELSE {[env |-> e, over |-> e.over, left |-> s.left - 1,
             maxpool |-> IF s.left <= pooled THEN [s.maxpool EXCEPT ![pooled - s.left + 1] = {e.t}] ELSE s.maxpool]
              : e \in Acted(s.env)}
Played ==
  FoldLeft(LAMBDA states, k : UNION {Framed(s) : s \in states},
           {[env |-> env, over |-> FALSE, left |-> FrameSkip, maxpool |-> maxpool]},
           [k \in 1 .. FrameSkip |-> k])

Step ==
  \E s \in Played :
    LET screen == IF ToPool(s.left) THEN s.maxpool[1] \cup s.maxpool[2] ELSE s.maxpool[1]
        lost == options.episodicLife /\ 0 < s.env.lives /\ s.env.lives < lives
    IN  /\ ~done
        /\ env' = s.env
        /\ maxpool' = [s.maxpool EXCEPT ![1] = screen]
        /\ stack' = Pushed(stack, screen, FALSE)
        /\ elapsed' = elapsed + 1
        /\ done' = (s.over \/ elapsed + 1 >= MaxEpisodeSteps \/ lost)
        /\ lives' = LivesSeen(s.env)
        /\ played' = played + 1
        /\ UNCHANGED options

\* The first Reset, the env not having been played: the worker resets it because its
\* caller asked for it.
Init ==
  /\ options \in Options
  /\ env = NewGame /\ maxpool = <<{-1}, {-1}>> /\ stack = [i \in 1 .. StackNum |-> {-1}]
  /\ elapsed = MaxEpisodeSteps + 1 /\ lives = 0 /\ done = TRUE /\ played = 0

Next == Step \/ \E forced \in BOOLEAN : Reset(forced)

----------------------------------------------------------------------------
\* From the first reset on the frames of an observation are of one game and in the order they were played, a
\* pooled one is of two that follow each other, and the newest is the one on the screen
\* unless the game is over: it may then have ended before the last two frames.
FramesOfOneGame ==
  elapsed <= MaxEpisodeSteps =>
    /\ \A i \in DOMAIN stack : \A a, b \in stack[i] : a >= 0 /\ a - b \in -1 .. 1
    /\ \A i, j \in DOMAIN stack : i < j => stack[i] = stack[j] \/ \A a \in stack[i], b \in stack[j] : a < b
    /\ ~env.over => env.t \in stack[StackNum]

\* However its episodes were begun, no game is played for longer than one may last; a
\* game begun because the last one ended in the no-ops may get less.
GameIsCut == played <= MaxEpisodeSteps /\ played <= elapsed

\* A step ends the episode exactly when it ended the game, used up the steps or, where
\* that counts, lost a life to the emulator, with another one left.
EndsWithLife ==
  (~done /\ elapsed' = elapsed + 1) =>
    (done' <=> \/ env'.over \/ elapsed' >= MaxEpisodeSteps
               \/ options.episodicLife /\ 0 < env'.lives /\ env'.lives < env.lives)
=============================================================================
