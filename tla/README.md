# A TLA+ model of backbone-survey

backbone-survey is a survey, live-quiz and certification service: a Rust module (axum handlers, sqlx,
PostgreSQL) in which every request is one or two READ COMMITTED transactions over a handful of rows.
There is no server-side state but the rows, a mutex-guarded table of failed code guesses, and the facts
handed to an event sink after (sometimes before) a commit. What is hard about it is therefore what
concurrent transactions on the same survey, attempt and line rows do to each other, and what is left
behind when one of them rolls back, dies, reads without a lock or meets a link that has lapsed.

This directory holds the modules, the TLC configurations and the TLAPS proofs. All paths below are
relative to the repository's root (`src/` in `PROJECT.json`).

## 1. Inventory

| Component | State | Operations | Hard behaviour |
|---|---|---|---|
| Live session verbs (`survey_write_service.rs`, `survey_session_repository.rs`, the session state machine) | session columns of the survey row: state, cursor, question clock, start stamp, code; `session_armed_at` | `arm_session`, `advance_session`, `end_session`, code TTL | several hosts at once; the end sweeps attempt rows that submits hold; facts recorded before and after commits; a rollback in between |
| Survey settings update (same file) | the whole survey row | `update_survey`, `persist_survey`, clamps | reads without a lock, writes every column; a trigger and a CHECK are the last defence |
| Attempt verbs (`intake_service.rs`, `attempt_repository.rs`) | the attempt row: `new`, `in_progress`, `done`; deadline | `begin`, `submit_answer`, `finish`, the session-end sweep | a link verified in one transaction and used in the next; unlocked read before a conditional update; lock cycles |
| Attempt entry and pool (`attempt_service.rs`) | attempt rows of one taker or email, an advisory lock per taker | `public_start`, `join_by_code`, `test_start`, `invite`, `resend`, `rotate_token` | look, count and mint are three statements; lapsed links; officer verbs without the advisory lock |
| Capability links (`attempt_service.rs`) | nonce and expiry on the attempt row | mint, verify, rotate | verification and use in different transactions |
| Code lockout book (`attempt_service.rs`) | failures and lock time per client, in memory | check, register, forget | check and register are two critical sections with database reads in between |
| Answer storage (`intake_service.rs`, `scoring_repository.rs`) | answer lines, frozen snapshot | delete-and-recreate, in-place overwrite, skip, conditional clear, prune | which rows a submit replaces, and who else holds them |
| Scoring and regrade (`scoring_service.rs`) | stored triple (percentage, total, success) on the attempt row | grade, speed factor, frozen denominator, fold, `regrade_question` | a regrade takes no attempt lock before it folds |
| Certification funnel (`intake_service.rs`, `certification_port.rs`) | none; a port call after the commit | grant on success | lost between commit and call; retakes; refusals |
| Event sink (`event_sink.rs`) | none | `record` | order and duplicates of facts |
| Question pages (`survey_write_service.rs`) | `page_id` and sequence of the questions | `upsert_question`, `recompute_page_ids` | two upserts from two snapshots |
| Session reads, leaderboard (`session_read_service.rs`) | none | read-only queries | none of their own |
| Routes (`public_routes.rs`), generated CRUD, wiring | none | request to verb, refusal to response | none of their own |

How they interact. The routes call the services; the services share nothing but the pool, so every
interaction goes through rows: a *submit* locks its attempt row and, when it inserts a line, takes the
foreign key's share lock on the survey row; an *end* locks the survey row and then updates attempt rows; a
*finish* takes the attempt row with its conditional `UPDATE`; a *regrade* takes line rows first and attempt
rows later; a *settings update* takes the survey row only when it writes. Triggers (session-state moves,
attempt-state order, score drift, question deletes) and one CHECK (certification and sessions disjoint)
are refusals at the row. Facts go to the sink by direct calls.

What makes each correct:

- **Session**: each verb is one indivisible step for an observer of the row; columns never come from two
  sessions; a question is pushed once, after the session's start; an ended session stays ended; an end
  finishes every attendee who was running.
- **Attempts**: the state only advances; a finished attempt receives no answers.
- **Pool**: at most one open attempt per taker, at most `attempts_limit` finished ones.
- **Totals**: the stored triple is what the stored lines and the frozen set give; an answered question is
  in the denominator; a scalar's score is written once; a finished attempt is fixed but for regrades.
- **Answer storage**: one line without a label per question; without roaming an answer stays; nobody earns by
  answering a second time; a conditional's lines go exactly when its triggers do; the saved e-mail is the stored answer.
- **Lockout**: no lock ends early because a stale miss was counted late, and nobody guesses while a lock they owe lasts.
- **Links**: a link that was dead when a request came opens nothing; a deadline once set stays; an invite stores every row
  it tells a link of or none.
- **Certification**: a completion is announced once; no grant without an attempt that was finished with success and open while the survey
  gave a badge; one per user.
- **Pages**: an upsert nobody disturbs leaves every question with the last page before it.
- **Shares**: a regrade splits what it grades and, with labels and settings as they were, restores what the submit stored.

## 2. Plan

All nine modules of the plan exist, most important first.

| # | Module | Abstract specification | Theorems |
|---|---|---|---|
| 1 | `SurveySession` (session verbs, settings update, join, begin, submit, finish, sweep) | `SessionMachine` | two inductive invariants, eight properties, refinement |
| 2 | `AttemptPool` (start, link expiry, rotate, resend) | the limit itself, as invariants | inductive invariant, both limits |
| 3 | `ScoreTotals` (lines, frozen set, stored triple, regrade) | the fold of what is stored | inductive invariant, four properties |
| 4 | `AnswerLines` (windows, gates, skips, comments, several triggers, stamp) | the lines as a function of one commit | inductive invariant, six properties |
| 5 | `CodeLockout` (check, register, reset, escalation, concurrent guesses, restarts) | the latest end any miss called for | inductive invariant, two properties |
| 6 | `AttemptLink` (nonces, deadlines, the invite batch) | what is dead when a request comes | inductive invariant, three properties |
| 7 | `CertificationFunnel` (finish, facts, port, consumer) | the attempts that were passed, and offered a badge | inductive invariant, three properties |
| 8 | `QuestionPages` (upserts, generic writes) | the schema's definition of `page_id` | inductive invariant, page derivation |
| 9 | `ChoiceScores` (grading of sets, shares, speed factor, regrade) | the shares of the submit | inductive invariant, both splits, restoration |

`MCTakerPaths` puts the last five and `ScoreTotals` side by side in one run; `TakerPathsProofs` proves that composition. What is left: the
session-code ladder and its unique index; the arithmetic of percentage and success. Every invariant and action property the
passing runs check has a theorem; the two liveness properties cannot have one (section 5).

## 3. What is modelled

### How a transaction becomes actions

A transaction is a *worker* with a program counter. Under READ COMMITTED each statement sees what is
committed when it runs, and rows a transaction wrote stay locked, and invisible to others, until it
commits. So each statement that reads something another worker can change is an action; writes are
kept by the worker and land in one action, the commit; a row lock is a variable naming its holder, and an
action that needs the row has "it is free" as a guard. A rollback (a refusal after a lock, a died
request, a lost connection, PostgreSQL's choice of a deadlock victim) gives the locks back and leaves no
trace: `HostAbort`, `ClientAbort`, `StartAbort`, `WriterAbort`, `GraderAbort`. A transaction that takes
no lock before its last statement is one action from that statement on. The mutants of the models
(`...PlainRead`, `...NoGate`, `...OffByOne` and so on, marked "slip" in the modules) are the bugs this
view is meant to catch: a dropped `FOR UPDATE`, a dropped condition, a column left unwritten.

### `SessionMachine`, `SurveySession`

`SurveySession` has one survey row (`survey`: state, cursor, clock, start stamp, code, certification),
attempt rows (`input`) and the facts recorded so far. Question ids are their positions in the sequence.
A timestamp is what was going on when it was taken: the clock is the question it was stamped for, the start
stamp the number of the session. A code is the number of the arm that minted it.

| Code | Actions |
|---|---|
| `arm_session`: pre-check in its own transaction, code ladder, conditional update | `ArmCheck`, `ArmCommit` |
| `advance_session`: lock, cursor walk, `SessionStarted` before the commit, `open_session`, `advance_cursor`, `SessionAdvanced` after it | `AdvanceLock`, `AdvanceCommit`, `Push` |
| `end_session`: lock, `bulk_done_attendees` row by row, clear, commit, `SessionEnded` | `EndLock`, `EndScan`, `EndTake`, `EndCommit`, `PushEnd` |
| `update_survey`, `persist_survey`: unlocked read, full-column write, trigger, CHECK | `EditRead`, `EditCommit` |
| `session_code_live`, 24 h TTL | `CodeLive`, `TtlRunsOut` |
| `join_by_code` | `JoinRead`, `JoinCommit` |
| `verify_capability`, `begin`, `submit_answer`, `finish` | `Verify`, `Begin`, `SubmitLock`, `SubmitCommit`, `FinishRead`, `FinishCommit` |
| question delete | `DeleteQuestion` |
| row-lock cycles | `WaitCycle`, `DeadlockDetected` |

`SessionMachine` is the abstract session: arm, advance to a later question, end, each in one step.
`SessionRefinement` maps state, cursor and number of arms to it.

### `AttemptPool`

One signed-in taker on one attempts-limited public survey. `StartLock`, `StartLook`, `StartCount` and
`StartMint` are `public_start`'s advisory lock, resume query, count and insert; `Verify`, `Begin` and
`Finish` the taker's requests under a link; `LinkRunsOut` time; `RotateToken`, `ResendCheck` and
`ResendMint` the officer. A link is whether `token_expires_at` lies ahead. SQL's `now()` is the start of the
transaction, so a start that waited for the lock may still resume a row whose link has lapsed since:
`StartLook` allows any open row to be resumed. Assumed: `attempts_limit` and the limited flag
do not change while the pool is in use, and the pool's answers come from the taker's rows alone.

### `ScoreTotals`

Lines, frozen set and stored triple of each attempt. A *writer* runs a submit (`SubmitLock`,
`SubmitStore`, `SubmitFold`, `SubmitCommit`) or a finish (`FinishLock`, `FinishFold`, `FinishCommit`); a
*grader* runs `regrade_question` (`GradeRead`, then for each attempt `GradeLine`, `GradeFold`, `GradeSet`, and
`GradeCommit`); `SessionEnds` is the session-end sweep, which neither prunes nor folds. A choice is deleted and
recreated, a scalar is overwritten in place and keeps its score, a choice that leaves its trigger
unchosen clears the conditionals it triggers. Abstractions, and why they are sound here:

- Grading is a choice of score; the stored triple is *what it was folded from*. Two equal inputs give
  equal triples, so a stale triple is a stale input. (Different inputs can give the same number: the model
  calls that stale too.)
- `new` and `in_progress` are both `open`; nothing here tells them apart.
- `users_can_go_back` is on; a refusal by the overwrite gate changes nothing and is a `WriterAbort`.
- Each conditional has one trigger; a choice question is answered with choices and a scalar with a scalar
  or a skip.
- A regrade visits its attempts in any order (the code: by attempt id), and the sweep may reach any open
  attempt (the code: running session attendees). Both allow more than the code.
- `recompute_input_scores` reads lines and snapshot in two statements, `GradeFold` in one; only an
  attempt that is already counted as overlapped can change in between.

### `AnswerLines`

The lines of one attempt under submits of every kind. `ScoreTotals` asks what the totals are worth, with
well-behaved answers; this module asks what a submit may do to the lines, with any draft on any
question. A question's *sheet* is the set of labels that have a line and the sequence of its lines without a
label (a sequence, because nothing but the code keeps it at one).

| Code | Definitions |
|---|---|
| `AnswerDraft`, `SubmitBody::draft` | `Draft`, `DraftsOn` |
| row lock, `done` refusal, windows, frozen set, validation, mandatory, overwrite gate, `normalize_set_draft` | `SubmitLock` with `Accepted`, `MayOverwrite`, `Normal` |
| late refusals, which commit the lazy begin | `RefuseLate`, `Begun` |
| storage dispatch, `insert_line`, `update_scalar_value`, `delete_question_lines` | `Stored` with `NewScalar`, `Overwritten`, `Grade` |
| `clear_inactive_conditionals`, `set_identity_side_writes` | `Cleared`, `Stamped` |
| commit, lost connection | `SubmitCommit`, `SubmitAbort` |
| `begin`, `transition_done`, the deadline | `Begin`, `Finish`, `Expire` |

Abstractions:

- One attempt: a submit touches the rows of one, under that row's lock. A refusal that rolls back is no step.
- Where the live question's clock stands (`Windows`) and what `validate` says of a value are free choices of
  each submit; the survey's deadline passes once (`Expire`).
- Values are told apart only where one is graded or stamped; number, date and datetime are one graded kind
  (`typed`), char, text, scale and comments one ungraded kind (`char`); on the e-mail question `char` is
  the char box or a comment, which stamp, and `typed` stands for every scalar that does not. Cells of a matrix are labels; its columns-per-row rule is
  left out.
- Scores of labels belong to `ScoreTotals`; here a score is what a typed value earned.
- `users_can_go_back` does not change during the attempt; the nickname is stamped as the e-mail is.

### `CodeLockout`

The table of failed guesses and the requests that read and write it. The mutex is released between the check of a key, the
database lookup and the count of a miss, so each is an action; two keys (identity and address) are visited one by one.

| Code | Definitions |
|---|---|
| `lockout_until` | `LockTime` with `Shifted` |
| `CodeFailureBook::check`, `register_failure`, `reset` | `Cleared`, `MissedOnce`, `Strike` |
| `join_by_code`, `session_preview` with `code_lookup_gate` | `Arrive`, `PassCheck`, `FailCheck` |
| the lookup: not live, admitted, or a preview of a live code or an error | `LookAndMiss`, `LookAndJoin`, `LookAndLeave` |
| `register_code_miss`, the two calls after a miss | `CountMiss` |
| restart of the process | `Restart` |

A join judges and stamps by the clock it read on arrival, a preview by the present (`TimeOf`). Time is a number of units; a
request is given up after `MaxAge` of them, which bounds how stale a join's clock can be and is what both
properties are stated up to. Whether a code is live belongs to `SurveySession` and is a choice here. `owed` is history.

### `AttemptLink`

| Code | Definitions |
|---|---|
| `mint_attempt`, `insert_input` | `Mint` with `Minted` |
| `rotate_token`, `rotate_nonce` | `Rotate` with `Renewed` |
| `verify_capability` | `VerifyLink` with `Opens` |
| `begin`, lazy begin, `transition_begin` | `BeginUnder` with `Begun` |
| `finish`: unlocked read, transitions | `FinishLook`, `FinishWrite` with `Finished` |
| `bulk_done_attendees` | `Sweep` |
| `invite`: start, look, renewal, mint, failed mint, commit | `OpenBatch`, `TakeRecipient`, `RenewPrior`, `MintInvited`, `MintFails`, `CommitBatch`, `LoseBatch` |

The invite is one transaction over many statements, so its writes are kept in `batchRow`, its locks in `batchHeld`, and other
verbs wait for those rows. A failed insert aborts it in PostgreSQL: its writes and locks are gone at once, under `new` every later
recipient fails too, under `resend` the next look fails the whole call, and the commit of an aborted transaction is a rollback that
reports success. Abstractions:

- A link that lapses is a request that leaves (`LeaveRequest`); expiry itself is in `AttemptPool`.
- The survey's time limit may be switched at any time, so a stamped deadline is a free choice, the officer's too.
- Under `resend` the code takes the newest open row of a recipient, the model any.
- A row is found for every recipient whose email or partner it carries (`who`, any set of them: `email = $2 OR partner_id = $3`), rows the
  batch itself has minted or renewed included. So two recipients, or one sent twice, may come to one row and renew it in turn; the code
  drops repeated free-form addresses only. A recipient with neither email nor partner is found by nothing.

### `CertificationFunnel`

| Code | Definitions |
|---|---|
| `update_survey`, `apply_survey_clamps` | `SaveRules` with `Clamped` |
| every entry path, `begin`, the session-end sweep | `EnterSurvey`, `StartAnswering`, `SweepEntrant` |
| `finish`: reads, transitions and commit, refusal | `FinishRead`, `FinishClose`, `FinishRefused` |
| `AnswerCompleted`, publication gate, port | `Announce` with `Publishes`, `PublishGrant` with `FactFor` |
| an error, a crash, a dropped request | `LoseFinish` |
| the host's outbox and the badge consumer (external) | `outbox`, `GrantBadge` |

Whether an attempt passes is a choice (the totals are `ScoreTotals`). The port may refuse, and may report a failure of a fact it has
staged. The consumer is what the port's doc asks of it: delivery at least once, one grant per grant key. Two histories say what was earned
without a look at what `finish` read: `passed` are the attempts a finish closed as a success, `offered` those that were open at some
moment while the survey, as saved, gave a badge (`Gives`).

### `QuestionPages`

| Code | Definitions |
|---|---|
| `persist_question` | `UpsertRow` |
| `questions_in_sequence`, the query for pages | `ListQuestions`, `ListPages` with `Listed` |
| the sort, `recompute_page_ids`, the row updates | `Before`, `Turn`, `WritePage` |
| commit, failure | `CommitEdit`, `AbortEdit` |
| the generic routes for questions | `CrudWrite` |

Two listings are two snapshots. A row another upsert has written is waited for (`FreeRow`); two that wait for each other are
resolved by `AbortEdit`. The clamps on types, placeholders, validation and time limits do not reach a page and are left out.

### `ChoiceScores`

One choice or matrix answer of a session attempt: `SubmitSet`, `ClearSet` and `RegradeSet` are the set branches of `submit_answer` and
`regrade_question`; `AnswerWeight`, `RawGrade`, `SpeedRated`, `Graded` and `SetLines` the functions they call; `EditLabel` and
`EditScoring` the generic surface and the settings. Scores are whole numbers of parts of a point, so that no rounding is modelled; the speed
factor is any of `Factors` (the curve over the seconds is left out); lines stored before the factor was recorded are too. The
matrix is one that takes several columns per row. What an answer is graded by (question type, labels, settings: `GradeContext`) is a
*marking*; grading is by the marking of the moment, `Now`, and `submitted` keeps the one of the last submit with the shares it stored, as
history.

## 4. Runs

Deadlock checking is off everywhere: nobody is obliged to start a verb, and arms, questions and attempt
rows are bounded, so a model that has run out of them stops. Symmetry is used in every run but
the liveness one.

| Run | Asks | Bounds | Result |
|---|---|---|---|
| `session_verbs` | all verbs, crashes, deadlock victims, TTL and question deletes: `VerbInv` (which contains `SessionInv`), `ColumnsAgree`, `NoLinesAfterDone`, `PushedOnce`, `StartPushedFirst`, `AttemptsOnlyAdvance`, `EndFinishesRunning`, `SessionRefinement` | 2 hosts, 2 attendee requests, 1 attempt, 2 questions, 1 arm | holds, 260 000 states |
| `session_edits` | the same row with settings updates: `SessionInv`, `ColumnsAgree`, `CertificationDisjoint`, `DeclaredMovesOnly` | 2 hosts, 1 question, 2 arms | holds, 513 000 states |
| `session_live` | `EndReturns`, `SubmitReturns` under fairness | 2 hosts, 1 request, 1 attempt, 1 question, 1 arm | holds, 21 000 states |
| `session_revived` | `EndedStaysEnded` | as `session_verbs`, 2 arms, settings updates on | violated, see findings |
| `session_push_order` | `PushesInOrder` | same, settings updates off | violated, see findings |
| `pool_limit` | `PoolInv`, `StandingWithinLimit`, `OneOpenAttempt` | 4 rows, 2 starts, 2 requests, limit 2 | holds, 765 000 states |
| `pool_spec_claim` | `FinishedWithinLimit` | the same, limit 1 | violated, see findings |
| `score_regrade_lost` | `TotalsFresh` | 1 attempt, a choice that triggers a scalar, 2 writers, 1 grader, scores 0 and 1 | violated, see findings |
| `answer_storage` | `AnswerInv`, `OneScalarLine`, `AnsweredHasBegun`, `StampAgrees`, `KeptWithoutGoBack`, `NoSecondGrade`, `UnchosenCleared` | 4 questions: a choice with two labels, a choice both trigger, a scored number the second triggers, the e-mail question; 2 submits, 2 values | holds, 823 000 states |
| `answer_trigger_kept` | `StillChosenKept` | the same | violated, see findings |
| `invite_isolation` | `InviteIsolated` | 2 rows, 1 request, 2 recipients, 2 nonces per row | violated, see findings |
| `taker_paths` | `PathsInv` (the inductive invariants of the six components); `LockKept`, `GuessWaitsOutLocks`; `DeadLinksOpenNothing`, `DeadlineKept`, `InviteAllOrNothing`; `CompletedOnce`, `GrantsEarned`, `OneGrantPerUser`; `PagesDerived`; `RegradeRestores`; `TotalsFreshUnlessOverlapped`, `AnsweredStaysFrozen`, `DoneIsFixed`, `ScalarScoreWrittenOnce` | see below | holds, 790 000 states |

`taker_paths` holds six components that share no variable. A behaviour is one of one component (`part` in `MCTakerPaths`; the others stay as
they were), so their states add up and do not multiply; the one configuration gives each its constants, and requests, rows and
people of different components share model values so that the symmetry group stays small.

- Lockout: 2 requests, one identity and one address, a lock from the second miss, doubled once and then capped, 5 units of time, requests up
  to 1 old.
- Links, two instances, each with 2 rows and 2 nonces per row: 2 requests beside officers (`NoInvites`), and an invite of 2 recipients beside one
  request, with rows that somebody carries and that have a deadline (`FewRequests`). A row the batch mints for both recipients is renewed for the
  second; a row that was there before can be renewed once.
- Funnel: 2 attempts, 2 users, 2 finishes; no certification at first, then a certification with login and one without that asks for a badge,
  switched at any time.
- Pages, two instances: 2 upserts on 2 questions (`ShortPages`) and 1 upsert beside generic writes on 3 (`LongPages`).
- Shares: 2 labels, one matrix row, four states of a label (right, deleted, wrong, penalty), factors one half and one.
- Totals: 1 attempt, a choice that triggers a scalar, 2 writers, 2 graders, scores 0 and 1.

Why the bounds are enough. Two workers of a kind are the least that can race on one row, and every
hazard found is a race of two; the third party a wait cycle or a stale write needs is of another kind and
is there. Two questions are the least for which an advance can skip, repeat or be overtaken; two arms
the least for which a session can be confused with the one before. Four rows with a limit of two
leave room for a lapsed attempt and a resent one beside the two that may finish. One attempt
suffices for the totals because no property relates two attempts; a regrade over two was
run once (2 attempts, 1 writer, 1 grader, nine million states) without a violation, and the proofs
cover any number. Two labels that trigger the same conditional
are the least for which one of two triggers can be given up, and a third question behind it the least chain;
two submits the least that can both find no line. Two requests are the least for which one counts a miss behind the other's; a lock that is once
doubled and then capped has every branch of the table. Two recipients are the least batch that can succeed in part or share a row, two nonces the
least for which a link can be dead; a second attempt of one user is a retake, and with a second finish a concurrent one. Three questions
hold two pages and a question between or behind them, and two upserts are the least that list from different snapshots. The invariants checked here are the inductive ones the proofs
use.

Fairness (`session_live` only). `WF` on the steps a transaction can always take next: a request that
was read is run to its end by the runtime. `SF` on steps that wait for a row lock: PostgreSQL serves a row's
lock queue in order, so a waiter whose row is freed again and again gets it. `WF` on
`DeadlockDetected`: PostgreSQL looks for a cycle after `deadlock_timeout` and aborts a member. No fairness
on starting a verb, on `ArmCommit`, on settings updates, on crashes or on time.

## 5. What is proved

For every value of the constants that satisfies the modules' assumptions (workers of different kinds are
different, the "nobody" value is none of them, bounds are naturals, the pool's rows are finite, questions
are choices or scalars and, in `ScoreTotals`, each conditional has one choice as its trigger; in `AnswerLines`
labels belong to one question and a question is not triggered by its own; questions and sequence numbers of `QuestionPages` are
naturals; identities are no addresses; in `ChoiceScores` labels and matrix rows are finite sets, weights integers and factors
between one half and one).

- `SurveySessionProofs`: `SessionInvariance`, `ColumnsAlwaysAgree`, `CertificationStaysDisjoint`,
  `NoLinesLandAfterDone`, `DeclaredMovesHold`, `AttemptsAlwaysAdvance`, `EndFinishesEveryRunning` and
  `SessionImplementsMachine`. The properties are not inductive on their own: an advance writes
  the target it computed earlier, so the invariant says that a host past its lock holds the row and that
  its target is still ahead of the cursor (`SurveyHeld`); a settings update writes a row it read long ago, so
  every such copy agrees with itself (`RowsSound`); the end's sweep covers everyone it is due to finish
  (`DueCovered`). The refinement maps `ArmCommit` to `Arm`, `AdvanceCommit` to `Advance`, `EndCommit` to
  `End` and everything else to a stutter. The first four and the two on moves hold with settings updates
  (`Spec`); the refinement is about the verbs alone (`VerbSpec`): a stale settings update is exactly what breaks it.
  `VerbInvariance`, `EachPushedOnce` and `StartsPushedFirst` are about the verbs alone too. What a host
  past its commit still has to push is part of the invariant (`PushesOwed`): a pair of arm and question that the
  cursor has come to, owed by nobody else and not yet pushed. An advance can only owe a question beyond the
  cursor, so none that was ever pushed or owed. The host's copy of the row carries the arm in its code, which is still the row's
  (`CodeStands`), and the start of a running session is recorded before its first commit (`StartRecorded`). A crash drops what is
  owed and adds nothing.
- `AttemptPoolProofs`: `PoolInvariance`, `OneOpenAttemptHolds`, `AttemptLimit`. A start past the advisory
  lock is alone (`GateHeld`), one past its look saw no open attempt that still counts (`LookedAlone`), and
  whoever may still finish or mint leaves room (`RoomLeft`): the count the start read cannot have grown
  under it, because only an open standing attempt could have made it grow.
- `ScoreTotalsProofs`: `ScoreInvariance`, `TotalsStayFresh`, `AnsweredAlwaysFrozen`, `DoneStaysFixed`,
  `ScalarScoresWrittenOnce`. A writer holds an open attempt row from its first read (`WriterHolds`), so what
  it folded is what it commits (`WriterFolds`), and the score of the scalar it overwrites cannot move after
  its store because the store waits for graders that hold the line and they for it (`ScoreKept`,
  `GraderLines`). A grader has every attempt it has finished with locked (`GraderHolds`); what it folded stays
  fresh only where it is alone (`GraderAlone`, `GraderFolds`), which is why the theorem on fresh totals is
  about attempts no regrade overlapped, and why the unconditional statement is refuted by a run.
- `AnswerLinesProofs`: `AnswerInvariance`, `OneScalarLineHolds`, `AnsweredHasBegunHolds`, `StampAlwaysAgrees`,
  `KeptWithoutGoBackHolds`, `NoSecondGradeHolds`, `UnchosenAlwaysCleared`. The worker past its lock is the only one
  that may write (`WorkerHolds`), so the line it looked for, and the gate it passed, are still as it found them when it
  commits; `StoredIs` and `CommitIs` then say what one commit leaves on each sheet, and each property is read off them.
  That a stored label is its question's own (`LabelsOwn`) is part of the invariant for its own sake.

- `EntryProofs`, the two components a taker enters by. Lockout: `LockoutInvariance`, `LocksKept`, `GuessesWaitOutLocks`. `LockKept` is not inductive: a miss overwrites the lock with
  one from its own clock, so the invariant adds that no request is older than `MaxAge` (`GuessesSound`) and that what is owed never
  exceeds what a miss now would call for (`OwedBounded`), which needs the table to be monotone (`LockTimeGrows`).
- `EntryProofs`, links: `LinkInvariance`, `DeadLinksNeverOpen`, `DeadlinesStay`, `InvitesAllOrNothing`. Nonces of a row only grow and a
  batch's is later than the committed one (`NoncesDrawn`), so a dead link stays dead (`RequestsSound`); a link a batch has told is of a row it
  has locked and is the one that row carries or an earlier one, with the row's own link told too, or, once the transaction is aborted, opens
  nothing (`ToldSound` in `TellsSound`); a renewal keeps the committed deadline (`RenewalsAgree`).
- `CertificationFunnelProofs`: `FunnelInvariance`, `CompletionsOnce`, `GrantsAreEarned`, `GrantsOncePerUser`. Only one finish gets past the commit of an
  attempt, and one about to publish does so for an attempt that was passed and offered (`FinishesSound`): settings are clamped when saved
  and so when read (`RulesClamped`), and those a finish read were in force while its attempt was open, whatever was saved since
  (`OffersSound`); facts and grant keys follow (`FactsSound`).
- `QuestionPagesProofs`: `PagesInvariance`, `PagesAreDerived`. Rows held are nobody else's (`RowsHeld`), so an upsert that nobody disturbed still sees
  what it listed and its prefix is right (`ListTrue`), and it carries the last page of that prefix (`ListOrdered`); the sort is a strict
  total order on entries.

- `TakerPathsProofs`, shares: `ScoresInvariance`, `RegradesRestore`, `SubmitsSplit`. That the shares of an answer's lines add up to its grade
  is a fact about sums over sets, which the model writes with a fold of the community modules. Induction over
  sets is out of the prover's reach as a rule, so the sums are handled without it: a fold is a choice among
  the functions that satisfy its recursion, such a function exists for a finite set (`TotalsExist`), and a law that fails for some part
  of the set fails for a smallest part (`SmallestBad`, from the well-foundedness of the naturals), where it is refuted by
  taking one element away. This gives independence of the order (`AnyOrder`), of elements that count nothing (`Support`) and the
  distribution of a factor (`Scaled`); `LinesAddUp` then goes through the kinds of question. That a regrade restores the submit's lines needs
  only `SubmitStands`: by the marking of the submit, the recorded factor gives the lines that were stored, whatever has been edited since.
- `TakerPathsProofs`, composition: `PathsInvariance`, `PathsKeepPromises`. A step of `PathsSpec` is a step of one component and leaves the variables of
  the others alone (`PathsAreEach`), so every theorem about one of the six components is one about the run's specification.

Only model-checked: `EndReturns` and `SubmitReturns`, because liveness under fairness is out of the prover's reach. The violations are
TLC counterexamples.

To check: `tlc -config session_verbs.cfg MCSurveySession`, and likewise for the others; `tlapm
SurveySessionProofs.tla` and the other seven.

## 6. Findings

1. **A settings update can revive an ended session** (`session_revived`). `update_survey` reads with no lock
   and writes every column; if a host ends the session in between, the write puts `ready` and the dead code
   back. The trigger lets it through because "none to ready" is a declared move.
2. **Facts can arrive out of order** (`session_push_order`). `SessionAdvanced` and `SessionEnded` are recorded after the commit
   has released the row, so two hosts can record in the opposite order; the sink's doc calls facts ordered.
3. **More attempts than the limit can finish** (`pool_spec_claim`). A lapsed link, a second start and a
   `rotate_token` of the first row, or a `resend`, whose pool is keyed on the email: SPEC.md 2.6 says at most
   `attempts_limit` can finish. What does hold, and is proved, is the limit for attempts whose links held.
4. **A regrade can overwrite newer totals** (`score_regrade_lost`). `regrade_question` folds an attempt without a
   lock on its row; a submit's or a finish's totals stored before the regrade's are overwritten
   with a fold of what was there earlier. After a finish the wrong triple, over the unpruned denominator,
   is final.
5. **A conditional with a trigger still chosen is cleared** (`answer_trigger_kept`). The clear runs per label: each
   trigger on the answered question that was not chosen deletes the conditional's lines, whatever its other triggers
   say. The probe's doc promises to keep "the dependent lines of every trigger STILL chosen".
6. **A failed insert undoes the whole invite** (`invite_isolation`). `invite` answers each recipient a result of their own and its doc says
   "Failures are per-recipient (isolation), the batch continues" (`attempt_service.rs:721-726`), but the loop runs in one transaction:
   the first failed `mint_attempt` aborts it, every row and renewal before it is gone, and the commit rolls back and reports success. Under
   `new` the earlier recipients are answered tickets whose links were never stored, and the facts that carry them are recorded. What does
   hold, and is proved, is `InviteAllOrNothing`: without a failure every row a link was told of is stored; after one, no link that was told opens.

Smaller things the models show and no run states, since no document of the repository decides them, no code depends on them or another part
makes up for them:

- A mandatory question accepts an empty choice, stored as a skip (the mandatory check runs before the empty set becomes one). A skip over
  an answered scalar keeps a type although SPEC.md 223 says a skipped line has none.
- Two recipients of one `resend` batch who match one open row, one by email and one by partner, renew it in turn: the link told to the first is
  dead when the batch answers. `invite` also ignores `rotate_nonce`'s answer, so a row that a finish has just closed is told with a link
  that opens nothing. `InviteAllOrNothing` allows both.
- `SPEC.md:411-415` (and row 7 of the probe table, `SPEC.md:699`) says the `save_as_*` side-write has no caller and that no submit stamps the
  attempt's row; `intake_service.rs:397-408` stamps it and `tests/probes/intake_windows.rs:154-184` asserts so. The model follows the code
  (`Stamped`, `StampAgrees`).
- `SPEC.md:409-411` gates overwriting on `users_can_go_back`/`save_as_*`; `intake_service.rs:309` looks at `users_can_go_back` alone, so a
  stored e-mail answer is refused a correction without roaming. The model follows the code (`MayOverwrite`); `KeptWithoutGoBack` leaves the
  e-mail question out, where SPEC promises the opposite of what the code does.
- Guesses that pass the lockout's check together all reach the lookup, as many as are under way at once. Each is counted (`LockKept`), none
  comes later (`GuessWaitsOutLocks`); no document bounds them.
- `certification_port.rs:21-24` says only the first success of the pool is published; `finish` publishes each, and the consumer's key, which names
  the user, makes them one grant.
- `upsert_question`'s doc says "no drift window"; concurrent upserts and generic writes can leave drift, which the next undisturbed upsert
  repairs (`PagesDerived`).
- The docs of `survey_by_session_code` and `session_preview` say a preview must not count against the lockout; the body of `session_preview` counts a
  miss, as SPEC.md 5.2 says it does.
- A typed answer that was wrong at its submit and is regraded as right earns full credit in a speed-rated session: the factor is recorded only
  with a positive score.

## 7. What is not modelled

- The session-code ladder (retries per length against a unique index), the speed curve over the seconds, floating point, the arithmetic of percentage
  and success, the MAC.
- The loss of a grant: a crash between the commit of a finish and its publication loses the fact, and nothing retries (`LoseFinish` has it).
  No property says otherwise.
- Reads (`session_read_service.rs`), most routes, seeders, wiring: no state of their own.
- Generated code. Three quarters of the repository's Rust lines are generated entities with builders, DTOs, export types, CRUD handlers and
  repositories over a library that is not in the repository: their control is a field assignment or a call. What they can do to
  the rows is modelled as free writes (`CrudWrite`, `EditLabel`, `DeleteQuestion`). The map covers most of the hand-written
  services and repositories and stays small as a share of the whole for this reason.
- In `SurveySession` a question's id is its position, so an upsert or a generic write that re-sequences questions in the middle of a session is
  outside the verbs' properties: after one, `PushedOnce` and the order of questions say nothing.
- In `SurveySession` the attempt-order and session-move triggers guard the same moves as the code; only the
  session-move trigger and the CHECK are modelled, since a settings update reaches them. The attempt-order
  trigger is not relied on: `AttemptsOnlyAdvance` holds without it.
- The drift trigger on lines (scores change only under the regrade marker; no line is inserted or deleted on a finished
  attempt) is likewise not relied on in `ScoreTotals`.
- Tenancy, authentication, soft deletes of surveys and attempts.
