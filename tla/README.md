# ClassQuiz in TLA+

Specifications of the parts of ClassQuiz that several actors work on at once,
the TLC runs that check them on small instances, and TLAPS proofs of what holds
for every number of players, questions and handlers.

## The system

ClassQuiz is a quiz game for classrooms. A FastAPI and python-socketio server
(`classquiz/`) keeps accounts and quizzes in Postgres, running games in Redis
and uploads in a file store; an arq worker runs background jobs; the pages are a
SvelteKit application (`frontend/src`). `docker-compose.yml` fixes
`MAX_WORKERS: "1"`: one asyncio process serves all requests, and handlers
interleave only where they `await`. What is not atomic is therefore exactly what
lies on two sides of an `await`, most of all "read a JSON value from Redis,
change it, write it back".

| component | state | operations | what is hard | what makes it correct | where |
|---|---|---|---|---|---|
| Question round (`socket_server/__init__.py`, `box_controller/embedded/socket.py`, `play/+page.svelte`, `admin.svelte`, `controls.svelte`) | game key, current_time, answer lists, score hash, answer_given | submit_answer, button press, set_question_number, get_question_results | two answers, or an answer and the host, between read and write | every answer scored once and listed; lists and scores agree; the game key follows the host; the host hears when everyone has answered | `QuestionRound` |
| Live API (`routers/live.py`) | the same keys | set_question; readers of lists, scores, players | writes the game key beside the host's page; an alias that outlives its game | a user sees and moves only own games | `QuestionRound`, `Games` |
| Lobby (`socket_server`, `session.py`) | game_session, player set, player sids, Socket.IO rooms and sessions | register_as_admin, join_game, rejoin_game, kick_player, start_game, echo_time_sync, register_as_remote | check and act across an await, reconnects, partial joins | one entry per player; a kicked player is gone; a joined player can answer | `Lobby` |
| Game lifetime (`routers/quiz.py`, the `SET`s of `socket_server`) | the keys of a game with their lifetimes, pins, aliases, codes | start_quiz, every handler that sets a lifetime, expiry | keys that expire apart, a pin that is drawn again | a way in opens the game it was made for | `Games` |
| Results (`export_helpers.py`, `results.py`, `helpers`) | export tokens, game_results | generate_final_results, get_export_token, export, save_quiz, set_note | read from several keys at different moments; saved twice, for the next game, beside the deletion | answers are of players; results stay | `Games` |
| Editor (`editor.py`) and the worker's quiz_update (`worker/storage.py`) | edit sessions, quiz rows, search index, links to pictures | init_editor, finish_edit, quiz_update, cleaning | whole rows written back; failure between index, session and row; jobs of two edits | index equals the public rows; shown pictures are linked | `Library` |
| Catalogue (`community.py`, `moderation.py`, `quiz.py`) | counters, ratings, verdicts | rate_quiz, set_mod_rating, views and plays, delete_quiz | counters in a copy of the row; a foreign key that refuses | counters equal ratings; a verdict is about the texts beside it | `Library` |
| Imports (`import_quiz.py`, `eximport.py`, `helpers`) | quizzes, index, pictures | Kahoot, .cqa, spreadsheet | several writes, some before others can fail | as for editor and files | `Library`, `Files` |
| File storage (`routers/storage.py`, `storage/`, calculate_hash) | storage rows, files, jobs, storage_used | upload, mark deleted, describe, limit, jobs | S3 refuses, the worker is killed, two jobs add to one number | a row has its file; storage_used is the sum | `Files` |
| Account (`cache.py`, `auth.py`, `users/`, `avatar.py`, `login.py`) | row, cached row, sessions, tokens, reset and login keys, API key | settings, passwords, logins, second factors, deletion | an older copy written back; a cache nobody clears | a new password stays; verified stays; deleted accounts and keys fade | `Accounts` |
| Sign-up (`users/`, `oauth/`) | users, unique names and addresses | create_user, first visits through Google, GitHub, a custom provider | looked up, then saved; loops over names | who creates an account gets in; the loop ends | `SignUp` |
| Box controllers (`box_controller/`) | codes, controller ids, wss_clients | register, join, connect, press, disconnect | reconnection, names that are not reserved | one name, one player | the join in `Lobby`, buttons in `QuestionRound` |
| Search, statistics, sitemap, Quiztivity and its shares | none of their own, or rows one request changes | readers, single inserts | - | - | not modelled |

## Modules

| module | what it is |
|---|---|
| `QuestionRound` | the questions of one running game: phones, controllers, the host's page, scripts, and the handlers behind them |
| `AnswerBook` | what the submission handlers promise, without their steps; `QuestionRound` implements it (`ImplementsBook`) |
| `Lobby` | how the game gets its host and its players: registration, join, rejoin, ping, kick, start, and the connections under them |
| `Games` | several games one after the other: pins, the lifetime of every key, the ways in, export and saved results |
| `Library` | quizzes in the database: handlers that write whole rows back, editor sessions, index, links, ratings, quiz_update |
| `Accounts` | one account: row, cache, sessions, logins, API key, and every handler that changes them |
| `SignUp` | how accounts come to be, by mail and through providers |
| `Files` | uploads of one user: rows, files, calculate_hash, storage_used |
| `MCQuestionRound`, `MCLobby`, `MCGames`, `MCLibrary`, `MCAccounts`, `MCSignUp`, `MCFiles` | the same for TLC: symmetry sets, sizes, how often a phone connects |
| `QuestionRoundProofs`, `LobbyProofs`, `GamesProofs`, `LibraryProofs`, `AccountsProofs`, `SignUpProofs`, `FilesProofs` | proofs about the module they are named after |
| `Sums` | lemmas about sums over finite sets, for `QuestionRoundProofs` and `FilesProofs` |

The modules share no variables: what one needs of another's subject is a single
step or a single value in it, named in its heading. `Games` takes a question's
handlers as one step each and submit_answer as two; `Files` knows the account's
cache as one number, storage_used.

### QuestionRound

*State.* `game` is the part of the `game:{pin}` JSON that handlers change
(`current_question`, `question_show`); `clock` is `game:{pin}:current_time`,
represented by the question it was set for; `answers[i]` is
`game_session:{pin}:{i}`, the set of the runs whose answer is in the list;
`scores` is the `player_scores` hash; `given` holds the `answer_given` keys. `sub` and
`ctl` are the coroutines: for each run of `submit_answer` / `submit_answer_fn`,
and of the host's handlers, its next step and the values it has read and not yet
used (the list, the copy of the game key, the points). `screen` and `host` are the
phones' and the host's page, `wired` the controllers whose WebSocket is served.
`asked`, `overlap`, `blobRace` and `announced` are history variables that no
guard reads.

*Actions.* One per stretch of code between two awaits that touches a shared key:
`Submit`, `ReadClock`, `Credit`, `ReadAnswers`, `SetAnswer`, `Count`, `CloseRead`,
`CloseWrite` for `submit_answer`; `Press`, `PressRaises`, `BoxCheck`, `BoxMark` and
then the same steps from `Credit` on for a controller's button; `ClickNext`,
`ClickResults`, `ClickLater`, `CallLive` for the host and the host's scripts;
`ReadGame`, `WriteGame`, `SetClock`, `EmitQuestion`, `EmitResults` for the handlers of
these. An event is delivered with the step that emits it; a request waits in the
pc "sent" for as long as it likes, so requests arrive in any order. What an answer is worth is left open
(`Points`); the questions' texts, the kinds of answers and the comparison with the
right answer are left out, except that a slide is not sent to the phones, an
empty text answer leaves the button enabled, and a controller cannot answer a
slide, a range or a text question.

*Left out.* The roster is fixed (joining is the lobby's module) and every phone
has echoed time_sync before it answers; keys do not
expire; a controller's socket does not come back once it has ended;
`show_solutions` and `get_final_results` write nothing. Bounds: one pending
`setTimeout` per page (`later`), and a script calls only while `selected < NQ`, so
that the page's counter stays finite.

### Lobby

*State.* `started` is the field of `game:{pin}`; `session` is `game_session:{pin}`;
`seats[n]` the key `players:{n}`; `roster` the players set. A phone's connection
`<<t, i>>` is the i-th of phone t and stands for its sid; `sess`, `room` and `alive`
are the session, the game's room and the connections as the server knows them,
`admin` and `stage` the same for the hosts' pages (session, and the two rooms they
enter). `run`, `echo`, `kick`, `reg`, `start`, `box` are the handlers between their
awaits; `phone` and `board` the pages, with the cookies `joined_game` and `kicked`.
`clash`, `crossed`, `early`, `named`, `thrown`, `begun` are history variables.

*Actions.* join_game: `ReadStarted`, `CheckName`, `SaveSession`, `TakeSeat`, `AddPlayer`,
`EnterRoom`. rejoin_game: `ReadGame`, `Match`, `TakeSeat`, `Unseat`, `AddPlayer`, `Return`.
echo_time_sync: `EchoRead`, `EchoWrite`; each time_sync is answered by a run of its
own, and a page that has left the connection answers nothing. register_as_admin:
`CheckSession`, `ClaimSession`, `Welcome`, `SaveAdmin`; register_as_remote: `OpenRemote`,
which raises unless the connection already has a session (`Reused`). start_game:
`StoreStarted`, `EmitStart`. kick_player: `FindSeat`, `Remove`. Controllers: `BoxLookUp`,
`BoxCheckName`, `BoxConnect`. The clients: `Connect` (with the rejoin that the cookie
causes; of an online page it is a reload), `Lose`, `Enter`, `Register`, `ClickStart`,
`ClickKick`; `Timeout` is Socket.IO noticing a lost connection, at any time after the
loss. An event is delivered with the step that emits it if the phone is still on that
connection, and is lost otherwise. Reads of `game_session` are merged with the next
step: once set it does not change while it lives.

*Left out.* The captcha (with a key configured the handler calls a method the HTTP
response does not have, and nobody gets past it; the model is a game without a
key), custom fields, expiry, hosts that lose their connection (their page never
registers again). Bounds: `Runs`, `Kicks` and `Conns`, the numbers of handler runs, of
clicks on a name and of connections of each phone. `FirstHost` has registered before
the first player comes, except where the registration itself is the subject.

### Games

*State.* Each Redis key is a value and the hours it has left (`Key`, `Gone`,
`Forever`): `game:{pin}` (game id, user, started), the alias
`game_pin:{user}:{quiz}`, `game_in_lobby:{user}`, the code for controllers,
`game_session:{pin}`, one answer list per pin, the export token; `scores` has no
lifetime, as in the code. `tab` is the Socket.IO session of a host's page.
`results` are the rows of game_results. `start`, `answer` and `saving` are the
handlers that take several steps. `clashed` notes two games started on one pin
at the same moment.

*Actions.* start_quiz in its five calls; register_as_admin, start_game,
set_question_number, get_question_results, set_next_question with the lifetime
each gives (or fails to give: `SET` without `ex` makes a key stay for ever);
submit_answer; get_export_token, export_quiz_answers, save_quiz, set_note,
delete_quiz; `Tick`, an hour in which no request is under way. The Live API's readers,
join_game of controllers and the pages' first look-ups are operators
that the properties use.

*Left out.* Which question an answer is for, players and sockets other than the
host's session (`Lobby`); lifetimes below an hour are rounded up.

### Library

*State.* `quiz` holds rows without texts: `rev` is the version of the texts, that is
the run that wrote them; pictures, visibility, counters, verdict, origin.
`index`, `links`, `ratings`, `session` with `listed`, `job` and `run` are the search
index, the table of links, the ratings, the editor sessions and their set in
Redis, the worker's jobs and the handlers between two awaits, each with the copy
of the row it holds. `torn` and `drift` are history variables: quizzes whose row
was overwritten by an older copy, and a step that is known to leave the index
behind. To tell an older copy from the row, a row carries `by`, the run that wrote
it last, which is no column of the table: two changes of mind give a row its old
values back, and without `by` the copy read before them passed for the row.

*Actions.* One per stretch between two awaits that changes something: `Reads` and
`Writes` for the handlers that read a row, change a column and write it back
(views, plays, verdicts, sheets), `rate_quiz`, `init_editor`, `finish_edit` for a
stored and for a new quiz, `delete_quiz`, the three imports, `quiz_update`,
`clean_editor_images_up`, `SessionExpires`, and `meilisearch_init`, the restart of the
API process, which ends every handler where it is.

*Left out.* What an index document says beyond its existence; texts; quizzes of
several owners.

### Accounts

*State.* The row with password, backup code, second factor, require_password and
verified; a value is the run that wrote it. The cached row and the cached API key
with their lifetimes, sessions, a security key, whether the user has a token,
reset tokens, login sessions, the API key, and the requests with the copy of the row
they hold. `newest` and `overtaken` are history: who set a value last, and
whether requests overlapped with one that changes the password.

*Actions.* `get_current_user` begins the handlers that need it, with the cached row or
after `cache_account`; then each handler in the order of its awaits (`Rereads`,
`Writes`, `Drops`, `clear_cache_for_account`). `start_login` and `step_1_endpoint` are the
login with its factors; `calculate_hash` is what the worker writes of the user's
row; `Erases` is the deletion with its cascades. Keys expire by `CacheExpires`,
`KeyExpires`, `ResetExpires`, `LoginExpires`.

*Left out.* Whether passwords, codes and signatures are right: a wrong one is a
request that stops. The avatar's and storage_used's values.

### SignUp

*State.* `users`, the requests, who has saved a row and who was signed in. *Actions.*
`create_user`, `auth_google`, `auth_custom`, `auth_github`, query by query. `mail` and
`username` are unique, a name has a number behind it, at most `MaxCounter`.
*Left out.* The exchange with the provider: it yields a type, an address, a
name and whether the address is verified. `TypeOK` is stated and proved; its second
part is enforced by `Creates` and no run spends time on it.

### Files

*State.* Rows of storage_items, names in the storage, one calculate_hash job per
item with what it holds, `used` and `cached` for storage_used in the row and in the
account's cache, the requests. `marked` and `torn` are history: deletions that
were reported, rows overwritten by an older copy.

*Actions.* `upload_file`, `upload_raw_file`, `save_pixabay_image` and the two imports
begin; `upload`, `save`, `enqueue_job` follow in the order the handler has (`Order`: Kahoot
saves the row first); `mark_file_as_deleted`, `update_image_data`, `save_avatar`;
`calculate_hash` in its steps; `WorkerKilled`, after which arq starts the job again.
S3 may refuse any call. `delete()` removes nothing, since it is given a string where
it expects a list.

*Left out.* Bytes, hashes, thumbnails; several users. `TypeOK` is proved (`TypeCorrect`), so no run
checks it.

### Runs

All pass runs are exhaustive. `CHECK_DEADLOCK` is off everywhere: a game ends when
nobody presses anything, and a run of a handler is used once.

| run | instance | what it shows |
|---|---|---|
| `qr_answers` | 2 phones, 3 answers, 2 questions (question 0 text), points 0 or 1 | lists hold only stored and scored answers of the right question; an answer is missing only after an overlap; an answered question never looks unanswered; scores are the sum of listed and pending answers while nothing overlapped; the last answer announces |
| `qr_host` | 1 phone, 1 controller, 2 questions (hidden results, then a slide), 2 runs, 2 handlers of the host at once, a script showing question 0 again | types; the game key follows the host's last request unless two copies were held at once; a controller scores once per question |
| `qr_live` | 1 phone, 1 controller, 1 question, 3 runs | every run ends; when everyone has sent an answer the host is told; the handlers implement `AnswerBook` |
| `qr_lost` | violation | an answer lost by overlapping writes of the list |
| `lobby_seats` | 2 phones, one comes back, 1 name, 2 runs, 1 kick | types; a name has one entry unless two runs held it; every seat is listed, or about to be, or was kicked; a phone in the room knows that the game has started unless its run crossed the start, and has the ping that submit_answer needs unless it echoed too early |
| `lobby_kicks` | 2 phones, 1 controller, 2 names, a host who registers late, a remote | a kick reaches phones whose name was clicked, and all only for a controller's name |
| `lobby_live` | 1 phone with 2 connections, 2 runs | who is accepted gets into the room, with the ping |
| `games` | 2 games of 2 users, 1 pin, 1 player, 3 hours (1.1 million states) | types, with no key beyond its lifetime; a code or a list entry opens its own game; answers of exports and results are of players; the Live API and the results page keep to their user's games; saved results stay |
| `library` | 2 quizzes, 1 picture, 1 rater, 1 editor session, 3 handlers, 1 restart (2.1 million states) | types; the index is the public quizzes unless a step that leaves it behind happened; counters are the ratings and shown pictures are linked while no copy overtook another; verdicts are about the texts beside them, always |
| `accounts` | 3 requests, 2 at a time (664 000 states) | types; a password stays, in row and cache, unless requests overlapped with its change; a verified account stays verified; a deleted account and a deleted key leave the caches |
| `signup` | 3 requests of any types, 3 addresses, 1 name, counter up to 3 (883 000 states) | who creates an account with a verified address is signed in; the loop over names ends |
| `files` | 2 files of sizes 1 and 2 over a limit of 1, 2 requests, 1 crash, local and S3 (717 000 states) | a row leads to its file; storage_used is the sum of the hashed files; deleted files stay hidden unless a copy overtook; on the local storage every handed-over file is hashed |

*Why the bounds are enough.* Two answers are enough for every overlap on one
list, the third is there to be lost or to come late; two questions are enough for
an answer to arrive after its question; two handlers of the host are enough for a
copy of the game key to go stale. Points are two values, enough to tell a sum from
a replaced or doubled score. In the lobby two runs are enough for two players, or
a join and its own rejoin, to hold one name. In `games` one pin makes every second
game take a used one; three hours are longer than every lifetime but that of the
lobby's game and its alias (5 hours) and of what stays for ever, which is what lets
a game or an alias outlive the other keys. In `library` and `accounts` an
overtaking needs a reader, a writer and the reader's write; the third run is the one
that finds the damage, or the edit whose job runs beside. In `signup` three requests
take a name, its first number and meet again at the second. In `files` two jobs are what arq
needs to add to storage_used at a time.

*Fairness.* `FairSpec` of `QuestionRound` and `Lobby` assumes weak fairness of each run of
a handler: once started, its awaits return and the event loop resumes it; in
`Lobby` also of each echo and of the pages' handlers. `SignUp` assumes the same of
each request. `Accounts` assumes that Redis drops a key whose lifetime is over,
and nothing of requests. `Files` assumes that arq, which polls its queue, goes on
with each job. `Games` and `Library` state no liveness. Nothing is assumed of users,
of the host or of scripts.

## Proofs

`QuestionRoundProofs` starts with `Spec => []TypeOK`. TypeOK alone is not inductive:
`answers[i]` is indexed by the question a run carries, `scores` by its player, so
`Typed` adds that a run that has started has a player and a question
(`SubsKnown`), an open phone shows a question (`ScreensKnown`), and a host's handler
carries numbers in range (`CtlNumbers`). The lemmas named `...Effect` say what each
action does to its own run and are all the later proofs use of the records. Then come

- `ListsAreScored`: `ListsHoldScoredAnswers`, strengthened by the same fact of the
  lists that runs hold between reading and writing (`CopiesHoldStored`);
- `OnlyOverlapLoses`: `LostOnlyByOverlap`, strengthened by "without overlap one run
  at a time appends" (`AppendsAlone`) and "its copy is the list" (`CopiesCurrent`);
- `NeverUnanswered`: `AnsweredStaysAnswered`, inductive with `Typed`;
- `HostIsFollowed`: `BlobFollowsHost`, strengthened by "while no race was noted one
  copy at a time is held" (`HeldAlone`) and "it is up to date" (`CopiesFollow`);
- `ButtonsScoreOnce`: `BoxScoresOnce`. A controller's loop awaits each button, so one of its
  runs at a time is at work (`BoxInv`): nothing comes between reading answer_given
  and setting it, and a run past the mark is the only one of its question
  (`MarkedOnce`);
- `LastAnswerIsTold`: `LastAnswerAnnounced`. Whichever run wrote the list as it stands
  compares it with the number of players before it ends (`LastCompares`); with the
  parts above, and one answer from each player, that list has as many elements as
  there are players. The property says this of games that have players: with none,
  no answer could announce anything;
- `ScoresFollowLists`: `ScoresMatchLists`. A score is the sum over the runs that have been
  credited (`ScoresAreSums`); those are the listed ones and the ones on their way;
- `HandlersKeepTheBook`: `Spec => Book!BookSafety`, the safety part of the refinement. Every
  step of a handler is one of the book's four actions or leaves stages, lists and scores
  alone. `RoundAlways` puts the parts of the invariant together.

Finitely many runs have started at any time (`FewStarted`), though `Subs` may be infinite.

`Sums` is what the sums need. SumFunctionOnSet of the community modules is a recursive
function inside a CHOOSE, and no installed prover can use an induction theorem that
takes a predicate. The module takes a smallest counterexample instead, which the
library's theorem about well-founded relations gives: there is a function that follows
the recursion on the subsets of a finite set (`HasSum`), any two agree (`SumsAgree`),
and the order in which elements are taken does not matter (`SumTake`). The rest are
`SumAdd`, `SumSame`, `SumUnion`, `SumLess`, `SumInt` and `SumNat`.

The theorems about `QuestionRound` rest on the ASSUMEs of `QuestionRound`: at least one
question; slides, text, range and hidden questions are questions; phones and controllers
are distinct and finitely many; points are integers. They hold for any finite set of
players, any set of runs and any number of questions.

`LobbyProofs` starts with `Spec => []TypeOK`. A name is an index of `seats`
and a sid one of `sess`, so `Typed` adds that a run that has started has a name and
came on a connection its phone has made, and that while the phone is still on it the
form still holds the name that joined_game will copy into the cookie (`RunsKnown`);
that a phone has made no more connections than it may and its cookie a name
(`PhonesKnown`); that a kick has a name (`KicksKnown`). Then come

- `OneEntry`: `OneEntryPerName`. A run holds a name from the check that it is free, or
  its own, until the run's entry is in the players set. As long as `clash` does not
  note a second holder (`NoteHolder`), one run at a time holds the name, the key is its
  own once it is set, and the only entry there can be is the one a rejoin is about to
  take out (`HolderOK`); a name nobody holds has no entry but the sid in its key
  (`NameOK`). `NamesInv` is this for all names, inductive with `Typed`;
- `SeatsAreListed`: `SeatIsListed`, inductive with `NamesInv`: the entry a rejoin takes
  out is not the one the key names;
- `StartIsHeard`: `StartHeard`. A run that is still to enter the room after the start
  was emitted is in `crossed`, or is a rejoin that has read that the game has started
  and will say so (`HeardAlready`); a connection in the room is one its phone has
  made, so that a phone which comes back is on another (`StartInv`);
- `PlayersCanAnswer`: `CanAnswer`. A connection in the room, or of a join that is past its
  host (`Inside`), has a session, and while its phone is on it the ping is there or some run
  still owes it (`Owes`): a join before its time_sync, or the echo of a run whose
  session is stored. A rejoin whose session is not stored yet has its echo still to
  come, unless the connection is in `early` (`RunFits`). A second join on the same
  connection takes the ping away again, and cannot stop before its time_sync, since
  the host has registered (`Served`);
- `KicksHitNamed`: `KickHitsNamed`. A seat was taken by a run of that name on that sid
  (`SeatTaken`), a name on a host's list is that of a seat or of a controller
  (`Playing_as`), and so a kick without a sid is a controller's (`KickOK`).

The last three share the invariant `RoomInv`. They are proved from what each step does
field by field (`Kind`, one disjunct per handler step), so that the step lemmas
(`StartStep`, `AnswerStep`, `KickInvStep`) handle no records.

They rest on `LobbyAssumption`: the placeholders `NoName`, `NoSid` and `NoPage` are not
names, sids or pages, controllers have names, `Conns` is a number for each phone. They
hold for any sets of phones, names, controllers and runs, finite or not.

`GamesProofs` proves

- `AnswersScored`: `AnswersHaveScores`; the invariant follows a name from its score to
  the lists that hold it (`Scored`): the score comes before the answer and never goes,
  and save_quiz reads the scores after the answers;
- `GamesOwned`: `OwnGames`; a living game, a run that saves and a row of results name
  the user who started the game (`Owned`), and a host's page stays with the pin
  of its game (`TabsKnown`);
- `ResultsAreKept`: `ResultsStay`, from the same invariant and what one step may do to
  a row.

The invariant `IInv` is these with the types of the keys and of the runs
(`KeysTyped`, `RunsTyped`). `WaysAlways` goes further: no key outlives what its handler
gave it (`Lasting`), and a code for controllers or an entry of the remote's list is gone
before the game it names, or before a new game takes the pin (`Ways`). From it follow
`TypeCorrect` (`TypeOK`) and `WaysOpen` (`WaysInOpen`). `GamesAssumption` says that the
placeholder `Nothing` is none of the ids and no row of results.

`LibraryProofs` proves `RowsStaySound` and, from it, `VerdictsStand`: `ModeratedAsShown`. The
property alone is not inductive, since a row may be overwritten by any copy; the
invariant says the same of every copy a handler or a job holds, and that a run
which will write back has one.

`EverythingStays` proves `LInv`, which says what every handler and job between two awaits
still owes; again each step is first reduced to what it does to the fields
(`Kind`). From it follow

- `TypeCorrect`: `TypeOK`, with the types of rows, copies and jobs (`Typed`);
- `IndexIsTold`: `IndexTells`. While no drift was noted, a public quiz is in the index, or a run past its
  index step still has to write the row that makes it private, or the other way round
  (`Told`, `IndexInv`);
- `CountersMatch`: `LikesMatchRatings`. The ratings are ahead of the row's counters by exactly what the
  one rater of the quiz still has to write, and a run that holds an older
  copy will put the quiz into `torn` (`Rateds`, `RatingsInv`); `WritersInv` makes `by` tell:
  a run that has not written is the last writer of no row and no copy;
- `LinksComplete`: `ShownIsLinked`. A picture a row shows is linked, or promised by a job that is
  queued or at work, or by the run that has just made the quiz (`LinksInv`).

They rest on `LibraryAssumption`: the placeholders are no runs, quizzes or rows.

`AccountsProofs` proves `OnlyVerifiedAct` and, from it, `StaysVerified`: `VerifiedStays`.
Until the account is verified nobody has a token, a reset, a login or an API key
(`Waiting`), so no request but verify_user can hold an unverified copy
(`RunOK`); from then on every copy read is verified. `PInvAlways` is about the password:
every copy of the row is one and whoever will write has one (`CopiesTyped`), and unless
`overtaken` every copy that may be written back carries the newest password, the
cached one too except while the request that changed it has yet to clear the cache
(`Current`). From it follow `TypeCorrect` (`TypeOK`), `PasswordStays` (`PasswordKept`) and
`CacheIsFresh` (`PasswordFresh`). They rest on `AccountsAssumption`.

`SignUpProofs` proves `TypeCorrect` (`TypeOK`: no two accounts share an address or a name) and
`CreatedIsSignedIn`: `CreatedGetsIn`. A row says what its request asked for, GitHub's with
the name as it came (`RowOK`), and a request that has saved a row looks for it
next (`SavedOK`), so that each provider's way of finding an account, by address and
type or by name too, finds this one. They rest on `SignUpAssumption`: numbers
behind a name go up to 1 at least.

`FilesProofs` proves `TypeCorrect`; `RowsLeadToFiles`: `ServedIsStored`; and
`DeletedStaysHidden`: `DeletedIsHidden`. A row and every copy of one that will be written
back have their file (`Backed`), the id of a row that is still to be saved is
nobody else's (`Apart`), and a deletion that was reported stands in the row
unless the row is in `torn` (`MarkedOK`). `UsedIsCounted` is `UsedIsSum`: each item is handed to
the worker once, by the one run that has its id (`HandedInv`), and storage_used is
the sum of what the jobs have added (`SumInv`), whose copies have the size in the row
unless it is in `torn` (`CopiesAgree`); a killed worker's job is queued once more and
may add again, so after a crash the sum is only a lower bound. They rest on `FilesAssumption`: sizes, limit
and crashes are numbers, `Nothing` is no item, number or row.

These hold for any sets of games, pins, users, players, quizzes, pictures, files
and runs, finite or not, any clock and any numbers of restarts and crashes.

Every invariant the runs check is proved, and so is the action property `ResultsStay`. Only
model-checked: all liveness, and with it the fairness part of `ImplementsBook` (TLAPS
does not handle fairness and ENABLED).

## What the code does not keep

- `EveryAnswerListed` (`qr_lost`): `live_redis_data.md` promises a list of the submitted
  answers; `set_answer` is read, append, write, and a concurrent answer is lost.

The following formulas are stated in the modules and fail on the instances named
here, which differ from the runs' as said; no run checks them.

- `AnnouncedMeansEveryone` of `QuestionRound` (2 phones, `NQ = 1`, `Texts = {0}`, 2 runs): the
  number of answers is compared with the number of players; one player can give two.
- `TimedByOwnQuestion` of `QuestionRound` (2 phones, `NQ = 2`, 2 runs, 1 handler of the host):
  one start time for all questions.
- `OneHost` of `Lobby` (`Hosts = {h1, h2}`, `FirstHost = NoPage`, no phones): `SocketIo.md`
  promises `already_registered_as_admin` to a second host; the test and the SET are
  two calls.
- `RegisteredMeansAdmin` of `Lobby` (`Hosts = {h1}`, `Remotes = {m1}`, `Reused = {}`):
  `SocketIo.md` says who receives registered_as_admin is registered; the remote's
  handler emits it and then raises.
- `KickedStaysOut` of `Lobby` (1 phone with 2 connections, 2 runs, 1 kick): the players set
  is the list of the current players; a kicked page rejoins when it loads anew.
- `BackupCodeKept` of `Accounts` (3 requests, 1 at a time): the security page says that the old
  backup code is removed; save_avatar writes back the one in the cached copy.

Properties that hold only up to a history variable name the other weak points:
two runs that hold one name at once leave two entries (`clash`), and a controller's
name is looked up and never taken; a phone whose join crosses start_game stays on
the title page (`crossed`); a phone whose echo is faster than rejoin_game has no
ping and cannot answer (`early`); two games started at the same moment may share a
pin (`clashed`); counters, links, deletions and storage_used are lost to an older copy of the
row (`torn`); imports, refused deletions and restarts leave the index
behind until the counts differ at a start (`drift`). Known and in the models,
but without a property: a player who joins between `ClaimSession` and `SaveAdmin`
is not on the host's list; hide_results on the last question stores the number of a
question that does not exist (`Numbers`); GitHub's loop over a taken name never ends;
a file that was deleted stays in the storage and can still be served.

## Not modelled

- Search, statistics, sitemap and the listings: they read, and change nothing.
- Quiztivity and its shares: single inserts, updates and deletes of rows that one
  owner changes, and a comparison with the clock.
- Kahoot's API, Pixabay's search, mails, rendering, hash cash: other services,
  or pure functions on texts and pictures.
- Box controllers: adding, naming and polling for registration, and `wss_clients`, whose
  reconnection the code does not complete. The join and the buttons are
  modelled.
- `calculate_score`'s values and the layout of the spreadsheet: arithmetic and
  formatting; `QuestionRound` leaves points open.
- The protocols with identity providers and authenticators: they yield an
  outcome.
- Web pages outside a game, migrations, configuration and deployment.

## Plan

1. `QuestionRound`, `AnswerBook`, `Lobby` and their proofs (done).
2. `Games`, `Library`, `Accounts`, `SignUp`, `Files` and the first proofs about four of them
   (done).
3. Proofs of the safety properties of all modules, and of the safety part of `ImplementsBook`
   (done).
4. An abstract account (a password and its owner) that `Accounts` implements when requests
   do not overlap.
5. Controllers that register and reconnect, with `wss_clients`; two running games
   beside each other, for the events that are emitted without a room.
