------------------------------- MODULE Games --------------------------------
(***************************************************************************)
(* The life of games as their keys in Redis: start_quiz, the ways into a   *)
(* game it opens, the writes of the host's and the players' handlers that  *)
(* give the keys new lifetimes or take them away, the readers of the Live  *)
(* API, the export and the results saved for good.  What a handler does to *)
(* one question is in QuestionRound, who gets to be host in Lobby: here    *)
(* those handlers are single steps, a submitted answer two.                *)
(*                                                                         *)
(* Time passes in hours; a key that lives for a part of an hour lives for  *)
(* all of it.                                                              *)
(***************************************************************************)
EXTENDS Naturals, FiniteSets

CONSTANTS
  Games,    \* game ids: what uuid4() will return
  Users,    \* users that start games of the one quiz
  Pins,     \* what randint(100000, 999999) may return
  Names,    \* usernames of players
  MaxTime,  \* bound on the clock
  Nothing   \* null

ASSUME GamesAssumption ==
  /\ MaxTime \in Nat /\ Nothing \notin Games \cup Users \cup Pins \cup Names
  /\ Nothing \notin [answers : SUBSET Names, note : BOOLEAN, player_scores : SUBSET Names, user : Users]

VARIABLES
  game,     \* [Pins -> game:<pin>]
  alias,    \* [Users -> game_pin:<user>:<quiz>]
  waiting,  \* [Users -> game_in_lobby:<user>]
  code,     \* [Games -> the game:cqc:code:<code> made for it]
  session,  \* [Pins -> game_session:<pin>]
  answers,  \* [Pins -> game_session:<pin>:<i>]
  scores,   \* [Pins -> names in game_session:<pin>:player_scores]
  token,    \* [Games -> an export_token:<token> made by its host]
  results,  \* [Games -> row of game_results, or Nothing]
  quiz,     \* the quiz exists
  start,    \* [Games -> run of start_quiz]
  tab,      \* [Games -> session of the socket of the host's page]
  answer,   \* [Names -> run of submit_answer]
  saving,   \* [Games -> run of save_quiz]
  clashed,  \* games that took a pin together with another one
  now

inredis == <<game, alias, waiting, code, session, answers, scores, token>>
vars == <<inredis, results, quiz, start, tab, answer, saving, clashed, now>>

\* A key holds a value for so many hours more, or Forever.
Hours(seconds) == (seconds + 3599) \div 3600
Forever == Hours(360000)
Gone == [value |-> Nothing, left |-> 0]
Key(value, ex) == [value |-> value, left |-> Hours(ex)]
Alive(key) == key.left > 0

Older(key) == IF key.left = 0 \/ key.left = Forever THEN key
              ELSE IF key.left = 1 THEN Gone
              ELSE [key EXCEPT !.left = key.left - 1]

Game(g, u, started) == [id |-> g, user |-> u, started |-> started]

NoStart == [pc |-> "idle", user |-> Nothing, pin |-> Nothing]

Init ==
  /\ game = [p \in Pins |-> Gone]
  /\ alias = [u \in Users |-> Gone] /\ waiting = [u \in Users |-> Gone]
  /\ code = [g \in Games |-> Gone]
  /\ session = [p \in Pins |-> Gone]
  /\ answers = [p \in Pins |-> Gone]
  /\ scores = [p \in Pins |-> {}]
  /\ token = [g \in Games |-> Gone]
  /\ results = [g \in Games |-> Nothing] /\ quiz = TRUE
  /\ start = [g \in Games |-> NoStart]
  /\ tab = [g \in Games |-> Gone]
  /\ answer = [n \in Names |-> Nothing]
  /\ saving = [g \in Games |-> Nothing]
  /\ clashed = {} /\ now = 0

-----------------------------------------------------------------------------
\* start_quiz: draw pins until one has no game, then set the keys in turn.
Lifetime_Faulty == [code |-> 18000, game |-> 3600, alias |-> 18000, waiting |-> 900]

Lifetime_Lobby == [code |-> 3600, game |-> 900, alias |-> 18000, waiting |-> 7200]

Lifetime == [code |-> 3600, game |-> 18000, alias |-> 18000, waiting |-> 900]

draws_pin(g) ==
  /\ quiz /\ start[g].pc = "idle"
  /\ \E u \in Users, p \in Pins, cqcs_enabled \in BOOLEAN :
       /\ ~Alive(game[p])
       /\ start' = [start EXCEPT ![g] = [pc |-> IF cqcs_enabled THEN "code" ELSE "game", user |-> u, pin |-> p]]
  /\ UNCHANGED <<inredis, results, quiz, tab, answer, saving, clashed, now>>

sets_code(g) ==
  /\ start[g].pc = "code"
  /\ code' = [code EXCEPT ![g] = Key(start[g].pin, Lifetime.code)]
  /\ start' = [start EXCEPT ![g].pc = "game"]
  /\ UNCHANGED <<game, alias, waiting, session, answers, scores, token, results, quiz, tab, answer,
                 saving, clashed, now>>

sets_game(g) ==
  /\ start[g].pc = "game"
  /\ LET p == start[g].pin
     IN  /\ game' = [game EXCEPT ![p] = Key(Game(g, start[g].user, FALSE), Lifetime.game)]
         /\ clashed' = clashed \cup IF Alive(game[p]) THEN {g, game[p].value.id} ELSE {}
  /\ start' = [start EXCEPT ![g].pc = "alias"]
  /\ UNCHANGED <<alias, waiting, code, session, answers, scores, token, results, quiz, tab, answer,
                 saving, now>>

sets_alias(g) ==
  /\ start[g].pc = "alias"
  /\ alias' = [alias EXCEPT ![start[g].user] = Key(start[g].pin, Lifetime.alias)]
  /\ start' = [start EXCEPT ![g].pc = "waiting"]
  /\ UNCHANGED <<game, waiting, code, session, answers, scores, token, results, quiz, tab, answer,
                 saving, clashed, now>>

sets_waiting(g) ==
  /\ start[g].pc = "waiting"
  /\ waiting' = [waiting EXCEPT ![start[g].user] = Key([game_id |-> g, game_pin |-> start[g].pin], Lifetime.waiting)]
  /\ start' = [start EXCEPT ![g].pc = "done"]
  /\ UNCHANGED <<game, alias, code, session, answers, scores, token, results, quiz, tab, answer,
                 saving, clashed, now>>

start_quiz(g) == draws_pin(g) \/ sets_code(g) \/ sets_game(g) \/ sets_alias(g) \/ sets_waiting(g)

-----------------------------------------------------------------------------
\* The host's page registers under the pin and the id it was given.  Its
\* socket keeps a session for an hour, nothing renews it.
register_as_admin(g) ==
  LET p == start[g].pin
  IN  /\ start[g].pc = "done" /\ ~Alive(session[p])
      /\ session' = [session EXCEPT ![p] = Key(g, 7200)]
      /\ tab' = [tab EXCEPT ![g] = Key(p, 3600)]
      /\ UNCHANGED <<game, alias, waiting, code, answers, scores, token, results, quiz, start, answer,
                     saving, clashed, now>>

\* What an event of the host's page works on, whichever game is there now.
Hosts(g, p) == Alive(tab[g]) /\ tab[g].value = p /\ Alive(game[p])

start_game(g) ==
  \E p \in Pins :
    /\ Hosts(g, p)
    /\ game' = [game EXCEPT ![p] = Key([@.value EXCEPT !.started = TRUE], 7200)]
    /\ waiting' = [waiting EXCEPT ![game[p].value.user] = Gone]
    /\ UNCHANGED <<alias, code, session, answers, scores, token, results, quiz, start, tab, answer,
                   saving, clashed, now>>

\* set_question_number keeps the game for two hours more; the SET of
\* get_question_results and of the last submit_answer names no lifetime.
Renews(p, left) ==
  /\ game' = [game EXCEPT ![p].left = left]
  /\ UNCHANGED <<alias, waiting, code, session, answers, scores, token, results, quiz, start, tab,
                 answer, saving, clashed, now>>

set_question_number(g)  == \E p \in Pins : Hosts(g, p) /\ Renews(p, Hours(7200))

get_question_results(g) == \E p \in Pins : Hosts(g, p) /\ Renews(p, Forever)

\* The Live API is asked for a pin, or for a quiz and so its alias.
Resolved(u, p, keys) == IF Alive(keys[p]) \/ ~Alive(alias[u]) THEN p ELSE alias[u].value

IsOwn_Faulty(u, p) == Alive(game[p])

IsOwn(u, p) == Alive(game[p]) /\ game[p].value.user = u

set_next_question(u) ==
  \E p \in Pins : IsOwn(u, Resolved(u, p, game)) /\ Renews(Resolved(u, p, game), Hours(18000))

\* submit_answer, of a phone or a controller: the score, then the answer.
submit_answer(n) ==
  \/ /\ answer[n] = Nothing
     /\ \E p \in Pins : /\ Alive(game[p]) /\ game[p].value.started
                        /\ answer' = [answer EXCEPT ![n] = p]
                        /\ scores' = [scores EXCEPT ![p] = @ \cup {n}]
     /\ UNCHANGED <<game, alias, waiting, code, session, answers, token, results, quiz, start, tab,
                    saving, clashed, now>>
  \/ /\ answer[n] # Nothing
     /\ LET old == IF Alive(answers[answer[n]]) THEN answers[answer[n]].value ELSE {}
        IN  answers' = [answers EXCEPT ![answer[n]] = Key(old \cup {n}, 7200)]
     /\ answer' = [answer EXCEPT ![n] = Nothing]
     /\ UNCHANGED <<game, alias, waiting, code, session, scores, token, results, quiz, start, tab,
                    saving, clashed, now>>

-----------------------------------------------------------------------------
\* generate_final_results: the lists that are left.
generate_final_results(p) == IF Alive(answers[p]) THEN answers[p].value ELSE {}

get_export_token(g) ==
  \E p \in Pins :
    /\ Hosts(g, p)
    /\ token' = [token EXCEPT ![g] = Key(generate_final_results(p), 7200)]
    /\ UNCHANGED <<game, alias, waiting, code, session, answers, scores, results, quiz, start, tab,
                   answer, saving, clashed, now>>

\* generate_spreadsheet puts the answers of the token beside the scores of
\* now; the page asks for the sheet of its own pin, and the token is spent.
Exports(g) == Alive(token[g]) /\ Alive(game[start[g].pin]) /\ quiz

generate_spreadsheet(g) == [players |-> scores[start[g].pin], answers |-> token[g].value]

export_quiz_answers(g) ==
  /\ Exports(g)
  /\ token' = [token EXCEPT ![g] = Gone]
  /\ UNCHANGED <<game, alias, waiting, code, session, answers, scores, results, quiz, start, tab,
                 answer, saving, clashed, now>>

\* save_quiz_to_storage reads the game, its answers and its scores, and
\* inserts a row under the game's id: a second row is refused, and a row of
\* a deleted quiz.  "first" is what the run has read before it reads on.
Inserted_Faulty(old, new) == new

Inserted(old, new) == IF old = Nothing THEN new ELSE old

Unread == [answers |-> {}, player_scores |-> {}]

ReadOrder_Faulty == <<"player_scores", "answers">>

ReadOrder == <<"answers", "player_scores">>

Reads(held, k, p) ==
  IF ReadOrder[k] = "answers" THEN [held EXCEPT !.answers = generate_final_results(p)]
  ELSE [held EXCEPT !.player_scores = scores[p]]

save_quiz(g) ==
  \/ /\ saving[g] = Nothing
     /\ \E p \in Pins : /\ Hosts(g, p)
                        /\ saving' = [saving EXCEPT ![g] = [id |-> game[p].value.id, user |-> game[p].value.user,
                                                            pin |-> p, first |-> Reads(Unread, 1, p)]]
     /\ UNCHANGED results
  \/ /\ saving[g] # Nothing
     /\ LET id == saving[g].id
            data == Reads(saving[g].first, 2, saving[g].pin)
        IN  results' = IF ~quiz THEN results
                       ELSE [results EXCEPT ![id] = Inserted(@, [answers |-> data.answers, note |-> FALSE,
                                                                 player_scores |-> data.player_scores,
                                                                 user |-> saving[g].user])]
     /\ saving' = [saving EXCEPT ![g] = Nothing]

set_note(g) ==
  /\ results[g] # Nothing
  /\ results' = [results EXCEPT ![g].note = TRUE]

\* delete_quiz takes the results along.
delete_quiz ==
  /\ quiz /\ quiz' = FALSE
  /\ results' = [g \in Games |-> Nothing]

Stores ==
  \/ \E g \in Games : save_quiz(g) /\ UNCHANGED quiz
  \/ \E g \in Games : set_note(g) /\ UNCHANGED <<quiz, saving>>
  \/ delete_quiz /\ UNCHANGED saving

\* An hour, for which no request lasts.
Tick ==
  /\ now < MaxTime
  /\ \A g \in Games : start[g].pc \in {"idle", "done"} /\ saving[g] = Nothing
  /\ \A n \in Names : answer[n] = Nothing
  /\ now' = now + 1
  /\ game' = [p \in Pins |-> Older(game[p])]
  /\ alias' = [u \in Users |-> Older(alias[u])]
  /\ waiting' = [u \in Users |-> Older(waiting[u])]
  /\ code' = [g \in Games |-> Older(code[g])]
  /\ session' = [p \in Pins |-> Older(session[p])]
  /\ answers' = [p \in Pins |-> Older(answers[p])]
  /\ token' = [g \in Games |-> Older(token[g])]
  /\ tab' = [g \in Games |-> Older(tab[g])]
  /\ UNCHANGED <<scores, results, quiz, start, answer, saving, clashed>>

Next ==
  \/ \E g \in Games : \/ start_quiz(g) \/ register_as_admin(g) \/ start_game(g)
                      \/ set_question_number(g) \/ get_question_results(g)
                      \/ get_export_token(g) \/ export_quiz_answers(g)
  \/ \E u \in Users : set_next_question(u)
  \/ \E n \in Names : submit_answer(n)
  \/ Stores /\ UNCHANGED <<inredis, start, tab, answer, clashed, now>>
  \/ Tick

Spec == Init /\ [][Next]_vars

-----------------------------------------------------------------------------
\* The readers of the Live API that ask whose game it is.
get_live_game_data(u, p) ==
  LET q == Resolved(u, p, game)
  IN  IF IsOwn(u, q) /\ Alive(session[q])
      THEN [game |-> game[q].value.id, answers |-> generate_final_results(q)] ELSE Nothing

get_game_session(u, p) ==
  LET q == Resolved(u, p, session)
  IN  IF IsOwn(u, q) /\ Alive(session[q]) THEN [game |-> game[q].value.id] ELSE Nothing

\* The rows a user finds on the results page.
list_game_results(u) == {g \in Games : results[g] # Nothing /\ results[g].user = u}

\* What the play page asks first.
check_if_captcha_enabled(p) == Alive(game[p])

get_game_id(p) == IF Alive(game[p]) THEN game[p].value.id ELSE Nothing

\* The controllers' join, the remote's list.
join_game(g) == IF Alive(code[g]) THEN get_game_id(code[g].value) ELSE Nothing

get_game_in_lobby(u) == IF Alive(waiting[u]) THEN waiting[u].value ELSE Nothing

Opens(p, g) == check_if_captcha_enabled(p) /\ get_game_id(p) = g

Lists   == SUBSET Names
InLobby == [game_id : Games, game_pin : Pins]

KeyOf(S, ex) == {Gone} \cup [value : S, left : 1..Hours(ex)]

\* The variables have their types, and no key outlives its lifetime.
TypeOK ==
  /\ \A p \in Pins :
       /\ game[p] = Gone \/ /\ game[p].value.id \in Games /\ game[p].value.user \in Users
                            /\ game[p].left \in 1..Hours(18000) \cup {Forever}
       /\ session[p] \in KeyOf(Games, 7200) /\ answers[p] \in KeyOf(Lists, 7200)
  /\ \A u \in Users : alias[u] \in KeyOf(Pins, 18000)
                      /\ waiting[u] \in KeyOf(InLobby, 900)
  /\ \A g \in Games :
       /\ code[g] \in KeyOf(Pins, 3600) /\ tab[g] \in KeyOf(Pins, 3600)
       /\ token[g] \in KeyOf(Lists, 7200)
       /\ start[g].pc \in {"idle", "code", "game", "alias", "waiting", "done"}
  /\ scores \in [Pins -> SUBSET Names]
  /\ now \in 0..MaxTime

\* A code for controllers or a game in the remote's list, as long as it lives,
\* opens the game it was made for: no other game can have the pin by then,
\* unless two games were started with the same pin at the same moment.
WaysInOpen ==
  /\ \A g \in Games \ clashed :
       Alive(code[g]) /\ start[g].pc \notin {"code", "game"} => join_game(g) = g /\ Opens(code[g].value, g)
  /\ \A u \in Users :
       LET w == get_game_in_lobby(u)
       IN  w # Nothing /\ w.game_id \notin clashed => Opens(w.game_pin, w.game_id)

\* Who answered has a score: no spreadsheet and no saved result has an answer
\* of somebody who is missing among its players, though the two are read at
\* different moments and expire at different times.
AnswersHaveScores ==
  /\ \A g \in Games : Exports(g) => generate_spreadsheet(g).answers \subseteq generate_spreadsheet(g).players
  /\ \A g \in Games : results[g] # Nothing => results[g].answers \subseteq results[g].player_scores

\* The Live API answers a user with a game of his own or not at all, though
\* the alias of his quiz may outlive his game and the pin go to another's; and
\* the results of a game are listed for the user who started it, even if the
\* page of an earlier game of that pin saved them.
OwnGames ==
  /\ \A u \in Users, p \in Pins :
       \A data \in {get_live_game_data(u, p), get_game_session(u, p)} :
         data # Nothing => \E g \in Games : g = data.game /\ start[g].user = u
  /\ \A u \in Users : \A g \in list_game_results(u) : start[g].user = u

\* Saved results stay: saving again, also when the pin has a new game, changes
\* nothing but the note, and only deleting the quiz removes them.
ResultsStay ==
  [][\A g \in Games : results[g] # Nothing =>
       \/ ~quiz'
       \/ results'[g] # Nothing /\ [results'[g] EXCEPT !.note = results[g].note] = results[g]]_vars
=============================================================================
