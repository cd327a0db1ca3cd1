----------------------------- MODULE GamesProofs -----------------------------
(***************************************************************************)
(* Whatever keys expire and whoever takes a pin next: who answered has a   *)
(* score, a game's data go to the user who started it, and a code or an    *)
(* entry of the lobby opens the game it was made for.                      *)
(***************************************************************************)
EXTENDS Games, TLAPS

(***************************************************************************)
(* Keys and their lifetimes.                                               *)
(***************************************************************************)
AKey(k, S) ==
  /\ k \in [value : S \cup {Nothing}, left : Nat]
  /\ Alive(k) => k.value \in S

LEMMA HoursAreNat == ASSUME NEW s \in Nat PROVE Hours(s) \in Nat
BY DEF Hours

LEMMA NewKey ==
  ASSUME NEW S, NEW v \in S, NEW s \in Nat
  PROVE  AKey(Key(v, s), S) /\ Key(v, s).value = v
BY HoursAreNat DEF AKey, Key

LEMMA NewList ==
  ASSUME NEW v, v \subseteq Names
  PROVE  AKey(Key(v, 7200), Lists) /\ Key(v, 7200).value = v
BY HoursAreNat DEF AKey, Key, Lists

LEMMA NoKey == ASSUME NEW S PROVE AKey(Gone, S) /\ ~Alive(Gone)
BY DEF AKey, Gone, Alive

LEMMA RenewedKey ==
  ASSUME NEW S, NEW k, AKey(k, S), k.value \in S, NEW left \in Nat
  PROVE  AKey([k EXCEPT !.left = left], S) /\ [k EXCEPT !.left = left].value = k.value
BY DEF AKey

\* An hour changes no value, and brings no key back.
LEMMA Ages ==
  ASSUME NEW S, NEW k, AKey(k, S)
  PROVE  /\ AKey(Older(k), S)
         /\ Alive(Older(k)) => Alive(k) /\ Older(k).value = k.value
<1>1. Forever \in Nat
  BY HoursAreNat DEF Forever
<1>2. k.left \in Nat /\ k.value \in S \cup {Nothing}
  BY DEF AKey
<1>3. CASE k.left = 0 \/ k.left = Forever
  BY <1>3 DEF Older
<1>4. CASE ~(k.left = 0 \/ k.left = Forever) /\ k.left = 1
  BY <1>4, NoKey DEF Older
<1>5. CASE ~(k.left = 0 \/ k.left = Forever) /\ k.left # 1
  <2>1. Older(k) = [k EXCEPT !.left = k.left - 1]
    BY <1>5 DEF Older
  <2>2. k.left - 1 \in Nat
    BY <1>2, <1>5
  <2> QED BY <1>2, <1>5, <2>1, <2>2 DEF AKey, Alive
<1> QED BY <1>3, <1>4, <1>5

(***************************************************************************)
(* The inductive invariant, in named parts.                                *)
(***************************************************************************)
Played   == [id : Games, user : Users, started : BOOLEAN]
Starting == [pc : {"idle", "code", "game", "alias", "waiting", "done"},
             user : Users \cup {Nothing}, pin : Pins \cup {Nothing}]
Data     == [answers : SUBSET Names, player_scores : SUBSET Names]
Saving   == [id : Games, user : Users, pin : Pins, first : Data]
Saved    == [answers : SUBSET Names, note : BOOLEAN, player_scores : SUBSET Names, user : Users]

\* The keys, and what the handlers carry.
KeysTyped ==
  /\ game    = [p \in Pins  |-> game[p]]    /\ \A p \in Pins  : AKey(game[p], Played)
  /\ alias   = [u \in Users |-> alias[u]]   /\ \A u \in Users : AKey(alias[u], Pins)
  /\ answers = [p \in Pins  |-> answers[p]] /\ \A p \in Pins  : AKey(answers[p], Lists)
  /\ token   = [g \in Games |-> token[g]]   /\ \A g \in Games : AKey(token[g], Lists)
  /\ tab     = [g \in Games |-> tab[g]]     /\ \A g \in Games : AKey(tab[g], Pins)

RunsTyped ==
  /\ scores  \in [Pins -> SUBSET Names]
  /\ start   \in [Games -> Starting]
  /\ answer  \in [Names -> Pins \cup {Nothing}]
  /\ saving  \in [Games -> Saving \cup {Nothing}]
  /\ results \in [Games -> Saved \cup {Nothing}]
  /\ \A g \in Games : start[g].pc # "idle" => start[g].user \in Users /\ start[g].pin \in Pins

\* g is the game of user u.
StartedBy(g, u) == start[g].pc # "idle" /\ start[g].user = u

Owned ==
  /\ \A p \in Pins  : Alive(game[p]) => StartedBy(game[p].value.id, game[p].value.user)
  /\ \A g \in Games : saving[g] # Nothing => StartedBy(saving[g].id, saving[g].user)
  /\ \A g \in Games : results[g] # Nothing => StartedBy(g, results[g].user)

\* A list of answers in a key or in a handler holds names with a score.
Scored ==
  /\ \A p \in Pins  : Alive(answers[p]) => answers[p].value \subseteq scores[p]
  /\ \A n \in Names : answer[n] # Nothing => n \in scores[answer[n]]
  /\ \A g \in Games : Alive(token[g]) => start[g].pc = "done" /\ token[g].value \subseteq scores[start[g].pin]
  /\ \A g \in Games : saving[g] # Nothing => saving[g].first.answers \subseteq scores[saving[g].pin]
  /\ \A g \in Games : results[g] # Nothing => results[g].answers \subseteq results[g].player_scores

\* The host's page stays with the pin it was given.
TabsKnown == \A g \in Games : Alive(tab[g]) => start[g].pc = "done" /\ tab[g].value = start[g].pin

IInv == KeysTyped /\ RunsTyped /\ Owned /\ Scored /\ TabsKnown

LEMMA InitHolds == Init => IInv
<1> SUFFICES ASSUME Init PROVE IInv
  OBVIOUS
<1>1. KeysTyped
  BY NoKey DEF Init, KeysTyped
<1>2. RunsTyped
  BY DEF Init, RunsTyped, NoStart, Starting
<1>3. Owned /\ Scored /\ TabsKnown
  BY NoKey DEF Init, Owned, Scored, TabsKnown
<1> QED BY <1>1, <1>2, <1>3 DEF IInv

(***************************************************************************)
(* Steps.                                                                  *)
(***************************************************************************)
\* start_quiz before it sets the game key.
LEMMA DrawsPin == ASSUME IInv, NEW g \in Games, draws_pin(g) PROVE IInv'
<1> USE DEF IInv
<1>1. PICK u \in Users, p \in Pins, c \in {"code", "game"} :
        start' = [start EXCEPT ![g] = [pc |-> c, user |-> u, pin |-> p]]
  BY DEF draws_pin
<1>2. start[g].pc = "idle"
  BY DEF draws_pin
<1>3. start' \in [Games -> Starting]
  BY <1>1 DEF RunsTyped, Starting
<1>4. \A h \in Games : start[h].pc # "idle" => start'[h] = start[h]
  BY <1>1, <1>2 DEF RunsTyped
<1>5. start'[g].user = u /\ start'[g].pin = p
  BY <1>1 DEF RunsTyped
<1>6. UNCHANGED <<game, alias, answers, scores, token, tab, answer, saving, results>>
  BY DEF draws_pin, inredis
<1>7. KeysTyped'
  BY <1>6 DEF KeysTyped
<1>8. RunsTyped'
  BY <1>1, <1>3, <1>4, <1>5, <1>6 DEF RunsTyped
<1>9. Owned'
  BY <1>4, <1>6 DEF Owned, StartedBy, RunsTyped, Saving, KeysTyped, AKey, Played
<1>10. Scored' /\ TabsKnown'
  BY <1>4, <1>6 DEF Scored, TabsKnown, Alive
<1> QED BY <1>7, <1>8, <1>9, <1>10

\* A step of start_quiz after that moves its own run on and nothing else of it.
Onward(g, c) ==
  /\ start[g].pc \notin {"idle", "done"}
  /\ c \in {"game", "alias", "waiting", "done"}
  /\ start' = [start EXCEPT ![g].pc = c]

LEMMA MovesOn ==
  ASSUME RunsTyped, NEW g \in Games, NEW c, Onward(g, c)
  PROVE  /\ start' \in [Games -> Starting]
         /\ \A h \in Games : /\ start'[h].user = start[h].user
                             /\ start'[h].pin = start[h].pin
                             /\ start[h].pc # "idle" <=> start'[h].pc # "idle"
                             /\ start[h].pc = "done" => start'[h].pc = "done"
BY DEF RunsTyped, Onward, Starting

LEMMA SetsCode == ASSUME IInv, NEW g \in Games, sets_code(g) PROVE IInv'
<1> USE DEF IInv
<1>1. Onward(g, "game")
  BY DEF sets_code, Onward
<1>2. UNCHANGED <<game, alias, answers, scores, token, tab, answer, saving, results>>
  BY DEF sets_code
<1>3. KeysTyped'
  BY <1>2 DEF KeysTyped
<1>4. RunsTyped'
  BY <1>1, <1>2, MovesOn DEF RunsTyped
<1>5. Owned'
  BY <1>1, <1>2, MovesOn DEF Owned, StartedBy, RunsTyped, Saving, KeysTyped, AKey, Played
<1>6. Scored' /\ TabsKnown'
  BY <1>1, <1>2, MovesOn DEF Scored, TabsKnown, Alive
<1> QED BY <1>3, <1>4, <1>5, <1>6

LEMMA SetsGame == ASSUME IInv, NEW g \in Games, sets_game(g) PROVE IInv'
<1> DEFINE p == start[g].pin
           u == start[g].user
           k == Key(Game(g, u, FALSE), Lifetime.game)
<1> USE DEF IInv
<1>1. Onward(g, "alias")
  BY DEF sets_game, Onward
<1>2. p \in Pins /\ u \in Users
  BY DEF RunsTyped, sets_game
<1>3. game' = [game EXCEPT ![p] = k]
  BY DEF sets_game
<1>4. UNCHANGED <<alias, answers, scores, token, tab, answer, saving, results>>
  BY DEF sets_game
<1>5. Game(g, u, FALSE) \in Played
  BY <1>2 DEF Game, Played
<1>6. AKey(k, Played) /\ k.value.id = g /\ k.value.user = u
  <2>1. Lifetime.game \in Nat
    BY DEF Lifetime
  <2>2. AKey(k, Played) /\ k.value = Game(g, u, FALSE)
    BY <1>5, <2>1, NewKey
  <2> QED BY <2>2 DEF Game
<1>7. /\ game' = [q \in Pins |-> game'[q]] /\ game'[p] = k
      /\ \A q \in Pins \ {p} : game'[q] = game[q]
  BY <1>2, <1>3 DEF KeysTyped
<1> HIDE DEF k
<1>8. KeysTyped'
  BY <1>4, <1>6, <1>7 DEF KeysTyped
<1>9. RunsTyped'
  BY <1>1, <1>4, MovesOn DEF RunsTyped
<1>10. start'[g].pc # "idle" /\ start'[g].user = u
  BY <1>1, MovesOn DEF Onward
<1>11. Owned'
  <2>1. \A h \in Games : \A v : StartedBy(h, v) => StartedBy(h, v)'
    BY <1>1, MovesOn DEF StartedBy
  <2>2. ASSUME NEW q \in Pins, Alive(game[q])' PROVE StartedBy(game[q].value.id, game[q].value.user)'
    <3>1. CASE q = p
      BY <3>1, <1>6, <1>7, <1>10 DEF StartedBy
    <3>2. CASE q # p
      <4>1. Alive(game[q]) /\ game'[q] = game[q]
        BY <2>2, <3>2, <1>7 DEF Alive
      <4>2. game[q].value.id \in Games
        BY <4>1 DEF KeysTyped, AKey, Played
      <4> QED BY <4>1, <4>2, <2>1 DEF Owned
    <3> QED BY <3>1, <3>2
  <2> QED BY <2>1, <2>2, <1>4 DEF Owned, RunsTyped, Saving
<1>12. Scored' /\ TabsKnown'
  BY <1>1, <1>4, MovesOn DEF Scored, TabsKnown, Alive
<1> QED BY <1>8, <1>9, <1>11, <1>12

LEMMA SetsAlias == ASSUME IInv, NEW g \in Games, sets_alias(g) PROVE IInv'
<1> DEFINE k == Key(start[g].pin, Lifetime.alias)
<1> USE DEF IInv
<1>1. Onward(g, "waiting")
  BY DEF sets_alias, Onward
<1>2. UNCHANGED <<game, answers, scores, token, tab, answer, saving, results>>
  BY DEF sets_alias
<1>3. start[g].user \in Users /\ AKey(k, Pins)
  BY NewKey DEF RunsTyped, sets_alias, Lifetime
<1>4. alias' = [alias EXCEPT ![start[g].user] = k]
  BY DEF sets_alias
<1> HIDE DEF k
<1>5. KeysTyped'
  BY <1>2, <1>3, <1>4 DEF KeysTyped
<1>6. RunsTyped'
  BY <1>1, <1>2, MovesOn DEF RunsTyped
<1>7. Owned'
  BY <1>1, <1>2, MovesOn DEF Owned, StartedBy, RunsTyped, Saving, KeysTyped, AKey, Played
<1>8. Scored' /\ TabsKnown'
  BY <1>1, <1>2, MovesOn DEF Scored, TabsKnown, Alive
<1> QED BY <1>5, <1>6, <1>7, <1>8

LEMMA SetsWaiting == ASSUME IInv, NEW g \in Games, sets_waiting(g) PROVE IInv'
<1> USE DEF IInv
<1>1. Onward(g, "done")
  BY DEF sets_waiting, Onward
<1>2. UNCHANGED <<game, alias, answers, scores, token, tab, answer, saving, results>>
  BY DEF sets_waiting
<1>3. KeysTyped'
  BY <1>2 DEF KeysTyped
<1>4. RunsTyped'
  BY <1>1, <1>2, MovesOn DEF RunsTyped
<1>5. Owned'
  BY <1>1, <1>2, MovesOn DEF Owned, StartedBy, RunsTyped, Saving, KeysTyped, AKey, Played
<1>6. Scored' /\ TabsKnown'
  BY <1>1, <1>2, MovesOn DEF Scored, TabsKnown, Alive
<1> QED BY <1>3, <1>4, <1>5, <1>6

LEMMA RegistersAsAdmin == ASSUME IInv, NEW g \in Games, register_as_admin(g) PROVE IInv'
<1> DEFINE k == Key(start[g].pin, 3600)
<1> USE DEF IInv
<1>1. start[g].pc = "done"
  BY DEF register_as_admin
<1>2. AKey(k, Pins) /\ k.value = start[g].pin
  BY <1>1, NewKey DEF RunsTyped
<1>3. tab' = [tab EXCEPT ![g] = k]
  BY DEF register_as_admin
<1>4. UNCHANGED <<game, alias, answers, scores, token, start, answer, saving, results>>
  BY DEF register_as_admin
<1> HIDE DEF k
<1>5. KeysTyped'
  BY <1>2, <1>3, <1>4 DEF KeysTyped
<1>6. RunsTyped' /\ Owned' /\ Scored'
  BY <1>4 DEF RunsTyped, Owned, StartedBy, Scored, Alive
<1>7. TabsKnown'
  BY <1>1, <1>2, <1>3, <1>4 DEF TabsKnown, KeysTyped, Alive
<1> QED BY <1>5, <1>6, <1>7

(***************************************************************************)
(* Steps that write a game key again: the same game, of the same user.     *)
(***************************************************************************)
SameGame(p, k) ==
  /\ AKey(k, Played)
  /\ Alive(game[p])
  /\ k.value.id = game[p].value.id /\ k.value.user = game[p].value.user
  /\ game' = [game EXCEPT ![p] = k]

LEMMA GameKept ==
  ASSUME IInv, NEW p \in Pins, NEW k, SameGame(p, k),
         UNCHANGED <<alias, answers, scores, token, tab, start, answer, saving, results>>
  PROVE  IInv'
<1> USE DEF IInv
<1>1. /\ game' = [q \in Pins |-> game'[q]] /\ game'[p] = k
      /\ \A q \in Pins \ {p} : game'[q] = game[q]
  BY DEF KeysTyped, SameGame
<1>2. KeysTyped'
  BY <1>1 DEF KeysTyped, SameGame
<1>3. Owned'
  <2>1. ASSUME NEW q \in Pins, Alive(game[q])' PROVE StartedBy(game[q].value.id, game[q].value.user)'
    BY <1>1, <2>1 DEF Owned, SameGame, StartedBy, Alive
  <2> QED BY <2>1 DEF Owned, StartedBy
<1>4. RunsTyped' /\ Scored' /\ TabsKnown'
  BY DEF RunsTyped, Scored, TabsKnown, Alive
<1> QED BY <1>2, <1>3, <1>4

LEMMA GameIsPlayed == ASSUME IInv, NEW p \in Pins, Alive(game[p]) PROVE game[p].value \in Played
BY DEF IInv, KeysTyped, AKey

LEMMA StartsGame == ASSUME IInv, NEW g \in Games, start_game(g) PROVE IInv'
<1>1. PICK p \in Pins :
        /\ Hosts(g, p)
        /\ game' = [game EXCEPT ![p] = Key([@.value EXCEPT !.started = TRUE], 7200)]
        /\ waiting' = [waiting EXCEPT ![game[p].value.user] = Gone]
        /\ UNCHANGED <<alias, code, session, answers, scores, token, results, quiz, start, tab, answer,
                       saving, clashed, now>>
  BY ZenonT(40) DEF start_game
<1> DEFINE v == [game[p].value EXCEPT !.started = TRUE]
<1>2. v \in Played /\ v.id = game[p].value.id /\ v.user = game[p].value.user
  BY <1>1, GameIsPlayed DEF Played, Hosts
<1>3. AKey(Key(v, 7200), Played) /\ Key(v, 7200).value = v
  BY <1>2, NewKey
<1>4. game' = [game EXCEPT ![p] = Key(v, 7200)]
  BY <1>1
<1> HIDE DEF v
<1>5. SameGame(p, Key(v, 7200))
  <2>1. Alive(game[p])
    BY <1>1 DEF Hosts
  <2> QED BY <1>2, <1>3, <1>4, <2>1 DEF SameGame
<1> QED BY <1>1, <1>5, GameKept

LEMMA RenewsGame ==
  ASSUME IInv, NEW p \in Pins, NEW left \in Nat, Alive(game[p]), Renews(p, left)
  PROVE  IInv'
<1>1. game' = [game EXCEPT ![p].left = left]
  BY DEF Renews
<1> DEFINE k == [game[p] EXCEPT !.left = left]
<1>2. game' = [game EXCEPT ![p] = k]
  BY <1>1
<1>3. AKey(game[p], Played) /\ game[p].value \in Played
  BY GameIsPlayed DEF IInv, KeysTyped
<1>4. AKey(k, Played) /\ k.value = game[p].value
  BY <1>3, RenewedKey
<1> HIDE DEF k
<1>5. SameGame(p, k)
  BY <1>2, <1>4 DEF SameGame
<1> QED BY <1>5, GameKept DEF Renews

LEMMA ResolvesPin == ASSUME IInv, NEW u \in Users, NEW p \in Pins, NEW keys PROVE Resolved(u, p, keys) \in Pins
BY DEF Resolved, IInv, KeysTyped, AKey

(***************************************************************************)
(* Answers, exports and results.                                           *)
(***************************************************************************)
LEMMA SubmitsAnswer == ASSUME IInv, NEW n \in Names, submit_answer(n) PROVE IInv'
<1> USE DEF IInv
<1>1. CASE answer[n] = Nothing
  <2>1. PICK p \in Pins : /\ answer' = [answer EXCEPT ![n] = p]
                          /\ scores' = [scores EXCEPT ![p] = @ \cup {n}]
                          /\ UNCHANGED <<game, alias, answers, token, tab, start, saving, results>>
    BY <1>1 DEF submit_answer
  <2>2. scores' \in [Pins -> SUBSET Names] /\ \A q \in Pins : scores[q] \subseteq scores'[q]
    BY <2>1 DEF RunsTyped
  <2>3. KeysTyped' /\ Owned' /\ TabsKnown'
    BY <2>1 DEF KeysTyped, Owned, StartedBy, TabsKnown, Alive
  <2>4. RunsTyped'
    BY <2>1, <2>2 DEF RunsTyped
  <2>5. Scored'
    <3>1. \A m \in Names : answer[m]' # Nothing => m \in scores'[answer'[m]]
      BY <2>1, <2>2 DEF Scored, RunsTyped
    <3>2. \A g \in Games : Alive(token[g])' => start[g].pin \in Pins
      BY <2>1 DEF Scored, RunsTyped, Alive
    <3> QED BY <2>1, <2>2, <3>1, <3>2 DEF Scored, RunsTyped, Saving, Alive
  <2> QED BY <2>3, <2>4, <2>5
<1>2. CASE answer[n] # Nothing
  <2> DEFINE p == answer[n]
             old == IF Alive(answers[p]) THEN answers[p].value ELSE {}
             new == old \cup {n}
             k == Key(new, 7200)
  <2>1. p \in Pins /\ old \subseteq scores[p] /\ n \in scores[p] /\ scores[p] \subseteq Names
    BY <1>2 DEF RunsTyped, Scored
  <2>2. /\ answers' = [answers EXCEPT ![p] = k]
        /\ answer' = [answer EXCEPT ![n] = Nothing]
        /\ UNCHANGED <<game, alias, scores, token, tab, start, saving, results>>
    BY <1>2, <2>1 DEF submit_answer, RunsTyped
  <2>3. new \subseteq Names /\ new \subseteq scores[p]
    BY <2>1
  <2> HIDE DEF new
  <2>3a. AKey(k, Lists) /\ k.value = new
    BY <2>3, NewList
  <2> HIDE DEF k
  <2>4. KeysTyped'
    BY <2>1, <2>2, <2>3a DEF KeysTyped
  <2>5. RunsTyped' /\ Owned' /\ TabsKnown'
    BY <2>2 DEF RunsTyped, Owned, StartedBy, TabsKnown, Alive
  <2>6. Scored'
    <3>1. ASSUME NEW q \in Pins, Alive(answers[q])' PROVE answers[q].value' \subseteq scores[q]'
      <4>1. CASE q = p
        BY <4>1, <2>1, <2>2, <2>3, <2>3a DEF KeysTyped
      <4>2. CASE q # p
        BY <3>1, <4>2, <2>1, <2>2 DEF KeysTyped, Scored, Alive
      <4> QED BY <4>1, <4>2
    <3> QED BY <2>2, <3>1 DEF Scored, RunsTyped, Alive
  <2> QED BY <2>4, <2>5, <2>6
<1> QED BY <1>1, <1>2

LEMMA FinalResults ==
  ASSUME IInv, NEW p \in Pins
  PROVE  generate_final_results(p) \subseteq scores[p] /\ generate_final_results(p) \in SUBSET Names
BY DEF IInv, Scored, RunsTyped, generate_final_results

LEMMA GetsToken == ASSUME IInv, NEW g \in Games, get_export_token(g) PROVE IInv'
<1> USE DEF IInv
<1>1. PICK p \in Pins :
        /\ Hosts(g, p)
        /\ token' = [token EXCEPT ![g] = Key(generate_final_results(p), 7200)]
        /\ UNCHANGED <<game, alias, waiting, code, session, answers, scores, results, quiz, start, tab,
                       answer, saving, clashed, now>>
  BY ZenonT(40) DEF get_export_token
<1> DEFINE list == generate_final_results(p)
           k == Key(list, 7200)
<1>2. list \subseteq Names /\ list \subseteq scores[p]
  BY FinalResults
<1> HIDE DEF list
<1>2a. AKey(k, Lists) /\ k.value \subseteq scores[p]
  BY <1>2, NewList
<1>3. start[g].pc = "done" /\ p = start[g].pin
  BY <1>1 DEF TabsKnown, Hosts
<1>4. token' = [token EXCEPT ![g] = k]
  BY <1>1 DEF list
<1> HIDE DEF k
<1>5. KeysTyped'
  <2>1. \A h \in Games : AKey(token'[h], Lists)
    BY <1>2a, <1>4 DEF KeysTyped
  <2>2. token' = [h \in Games |-> token'[h]]
    BY <1>4 DEF KeysTyped
  <2>3. UNCHANGED <<game, alias, answers, tab>>
    BY <1>1
  <2> QED BY <2>1, <2>2, <2>3 DEF KeysTyped
<1>6. RunsTyped' /\ Owned' /\ TabsKnown'
  BY <1>1 DEF RunsTyped, Owned, StartedBy, TabsKnown, Alive
<1>7. Scored'
  BY <1>1, <1>2a, <1>3, <1>4 DEF Scored, KeysTyped, Alive
<1> QED BY <1>5, <1>6, <1>7

LEMMA ExportsAnswers == ASSUME IInv, NEW g \in Games, export_quiz_answers(g) PROVE IInv'
<1> USE DEF IInv
<1>1. /\ token' = [token EXCEPT ![g] = Gone]
      /\ UNCHANGED <<game, alias, answers, scores, tab, start, answer, saving, results>>
  BY DEF export_quiz_answers
<1>2. AKey(Gone, Lists) /\ ~Alive(Gone)
  BY NoKey
<1> HIDE DEF Gone
<1>3. KeysTyped'
  BY <1>1, <1>2 DEF KeysTyped
<1>4. RunsTyped' /\ Owned' /\ TabsKnown'
  BY <1>1 DEF RunsTyped, Owned, StartedBy, TabsKnown, Alive
<1>5. Scored'
  <2>1. \A h \in Games : token'[h] = token[h] \/ token'[h] = Gone
    BY <1>1 DEF KeysTyped
  <2> QED BY <1>1, <1>2, <2>1 DEF Scored, Alive
<1> QED BY <1>3, <1>4, <1>5

\* What save_quiz reads first is the answers; the scores come last.
LEMMA AnswersFirst ==
  ASSUME NEW p \in Pins
  PROVE  /\ Reads(Unread, 1, p) = [answers |-> generate_final_results(p), player_scores |-> {}]
         /\ \A first \in Data : Reads(first, 2, p) = [answers |-> first.answers, player_scores |-> scores[p]]
BY DEF Reads, Unread, ReadOrder, Data

LEMMA BeginsSaving ==
  ASSUME IInv, NEW g \in Games, NEW p \in Pins, Hosts(g, p),
         saving' = [saving EXCEPT ![g] = [id |-> game[p].value.id, user |-> game[p].value.user,
                                          pin |-> p, first |-> Reads(Unread, 1, p)]],
         UNCHANGED <<inredis, results, start, tab, answer>>
  PROVE  IInv'
<1> DEFINE list == generate_final_results(p)
           s == [id |-> game[p].value.id, user |-> game[p].value.user, pin |-> p,
                 first |-> [answers |-> list, player_scores |-> {}]]
<1>1. list \subseteq Names /\ list \subseteq scores[p]
  BY FinalResults
<1>2. saving' = [saving EXCEPT ![g] = s]
  BY AnswersFirst
<1>3. game[p].value \in Played /\ StartedBy(game[p].value.id, game[p].value.user)
  BY GameIsPlayed DEF Hosts, IInv, Owned
<1> HIDE DEF list
<1>4. s \in Saving /\ StartedBy(s.id, s.user) /\ s.first.answers \subseteq scores[s.pin]
  BY <1>1, <1>3 DEF Saving, Data, Played
<1> HIDE DEF s
<1>5. UNCHANGED <<game, alias, answers, scores, token, tab, start, answer, results>>
  BY DEF inredis
<1>6. KeysTyped' /\ TabsKnown'
  BY <1>5 DEF IInv, KeysTyped, TabsKnown, Alive
<1>7. RunsTyped'
  BY <1>2, <1>4, <1>5 DEF IInv, RunsTyped
<1>8. \A h \in Games : saving'[h] = saving[h] \/ saving'[h] = s
  BY <1>2 DEF IInv, RunsTyped
<1>9. Owned'
  BY <1>4, <1>5, <1>8 DEF IInv, Owned, StartedBy, Alive
<1>10. Scored'
  BY <1>4, <1>5, <1>8 DEF IInv, Scored, Alive
<1> QED BY <1>6, <1>7, <1>9, <1>10 DEF IInv

LEMMA EndsSaving ==
  ASSUME IInv, NEW g \in Games, saving[g] # Nothing, save_quiz(g),
         UNCHANGED <<inredis, quiz, start, tab, answer>>
  PROVE  IInv'
<1> DEFINE s == saving[g]
           new == [answers |-> s.first.answers, note |-> FALSE,
                   player_scores |-> scores[s.pin], user |-> s.user]
<1>1. s \in Saving /\ StartedBy(s.id, s.user) /\ s.first.answers \subseteq scores[s.pin]
  BY DEF IInv, RunsTyped, Owned, Scored
<1>2. s.id \in Games /\ s.user \in Users /\ s.pin \in Pins /\ s.first \in Data
  BY <1>1 DEF Saving
<1>3. Reads(s.first, 2, s.pin) = [answers |-> s.first.answers, player_scores |-> scores[s.pin]]
  BY <1>2, AnswersFirst
<1>4. /\ saving' = [saving EXCEPT ![g] = Nothing]
      /\ results' = results \/ results' = [results EXCEPT ![s.id] = Inserted(@, new)]
  <2> DEFINE read == Reads(s.first, 2, s.pin)
  <2>1. /\ saving' = [saving EXCEPT ![g] = Nothing]
        /\ results' = IF ~quiz THEN results
                      ELSE [results EXCEPT ![s.id] =
                              Inserted(@, [answers |-> read.answers, note |-> FALSE,
                                           player_scores |-> read.player_scores, user |-> s.user])]
    BY Zenon DEF save_quiz
  <2>2. read.answers = s.first.answers /\ read.player_scores = scores[s.pin]
    BY <1>3
  <2> QED BY <2>1, <2>2, Zenon
<1>5. new \in Saved /\ new.user = s.user /\ new.answers \subseteq new.player_scores
  BY <1>1, <1>2 DEF Saved, Data, IInv, RunsTyped
<1> HIDE DEF new
<1>6. \A h \in Games : results'[h] = results[h] \/ (h = s.id /\ results'[h] = new)
  BY <1>2, <1>4 DEF Inserted, IInv, RunsTyped
<1>7. results' \in [Games -> Saved \cup {Nothing}]
  BY <1>2, <1>4, <1>5 DEF Inserted, IInv, RunsTyped
<1>8. UNCHANGED <<game, alias, answers, scores, token, tab, start, answer>>
  BY DEF inredis
<1>9. KeysTyped' /\ TabsKnown'
  BY <1>8 DEF IInv, KeysTyped, TabsKnown, Alive
<1>10. RunsTyped'
  BY <1>4, <1>7, <1>8 DEF IInv, RunsTyped
<1>11. \A h \in Games : saving'[h] = saving[h] \/ saving'[h] = Nothing
  BY <1>4 DEF IInv, RunsTyped
<1>12. \A h \in Games : \A u : StartedBy(h, u) => StartedBy(h, u)'
  BY <1>8 DEF StartedBy
<1> HIDE DEF s
<1>13. Owned'
  <2>1. \A p \in Pins : Alive(game[p])' => StartedBy(game[p].value.id, game[p].value.user)'
    BY <1>8 DEF IInv, Owned, StartedBy, Alive
  <2>2. \A h \in Games : saving'[h] # Nothing => StartedBy(saving[h].id, saving[h].user)'
    BY <1>8, <1>11 DEF IInv, Owned, StartedBy
  <2>3. \A h \in Games : results'[h] # Nothing => StartedBy(h, results[h].user)'
    BY <1>1, <1>5, <1>6, <1>8 DEF IInv, Owned, StartedBy
  <2> QED BY <2>1, <2>2, <2>3 DEF Owned
<1>14. Scored'
  BY <1>5, <1>6, <1>8, <1>11 DEF IInv, Scored, Alive
<1> QED BY <1>9, <1>10, <1>13, <1>14 DEF IInv

LEMMA SavesQuiz ==
  ASSUME IInv, NEW g \in Games, save_quiz(g), UNCHANGED <<inredis, quiz, start, tab, answer>>
  PROVE  IInv'
<1>1. CASE saving[g] # Nothing
  BY <1>1, EndsSaving
<1>2. CASE saving[g] = Nothing
  <2>1. PICK p \in Pins :
          /\ Hosts(g, p)
          /\ saving' = [saving EXCEPT ![g] = [id |-> game[p].value.id, user |-> game[p].value.user,
                                              pin |-> p, first |-> Reads(Unread, 1, p)]]
    BY <1>2, Zenon DEF save_quiz
  <2>2. UNCHANGED results
    BY <1>2 DEF save_quiz
  <2> QED BY <2>1, <2>2, BeginsSaving
<1> QED BY <1>1, <1>2

LEMMA NotedRow ==
  ASSUME NEW row \in Saved
  PROVE  /\ [row EXCEPT !.note = TRUE] \in Saved
         /\ [row EXCEPT !.note = TRUE].user = row.user
         /\ [row EXCEPT !.note = TRUE].answers = row.answers
         /\ [row EXCEPT !.note = TRUE].player_scores = row.player_scores
BY DEF Saved

\* A note, or the deletion of the quiz.
LEMMA RowsKept ==
  ASSUME IInv, results' \in [Games -> Saved \cup {Nothing}],
         \A g \in Games : results'[g] # Nothing =>
           /\ results[g] # Nothing
           /\ results'[g].user = results[g].user
           /\ results'[g].answers = results[g].answers
           /\ results'[g].player_scores = results[g].player_scores,
         UNCHANGED <<inredis, start, tab, answer, saving>>
  PROVE  IInv'
<1>1. UNCHANGED <<game, alias, answers, scores, token, tab, start, answer, saving>>
  BY DEF inredis
<1>2. KeysTyped' /\ TabsKnown' /\ RunsTyped'
  BY <1>1 DEF IInv, KeysTyped, TabsKnown, Alive, RunsTyped
<1>3. Owned'
  BY <1>1 DEF IInv, Owned, StartedBy, Alive
<1>4. Scored'
  BY <1>1 DEF IInv, Scored, Alive
<1> QED BY <1>2, <1>3, <1>4 DEF IInv

LEMMA SetsNote ==
  ASSUME IInv, NEW g \in Games, set_note(g), UNCHANGED <<inredis, start, tab, answer, saving>>
  PROVE  IInv'
<1> DEFINE new == [results[g] EXCEPT !.note = TRUE]
<1>1. results[g] # Nothing /\ results[g] \in Saved /\ results' = [results EXCEPT ![g] = new]
  BY DEF set_note, IInv, RunsTyped
<1>2. /\ new \in Saved /\ new.user = results[g].user
      /\ new.answers = results[g].answers /\ new.player_scores = results[g].player_scores
  BY <1>1, NotedRow
<1> HIDE DEF new
<1>3. results' \in [Games -> Saved \cup {Nothing}]
  BY <1>1, <1>2 DEF IInv, RunsTyped
<1>4. \A h \in Games : results'[h] = results[h] \/ (h = g /\ results'[h] = new)
  BY <1>1 DEF IInv, RunsTyped
<1> QED BY <1>1, <1>2, <1>3, <1>4, RowsKept

LEMMA DeletesQuiz ==
  ASSUME IInv, delete_quiz, UNCHANGED <<inredis, start, tab, answer, saving>>
  PROVE  IInv'
BY RowsKept DEF delete_quiz

LEMMA Ticks == ASSUME IInv, Tick PROVE IInv'
<1>1. /\ game' = [p \in Pins |-> Older(game[p])]
      /\ alias' = [u \in Users |-> Older(alias[u])]
      /\ answers' = [p \in Pins |-> Older(answers[p])]
      /\ token' = [g \in Games |-> Older(token[g])]
      /\ tab' = [g \in Games |-> Older(tab[g])]
      /\ UNCHANGED <<scores, results, start, answer, saving>>
  BY DEF Tick
<1>2. KeysTyped'
  BY <1>1, Ages DEF IInv, KeysTyped
<1>3. /\ \A p \in Pins : Alive(game'[p]) => Alive(game[p]) /\ game'[p].value = game[p].value
      /\ \A p \in Pins : Alive(answers'[p]) => Alive(answers[p]) /\ answers'[p].value = answers[p].value
      /\ \A g \in Games : Alive(token'[g]) => Alive(token[g]) /\ token'[g].value = token[g].value
      /\ \A g \in Games : Alive(tab'[g]) => Alive(tab[g]) /\ tab'[g].value = tab[g].value
  BY <1>1, Ages DEF IInv, KeysTyped
<1>4. RunsTyped'
  BY <1>1 DEF IInv, RunsTyped
<1>5. Owned'
  BY <1>1, <1>3 DEF IInv, Owned, StartedBy, Alive
<1>6. Scored' /\ TabsKnown'
  BY <1>1, <1>3 DEF IInv, Scored, TabsKnown, Alive
<1> QED BY <1>2, <1>4, <1>5, <1>6 DEF IInv

LEMMA StepsKeep == ASSUME IInv, [Next]_vars PROVE IInv'
<1>1. CASE UNCHANGED vars
  BY <1>1 DEF vars, inredis, IInv, KeysTyped, RunsTyped, Owned, StartedBy, Scored, TabsKnown, Alive
<1>2. ASSUME NEW g \in Games, start_quiz(g) PROVE IInv'
  BY <1>2, DrawsPin, SetsCode, SetsGame, SetsAlias, SetsWaiting DEF start_quiz
<1>3. ASSUME NEW g \in Games, register_as_admin(g) \/ start_game(g) PROVE IInv'
  BY <1>3, RegistersAsAdmin, StartsGame
<1>4. ASSUME NEW g \in Games, set_question_number(g) \/ get_question_results(g) PROVE IInv'
  <2>1. PICK p \in Pins : Hosts(g, p) /\ (Renews(p, Hours(7200)) \/ Renews(p, Forever))
    BY <1>4 DEF set_question_number, get_question_results
  <2> QED BY <2>1, HoursAreNat, RenewsGame DEF Hosts, Forever
<1>5. ASSUME NEW u \in Users, set_next_question(u) PROVE IInv'
  <2>1. PICK p \in Pins : IsOwn(u, Resolved(u, p, game)) /\ Renews(Resolved(u, p, game), Hours(18000))
    BY <1>5 DEF set_next_question
  <2>2. Resolved(u, p, game) \in Pins
    BY ResolvesPin
  <2> QED BY <2>1, <2>2, HoursAreNat, RenewsGame DEF IsOwn
<1>6. ASSUME NEW n \in Names, submit_answer(n) PROVE IInv'
  BY <1>6, SubmitsAnswer
<1>7. ASSUME NEW g \in Games, get_export_token(g) \/ export_quiz_answers(g) PROVE IInv'
  BY <1>7, GetsToken, ExportsAnswers
<1>8. ASSUME Stores, UNCHANGED <<inredis, start, tab, answer, clashed, now>> PROVE IInv'
  BY <1>8, SavesQuiz, SetsNote, DeletesQuiz DEF Stores
<1>9. CASE Tick
  BY <1>9, Ticks
<1> QED BY <1>1, <1>2, <1>3, <1>4, <1>5, <1>6, <1>7, <1>8, <1>9 DEF Next

\* The keys hold what their handlers set, a game, its copies and its results
\* name the user who started it, every list of answers is of players with a
\* score, and a host's page stays with its pin.
THEOREM IInvAlways == Spec => []IInv
<1>1. Init => IInv
  BY InitHolds
<1>2. IInv /\ [Next]_vars => IInv'
  BY StepsKeep
<1> QED BY <1>1, <1>2, PTL DEF Spec

\* No spreadsheet and no saved result has an answer of somebody who is missing
\* among its players (AnswersHaveScores): the score of an answer is there
\* before it is listed, is never taken away, and save_quiz reads it last.
THEOREM AnswersScored == Spec => []AnswersHaveScores
<1>1. IInv => AnswersHaveScores
  <2> SUFFICES ASSUME IInv PROVE AnswersHaveScores
    OBVIOUS
  <2>1. \A g \in Games : Exports(g) => token[g].value \subseteq scores[start[g].pin]
    BY DEF Exports, IInv, Scored
  <2>2. \A g \in Games : results[g] # Nothing => results[g].answers \subseteq results[g].player_scores
    BY DEF IInv, Scored
  <2> QED BY <2>1, <2>2 DEF AnswersHaveScores, generate_spreadsheet
<1> QED BY <1>1, IInvAlways, PTL

\* The Live API answers a user with a game of his own, and results are listed
\* for who started the game (OwnGames), whatever pins were used again.
THEOREM GamesOwned == Spec => []OwnGames
<1>1. IInv => OwnGames
  <2> SUFFICES ASSUME IInv PROVE OwnGames
    OBVIOUS
  <2>1. ASSUME NEW u \in Users, NEW q \in Pins, IsOwn(u, q)
        PROVE  game[q].value.id \in Games /\ start[game[q].value.id].user = u
    BY <2>1 DEF IsOwn, IInv, Owned, StartedBy, KeysTyped, AKey, Played
  <2>2. ASSUME NEW u \in Users, NEW p \in Pins, NEW data, data # Nothing,
               data \in {get_live_game_data(u, p), get_game_session(u, p)}
        PROVE  \E g \in Games : g = data.game /\ start[g].user = u
    <3>1. CASE data = get_live_game_data(u, p)
      <4>1. Resolved(u, p, game) \in Pins
        BY ResolvesPin
      <4>2. IsOwn(u, Resolved(u, p, game)) /\ data.game = game[Resolved(u, p, game)].value.id
        BY <2>2, <3>1 DEF get_live_game_data
      <4> QED BY <4>1, <4>2, <2>1
    <3>2. CASE data = get_game_session(u, p)
      <4>1. Resolved(u, p, session) \in Pins
        BY ResolvesPin
      <4>2. IsOwn(u, Resolved(u, p, session)) /\ data.game = game[Resolved(u, p, session)].value.id
        BY <2>2, <3>2 DEF get_game_session
      <4> QED BY <4>1, <4>2, <2>1
    <3> QED BY <2>2, <3>1, <3>2
  <2>3. \A u \in Users : \A g \in list_game_results(u) : start[g].user = u
    BY DEF list_game_results, IInv, Owned, StartedBy
  <2> QED BY <2>2, <2>3 DEF OwnGames
<1> QED BY <1>1, IInvAlways, PTL

(***************************************************************************)
(* Saved results.                                                          *)
(***************************************************************************)
SameButNote(old, new) == new # Nothing /\ [new EXCEPT !.note = old.note] = old

LEMMA NoteOnly ==
  ASSUME NEW row \in Saved
  PROVE  SameButNote(row, row) /\ SameButNote(row, [row EXCEPT !.note = TRUE])
<1>1. row # Nothing /\ [row EXCEPT !.note = TRUE] # Nothing
  BY NotedRow, GamesAssumption DEF Saved
<1>2. [row EXCEPT !.note = row.note] = row
  BY DEF Saved
<1>3. [[row EXCEPT !.note = TRUE] EXCEPT !.note = row.note] = row
  BY DEF Saved
<1> QED BY <1>1, <1>2, <1>3 DEF SameButNote

LEMMA RowStays ==
  ASSUME IInv, [Next]_vars, NEW g \in Games, results[g] # Nothing
  PROVE  ~quiz' \/ SameButNote(results[g], results'[g])
<1>1. results[g] \in Saved
  BY DEF IInv, RunsTyped
<1>2. CASE results' = results
  BY <1>1, <1>2, NoteOnly
<1>3. CASE \E h \in Games : save_quiz(h)
  <2>1. results'[g] = results[g]
    BY <1>3, <1>1 DEF save_quiz, Inserted, IInv, RunsTyped
  <2> QED BY <2>1, <1>1, NoteOnly
<1>4. CASE \E h \in Games : set_note(h)
  <2>1. results'[g] = results[g] \/ results'[g] = [results[g] EXCEPT !.note = TRUE]
    BY <1>4 DEF set_note, IInv, RunsTyped
  <2> QED BY <2>1, <1>1, NoteOnly
<1>5. CASE delete_quiz
  BY <1>5 DEF delete_quiz
<1>6. \/ results' = results \/ \E h \in Games : save_quiz(h)
      \/ \E h \in Games : set_note(h)
      \/ delete_quiz
  <2>1. CASE UNCHANGED vars
    BY <2>1 DEF vars
  <2>2. ASSUME NEW h \in Games, start_quiz(h) \/ register_as_admin(h) \/ start_game(h) PROVE results' = results
    <3>1. CASE start_quiz(h)
      BY <3>1 DEF start_quiz, draws_pin, sets_code, sets_game, sets_alias, sets_waiting
    <3>2. CASE register_as_admin(h)
      BY <3>2 DEF register_as_admin
    <3>3. CASE start_game(h)
      <4>1. PICK p \in Pins :
              /\ Hosts(h, p)
              /\ game' = [game EXCEPT ![p] = Key([@.value EXCEPT !.started = TRUE], 7200)]
              /\ waiting' = [waiting EXCEPT ![game[p].value.user] = Gone]
              /\ UNCHANGED <<alias, code, session, answers, scores, token, results, quiz, start, tab, answer,
                             saving, clashed, now>>
        BY <3>3, ZenonT(40) DEF start_game
      <4> QED BY <4>1
    <3> QED BY <2>2, <3>1, <3>2, <3>3
  <2>3. ASSUME NEW h \in Games, set_question_number(h) \/ get_question_results(h) PROVE results' = results
    BY <2>3 DEF set_question_number, get_question_results, Renews
  <2>4. ASSUME NEW h \in Games, get_export_token(h) \/ export_quiz_answers(h) PROVE results' = results
    BY <2>4 DEF get_export_token, export_quiz_answers
  <2>5. ASSUME NEW u \in Users, set_next_question(u) PROVE results' = results
    BY <2>5 DEF set_next_question, Renews
  <2>6. ASSUME NEW n \in Names, submit_answer(n) PROVE results' = results
    BY <2>6 DEF submit_answer
  <2>7. CASE Tick
    BY <2>7 DEF Tick
  <2>8. CASE Stores
    BY <2>8 DEF Stores
  <2> QED BY <2>1, <2>2, <2>3, <2>4, <2>5, <2>6, <2>7, <2>8 DEF Next
<1> QED BY <1>2, <1>3, <1>4, <1>5, <1>6

\* Saved results stay as they are but for the note until the quiz is deleted
\* (ResultsStay), although save_quiz may run again, and for the next game.
THEOREM ResultsAreKept == Spec => ResultsStay
<1>1. IInv /\ [Next]_vars =>
        [\A g \in Games : results[g] # Nothing =>
           \/ ~quiz'
           \/ results'[g] # Nothing /\ [results'[g] EXCEPT !.note = results[g].note] = results[g]]_vars
  BY RowStays DEF SameButNote
<1> QED BY <1>1, IInvAlways, PTL DEF Spec, ResultsStay

(***************************************************************************)
(* How long keys live, and the ways into a game that they are.             *)
(***************************************************************************)
GameLife == 1..Hours(18000) \cup {Forever}
GameKeys == {Gone} \cup [value : Played, left : GameLife]

\* No key outlives what its handler gave it.
Lasting ==
  /\ game    \in [Pins  -> GameKeys]
  /\ session \in [Pins  -> KeyOf(Games, 7200)]
  /\ answers \in [Pins  -> KeyOf(Lists, 7200)]
  /\ alias   \in [Users -> KeyOf(Pins, 18000)]
  /\ waiting \in [Users -> KeyOf(InLobby, 900)]
  /\ code    \in [Games -> KeyOf(Pins, 3600)]
  /\ tab     \in [Games -> KeyOf(Pins, 3600)]
  /\ token   \in [Games -> KeyOf(Lists, 7200)]
  /\ now \in 0..MaxTime

Holds(p, g) == Alive(game[p]) /\ game[p].value.id = g

\* A code and an entry of the lobby go before the game they were made for,
\* and the game is there as long as start_quiz has one of them still to set.
Ways ==
  /\ \A g \in Games : Alive(code[g]) => start[g].pc \notin {"idle", "code"} /\ code[g].value = start[g].pin
  /\ \A g \in Games \ clashed :
       start[g].pc \in {"alias", "waiting"} \/ (start[g].pc = "done" /\ Alive(code[g])) => Holds(start[g].pin, g)
  /\ \A u \in Users :
       Alive(waiting[u]) /\ waiting[u].value.game_id \notin clashed => Holds(waiting[u].value.game_pin, waiting[u].value.game_id)

LEMMA HoursOf ==
  Hours(900) = 1 /\ Hours(3600) = 1 /\ Hours(7200) = 2 /\ Hours(18000) = 5 /\ Forever = 100
BY DEF Hours, Forever

\* A key just set, and the same key an hour later.
LEMMA SetKey ==
  ASSUME NEW S, NEW v \in S, NEW s \in {900, 3600, 7200, 18000}
  PROVE  Key(v, s) \in KeyOf(S, s) /\ Alive(Key(v, s)) /\ Key(v, s).value = v
BY HoursOf DEF KeyOf, Key, Alive

LEMMA AgedKey ==
  ASSUME NEW S, NEW s \in {900, 3600, 7200, 18000}, NEW k \in KeyOf(S, s)
  PROVE  Older(k) \in KeyOf(S, s) /\ (s \in {900, 3600} => ~Alive(Older(k)))
<1>1. CASE k = Gone
  BY <1>1 DEF KeyOf, Older, Gone, Alive
<1>2. CASE k # Gone
  <2>1. k \in [value : S, left : 1..Hours(s)] /\ Hours(s) < Forever /\ Hours(s) \in Nat
    BY <1>2, HoursOf DEF KeyOf
  <2>2. CASE k.left = 1
    BY <2>1, <2>2, HoursOf DEF Older, KeyOf, Gone, Alive
  <2>3. CASE k.left # 1
    <3>1. Older(k) = [k EXCEPT !.left = k.left - 1]
      BY <2>1, <2>3 DEF Older
    <3>2. k.left - 1 \in 1..Hours(s) /\ Hours(s) # 1
      BY <2>1, <2>3
    <3> QED BY <2>1, <3>1, <3>2, HoursOf DEF KeyOf
  <2> QED BY <2>2, <2>3
<1> QED BY <1>1, <1>2

LEMMA AgedGame == ASSUME NEW k \in GameKeys PROVE Older(k) \in GameKeys
<1>1. CASE k = Gone
  BY <1>1 DEF GameKeys, Older, Gone
<1>2. CASE k # Gone
  <2>1. k \in [value : Played, left : 1..5 \cup {100}] /\ Forever = 100
    BY <1>2, HoursOf DEF GameKeys, GameLife
  <2>2. CASE k.left = 1 \/ k.left = Forever
    BY <2>1, <2>2 DEF Older, GameKeys, GameLife
  <2>3. CASE ~(k.left = 1 \/ k.left = Forever)
    <3>1. Older(k) = [k EXCEPT !.left = k.left - 1]
      BY <2>1, <2>3 DEF Older
    <3> QED BY <2>1, <2>3, <3>1, HoursOf DEF GameKeys, GameLife
  <2> QED BY <2>2, <2>3
<1> QED BY <1>1, <1>2

LEMMA SetGame ==
  ASSUME NEW v \in Played, NEW s \in {7200, 18000}
  PROVE  Key(v, s) \in GameKeys /\ Alive(Key(v, s)) /\ Key(v, s).value = v
BY HoursOf DEF GameKeys, GameLife, Key, Alive

LEMMA Lives ==
  /\ {Hours(7200), Hours(18000), Forever} \subseteq GameLife
  /\ \A d \in GameLife : d \in Nat /\ d > 0
BY HoursOf DEF GameLife

All == IInv /\ Lasting /\ Ways

LEMMA InitLasts == Init => Lasting /\ Ways
<1> SUFFICES ASSUME Init PROVE Lasting /\ Ways
  OBVIOUS
<1>1. \A S, s : Gone \in KeyOf(S, s)
  BY DEF KeyOf
<1>2. Gone \in GameKeys /\ ~Alive(Gone)
  BY DEF GameKeys, Gone, Alive
<1>3. now \in 0..MaxTime
  BY GamesAssumption DEF Init
<1> HIDE DEF Gone
<1>4. Lasting
  BY <1>1, <1>2, <1>3 DEF Init, Lasting
<1>5. Ways
  BY <1>2 DEF Init, Ways, NoStart
<1> QED BY <1>4, <1>5

(***************************************************************************)
(* A step that leaves every live game under its pin, and makes no new way. *)
(***************************************************************************)
GamesStay == \A p \in Pins : Alive(game[p]) => Alive(game[p])' /\ game'[p].value.id = game[p].value.id

NoNewWay ==
  /\ UNCHANGED <<code, start, clashed>>
  /\ \A u \in Users : Alive(waiting[u])' => waiting'[u] = waiting[u]

LEMMA WaysKept == ASSUME All, GamesStay, NoNewWay PROVE Ways'
<1>1. \A p \in Pins : \A g : Holds(p, g) => Holds(p, g)'
  BY DEF GamesStay, Holds
<1>2. \A g \in Games : Alive(code[g])' <=> Alive(code[g])
  BY DEF NoNewWay, Alive
<1>3. \A g \in Games : start[g].pc # "idle" => start[g].pin \in Pins
  BY DEF All, IInv, RunsTyped
<1>4. \A u \in Users : Alive(waiting[u]) => waiting[u].value.game_pin \in Pins
  BY DEF All, Lasting, KeyOf, InLobby, Alive, Gone
<1>5. \A u \in Users : Alive(waiting[u])' => Alive(waiting[u])
  BY DEF NoNewWay, Alive
<1> QED BY <1>1, <1>2, <1>3, <1>4, <1>5 DEF All, Ways, NoNewWay

LEMMA NothingMoves == ASSUME All, UNCHANGED <<game, waiting, code, start, clashed>> PROVE Ways'
<1>1. GamesStay /\ NoNewWay
  BY DEF GamesStay, NoNewWay, Alive
<1> QED BY <1>1, WaysKept

LEMMA DrawsPinLasts == ASSUME All, NEW g \in Games, draws_pin(g) PROVE Lasting' /\ Ways'
<1>1. PICK u \in Users, p \in Pins, c \in {"code", "game"} :
        start' = [start EXCEPT ![g] = [pc |-> c, user |-> u, pin |-> p]]
  BY DEF draws_pin
<1>2. start[g].pc = "idle" /\ UNCHANGED <<inredis, clashed, tab, now>>
  BY DEF draws_pin
<1>3. /\ \A h \in Games \ {g} : start'[h] = start[h]
      /\ start'[g].pc \in {"code", "game"}
  BY <1>1 DEF All, IInv, RunsTyped
<1>4. Lasting'
  BY <1>2 DEF All, Lasting, inredis
<1>5. ~Alive(code[g])
  BY <1>2 DEF All, Ways
<1>6. Ways'
  BY <1>2, <1>3, <1>5 DEF All, Ways, Holds, Alive, inredis
<1> QED BY <1>4, <1>6

LEMMA SetsCodeLasts == ASSUME All, NEW g \in Games, sets_code(g) PROVE Lasting' /\ Ways'
<1> DEFINE k == Key(start[g].pin, 3600)
<1>1. start[g].pc = "code" /\ start[g].pin \in Pins
  BY DEF sets_code, All, IInv, RunsTyped
<1>2. /\ code' = [code EXCEPT ![g] = k]
      /\ start' = [start EXCEPT ![g].pc = "game"]
      /\ UNCHANGED <<game, alias, waiting, session, answers, token, tab, clashed, now>>
  BY DEF sets_code, Lifetime
<1>3. k \in KeyOf(Pins, 3600) /\ k.value = start[g].pin
  BY <1>1, SetKey
<1> HIDE DEF k
<1>4. Lasting'
  BY <1>2, <1>3 DEF All, Lasting
<1>5. /\ \A h \in Games \ {g} : start'[h] = start[h] /\ code'[h] = code[h]
      /\ start'[g].pc = "game" /\ start'[g].pin = start[g].pin /\ code'[g] = k
  BY <1>2 DEF All, IInv, RunsTyped, Starting, Lasting
<1>6. Ways'
  BY <1>2, <1>3, <1>5 DEF All, Ways, Holds, Alive
<1> QED BY <1>4, <1>6

LEMMA SetsGameLasts == ASSUME All, NEW g \in Games, sets_game(g) PROVE Lasting' /\ Ways'
<1> DEFINE p == start[g].pin
           k == Key(Game(g, start[g].user, FALSE), 18000)
<1>1. start[g].pc = "game" /\ p \in Pins /\ start[g].user \in Users
  BY DEF sets_game, All, IInv, RunsTyped
<1>2. /\ game' = [game EXCEPT ![p] = k]
      /\ start' = [start EXCEPT ![g].pc = "alias"]
      /\ UNCHANGED <<code, alias, waiting, session, answers, token, tab, now>>
  BY DEF sets_game, Lifetime
<1>3. clashed \subseteq clashed' /\ (Alive(game[p]) => g \in clashed' /\ game[p].value.id \in clashed')
  BY DEF sets_game
<1>4. k \in GameKeys /\ Alive(k) /\ k.value.id = g
  <2>1. Game(g, start[g].user, FALSE) \in Played
    BY <1>1 DEF Game, Played
  <2> QED BY <2>1, SetGame DEF Game
<1> HIDE DEF k
<1>5. Lasting'
  BY <1>1, <1>2, <1>4 DEF All, Lasting
<1>6. /\ \A h \in Games \ {g} : start'[h] = start[h]
      /\ start'[g].pc = "alias" /\ start'[g].pin = p
  BY <1>2 DEF All, IInv, RunsTyped, Starting
<1>7. /\ \A q \in Pins \ {p} : game'[q] = game[q]
      /\ game'[p] = k
  BY <1>1, <1>2 DEF All, Lasting
<1>8. ASSUME NEW q \in Pins, NEW h \in Games, h \notin clashed', Holds(q, h) PROVE Holds(q, h)'
  BY <1>8, <1>3, <1>7 DEF Holds
<1>9. Holds(p, g)'
  BY <1>4, <1>6, <1>7 DEF Holds
<1>10. \A h \in Games : Alive(code[h])' => start'[h].pc \notin {"idle", "code"} /\ code'[h].value = start'[h].pin
  BY <1>2, <1>6 DEF All, Ways, Alive
<1>11. ASSUME NEW h \in Games \ clashed',
              start'[h].pc \in {"alias", "waiting"} \/ (start'[h].pc = "done" /\ Alive(code[h])')
       PROVE  Holds(start[h].pin, h)'
  <2>1. CASE h = g
    BY <2>1, <1>6, <1>9
  <2>2. CASE h # g
    <3>1. start'[h] = start[h] /\ code'[h] = code[h] /\ h \notin clashed
      BY <2>2, <1>2, <1>3, <1>6, <1>11
    <3>2. start[h].pin \in Pins /\ Holds(start[h].pin, h)
      BY <3>1, <1>11 DEF All, Ways, Alive, IInv, RunsTyped
    <3> QED BY <3>1, <3>2, <1>8, <1>11
  <2> QED BY <2>1, <2>2
<1>12. ASSUME NEW u \in Users, Alive(waiting[u])', waiting'[u].value.game_id \notin clashed'
       PROVE  Holds(waiting[u].value.game_pin, waiting[u].value.game_id)'
  <2>1. waiting'[u] = waiting[u] /\ Alive(waiting[u]) /\ waiting[u].value.game_id \notin clashed
    BY <1>2, <1>3, <1>12 DEF Alive
  <2>2. waiting[u].value \in InLobby
    BY <2>1 DEF All, Lasting, KeyOf, Alive, Gone
  <2>3. Holds(waiting[u].value.game_pin, waiting[u].value.game_id)
    BY <2>1 DEF All, Ways
  <2> QED BY <2>1, <2>2, <2>3, <1>8, <1>12 DEF InLobby
<1>13. Ways'
  BY <1>10, <1>11, <1>12 DEF Ways
<1> QED BY <1>5, <1>13

LEMMA SetsAliasLasts == ASSUME All, NEW g \in Games, sets_alias(g) PROVE Lasting' /\ Ways'
<1> DEFINE k == Key(start[g].pin, 18000)
<1>1. start[g].pc = "alias" /\ start[g].pin \in Pins /\ start[g].user \in Users
  BY DEF sets_alias, All, IInv, RunsTyped
<1>2. /\ alias' = [alias EXCEPT ![start[g].user] = k]
      /\ start' = [start EXCEPT ![g].pc = "waiting"]
      /\ UNCHANGED <<game, code, waiting, session, answers, token, tab, clashed, now>>
  BY DEF sets_alias, Lifetime
<1>3. k \in KeyOf(Pins, 18000)
  BY <1>1, SetKey
<1> HIDE DEF k
<1>4. Lasting'
  BY <1>1, <1>2, <1>3 DEF All, Lasting
<1>5. /\ \A h \in Games \ {g} : start'[h] = start[h]
      /\ start'[g].pc = "waiting" /\ start'[g].pin = start[g].pin
  BY <1>2 DEF All, IInv, RunsTyped, Starting
<1>6. Ways'
  BY <1>1, <1>2, <1>5 DEF All, Ways, Holds, Alive
<1> QED BY <1>4, <1>6

LEMMA SetsWaitingLasts == ASSUME All, NEW g \in Games, sets_waiting(g) PROVE Lasting' /\ Ways'
<1> DEFINE w == [game_id |-> g, game_pin |-> start[g].pin]
           k == Key(w, 900)
<1>1. start[g].pc = "waiting" /\ start[g].pin \in Pins /\ start[g].user \in Users
  BY DEF sets_waiting, All, IInv, RunsTyped
<1>2. /\ waiting' = [waiting EXCEPT ![start[g].user] = k]
      /\ start' = [start EXCEPT ![g].pc = "done"]
      /\ UNCHANGED <<game, code, alias, session, answers, token, tab, clashed, now>>
  BY DEF sets_waiting, Lifetime
<1>3. w \in InLobby /\ w.game_id = g /\ w.game_pin = start[g].pin
  BY <1>1 DEF InLobby
<1> HIDE DEF w
<1>4. k \in KeyOf(InLobby, 900) /\ k.value = w
  BY <1>3, SetKey
<1> HIDE DEF k
<1>5. Lasting'
  BY <1>1, <1>2, <1>4 DEF All, Lasting
<1>6. /\ \A h \in Games \ {g} : start'[h] = start[h]
      /\ start'[g].pc = "done" /\ start'[g].pin = start[g].pin
      /\ \A u \in Users : waiting'[u] = waiting[u] \/ waiting'[u] = k
  BY <1>2 DEF All, IInv, RunsTyped, Starting, Lasting
<1>7. \A p, h : Holds(p, h) <=> Holds(p, h)'
  BY <1>2 DEF Holds, Alive
<1>8. g \notin clashed => Holds(start[g].pin, g)
  BY <1>1 DEF All, Ways
<1>9. Ways'
  BY <1>1, <1>2, <1>3, <1>4, <1>6, <1>7, <1>8 DEF All, Ways, Alive
<1> QED BY <1>5, <1>9

LEMMA RegistersLasts == ASSUME All, NEW g \in Games, register_as_admin(g) PROVE Lasting' /\ Ways'
<1> DEFINE j == Key(g, 7200)
           k == Key(start[g].pin, 3600)
<1>1. start[g].pin \in Pins
  BY DEF register_as_admin, All, IInv, RunsTyped
<1>2. /\ session' = [session EXCEPT ![start[g].pin] = j] /\ tab' = [tab EXCEPT ![g] = k]
      /\ UNCHANGED <<game, alias, waiting, code, answers, token, start, clashed, now>>
  BY DEF register_as_admin
<1>3. j \in KeyOf(Games, 7200) /\ k \in KeyOf(Pins, 3600)
  BY <1>1, SetKey
<1> HIDE DEF j, k
<1>4. Lasting'
  BY <1>1, <1>2, <1>3 DEF All, Lasting
<1> QED BY <1>2, <1>4, NothingMoves

\* A game that a step writes again is still the same game.
LEMMA GameRewritten ==
  ASSUME All, NEW p \in Pins, NEW k \in GameKeys, Alive(k), k.value.id = game[p].value.id,
         game' = [game EXCEPT ![p] = k]
  PROVE  GamesStay /\ game' \in [Pins -> GameKeys]
<1>1. \A q \in Pins : game'[q] = IF q = p THEN k ELSE game[q]
  BY DEF All, Lasting
<1>2. GamesStay
  BY <1>1 DEF GamesStay, Alive
<1> QED BY <1>2 DEF All, Lasting

LEMMA StartsGameLasts == ASSUME All, NEW g \in Games, start_game(g) PROVE Lasting' /\ Ways'
<1>1. PICK p \in Pins :
        /\ Hosts(g, p)
        /\ game' = [game EXCEPT ![p] = Key([@.value EXCEPT !.started = TRUE], 7200)]
        /\ waiting' = [waiting EXCEPT ![game[p].value.user] = Gone]
        /\ UNCHANGED <<alias, code, session, answers, scores, token, results, quiz, start, tab, answer,
                       saving, clashed, now>>
  BY ZenonT(40) DEF start_game
<1> DEFINE v == [game[p].value EXCEPT !.started = TRUE]
<1>2. v \in Played /\ v.id = game[p].value.id
  BY <1>1, GameIsPlayed DEF Played, Hosts, All
<1> DEFINE k == Key(v, 7200)
           u == game[p].value.user
<1>3. k \in GameKeys /\ Alive(k) /\ k.value = v
  BY <1>2, SetGame
<1>4. game' = [game EXCEPT ![p] = k] /\ waiting' = [waiting EXCEPT ![u] = Gone]
  BY <1>1
<1> HIDE DEF v, k
<1>5. GamesStay /\ game' \in [Pins -> GameKeys]
  <2>1. k.value.id = game[p].value.id
    BY <1>2, <1>3
  <2> QED BY <1>3, <1>4, <2>1, GameRewritten
<1>6. Gone \in KeyOf(InLobby, 900) /\ ~Alive(Gone)
  BY DEF KeyOf, Gone, Alive
<1>6a. u \in Users
  BY <1>1, GameIsPlayed DEF Played, Hosts, All
<1> HIDE DEF u
<1>7. waiting' \in [Users -> KeyOf(InLobby, 900)]
  BY <1>4, <1>6, <1>6a DEF All, Lasting
<1>8. NoNewWay
  <2>1. \A x \in Users : waiting'[x] = waiting[x] \/ waiting'[x] = Gone
    BY <1>4 DEF All, Lasting
  <2>2. \A x \in Users : Alive(waiting[x])' => waiting'[x] = waiting[x]
    BY <1>6, <2>1 DEF Alive
  <2> QED BY <1>1, <2>2 DEF NoNewWay
<1>9. UNCHANGED <<alias, code, session, answers, token, tab, now>>
  BY <1>1
<1>10. Lasting'
  BY <1>5, <1>7, <1>9 DEF All, Lasting
<1> QED BY <1>5, <1>8, <1>10, WaysKept

LEMMA RenewedGame ==
  ASSUME All, NEW p \in Pins, Alive(game[p]),
         NEW d \in GameLife, game' = [game EXCEPT ![p].left = d]
  PROVE  GamesStay /\ game' \in [Pins -> GameKeys]
<1> DEFINE k == [game[p] EXCEPT !.left = d]
<1>1. game[p] \in GameKeys /\ game' = [game EXCEPT ![p] = k]
  BY DEF All, Lasting
<1>2. k \in GameKeys /\ Alive(k) /\ k.value = game[p].value
  BY <1>1, Lives DEF GameKeys, Gone, Alive
<1> HIDE DEF k
<1>3. \A q \in Pins : game'[q] = IF q = p THEN k ELSE game[q]
  BY <1>1 DEF All, Lasting
<1>4. GamesStay
  BY <1>2, <1>3 DEF GamesStay, Alive
<1> QED BY <1>1, <1>2, <1>4 DEF All, Lasting

LEMMA RenewsLasts ==
  ASSUME All, NEW p \in Pins, Alive(game[p]),
         NEW d \in GameLife, Renews(p, d)
  PROVE  Lasting' /\ Ways'
<1>4. GamesStay /\ game' \in [Pins -> GameKeys]
  BY RenewedGame DEF Renews
<1>5. UNCHANGED <<waiting, alias, code, session, answers, token, tab, start, clashed, now>>
  BY DEF Renews
<1>6. NoNewWay
  BY <1>5 DEF NoNewWay
<1>7. Lasting'
  BY <1>4, <1>5 DEF All, Lasting
<1> QED BY <1>4, <1>6, <1>7, WaysKept

LEMMA SubmitsLasts == ASSUME All, NEW n \in Names, submit_answer(n) PROVE Lasting' /\ Ways'
<1>1. UNCHANGED <<game, waiting, alias, code, session, token, tab, start, clashed, now>>
  BY DEF submit_answer
<1>2. answers' \in [Pins -> KeyOf(Lists, 7200)]
  <2>1. CASE answer[n] = Nothing
    BY <2>1 DEF submit_answer, All, Lasting
  <2>2. CASE answer[n] # Nothing
    <3> DEFINE p == answer[n]
               old == IF Alive(answers[p]) THEN answers[p].value ELSE {}
               new == old \cup {n}
               k == Key(new, 7200)
    <3>1. p \in Pins
      BY <2>2 DEF All, IInv, RunsTyped
    <3>2. old \subseteq Names
      BY <3>1 DEF All, Lasting, KeyOf, Lists, Alive, Gone
    <3>3. answers' = [answers EXCEPT ![p] = k]
      BY <2>2 DEF submit_answer
    <3> HIDE DEF old
    <3>4. new \in Lists
      BY <3>2 DEF Lists
    <3> HIDE DEF new
    <3>5. k \in KeyOf(Lists, 7200)
      BY <3>4, SetKey
    <3> HIDE DEF k
    <3> QED BY <3>1, <3>3, <3>5 DEF All, Lasting
  <2> QED BY <2>1, <2>2
<1>3. Lasting'
  BY <1>1, <1>2 DEF All, Lasting
<1> QED BY <1>1, <1>3, NothingMoves

LEMMA TokensLasts ==
  ASSUME All, NEW g \in Games, get_export_token(g) \/ export_quiz_answers(g)
  PROVE  Lasting' /\ Ways'
<1>1. UNCHANGED <<game, waiting, alias, code, session, answers, tab, start, clashed, now>>
  BY DEF get_export_token, export_quiz_answers
<1>2. token' \in [Games -> KeyOf(Lists, 7200)]
  <2>1. CASE export_quiz_answers(g)
    <3>1. Gone \in KeyOf(Lists, 7200) /\ token' = [token EXCEPT ![g] = Gone]
      BY <2>1 DEF export_quiz_answers, KeyOf
    <3> HIDE DEF Gone
    <3> QED BY <3>1 DEF All, Lasting
  <2>2. CASE get_export_token(g)
    <3>1. PICK p \in Pins :
            /\ Hosts(g, p)
            /\ token' = [token EXCEPT ![g] = Key(generate_final_results(p), 7200)]
            /\ UNCHANGED <<game, alias, waiting, code, session, answers, scores, results, quiz, start, tab,
                           answer, saving, clashed, now>>
      BY <2>2, ZenonT(40) DEF get_export_token
    <3> DEFINE k == Key(generate_final_results(p), 7200)
    <3>2. generate_final_results(p) \in Lists
      BY FinalResults DEF Lists, All
    <3>3. k \in KeyOf(Lists, 7200)
      BY <3>2, SetKey
    <3>4. token' = [token EXCEPT ![g] = k]
      BY <3>1
    <3> HIDE DEF k
    <3> QED BY <3>3, <3>4 DEF All, Lasting
  <2> QED BY <2>1, <2>2
<1>3. Lasting'
  BY <1>1, <1>2 DEF All, Lasting
<1> QED BY <1>1, <1>3, NothingMoves

\* No code and no entry of the lobby lives an hour.
LEMMA TicksLasts == ASSUME All, Tick PROVE Lasting' /\ Ways'
<1>1. /\ game' = [p \in Pins |-> Older(game[p])]
      /\ alias' = [u \in Users |-> Older(alias[u])]
      /\ waiting' = [u \in Users |-> Older(waiting[u])]
      /\ code' = [g \in Games |-> Older(code[g])]
      /\ session' = [p \in Pins |-> Older(session[p])]
      /\ answers' = [p \in Pins |-> Older(answers[p])]
      /\ token' = [g \in Games |-> Older(token[g])]
      /\ tab' = [g \in Games |-> Older(tab[g])]
      /\ now < MaxTime /\ now' = now + 1
      /\ \A g \in Games : start[g].pc \in {"idle", "done"}
      /\ UNCHANGED start
  BY DEF Tick
<1>2. now' \in 0..MaxTime
  BY <1>1, GamesAssumption DEF All, Lasting
<1>3. Lasting'
  BY <1>1, <1>2, AgedKey, AgedGame DEF All, Lasting
<1>4. \A g \in Games : ~Alive(code[g])'
  BY <1>1, AgedKey DEF All, Lasting
<1>5. \A u \in Users : ~Alive(waiting[u])'
  BY <1>1, AgedKey DEF All, Lasting
<1>6. Ways'
  BY <1>1, <1>4, <1>5 DEF Ways
<1> QED BY <1>3, <1>6

LEMMA StepsLast == ASSUME All, [Next]_vars PROVE Lasting' /\ Ways'
<1>1. ASSUME UNCHANGED <<inredis, start, tab, clashed, now>> PROVE Lasting' /\ Ways'
  <2>1. UNCHANGED <<game, alias, waiting, code, session, answers, token>>
    BY <1>1 DEF inredis
  <2>2. Lasting'
    BY <1>1, <2>1 DEF All, Lasting
  <2> QED BY <1>1, <2>1, <2>2, NothingMoves
<1>2. ASSUME NEW g \in Games, start_quiz(g) PROVE Lasting' /\ Ways'
  BY <1>2, DrawsPinLasts, SetsCodeLasts, SetsGameLasts, SetsAliasLasts, SetsWaitingLasts DEF start_quiz
<1>3. ASSUME NEW g \in Games, register_as_admin(g) \/ start_game(g) PROVE Lasting' /\ Ways'
  BY <1>3, RegistersLasts, StartsGameLasts
<1>4. ASSUME NEW g \in Games, set_question_number(g) \/ get_question_results(g) PROVE Lasting' /\ Ways'
  <2>1. PICK p \in Pins : Hosts(g, p) /\ (Renews(p, Hours(7200)) \/ Renews(p, Forever))
    BY <1>4 DEF set_question_number, get_question_results
  <2> QED BY <2>1, Lives, RenewsLasts DEF Hosts
<1>5. ASSUME NEW u \in Users, set_next_question(u) PROVE Lasting' /\ Ways'
  <2>1. PICK p \in Pins : IsOwn(u, Resolved(u, p, game)) /\ Renews(Resolved(u, p, game), Hours(18000))
    BY <1>5 DEF set_next_question
  <2>2. Resolved(u, p, game) \in Pins
    BY ResolvesPin DEF All
  <2> QED BY <2>1, <2>2, Lives, RenewsLasts DEF IsOwn
<1>6. ASSUME NEW n \in Names, submit_answer(n) PROVE Lasting' /\ Ways'
  BY <1>6, SubmitsLasts
<1>7. ASSUME NEW g \in Games, get_export_token(g) \/ export_quiz_answers(g) PROVE Lasting' /\ Ways'
  BY <1>7, TokensLasts
<1>8. CASE Tick
  BY <1>8, TicksLasts
<1>9. CASE UNCHANGED vars
  BY <1>1, <1>9 DEF vars
<1> QED BY <1>1, <1>2, <1>3, <1>4, <1>5, <1>6, <1>7, <1>8, <1>9 DEF Next

\* No key outlives its lifetime, and no way into a game outlives the game.
THEOREM WaysAlways == Spec => [](Lasting /\ Ways)
<1>1. Init => Lasting /\ Ways
  BY InitLasts
<1>2. IInv /\ (Lasting /\ Ways) /\ [Next]_vars => (Lasting /\ Ways)'
  BY StepsLast DEF All
<1> QED BY <1>1, <1>2, IInvAlways, PTL DEF Spec

\* The type invariant, with the longest life each kind of key can have left.
THEOREM TypeCorrect == Spec => []TypeOK
<1>1. IInv /\ (Lasting /\ Ways) => TypeOK
  <2> SUFFICES ASSUME IInv, Lasting PROVE TypeOK
    OBVIOUS
  <2>1. ASSUME NEW p \in Pins
        PROVE  \/ game[p] = Gone
               \/ /\ game[p].value.id \in Games /\ game[p].value.user \in Users
                  /\ game[p].left \in 1..Hours(18000) \cup {Forever}
    BY DEF Lasting, GameKeys, GameLife, Played
  <2>2. \A g \in Games : start[g].pc \in {"idle", "code", "game", "alias", "waiting", "done"}
    BY DEF IInv, RunsTyped, Starting
  <2>3. scores \in [Pins -> SUBSET Names]
    BY DEF IInv, RunsTyped
  <2> QED BY <2>1, <2>2, <2>3 DEF Lasting, TypeOK
<1> QED BY <1>1, IInvAlways, WaysAlways, PTL

\* A controller's code and an entry in the remote's list open the game they
\* were made for as long as they live (WaysInOpen).
THEOREM WaysOpen == Spec => []WaysInOpen
<1>1. IInv /\ (Lasting /\ Ways) => WaysInOpen
  <2> SUFFICES ASSUME IInv, Lasting, Ways PROVE WaysInOpen
    OBVIOUS
  <2>1. ASSUME NEW g \in Games \ clashed, Alive(code[g]), start[g].pc \notin {"code", "game"}
        PROVE  join_game(g) = g /\ Opens(code[g].value, g)
    <3>1. start[g].pc \in {"alias", "waiting", "done"} /\ code[g].value = start[g].pin
      BY <2>1 DEF Ways, IInv, RunsTyped, Starting
    <3>2. Holds(code[g].value, g)
      BY <2>1, <3>1 DEF Ways
    <3> QED BY <2>1, <3>2 DEF Holds, join_game, get_game_id, Opens, check_if_captcha_enabled
  <2>2. ASSUME NEW u \in Users, get_game_in_lobby(u) # Nothing, get_game_in_lobby(u).game_id \notin clashed
        PROVE  Opens(get_game_in_lobby(u).game_pin, get_game_in_lobby(u).game_id)
    <3>1. Alive(waiting[u]) /\ get_game_in_lobby(u) = waiting[u].value
      BY <2>2 DEF get_game_in_lobby
    <3> QED BY <2>2, <3>1 DEF Ways, Holds, Opens, check_if_captcha_enabled, get_game_id
  <2> QED BY <2>1, <2>2 DEF WaysInOpen
<1> QED BY <1>1, IInvAlways, WaysAlways, PTL
=============================================================================
