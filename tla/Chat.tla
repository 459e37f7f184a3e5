-------------------------------- MODULE Chat --------------------------------
(***************************************************************************)
(* The conversation with the assistant: the web's AIChat component and     *)
(* useChat hook, which put the answer in a placeholder, and the mobile     *)
(* app's useChat, which streams it; the history AIChat loads from the      *)
(* backend's log of exchanges, page by page.                               *)
(***************************************************************************)
EXTENDS Naturals, Sequences, FiniteSets, SequencesExt

CONSTANTS
  ChatClients,  \* a subset of {"AIChat", "useChat", "mobile"}
  OldExchanges, \* bound on the exchanges in the log when the page opens
  PageLimit,    \* exchanges in a page of the history
  MaxSends,     \* bound on the messages sent
  MaxTokens,    \* bound on the tokens of a streamed answer
  MaxResets     \* bound on resets of the conversation and on remounts

ASSUME ChatConstants ==
  /\ ChatClients \subseteq {"AIChat", "useChat", "mobile"}
  /\ OldExchanges \in Nat /\ MaxSends \in Nat /\ MaxResets \in Nat
  /\ PageLimit \in Nat \ {0} /\ MaxTokens \in Nat \ {0}

VARIABLES
  client,     \* which of the three
  bubbles,    \* the messages on the screen
  sending,    \* isLoading
  calls,      \* the requests under way
  asked,      \* the number of the last message
  logged,     \* backend: how many exchanges its log holds
  unlogged,   \* backend: exchanges answered whose background task has not run
  query,      \* the history query: its state, its cached page
  older,      \* the "load older" request
  cursor,     \* nextCursor, 0 if none
  recent,     \* history: the most recent exchanges when the query was served
  fresh,      \* history: the first message of this conversation
  resets      \* history: resets and remounts so far

chatVars == <<client, bubbles, sending, calls, asked, logged, unlogged, query, older, cursor,
              recent, fresh, resets>>

\* Texts: 0 is empty, k the first k tokens of an answer, and one is the apology.
Whole   == MaxTokens
Apology == MaxTokens + 1

Bubble(by, n, text) == [by |-> by, of |-> n, text |-> text]
Welcome  == Bubble("assistant", 0, Whole)
Numbers  == 0 .. (OldExchanges + MaxSends)     \* of messages, and places in the log
NoPage   == [rows |-> <<>>, next |-> 0]

\* Whether the client shows an empty placeholder until the answer is there.
Placeholds == client # "mobile"

ChatTypeOK ==
  /\ client \in ChatClients
  /\ bubbles \in Seq([by : {"user", "assistant", "history"}, of : Numbers, text : 0 .. Apology])
  /\ sending \in BOOLEAN
  /\ calls \subseteq [of : Numbers, st : {"sent", "answered", "single", "aborted"}, got : 0 .. MaxTokens]
  /\ asked \in Numbers
  /\ logged \in Numbers /\ unlogged \in Numbers
  /\ query.st \in {"asked", "read", "done"} /\ query.page.rows \in Seq(Numbers)
  /\ older.st \in {"no", "asked", "read"} /\ older.page.rows \in Seq(Numbers)
  /\ cursor \in Numbers
  /\ resets \in 0 .. MaxResets

ChatInit ==
  /\ client \in ChatClients
  /\ bubbles = <<Welcome>>
  /\ sending = FALSE /\ calls = {} /\ asked = 0
  /\ logged \in 0 .. OldExchanges /\ unlogged = 0
  /\ query = [st |-> IF client = "AIChat" THEN "asked" ELSE "done", page |-> NoPage]
  /\ older = [st |-> "no", page |-> NoPage]
  /\ cursor = 0 /\ recent = {} /\ fresh = 1 /\ resets = 0

----------------------------------------------------------------------------
(* Sending. *)

\* Rejections of aborted requests run before the user's next event.
AtRest == \A c \in calls : c.st # "aborted"

Aborted == {[c EXCEPT !.st = "aborted"] : c \in calls}

\* Mutant of MaySend: the flag is not tested.
MaySendAlways == AtRest

\* sendMessage returns at once while a message is being sent.
MaySend == AtRest /\ ~sending

\* The user's bubble, the web's placeholder, the request; the hooks abort an earlier one.
Send ==
  /\ MaySend
  /\ asked < MaxSends
  /\ asked' = asked + 1
  /\ bubbles' = bubbles \o <<Bubble("user", asked', Whole)>>
                        \o IF Placeholds THEN <<Bubble("assistant", asked', 0)>> ELSE <<>>
  /\ calls' = (IF client = "AIChat" THEN calls ELSE Aborted)
                \cup {[of |-> asked', st |-> "sent", got |-> 0]}
  /\ sending' = TRUE
  /\ UNCHANGED <<client, logged, unlogged, query, older, cursor, recent, fresh, resets>>

\* The backend answers; its log is written by a background task.
HandleMessage(c) ==
  /\ c.st = "sent" /\ Placeholds
  /\ calls' = (calls \ {c}) \cup {[c EXCEPT !.st = "answered"]}
  /\ unlogged' = unlogged + 1
  /\ UNCHANGED <<client, bubbles, sending, asked, logged, query, older, cursor, recent, fresh, resets>>

\* Mutant of LogExchange: the task runs again and again.
LogExchangeAgain ==
  /\ unlogged > 0
  /\ logged' = logged + 1
  /\ UNCHANGED <<client, bubbles, sending, calls, asked, unlogged, query, older, cursor, recent, fresh, resets>>

LogExchange ==
  /\ unlogged > 0
  /\ unlogged' = unlogged - 1 /\ logged' = logged + 1
  /\ UNCHANGED <<client, bubbles, sending, calls, asked, query, older, cursor, recent, fresh, resets>>

\* The placeholder of message n gets its text.
Filled(n, text) ==
  [i \in DOMAIN bubbles |->
     IF bubbles[i].by = "assistant" /\ bubbles[i].of = n THEN [bubbles[i] EXCEPT !.text = text]
                                                         ELSE bubbles[i]]

\* Mutant of Ends: no finally, so an aborted request leaves the flag up.
EndsWithoutFinally(c, shown) ==
  /\ bubbles' = shown
  /\ calls' = calls \ {c} /\ sending' = (shown = bubbles /\ sending)
  /\ UNCHANGED <<client, asked, logged, unlogged, query, older, cursor, recent, fresh, resets>>

\* The request ends, with an answer or an error: try, catch, finally.
Ends(c, shown) ==
  /\ bubbles' = shown
  /\ calls' = calls \ {c} /\ sending' = FALSE
  /\ UNCHANGED <<client, asked, logged, unlogged, query, older, cursor, recent, fresh, resets>>

AnswerShown(c) == c.st = "answered" /\ Placeholds /\ Ends(c, Filled(c.of, Whole))

\* A status that is not 2xx, a network error, or AIChat's timeout of 30 seconds.
AnswerFails(c) == c.st \in {"sent", "answered"} /\ Placeholds /\ Ends(c, Filled(c.of, Apology))

\* An aborted request ends without a word, but its finally runs.
AbortSeen(c) == c.st = "aborted" /\ Ends(c, bubbles)

----------------------------------------------------------------------------
(* The mobile stream. The list is compared with a placeholder object that is  *)
(* never put in it, so each token appends a bubble.                           *)

Streaming(c) == client = "mobile" /\ c.st = "sent"

StreamToken(c) ==
  /\ Streaming(c) /\ c.got < MaxTokens
  /\ calls' = (calls \ {c}) \cup {[c EXCEPT !.got = @ + 1]}
  /\ bubbles' = Append(bubbles, Bubble("assistant", c.of, c.got + 1))
  /\ UNCHANGED <<client, sending, asked, logged, unlogged, query, older, cursor, recent, fresh, resets>>

\* The final text is appended unless the last bubble already says it.
Final(n, text) ==
  IF Last(bubbles).by = "assistant" /\ Last(bubbles).text = text THEN bubbles
  ELSE Append(bubbles, Bubble("assistant", n, text))

\* "done", or the end of the body; an empty answer shows nothing.
StreamDone(c) ==
  Streaming(c) /\ Ends(c, IF c.got = 0 THEN bubbles ELSE Final(c.of, c.got))

\* The stream breaks: an apology if it had begun, else one plain request.
StreamBreaks(c) ==
  /\ Streaming(c)
  /\ IF c.got > 0 THEN Ends(c, Append(bubbles, Bubble("assistant", c.of, Apology)))
     ELSE /\ calls' = (calls \ {c}) \cup {[c EXCEPT !.st = "single"]}
          /\ UNCHANGED <<client, bubbles, sending, asked, logged, unlogged, query, older, cursor,
                         recent, fresh, resets>>

SingleEnds(c) ==
  /\ c.st = "single"
  /\ \E text \in {Whole, Apology} :
       Ends(c, IF text = Whole THEN Final(c.of, Whole)
               ELSE Append(bubbles, Bubble("assistant", c.of, Apology)))

----------------------------------------------------------------------------
(* Starting over. *)

\* Mutant of ClearedCalls: the request goes on.
ClearedCallsLeft == calls

ClearedCalls == Aborted

\* reset() and clearMessages(): abort, and back to the welcome.
Reset ==
  /\ client # "AIChat" /\ AtRest /\ resets < MaxResets
  /\ resets' = resets + 1
  /\ bubbles' = <<Welcome>> /\ calls' = ClearedCalls
  /\ sending' = IF client = "useChat" THEN FALSE ELSE sending
  /\ fresh' = asked + 1
  /\ UNCHANGED <<client, asked, logged, unlogged, query, older, cursor, recent>>

\* AIChat is left and opened again: its answers are lost. The query's page never is stale,
\* but it may have been dropped from the cache meanwhile (gcTime), and is asked for again.
Remount ==
  /\ client = "AIChat" /\ resets < MaxResets
  /\ resets' = resets + 1
  /\ bubbles' = <<Welcome>> /\ calls' = {} /\ sending' = FALSE
  /\ unlogged' = unlogged + Cardinality({c \in calls : c.st = "sent"})
  /\ query' \in {[query EXCEPT !.st = st] : st \in IF query.st = "done" THEN {"read", "asked"} ELSE {query.st}}
  /\ older' = [st |-> "no", page |-> NoPage] /\ cursor' = 0
  /\ fresh' = asked + 1
  /\ UNCHANGED <<client, asked, logged, recent>>

----------------------------------------------------------------------------
(* AIChat's history. *)

\* Mutant of Before: the cursor is not applied.
BeforeAny(k) == logged

\* How many exchanges there are before cursor k.
Before(k) == IF k = 0 THEN logged ELSE k - 1

\* A page as the backend serves it: ascending and cut at the limit, with the
\* first of its rows as the cursor of the next page if it is full.
PageBefore(k) ==
  LET full == Before(k) >= PageLimit
  IN [rows |-> [i \in 1 .. IF full THEN PageLimit ELSE Before(k) |-> i], next |-> IF full THEN 1 ELSE 0]

Latest == {i \in 1 .. logged : i + PageLimit > logged}

\* A query that fails is as one that is not answered: it is asked again on the next visit.
HistoryRead ==
  /\ query.st = "asked"
  /\ query' = [st |-> "read", page |-> PageBefore(0)]
  /\ recent' = Latest
  /\ UNCHANGED <<client, bubbles, sending, calls, asked, logged, unlogged, older, cursor, fresh, resets>>

Shown(rows) == [i \in DOMAIN rows |-> Bubble("history", rows[i], Whole)]

\* The page is put before whatever has been said meanwhile.
HistoryShown ==
  /\ query.st = "read"
  /\ query' = [query EXCEPT !.st = "done"]
  /\ bubbles' = Shown(query.page.rows) \o bubbles
  /\ cursor' = query.page.next
  /\ UNCHANGED <<client, sending, calls, asked, logged, unlogged, older, recent, fresh, resets>>

LoadOlder ==
  /\ cursor # 0 /\ older.st = "no"
  /\ older' = [older EXCEPT !.st = "asked"]
  /\ UNCHANGED <<client, bubbles, sending, calls, asked, logged, unlogged, query, cursor, recent, fresh, resets>>

OlderRead ==
  /\ older.st = "asked"
  /\ older' = [st |-> "read", page |-> PageBefore(cursor)]
  /\ UNCHANGED <<client, bubbles, sending, calls, asked, logged, unlogged, query, cursor, recent, fresh, resets>>

\* It fails, as it does with every cursor on asyncpg, which takes no string for a
\* timestamp: the button is there again.
OlderFails ==
  /\ older.st = "asked"
  /\ older' = [older EXCEPT !.st = "no"]
  /\ UNCHANGED <<client, bubbles, sending, calls, asked, logged, unlogged, query, cursor, recent, fresh, resets>>

OlderShown ==
  /\ older.st = "read"
  /\ older' = [st |-> "no", page |-> NoPage]
  /\ bubbles' = Shown(older.page.rows) \o bubbles
  /\ cursor' = older.page.next
  /\ UNCHANGED <<client, sending, calls, asked, logged, unlogged, query, recent, fresh, resets>>

----------------------------------------------------------------------------
CallStep(c) ==
  \/ HandleMessage(c) \/ AnswerShown(c) \/ AnswerFails(c) \/ AbortSeen(c)
  \/ StreamToken(c) \/ StreamDone(c) \/ StreamBreaks(c) \/ SingleEnds(c)

ChatNext ==
  \/ Send \/ Reset \/ Remount
  \/ \E c \in calls : CallStep(c)
  \/ LogExchange
  \/ HistoryRead \/ HistoryShown \/ LoadOlder \/ OlderRead \/ OlderFails \/ OlderShown

\* Requests are answered or fail, streams end, and tasks run.
ChatFairness ==
  /\ WF_chatVars(\E c \in calls : CallStep(c))
  /\ WF_chatVars(LogExchange)

ChatSpec == ChatInit /\ [][ChatNext]_chatVars /\ ChatFairness

----------------------------------------------------------------------------
(* Properties. *)

\* A placeholder that still spins has a request that will fill it: no overlap
\* of sends, resets and aborted requests orphans one.
SpinnerIsAnswered ==
  Placeholds => \A b \in ToSet(bubbles) :
    b.by = "assistant" /\ b.text = 0 => \E c \in calls : c.of = b.of /\ c.st # "aborted"

\* After a reset nothing of the earlier conversation is shown: the answers of
\* its requests that are still under way do not land in the new one.
ClearedStaysCleared ==
  \A b \in ToSet(bubbles) : b.by # "history" /\ b.of # 0 => b.of >= fresh

\* The history's exchanges are shown once each, oldest first, whatever is
\* logged between the loading of its pages.
HistoryInOrder ==
  \A i, j \in DOMAIN bubbles :
    i < j /\ bubbles[i].by = "history" /\ bubbles[j].by = "history" => bubbles[i].of < bubbles[j].of

\* A chat answers what was asked, keeps cleared what was cleared, and shows its
\* history in the order of the log (AIChat, useChat, the mobile hook).
ChatInOrder == SpinnerIsAnswered /\ ClearedStaysCleared /\ HistoryInOrder

\* The user can always write again.
SendEnds == sending ~> ~sending

\* Without a cursor the history is the most recent exchanges.
HistoryIsRecent ==
  query.st = "read" /\ resets = 0 => recent \subseteq ToSet(query.page.rows)

============================================================================
