------------------------------- MODULE Modals -------------------------------
(***************************************************************************)
(* The keyboard and the modal windows of the dashboard: which handler gets *)
(* a key, what opens and closes, the chat with the AI about a log entry,   *)
(* and the quit keys the program loop looks at before the dashboard does.  *)
(*                                                                         *)
(* A key is handled by the first of: the filter or search input, the help  *)
(* window, the chat input, Escape's list of windows, the shortcuts, the    *)
(* keys of an open window, the navigation of the dashboard.  Keys that     *)
(* only scroll change nothing here; the log list is LogView's, the columns *)
(* are Columns'.                                                           *)
(***************************************************************************)
EXTENDS Loops, FiniteSets, SequencesExt

CONSTANTS
  MaxRequests,   \* bound: analyses and questions in flight
  MaxOpen,       \* bound: windows open at once
  MaxRetries,    \* waits for the release notes before giving up (5 in the code)
  AiConfigured,  \* an AI client is there
  ReleasesKnown  \* the release notes may arrive

ASSUME ModalsAssumption ==
  /\ {MaxRequests, MaxOpen} \subseteq Nat \ {0} /\ MaxRetries \in Nat
  /\ AiConfigured \in BOOLEAN /\ ReleasesKnown \in BOOLEAN

\* The show... flags of the dashboard.
Windows == {"help", "whatsnew", "patterns", "stats", "counts", "k8s",
            "severity", "columns", "viewer", "model", "detail"}

Sections == <<"words", "attributes", "distribution", "counts", "logs">>

VARIABLES
  open,          \* the windows whose flag is set
  typing,        \* "none", or the input that has the keys
  section,       \* activeSection; "filter" while an input is open
  filterSet,     \* a filter is applied or its input holds text
  searchSet,     \* a search term is applied or its input holds text
  hasEntry,      \* currentLogEntry is not nil
  pane,          \* modalActiveSection
  paneVisible,   \* chatPaneVisible
  chatActive,    \* the chat input has the keys
  analyzing,     \* aiAnalyzing
  requests,      \* analyses that are about to ask the AI, or have asked it
  asking,        \* chatAiAnalyzing
  questions,     \* the same for the questions of the chat
  newsCheck,     \* whatsNewRetries until whatsNewCheckDone
  cancelled,     \* the application's context
  quit           \* the program has been told to end

inputVars == <<typing, section, filterSet, searchSet>>
chatVars == <<pane, paneVisible, chatActive>>
questionVars == <<asking, questions>>
aiVars == <<hasEntry, analyzing, requests, questionVars>>
modalVars == <<open, inputVars, chatVars, aiVars, newsCheck, cancelled, quit>>

\* The release notes were shown, or never came.
Done == MaxRetries + 1
Requests == {"started", "sent"}
UnderWay(asked) == asked["started"] + asked["sent"]

ModalsInit ==
  /\ open = {} /\ typing = "none" /\ section = "words"
  /\ filterSet = FALSE /\ searchSet = FALSE /\ hasEntry = FALSE
  /\ pane = "info" /\ paneVisible = TRUE /\ chatActive = FALSE
  /\ analyzing = FALSE /\ requests = [r \in Requests |-> 0]
  /\ asking = FALSE /\ questions = [r \in Requests |-> 0]
  /\ newsCheck \in {0, Done}
  /\ cancelled = FALSE /\ quit = FALSE

-----------------------------------------------------------------------------
(* Who gets a key. *)

IsOpen(w) == w \in open
NoneOpen(ws) == open \intersect ws = {}

\* The handlers that come before every shortcut.
Focus ==
  CASE typing # "none" -> typing
    [] typing = "none" /\ IsOpen("help") -> "help"
    [] typing = "none" /\ ~IsOpen("help") /\ IsOpen("detail") /\ chatActive -> "chat"
    [] OTHER -> "shortcuts"

\* The open windows in the order in which they are asked for a key.
KeyOrder == <<"columns", "patterns", "whatsnew", "stats", "counts", "viewer",
              "model", "k8s", "severity", "detail">>

TakesKeys(w) == w = "viewer" => ~IsOpen("severity")

\* The window that gets a key no shortcut has taken.
KeyWindow ==
  LET takers == Picked(KeyOrder, {w \in open : TakesKeys(w)})
  IN  IF takers = <<>> THEN "dashboard" ELSE Head(takers)

\* The order in which Escape looks for something to close.
EscapeOrder == <<"whatsnew", "model", "patterns", "stats", "counts", "k8s",
                 "severity", "columns", "viewer", "detail">>

LeaveInput == section' = IF section = "filter" THEN "words" ELSE section

-----------------------------------------------------------------------------
(* The filter and search inputs, the help window, the chat input. *)

ClearInput(input) ==
  /\ filterSet' = IF input = "filter" THEN FALSE ELSE filterSet
  /\ searchSet' = IF input = "search" THEN FALSE ELSE searchSet

InputKey(k) ==
  /\ Focus = typing
  /\ \/ k = "esc" /\ typing' = "none" /\ ClearInput(typing) /\ LeaveInput
     \/ k = "enter" /\ typing' = "none" /\ section' = "logs"
        /\ UNCHANGED <<filterSet, searchSet>>
     \/ k \notin {"esc", "enter", "ctrl+c"}
        /\ \/ typing = "filter" /\ filterSet' \in BOOLEAN /\ UNCHANGED searchSet
           \/ typing = "search" /\ searchSet' \in BOOLEAN /\ UNCHANGED filterSet
        /\ UNCHANGED <<typing, section>>
  /\ UNCHANGED <<open, chatVars, aiVars, newsCheck, quit>>

\* The help window scrolls with every other key, Ctrl-C included.
HelpKey(k) ==
  /\ Focus = "help"
  /\ open' = IF k \in {"esc", "?"} THEN open \ {"help"} ELSE open
  /\ UNCHANGED <<inputVars, chatVars, aiVars, newsCheck, quit>>

\* There is room for one more request to the AI.
MayAskAI == UnderWay(requests) + UnderWay(questions) < MaxRequests

\* Enter in the chat asks the AI what was typed, about the entry of the
\* moment the command runs in; it does not wait for earlier questions.
AskQuestion ==
  /\ hasEntry /\ AiConfigured /\ MayAskAI
  /\ questions' = [questions EXCEPT !["started"] = @ + 1]
  /\ asking' = TRUE

\* Enter on an empty line does nothing.
ChatKey(k) ==
  /\ Focus = "chat"
  /\ \/ k = "tab" /\ chatActive' = FALSE /\ pane' = "info" /\ UNCHANGED <<paneVisible, questionVars>>
     \/ k = "esc" /\ chatActive' = FALSE /\ UNCHANGED <<pane, paneVisible, questionVars>>
     \/ k = "enter" /\ AskQuestion /\ UNCHANGED chatVars
     \/ k \notin {"tab", "esc", "ctrl+c"} /\ UNCHANGED <<chatVars, questionVars>>
  /\ UNCHANGED <<open, inputVars, hasEntry, analyzing, requests, newsCheck, quit>>

-----------------------------------------------------------------------------
(* Escape outside the inputs, and the shortcuts. *)

\* Mutant: the viewer is missing from Escape's list.
EscapeWithoutViewer == Picked(EscapeOrder, open \ {"viewer"})

Closable == Picked(EscapeOrder, open)

EscapeKey(k) ==
  /\ Focus = "shortcuts" /\ k = "esc"
  /\ \/ Closable # <<>> /\ open' = open \ {Head(Closable)} /\ UNCHANGED inputVars
     \/ Closable = <<>> /\ (filterSet \/ searchSet)
        /\ filterSet' = FALSE /\ searchSet' = FALSE /\ LeaveInput
        /\ UNCHANGED <<open, typing>>
  /\ UNCHANGED <<chatVars, aiVars, newsCheck, quit>>

\* Ctrl-C ends the program everywhere but in the help window; q is text in
\* the inputs.
QuitKey(k) ==
  /\ \/ k = "ctrl+c" /\ Focus # "help"
     \/ k = "q" /\ Focus = "shortcuts"
  /\ quit' = TRUE
  /\ UNCHANGED <<open, inputVars, chatVars, aiVars, newsCheck>>

\* The windows a shortcut is not taken in; "?" is taken in all.
Blockers(k) ==
  CASE k = "?" -> {}
    [] k \in {"/", "s", "u"} -> {"detail", "severity"}
    [] k = "i" -> {"detail", "help", "patterns", "model", "severity"}
    [] k = "f" -> {"detail", "help", "patterns", "model", "stats", "counts", "severity"}
    [] k = "m" -> {"detail", "help", "patterns", "stats", "severity"}
    [] k = "ctrl+f" -> {"detail", "help", "patterns", "model", "stats", "counts",
                        "k8s", "columns"}
    [] k = "ctrl+k" -> {"detail", "help", "patterns", "model", "stats", "counts",
                        "severity", "columns"}
    [] k = "w" -> {"detail", "whatsnew", "severity", "k8s", "columns", "help",
                   "patterns", "stats", "counts"}
    [] k = "C" -> {"detail", "severity", "k8s", "columns"}
    [] OTHER -> Windows

Taken(k) ==
  /\ Focus = "shortcuts" /\ NoneOpen(Blockers(k))
  /\ k \in {"?", "/", "s", "u", "i", "f", "m", "ctrl+f", "ctrl+k", "w", "C"}
  /\ k = "m" => AiConfigured
  /\ k = "C" => section = "logs" \/ IsOpen("viewer")

\* What a shortcut does to the windows: ?, i and f toggle.  C needs a
\* selected entry, so it may do nothing; u shows the new interval.
Toggle(w) == open' = (open \ {w}) \union ({w} \ open)

ShortcutKey(k) ==
  /\ Taken(k)
  /\ \/ k = "?" /\ Toggle("help") /\ UNCHANGED inputVars
     \/ k = "i" /\ Toggle("stats") /\ UNCHANGED inputVars
     \/ k = "f" /\ Toggle("viewer") /\ UNCHANGED inputVars
     \/ k = "m" /\ open' = open \union {"model"} /\ UNCHANGED inputVars
     \/ k = "u" /\ open' = open \union {"detail"} /\ UNCHANGED inputVars
     \/ k = "ctrl+f" /\ open' = open \union {"severity"} /\ UNCHANGED inputVars
     \/ k = "ctrl+k" /\ open' = open \union {"k8s"} /\ UNCHANGED inputVars
     \/ k = "w" /\ open' = open \union {"whatsnew"} /\ UNCHANGED inputVars
     \/ k = "C" /\ open' = open \union {"columns"} /\ UNCHANGED inputVars
     \/ k = "/" /\ typing' = "filter" /\ section' = "filter" /\ UNCHANGED <<open, filterSet, searchSet>>
     \/ k = "s" /\ typing' = "search" /\ section' = "filter" /\ UNCHANGED <<open, filterSet, searchSet>>
  /\ UNCHANGED <<chatVars, aiVars, newsCheck, quit>>

-----------------------------------------------------------------------------
(* Keys of the open windows. *)

WindowKey(w, k) == Focus = "shortcuts" /\ ~Taken(k) /\ KeyWindow = w

\* Enter confirms what the window changed and closes it.
CloseKey(k) ==
  /\ k = "enter"
  /\ \E w \in {"columns", "k8s", "severity"} : WindowKey(w, k) /\ open' = open \ {w}
  /\ UNCHANGED <<inputVars, chatVars, aiVars, newsCheck, quit>>

\* The AI's model is chosen in a window that closes with the choice.
ChooseModelKey(k) ==
  /\ k = "enter" /\ WindowKey("model", k) /\ open' = open \ {"model"}
  /\ UNCHANGED <<inputVars, chatVars, aiVars, newsCheck, quit>>

\* Patterns, release notes, statistics and counts scroll; w and i close their
\* windows, where the shortcut did not get the key.
ReadingKey(k) ==
  /\ \/ k = "w" /\ WindowKey("whatsnew", k) /\ open' = open \ {"whatsnew"}
     \/ k = "i" /\ WindowKey("stats", k) /\ open' = open \ {"stats"}
  /\ UNCHANGED <<inputVars, chatVars, aiVars, newsCheck, quit>>

\* The viewer reaches its own "/", "s" and "f" when the shortcut was blocked.
ViewerKey(k) ==
  /\ k \in {"enter", "/", "s", "f"} /\ WindowKey("viewer", k)
  /\ \/ k = "enter" /\ open' = (open \ {"viewer"}) \union {"detail"}
        /\ hasEntry' = TRUE /\ pane' = "info" /\ UNCHANGED inputVars
     \/ k \in {"/", "s"} /\ open' = open \ {"viewer"} /\ section' = "filter"
        /\ typing' = (IF k = "/" THEN "filter" ELSE "search")
        /\ UNCHANGED <<filterSet, searchSet, hasEntry, pane>>
     \/ k = "f" /\ open' = open \ {"viewer"}
        /\ UNCHANGED <<inputVars, hasEntry, pane>>
  /\ UNCHANGED <<paneVisible, chatActive, analyzing, requests, questionVars, newsCheck, quit>>

\* Moving to the chat pane enters the chat if there is an AI.
EnterChat == pane' = "chat" /\ chatActive' = (IF AiConfigured THEN hasEntry ELSE chatActive)

LeaveChat == pane' = "info" /\ chatActive' = FALSE

\* A command that will ask the AI about the entry of that moment.
StartRequest ==
  /\ MayAskAI
  /\ requests' = [requests EXCEPT !["started"] = @ + 1]
  /\ analyzing' = TRUE /\ UNCHANGED <<open, chatVars>>

Analyze == hasEntry /\ AiConfigured /\ ~analyzing /\ StartRequest

\* The window of a log entry.  Without an entry (the new interval, an
\* attribute's values) the same window has no panes and these keys do nothing.
DetailKey(k) ==
  /\ k \in {"x", "tab", "i", "m"} /\ hasEntry /\ WindowKey("detail", k)
  /\ \/ k = "x" /\ paneVisible' = ~paneVisible
        /\ (IF paneVisible /\ pane = "chat" THEN LeaveChat
            ELSE UNCHANGED <<pane, chatActive>>)
        /\ UNCHANGED <<open, analyzing, requests>>
     \/ k = "tab" /\ paneVisible /\ (IF pane = "info" THEN EnterChat ELSE LeaveChat)
        /\ UNCHANGED <<open, paneVisible, analyzing, requests>>
     \/ k = "i" /\ (~chatActive \/ pane = "info") /\ Analyze
     \/ k = "m" /\ ~chatActive /\ AiConfigured /\ open' = open \union {"model"}
        /\ UNCHANGED <<chatVars, analyzing, requests>>
  /\ UNCHANGED <<inputVars, hasEntry, questionVars, newsCheck, quit>>

NextSection(s, step) ==
  IF s = "filter" THEN (IF step = 1 THEN "words" ELSE "logs")
  ELSE LET i == CHOOSE j \in 1..5 : Sections[j] = s
       IN  Sections[((i - 1 + step + 5) % 5) + 1]

ShowWindow ==
  \/ section = "logs" /\ open' = open \union {"detail"} /\ hasEntry' = TRUE
  \/ section = "attributes" /\ open' = open \union {"detail"} /\ hasEntry' = FALSE
  \/ section = "distribution" /\ open' = open \union {"patterns"} /\ hasEntry' = FALSE
  \/ section = "counts" /\ open' = open \union {"counts"} /\ hasEntry' = FALSE

\* Enter on a panel: details of an entry or of an attribute, a window, or
\* the search for a word, which a second Enter takes back.  An entry's window
\* starts with an empty chat, whatever has been asked.
ShowDetails ==
  \/ section = "words" /\ searchSet' \in BOOLEAN /\ UNCHANGED <<open, hasEntry>>
  \/ section # "words" /\ ShowWindow /\ UNCHANGED searchSet

DashboardKey(k) ==
  /\ k \in {"tab", "shift+tab", "enter"} /\ WindowKey("dashboard", k)
  /\ \/ k = "tab" /\ section' = NextSection(section, 1)
        /\ UNCHANGED <<open, hasEntry, searchSet>>
     \/ k = "shift+tab" /\ section' = NextSection(section, 4)
        /\ UNCHANGED <<open, hasEntry, searchSet>>
     \/ k = "enter" /\ ShowDetails /\ UNCHANGED section
  /\ asking' = (asking /\ ~(k = "enter" /\ section = "logs"))
  /\ UNCHANGED <<typing, filterSet, pane, paneVisible, chatActive, analyzing,
                 requests, questions, newsCheck, quit>>

Keys == {"esc", "enter", "tab", "shift+tab", "ctrl+c", "q", "?", "/", "s", "u",
         "i", "f", "m", "ctrl+f", "ctrl+k", "w", "C", "x"}

\* The program loop cancels the context on a quit key, whoever gets it.
HandleQuitKey(k) == cancelled' = (cancelled \/ k \in {"q", "ctrl+c"})

WithinBound == open' \subseteq open \/ Cardinality(open') <= MaxOpen

\* Mutant: the window shortcuts are looked at before the inputs.
ShortcutsFirst(k) ==
  \/ InputKey(k) \/ HelpKey(k) \/ ChatKey(k) \/ EscapeKey(k) \/ QuitKey(k)
  \/ ShortcutKey(k) \/ CloseKey(k) \/ ChooseModelKey(k) \/ ReadingKey(k)
  \/ ViewerKey(k) \/ DetailKey(k) \/ DashboardKey(k)
  \/ k = "?" /\ Toggle("help") /\ UNCHANGED <<inputVars, chatVars, aiVars, newsCheck, quit>>

Dispatch(k) ==
  \/ InputKey(k) \/ HelpKey(k) \/ ChatKey(k) \/ EscapeKey(k) \/ QuitKey(k)
  \/ ShortcutKey(k) \/ CloseKey(k) \/ ChooseModelKey(k) \/ ReadingKey(k)
  \/ ViewerKey(k) \/ DetailKey(k) \/ DashboardKey(k)

Key(k) == ~quit /\ HandleQuitKey(k) /\ Dispatch(k) /\ WithinBound

-----------------------------------------------------------------------------
(* The mouse, the AI's answers, the tick. *)

\* A click asks the windows in an order of its own: the detail window first.
ClickPane(p) ==
  /\ ~quit /\ IsOpen("detail") /\ hasEntry /\ paneVisible /\ pane # p
  /\ IF p = "chat" THEN EnterChat ELSE LeaveChat
  /\ UNCHANGED <<open, inputVars, paneVisible, aiVars,
                 newsCheck, cancelled, quit>>

ClickSection(s) ==
  /\ ~quit /\ typing = "none"
  /\ NoneOpen({"detail", "model", "help", "patterns", "stats", "counts", "viewer"})
  /\ section' = s
  /\ UNCHANGED <<open, typing, filterSet, searchSet, chatVars, aiVars, newsCheck,
                 cancelled, quit>>

\* The command reads the entry when it runs: the program panics if it is gone.
Sent(asked) == [asked EXCEPT !["started"] = @ - 1, !["sent"] = @ + 1]

RequestRuns ==
  /\ ~quit
  /\ \/ requests["started"] > 0 /\ requests' = Sent(requests) /\ UNCHANGED questions
     \/ questions["started"] > 0 /\ questions' = Sent(questions) /\ UNCHANGED requests
  /\ quit' = ~hasEntry
  /\ UNCHANGED <<open, inputVars, chatVars, hasEntry, analyzing, asking, newsCheck, cancelled>>

\* An answer takes its own kind's flag down, the first of two answers too.
Answered(asked) == [asked EXCEPT !["sent"] = @ - 1]

\* Mutant: an answer of the chat is taken for the analysis.
ChatAnswerAsAnalysis ==
  /\ questions["sent"] > 0 /\ questions' = Answered(questions) /\ analyzing' = FALSE
  /\ UNCHANGED <<requests, asking>>

ChatAnswers ==
  /\ questions["sent"] > 0 /\ questions' = Answered(questions) /\ asking' = FALSE
  /\ UNCHANGED <<requests, analyzing>>

AnalysisAnswers ==
  /\ requests["sent"] > 0 /\ requests' = Answered(requests) /\ analyzing' = FALSE
  /\ UNCHANGED questionVars

AnswerArrives ==
  /\ ~quit
  /\ ChatAnswers \/ AnalysisAnswers
  /\ UNCHANGED <<open, inputVars, chatVars, hasEntry, newsCheck, cancelled, quit>>

\* Each tick looks for release notes the user has not seen, a few times.  The
\* list that arrives may be empty.
CheckNews ==
  /\ ~quit /\ newsCheck # Done
  /\ \/ ReleasesKnown /\ newsCheck' = Done /\ open' \in {open, open \union {"whatsnew"}}
     \/ newsCheck' = newsCheck + 1 /\ UNCHANGED open
  /\ UNCHANGED <<inputVars, chatVars, aiVars, cancelled, quit>>

ModalsNext ==
  \/ \E k \in Keys : Key(k)
  \/ \E p \in {"info", "chat"} : ClickPane(p)
  \/ \E s \in ToSet(Sections) : ClickSection(s)
  \/ RequestRuns \/ AnswerArrives \/ CheckNews

ModalsSpec == ModalsInit /\ [][ModalsNext]_modalVars

-----------------------------------------------------------------------------
(* Properties. *)

\* What Escape has to take back: windows, an input, the chat, filters.
Layers ==
  LET one(b) == IF b THEN 1 ELSE 0
  IN  Cardinality(open) + one(typing # "none") + one(chatActive)
      + one(filterSet) + one(searchSet)

\* No window, input or filter is a trap: whatever lies on top of what, and
\* whoever gets the key, Escape takes one of them back.  (The key goes through
\* four handlers with lists of their own, navigation.go.)
EscMakesProgress ==
  ~quit /\ Layers > 0 => ENABLED (Key("esc") /\ Layers' < Layers)

\* Its two halves without ENABLED.  Somebody has the key and something to do
\* with it, whatever is open, in whatever order it was opened:
EscIsTaken == Layers > 0 => Focus # "shortcuts" \/ Closable # <<>> \/ filterSet \/ searchSet

\* and whoever takes it leaves less to take back than there was.
EscTakesBack == [][Key("esc") => Layers' < Layers]_modalVars

\* What is typed into the filter, the search or the chat stays text: it moves
\* no window, section or pane, starts no analysis and does not end the program.
TextIsOnlyText ==
  [][(Focus \in {"filter", "search", "chat"}) =>
        \/ UNCHANGED <<open, typing, section, chatVars, aiVars, quit>>
        \/ \A k \in Keys \ {"esc", "enter", "tab", "ctrl+c"} : ~Key(k)]_modalVars

\* The dashboard waits for an analysis exactly while one is under way: it
\* never asks for a second one, and no other answer takes the flag down.  The
\* chat has a flag of its own (model.go:195) and does ask again while it
\* waits; the first answer ends the waiting, so its flag only promises that a
\* question is under way: it is never left up with nothing to take it down.
OneAnalysisAtATime ==
  /\ UnderWay(requests) = (IF analyzing THEN 1 ELSE 0)
  /\ asking => UnderWay(questions) > 0

\* app.go leaves it to the dashboard whether a quit key quits: the input and
\* everything else that lives by the context go on until the program ends.
InputLivesUntilQuit == cancelled => quit
=============================================================================
