------------------------------- MODULE LogView -------------------------------
(***************************************************************************)
(* The log list of the dashboard: the buffer of the latest entries, the    *)
(* view that the regex, severity and Kubernetes filters leave of it, the   *)
(* selected line, pausing, and what the pattern miner (Drain3) was fed.    *)
(*                                                                         *)
(* Entries are numbered in the order of their arrival.  The filter windows *)
(* work on the live filters and keep a copy for Escape; the Kubernetes     *)
(* source is absent, so pods are found in and hidden from the buffer.      *)
(***************************************************************************)
EXTENDS Integers, Sequences, FiniteSets, SequencesExt, Loops

CONSTANTS
  MaxLogBuffer,  \* maxLogBuffer
  MaxArrivals,   \* bound: entries that arrive
  Page,          \* lines of a page key (10 in the code)
  Severities,
  SeverityOf,    \* the normalized severity of each entry
  Matching,      \* the entries the regex of the filter input matches
  NamespaceOf,   \* the namespace of each entry, or NoName
  PodOf,         \* its pod (its name within the namespace, if there is one), or NoName
  NoName

ASSUME LogViewAssumption ==
  /\ MaxLogBuffer \in Nat \ {0} /\ MaxArrivals \in Nat /\ Page \in Nat \ {0}
  /\ SeverityOf \in [1..MaxArrivals -> Severities]
  /\ Matching \subseteq 1..MaxArrivals /\ DOMAIN PodOf = 1..MaxArrivals
  /\ DOMAIN NamespaceOf = 1..MaxArrivals

VARIABLES
  arrived,       \* statsTotalLogsEver
  buffer,        \* allLogEntries
  view,          \* logEntries
  regex,         \* filterRegex is set
  severities,    \* severityFilter: the enabled ones
  namespaces,    \* k8sNamespaces: those known to the window, and whether they are enabled
  pods,          \* k8sPods, likewise
  podFilter,     \* k8sFilterActive
  window,        \* "none", "severity" or "k8s"
  kept,          \* the filters when the window was opened
  podsStale,     \* history: a change of the pods was cancelled behind the view
  viewer,        \* showLogViewerModal
  selected,      \* selectedLogIndex
  autoScroll,    \* logAutoScroll
  paused,        \* viewPaused
  processed,     \* drain3LastProcessed
  mined,         \* how often each entry was mined since the last reset
  resets         \* resets of the patterns under way; the last one's arrivals

kubeVars == <<namespaces, pods>>
filterVars == <<regex, severities, kubeVars, podFilter, window, kept>>
minerVars == <<processed, mined, resets>>
logVars == <<arrived, buffer, view, filterVars, podsStale, viewer, selected,
             autoScroll, paused, minerVars>>

Entries == 1..MaxArrivals
NoFilters == [severities |-> Severities, namespaces |-> <<>>, pods |-> <<>>]

LogViewInit ==
  /\ arrived = 0 /\ buffer = <<>> /\ view = <<>>
  /\ regex = FALSE /\ severities = Severities /\ podFilter = FALSE
  /\ namespaces = <<>> /\ pods = <<>>
  /\ window = "none" /\ kept = NoFilters /\ podsStale = FALSE
  /\ viewer = FALSE /\ selected = 0 /\ autoScroll = TRUE /\ paused = FALSE
  /\ processed = 0 /\ mined = [e \in Entries |-> 0]
  /\ resets = [pending |-> 0, at |-> 0]

AtLeast0(i) == IF i < 0 THEN 0 ELSE i
AtMost(m, i) == IF i > m THEN m ELSE i

-----------------------------------------------------------------------------
(* The view. *)

Enabled(items, name) == name \in DOMAIN items /\ items[name]

\* An entry with a pod and no namespace never passes.
PassesKube(e, spaces, known) ==
  \/ NamespaceOf[e] = NoName /\ PodOf[e] = NoName
  \/ Enabled(spaces, NamespaceOf[e]) /\ (PodOf[e] = NoName \/ Enabled(known, PodOf[e]))

\* All severities enabled means no severity filter (severityFilterActive).
Shows(e, match, levels, spaces, known, byPod) ==
  /\ match => e \in Matching
  /\ SeverityOf[e] \in levels
  /\ byPod => PassesKube(e, spaces, known)

Filtered(all, match, levels, spaces, known, byPod) ==
  Picked(all, {e \in Entries : Shows(e, match, levels, spaces, known, byPod)})

\* Mutant: the selection is kept although the view has become shorter.
KeepSelection(lines) == IF autoScroll THEN AtLeast0(Len(lines) - 1) ELSE selected

Reselect(lines) ==
  IF autoScroll \/ selected >= Len(lines) THEN AtLeast0(Len(lines) - 1) ELSE selected

\* updateFilteredView, with the filters and the buffer of the next state.
UpdateFilteredView ==
  /\ view' = Filtered(buffer', regex', severities', namespaces', pods', podFilter')
  /\ selected' = Reselect(view')
  /\ podsStale' = FALSE

LeaveView == UNCHANGED <<view, selected, podsStale>>

-----------------------------------------------------------------------------
(* Entries arrive, pausing, resetting the patterns. *)

Mine(counts, es) == [e \in Entries |-> counts[e] + (IF e \in es THEN 1 ELSE 0)]

\* Mutant: the mark stays where it is when the buffer drops its first entry.
MarkStays(evicted) == processed

MarkAfter(evicted) == IF evicted /\ processed > 0 THEN processed - 1 ELSE processed

Append1 ==
  LET longer == Append(buffer, arrived') IN
  buffer' = IF Len(longer) > MaxLogBuffer THEN Tail(longer) ELSE longer

AddLogEntry ==
  /\ arrived < MaxArrivals /\ arrived' = arrived + 1
  /\ Append1
  /\ UNCHANGED <<filterVars, viewer, autoScroll, paused, resets>>
  /\ IF paused
     THEN /\ processed' = MarkAfter(Len(buffer) = MaxLogBuffer)
          /\ LeaveView /\ UNCHANGED mined
     ELSE /\ processed' = Len(buffer') /\ mined' = Mine(mined, {arrived'})
          /\ UpdateFilteredView

Resume ==
  /\ paused' = FALSE
  /\ mined' = Mine(mined, {buffer[i] : i \in (processed + 1)..Len(buffer)})
  /\ processed' = Len(buffer)

SpaceKey ==
  /\ window = "none"
  /\ UNCHANGED <<arrived, buffer, filterVars, viewer, autoScroll, resets>>
  /\ \/ ~paused /\ paused' = TRUE /\ LeaveView /\ UNCHANGED <<mined, processed>>
     \/ paused /\ Resume /\ UpdateFilteredView

\* r moves the mark at once; the application answers with a reset.  It sends
\* one of its own as well (the interval that clears the frequencies).
ResetKey ==
  /\ window # "severity" /\ resets.pending = 0
  /\ processed' = 0 /\ resets' = [resets EXCEPT !.pending = 1]
  /\ LeaveView
  /\ UNCHANGED <<arrived, buffer, filterVars, viewer, autoScroll, paused, mined>>

ResetDrain3 ==
  /\ \E answers \in {0, resets.pending} : resets' = [pending |-> resets.pending - answers,
                                                    at |-> arrived]
  /\ processed' = 0 /\ mined' = [e \in Entries |-> 0]
  /\ LeaveView
  /\ UNCHANGED <<arrived, buffer, filterVars, viewer, autoScroll, paused>>

-----------------------------------------------------------------------------
(* The filters. *)

\* Typing into the filter, Enter and Escape in it: only a changed regex
\* renews the view at once.  The viewer and the Kubernetes window let "/" pass.
FilterInput ==
  /\ window # "severity"
  /\ regex' \in BOOLEAN
  /\ UNCHANGED <<arrived, buffer, severities, kubeVars, podFilter, window, kept, viewer,
                 autoScroll, paused, minerVars>>
  /\ UpdateFilteredView

\* What the window knows and what is found in the buffer now; new names are
\* enabled.  Pods are looked for in the enabled namespaces only.
WithFound(items, found) ==
  [n \in DOMAIN items \union found |-> IF n \in DOMAIN items THEN items[n] ELSE TRUE]

FoundNamespaces == {NamespaceOf[e] : e \in ToSet(buffer)} \ {NoName}
FoundPods(spaces) ==
  {PodOf[e] : e \in {e \in ToSet(buffer) :
     NamespaceOf[e] = NoName \/ Enabled(spaces, NamespaceOf[e])}} \ {NoName}

FindPods == pods' = WithFound(pods, FoundPods(namespaces'))

OpenWindow(w) ==
  /\ window = "none" /\ window' = w
  /\ IF w = "k8s" THEN namespaces' = WithFound(namespaces, FoundNamespaces) /\ FindPods
     ELSE UNCHANGED kubeVars
  /\ kept' = [severities |-> severities, namespaces |-> namespaces', pods |-> pods']
  /\ LeaveView
  /\ UNCHANGED <<arrived, buffer, regex, severities, podFilter, viewer, autoScroll,
                 paused, minerVars>>

\* Space on a line of the window: one item, or all of them.  The log viewer
\* under the Kubernetes window keeps the keys to itself.
Toggle1(f, p) == [f EXCEPT ![p] = ~@]
ToggleAll(f) == [p \in DOMAIN f |-> FALSE \in Range(f)]
Toggled(f) == {ToggleAll(f)} \union {Toggle1(f, p) : p \in DOMAIN f}

ToggleItem ==
  /\ \/ /\ window = "severity"
        /\ \E s \in Severities :
             severities' \in {Severities, {}, (severities \ {s}) \union ({s} \ severities)}
        /\ UNCHANGED <<kubeVars, podFilter>>
     \/ /\ window = "k8s" /\ ~viewer
        /\ \/ namespaces' \in Toggled(namespaces) /\ FindPods
           \/ pods' \in Toggled(pods) /\ UNCHANGED namespaces
        /\ podFilter' = TRUE /\ UNCHANGED severities
  /\ LeaveView
  /\ UNCHANGED <<arrived, buffer, regex, window, kept, viewer, autoScroll, paused, minerVars>>

\* Tab from the namespaces to the pods.
ShowPods ==
  /\ window = "k8s" /\ ~viewer
  /\ UNCHANGED namespaces /\ FindPods
  /\ LeaveView
  /\ UNCHANGED <<arrived, buffer, regex, severities, podFilter, window, kept, viewer,
                 autoScroll, paused, minerVars>>

\* Mutant: the window closes without renewing the view.
ApplyLater ==
  /\ window # "none" /\ window' = "none" /\ kept' = NoFilters
  /\ LeaveView
  /\ UNCHANGED <<arrived, buffer, regex, severities, kubeVars, podFilter, viewer, autoScroll, paused,
                 minerVars>>

ApplyFilter ==
  /\ window # "none" /\ window' = "none" /\ kept' = NoFilters
  /\ \/ window = "severity" /\ severities' \in {severities, Severities, {}}
        /\ UNCHANGED podFilter
     \/ window = "k8s" /\ ~viewer /\ podFilter' = TRUE /\ UNCHANGED severities
  /\ UNCHANGED <<arrived, buffer, regex, kubeVars, viewer, autoScroll, paused, minerVars>>
  /\ UpdateFilteredView

\* Escape.  The Kubernetes window leaves the view, and k8sFilterActive.
CancelFilter ==
  /\ window # "none" /\ window' = "none" /\ kept' = NoFilters
  /\ severities' = (IF window = "severity" THEN kept.severities ELSE severities)
  /\ IF window = "k8s" THEN namespaces' = kept.namespaces @@ namespaces /\ pods' = kept.pods @@ pods
     ELSE UNCHANGED kubeVars
  /\ UNCHANGED <<arrived, buffer, regex, podFilter, viewer, autoScroll, paused, minerVars>>
  /\ IF window = "severity" THEN UpdateFilteredView
     ELSE podsStale' = TRUE /\ UNCHANGED <<view, selected>>

-----------------------------------------------------------------------------
(* The selected line. *)

PageDown ==
  LET last == Len(view) - 1
      to == AtMost(last, selected + Page)
  IN  [line |-> to, follow |-> autoScroll \/ to = last]

\* A line up or down, by key or wheel: at the top following stops, at the
\* bottom it resumes.
MoveSelection(delta) ==
  LET last == Len(view) - 1
      to == AtLeast0(AtMost(last, selected + delta))
  IN  [line |-> to, follow |-> IF to = 0 THEN FALSE ELSE autoScroll \/ to = last]

WheelMoves == {MoveSelection(-1), MoveSelection(1)}

ListMoves ==
  LET last == Len(view) - 1
      up == AtLeast0(selected - Page)
  IN  WheelMoves \union
      {PageDown, [line |-> 0, follow |-> FALSE], [line |-> last, follow |-> TRUE],
       [line |-> up, follow |-> autoScroll /\ up # 0]}

\* A filter window keeps the keys, not the wheel.
MoveInList ==
  /\ ~viewer /\ view # <<>>
  /\ \E m \in (IF window = "none" THEN ListMoves ELSE WheelMoves) :
       selected' = m.line /\ autoScroll' = m.follow
  /\ UNCHANGED <<arrived, buffer, view, filterVars, podsStale, viewer, paused, minerVars>>

\* The log viewer moves the same selection and does not touch the following.
\* Its page down goes to line -1 of an empty list.  The severity window keeps
\* the keys.
ViewerWheel == {i \in {selected - 1, selected + 1} : 0 <= i /\ i < Len(view)}

ViewerMoves ==
  LET last == Len(view) - 1 IN
  {0, AtLeast0(selected - Page), AtMost(last, selected + Page)} \union ViewerWheel
    \union (IF view = <<>> THEN {} ELSE {last})

MoveInViewer ==
  /\ viewer /\ selected' \in (IF window = "severity" THEN ViewerWheel ELSE ViewerMoves)
  /\ UNCHANGED <<arrived, buffer, view, filterVars, podsStale, viewer, autoScroll,
                 paused, minerVars>>

\* f, Escape and Enter: opening selects the latest line.
ToggleViewer ==
  /\ window # "severity" /\ viewer' = ~viewer
  /\ selected' = IF viewer THEN selected ELSE AtLeast0(Len(view) - 1)
  /\ UNCHANGED <<arrived, buffer, view, filterVars, podsStale, autoScroll, paused, minerVars>>

LogViewNext ==
  \/ AddLogEntry \/ SpaceKey \/ ResetKey \/ ResetDrain3
  \/ FilterInput \/ (\E w \in {"severity", "k8s"} : OpenWindow(w))
  \/ ToggleItem \/ ShowPods \/ ApplyFilter \/ CancelFilter
  \/ MoveInList \/ MoveInViewer \/ ToggleViewer

LogViewSpec == LogViewInit /\ [][LogViewNext]_logVars

-----------------------------------------------------------------------------
(* Properties. *)

\* Unless the view is paused, a filter window is open with changes nobody has
\* confirmed, or a change of the pods was just cancelled, the list shows
\* exactly the buffered entries that pass the filters, in order.
ViewIsFiltered ==
  ~paused /\ window = "none" /\ ~podsStale =>
    view = Filtered(buffer, regex, severities, namespaces, pods, podFilter)

\* Whatever shortens the list, the selected line never lies behind its end:
\* details, columns and analyses are asked for the line on the screen.
SelectionNotPastEnd == selected < Len(view) \/ selected <= 0

\* The patterns count every entry once.  No pause, eviction or reset in
\* between makes the miner see an entry twice since the last reset, and while
\* the view runs it has seen all that arrived since and is still buffered.
PatternsCountOnce ==
  resets.pending = 0 =>
    /\ \A e \in Entries : mined[e] <= 1
    /\ ~paused => \A e \in ToSet(buffer) : e > resets.at => mined[e] = 1
=============================================================================
