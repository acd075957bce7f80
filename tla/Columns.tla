------------------------------- MODULE Columns -------------------------------
(***************************************************************************)
(* The columns of the log list and the window that configures them: c      *)
(* swaps Host/Service and Namespace/Pod, the first Kubernetes entry swaps  *)
(* them by itself, and the window lists the default columns and, under a   *)
(* second header, the attributes that were seen.  The list they belong to  *)
(* has a cursor of its own.                                                *)
(***************************************************************************)
EXTENDS LogView

CONSTANTS
  Attributes,      \* keys an entry may bring along, in the order they are listed
  DefaultColumns   \* the columns that are always listed, the message the last

ASSUME ColumnsAssumption ==
  /\ Attributes \in Seq(STRING) /\ DefaultColumns \in Seq(STRING) \ {<<>>}
  /\ ToSet(Attributes) \intersect ToSet(DefaultColumns) = {}
  /\ Last(DefaultColumns) = "message"

VARIABLES
  columns,       \* activeColumns
  listed,        \* availableColumns, rebuilt for every window: its columns in order
  checked,       \* and those of them that are enabled
  original,      \* columnConfigOriginal
  configuring,   \* showColumnConfigModal
  line,          \* columnConfigSelected
  discovered,    \* discoveredAttributes
  k8sSeen,       \* a Kubernetes entry is among the latest lines (isK8sMode)
  switched       \* autoSwitchedToK8sMode

columnVars == <<columns, listed, checked, original, configuring, line, discovered,
                k8sSeen, switched>>

Normal == {"host.name", "service.name"}
Kube == {"k8s.namespace", "k8s.pod"}

ColumnsInit ==
  /\ columns = SelectSeq(DefaultColumns, LAMBDA c : c \notin Kube)
  /\ listed = <<>> /\ checked = {}
  /\ original = <<>> /\ configuring = FALSE /\ line = 0
  /\ discovered = {} /\ k8sSeen = FALSE /\ switched = FALSE

Shows1(cols, kinds) == ToSet(cols) \intersect kinds # {}

Replaced(cols, a, b) == [i \in DOMAIN cols |-> IF cols[i] = a THEN b ELSE cols[i]]

ToKube(cols) == Replaced(Replaced(cols, "host.name", "k8s.namespace"), "service.name", "k8s.pod")
ToNormal(cols) == Replaced(Replaced(cols, "k8s.namespace", "host.name"), "k8s.pod", "service.name")

\* A mixture of the two becomes Namespace and Pod, twice if need be.
Swapped(cols) ==
  IF Shows1(cols, Kube) /\ ~Shows1(cols, Normal) THEN ToNormal(cols) ELSE ToKube(cols)

\* c, in the window as well.  Without Kubernetes entries it only hides the columns.
ToggleColumnsMode ==
  /\ k8sSeen
  /\ columns' = Swapped(columns)
  /\ checked' = IF ~configuring THEN checked
                ELSE (checked \ (Normal \union Kube))
                       \union (IF Shows1(columns, Kube) THEN Normal ELSE Kube)
  /\ UNCHANGED <<listed, original, configuring, line, discovered, k8sSeen, switched>>

\* An entry brings its attributes; the first Kubernetes entry swaps the columns.
EntryArrives(keys, kube) ==
  /\ discovered' = discovered \union keys
  /\ k8sSeen' \in (IF kube THEN {TRUE} ELSE {k8sSeen, FALSE})
  /\ switched' = (switched \/ kube)
  /\ IF kube /\ ~switched /\ Shows1(columns, Normal)
     THEN /\ columns' = ToKube(columns)
          /\ checked' = IF configuring THEN (checked \ Normal) \union Kube ELSE checked
     ELSE UNCHANGED <<columns, checked>>
  /\ UNCHANGED <<listed, original, configuring, line>>

-----------------------------------------------------------------------------
(* The window. *)

\* prepareColumnConfigModal, for a selected entry with the keys given.
OpenColumnConfig(keys) ==
  /\ ~configuring /\ configuring' = TRUE /\ line' = 1
  /\ original' = columns
  /\ listed' = DefaultColumns \o Picked(Attributes, discovered \union keys)
  /\ checked' = ToSet(columns) \intersect ToSet(listed')
  /\ UNCHANGED <<columns, discovered, k8sSeen, switched>>

Defaults == Len(DefaultColumns)

\* The lines: a header, the default columns and, if there are attributes, a
\* separator, a header and the attributes.
LineCount == IF Len(listed) = Defaults THEN Defaults + 1 ELSE Len(listed) + 3

HeaderLines == {0} \union (IF Len(listed) = Defaults THEN {} ELSE {Defaults + 1, Defaults + 2})

ColumnAt(l) == IF l <= Defaults THEN l ELSE l - 2

MoveLine ==
  /\ configuring
  /\ \/ \E l \in 1..(line - 1) \ HeaderLines :
          line' = l /\ (l + 1)..(line - 1) \subseteq HeaderLines
     \/ \E l \in (line + 1)..(LineCount - 1) \ HeaderLines :
          line' = l /\ (line + 1)..(l - 1) \subseteq HeaderLines
  /\ UNCHANGED <<columns, listed, checked, original, configuring, discovered, k8sSeen, switched>>

ToggleLine ==
  /\ configuring /\ line \notin HeaderLines
  /\ LET c == listed[ColumnAt(line)]
     IN  checked' = (checked \ {c}) \union ({c} \ checked)
  /\ UNCHANGED <<columns, listed, original, configuring, line, discovered, k8sSeen, switched>>

CloseWindow ==
  /\ configuring /\ configuring' = FALSE
  /\ listed' = <<>> /\ checked' = {} /\ original' = <<>> /\ line' = 0
  /\ UNCHANGED <<discovered, k8sSeen, switched>>

ApplyColumnConfig ==
  /\ CloseWindow
  /\ columns' = (IF checked = {} THEN <<"message">> ELSE Picked(listed, checked))

RestoreColumnConfig == CloseWindow /\ columns' = original

ColumnsNext ==
  \/ ToggleColumnsMode \/ MoveLine \/ ToggleLine \/ ApplyColumnConfig \/ RestoreColumnConfig
  \/ \E keys \in SUBSET ToSet(Attributes) :
       OpenColumnConfig(keys) \/ (\E kube \in BOOLEAN : EntryArrives(keys, kube))

ColumnsSpec == ColumnsInit /\ [][ColumnsNext]_columnVars

-----------------------------------------------------------------------------
(* Properties. *)

\* Whatever attributes were discovered, the cursor of the window stands on a
\* column, so that Space always toggles the one on the screen.
CursorOnColumn == configuring => line \notin HeaderLines /\ ColumnAt(line) \in DOMAIN listed

\* Whatever moves or shortens the lists, a cursor stands on something that is
\* there: the selected line of the log is never behind its end, the column
\* window's cursor never on a header.
CursorsInRange == SelectionNotPastEnd /\ CursorOnColumn
=============================================================================
