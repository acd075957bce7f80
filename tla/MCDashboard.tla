------------------------------ MODULE MCDashboard ------------------------------
(* The dashboard and the program loop for TLC.  Their parts share no state  *)
(* that the properties tell apart, so each behaviour moves one of them: the *)
(* windows, the log list, its columns, the loop with its decoder, or the    *)
(* counters.  What is asked in the chat does not depend on the filter and   *)
(* search inputs, so the questions come in behaviours of their own in which *)
(* these stay closed.  What the miner is fed depends on pauses, evictions   *)
(* and resets and not on the filters or the selection, so the resets of the *)
(* patterns come in behaviours of their own, too.                           *)
EXTENDS Modals, Columns, AppLoop, Statistics, TLC

CONSTANTS n1, p1

VARIABLE part

MCSeverityOf == 1 :> "E" @@ 2 :> "I" @@ 3 :> "I" @@ 4 :> "E"
MCNamespaceOf == 1 :> n1 @@ 2 :> NoName @@ 3 :> n1 @@ 4 :> n1
MCPodOf      == 1 :> p1 @@ 2 :> NoName @@ 3 :> p1 @@ 4 :> NoName
MCAttributes == <<"a1">>
MCColumns    == <<"host.name", "k8s.namespace", "message">>

Line(signal, brace, depth) == [signal |-> signal, brace |-> brace, depth |-> depth]
Record(text, number, message) == [text |-> text, number |-> number, message |-> message]

MCLines == {Line(TRUE, FALSE, 0), Line(FALSE, FALSE, 0), Line(FALSE, TRUE, 1), Line(FALSE, FALSE, -1)}
MCLogRecords == {Record("critical", 9, ""), Record("", 18, "ERROR")}

\* Entries of two levels and services, one with a time of its own.
Kind(own, level, attrs, words) == [own |-> own, level |-> level, attrs |-> attrs, words |-> words]
MCKinds ==
  {Kind(Unset, "INFO", "service" :> "s", <<"a", "a">>),
   Kind(Unset, "INFO", "host" :> "h" @@ "service.name" :> "", <<"b">>),
   Kind(2, "INFO", "host" :> "h", <<"b", "c">>),
   Kind(5, "WARN", "service.name" :> "t" @@ "service" :> "s", <<>>)}
MCAlphabet == <<"a", "b", "c", "host", "service", "service.name">>

otherThanStatistics == <<part, modalVars, logVars, columnVars, appVars>>
dashboardVars == <<otherThanStatistics, statisticsVars>>

Init ==
  /\ part \in {"modals", "chat", "log", "patterns", "columns", "app", "statistics"}
  /\ ModalsInit /\ (part # "modals" => newsCheck = Done)
  /\ LogViewInit /\ ColumnsInit
  /\ AppInit /\ (part # "app" => source = "none")
  /\ StatisticsInit /\ (part # "statistics" => ~byLogTime)

Next ==
  \/ /\ \/ part = "modals" /\ UNCHANGED questionVars
        \/ part = "chat" /\ UNCHANGED <<typing, filterSet, searchSet>>
     /\ ModalsNext /\ UNCHANGED <<part, logVars, columnVars, appVars, statisticsVars>>
  \/ /\ \/ part = "log" /\ UNCHANGED resets
        \/ part = "patterns" /\ UNCHANGED <<filterVars, viewer>>
     /\ LogViewNext /\ UNCHANGED <<part, modalVars, columnVars, appVars, statisticsVars>>
  \/ part = "columns" /\ ColumnsNext /\ UNCHANGED <<part, modalVars, logVars, appVars, statisticsVars>>
  \/ part = "app" /\ AppNext /\ UNCHANGED <<part, modalVars, logVars, columnVars, statisticsVars>>
  \/ part = "statistics" /\ StatisticsNext /\ UNCHANGED otherThanStatistics

Spec == Init /\ [][Next]_dashboardVars
=============================================================================
