------------------------------ MODULE TenantStore ------------------------------
(***************************************************************************)
(* What the engine keeps of one tenant's logs (internal/engine/state.go):  *)
(* a window of the latest records under an entry and a byte budget, the    *)
(* lifetime counts, and the leading services of one severity.  ingest runs *)
(* under the tenant's mutex, so it is one step.  Tenants share nothing but *)
(* the engine's map, so one tenant's state is the whole model.             *)
(***************************************************************************)
EXTENDS Integers, Sequences, FiniteSets, SequencesExt, Loops

CONSTANTS
  Records,     \* the log records that may arrive
  Size,        \* recordSize of each
  Service,     \* the service each names, NoService for none
  NoService,
  MaxBuffer,   \* entry budget
  MaxBytes,    \* byte budget, 0 for none
  TopServices  \* how many services are listed: 10 in the code

ASSUME StoreAssumption ==
  /\ Size \in [Records -> Nat]
  /\ DOMAIN Service = Records
  /\ MaxBuffer \in Nat \ {0}
  /\ MaxBytes \in Nat
  /\ TopServices \in Nat \ {0}

VARIABLES
  buffer,           \* the retained records, oldest first
  bytes,            \* their size, kept by addition and subtraction
  totalLogsEver,
  lifetimeServices, \* lifetimeServiceCounts
  topServices,      \* servicesBySeverity of one severity: [service, count], best first
  accepted          \* every record that was ever admitted, in order

storeVars == <<buffer, bytes, totalLogsEver, lifetimeServices, topServices, accepted>>

Services == {Service[r] : r \in Records} \ {NoService}

SumSizes(s) == SeqSum([i \in DOMAIN s |-> Size[s[i]]])

(* ErrStorageQuota: the record alone is over the byte budget. *)
Oversized(r) == MaxBytes > 0 /\ Size[r] > MaxBytes

(* The loop of ingest ends with n records and b bytes. *)
WithinBudget(n, b) == n <= MaxBuffer /\ (MaxBytes = 0 \/ b <= MaxBytes)

(* How many of the oldest records of s, b bytes in all, the loop evicts: as *)
(* few as bring it within budget, but never the record just admitted.       *)
Evictions(s, b) ==
  Min({n \in 0..(Len(s) - 1) :
         \/ n = Len(s) - 1
         \/ WithinBudget(Len(s) - n, b - SumSizes(SubSeq(s, 1, n)))})

(* Mutant: the bytes of what is evicted are not given back. *)
AppendAndForgetBytes(r) ==
  LET s == Append(buffer, r)
  IN  /\ buffer' = SubSeq(s, Evictions(s, bytes + Size[r]) + 1, Len(s))
      /\ bytes' = bytes + Size[r]

(* The ring part of ingest. *)
AppendAndEvict(r) ==
  LET s == Append(buffer, r)
      b == bytes + Size[r]
      n == Evictions(s, b)
  IN  /\ buffer' = SubSeq(s, n + 1, Len(s))
      /\ bytes' = b - SumSizes(SubSeq(s, 1, n))

(* sortByCountDesc when only the entry at i has changed, by growing.        *)
(* sort.Slice sorts so short a list by insertion: ties keep their order.    *)
Resorted(list, i) ==
  LET rest  == RemoveAt(list, i)
      ahead == {j \in DOMAIN rest : rest[j].count >= list[i].count}
  IN  InsertAt(rest, Cardinality(ahead) + 1, list[i])

NewService(service) == [service |-> service, count |-> 1]

(* updateServicesBySeverity *)
CountService(service) ==
  LET known == {i \in DOMAIN topServices : topServices[i].service = service}
      i     == IF known = {} THEN Len(topServices) + 1 ELSE CHOOSE k \in known : TRUE
      list  == IF known = {} THEN Append(topServices, NewService(service))
                             ELSE [topServices EXCEPT ![i].count = @ + 1]
      best  == Resorted(list, i)
  IN  topServices' = SubSeq(best, 1, Min({Len(best), TopServices}))

(* ingest of a record that fits the byte budget. *)
Ingest(r) ==
  /\ ~Oversized(r)
  /\ AppendAndEvict(r)
  /\ totalLogsEver' = totalLogsEver + 1
  /\ accepted' = Append(accepted, r)
  /\ IF Service[r] = NoService
       THEN UNCHANGED <<lifetimeServices, topServices>>
       ELSE /\ lifetimeServices' = [lifetimeServices EXCEPT ![Service[r]] = @ + 1]
            /\ CountService(Service[r])

(* newTenantState *)
StoreInit ==
  /\ buffer = <<>>
  /\ bytes = 0
  /\ totalLogsEver = 0
  /\ lifetimeServices = [s \in Services |-> 0]
  /\ topServices = <<>>
  /\ accepted = <<>>

-----------------------------------------------------------------------------
(* The buffer is the longest run of the latest admitted records that fits   *)
(* both budgets: nothing in it is missing, reordered or out of date, and    *)
(* no more was evicted than the budgets asked for.                          *)
WindowIsLongestFit ==
  /\ Len(buffer) <= Len(accepted)
  /\ buffer = SubSeq(accepted, Len(accepted) - Len(buffer) + 1, Len(accepted))
  /\ WithinBudget(Len(buffer), SumSizes(buffer))
  /\ accepted # <<>> => buffer # <<>>
  /\ Len(buffer) < Len(accepted) =>
       LET longer == SubSeq(accepted, Len(accepted) - Len(buffer), Len(accepted))
       IN  ~WithinBudget(Len(longer), SumSizes(longer))

(* A listed service shows its true lifetime count, the list is ordered and  *)
(* without repetition, and only a full list leaves a service out.           *)
ListedServicesExact ==
  /\ \A i \in DOMAIN topServices :
       /\ topServices[i].count = lifetimeServices[topServices[i].service]
       /\ \A j \in DOMAIN topServices : i < j =>
            /\ topServices[i].service # topServices[j].service
            /\ topServices[i].count >= topServices[j].count
  /\ Len(topServices) < TopServices =>
       \A s \in Services : lifetimeServices[s] > 0 =>
         \E i \in DOMAIN topServices : topServices[i].service = s

(* The three things ingest keeps agree with what was admitted: the window,  *)
(* the running byte count on which every eviction decides and which must    *)
(* not drift from what is in the buffer, and the listed services.           *)
StoreExact ==
  /\ WindowIsLongestFit
  /\ bytes = SumSizes(buffer)
  /\ ListedServicesExact
=============================================================================
