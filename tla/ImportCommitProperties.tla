----------------------- MODULE ImportCommitProperties -----------------------
(***************************************************************************)
(* What committing broker files must satisfy.                              *)
(***************************************************************************)
EXTENDS ImportCommit, LedgerProperties

Phases ==
  {"idle", "evaluated", "planned", "writing", "done", "rejected", "refused",
   "aborted"}

Statuses == {"ready", "skipped", "duplicate", "error"}

(***************************************************************************)
(* The book keeps its types; a request knows a status for every row of its *)
(* file, and its queue holds ready rows, each once; there is a book to     *)
(* return to exactly while a batch is open.                                *)
(***************************************************************************)
ImportTypeOK ==
  /\ TypeOK
  /\ orders \in [TxIds -> OrderNos \cup {NoOrder}]
  /\ \A q \in Requests :
       /\ request[q].phase \in Phases
       /\ request[q].phase # "idle" =>
            /\ request[q].file \in Files
            /\ DOMAIN request[q].status = DOMAIN request[q].file.rows
            /\ Range(request[q].status) \subseteq Statuses
       /\ Range(request[q].queue) \subseteq WithStatus(q, "ready")
       /\ IsInjective(request[q].queue)
  /\ saved = NoBook <=> NoBatchOpen
  /\ edits \in 0..MaxEdits

-----------------------------------------------------------------------------
(***************************************************************************)
(* All or nothing (transaction-import.service.ts:68: a batch in which a    *)
(* row fails is rolled back as a whole).  Commits implement AtomicImport,  *)
(* whatever other requests for the same rows and the users do meanwhile,   *)
(* when the rows of an open batch are not yet counted as imported and the  *)
(* rows asked for are the ready ones of the plan.                          *)
(***************************************************************************)
Line(row, order) == [row |-> row, order |-> order]

NoLine == Line(NoTx, NoOrder)

CommittedBook ==
  LET table   == IF NoBatchOpen THEN tx ELSE saved.tx
      numbers == IF NoBatchOpen THEN orders ELSE saved.orders IN
  [t \in TxIds |-> IF table[t] = NoTx THEN NoLine
                    ELSE Line(table[t], numbers[t])]

RowsAskedFor ==
  [q \in Requests |->
     IF request[q].phase \in {"planned", "writing"}
       THEN {Line(TheRow(q, n).row, TheRow(q, n).order) : n \in WithStatus(q, "ready")}
       ELSE {}]

FileLines ==
  UNION {{Line(file.rows[n].row, file.rows[n].order) : n \in DOMAIN file.rows} :
           file \in Files}

Atomic == INSTANCE AtomicImport
  WITH book <- CommittedBook, asked <- RowsAskedFor,
       Lines <- FileLines

CommitIsAtomic == Atomic!AtomicSpec

(***************************************************************************)
(* The journal mirrors the live transactions at every step, inside a batch *)
(* and after a rollback too (LiveEntriesCurrent), and so do the positions  *)
(* the open lots (PositionMatchesOpenLots).                                *)
(***************************************************************************)
BookConsistent == LiveEntriesCurrent /\ PositionMatchesOpenLots
=============================================================================
