---------------------------- MODULE AtomicImport ----------------------------
(***************************************************************************)
(* What importing a broker file promises, without the evaluation, the plan *)
(* and the rows written one by one: a request asks for some rows of its    *)
(* file, and then, in one step, either all of them that their account does *)
(* not have yet become transactions, or nothing happens.  In between the   *)
(* users change one transaction after the other.                           *)
(***************************************************************************)
CONSTANTS
  Requests, TxIds,
  Lines,    \* what a file may ask for: a row and its order number
  NoLine    \* there is no transaction

VARIABLES
  book,     \* the transactions: a line or NoLine for each identifier
  asked     \* the lines that each request is about to import

atomicVars == <<book, asked>>

Known(line) ==
  \E t \in TxIds : /\ book[t] # NoLine
                   /\ book[t].row.account = line.row.account
                   /\ book[t].order = line.order

Missing(q) == {line \in asked[q] : ~Known(line)}

OthersKeepAsking(q) == \A r \in Requests \ {q} : asked'[r] = asked[r]

Edit ==
  /\ \E t \in TxIds : \A u \in TxIds \ {t} : book'[u] = book[u]
  /\ UNCHANGED asked

Ask(q) ==
  /\ asked[q] = {}
  /\ asked'[q] \subseteq Lines
  /\ OthersKeepAsking(q)
  /\ UNCHANGED book

\* One new transaction for each missing line.
Import(q) ==
  LET added == {t \in TxIds : book'[t] # book[t]} IN
  /\ \A t \in added : book[t] = NoLine
  /\ {book'[t] : t \in added} = Missing(q)
  /\ \A t, u \in added : book'[t] = book'[u] => t = u
  /\ asked'[q] = {}
  /\ OthersKeepAsking(q)

GiveUp(q) ==
  /\ asked'[q] = {}
  /\ OthersKeepAsking(q)
  /\ UNCHANGED book

AtomicInit ==
  /\ \A t \in TxIds : book[t] = NoLine
  /\ \A q \in Requests : asked[q] = {}

AtomicNext ==
  \/ Edit
  \/ \E q \in Requests : Ask(q) \/ Import(q) \/ GiveUp(q)

AtomicSpec == AtomicInit /\ [][AtomicNext]_atomicVars
=============================================================================
