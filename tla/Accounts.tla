------------------------------ MODULE Accounts ------------------------------
(***************************************************************************)
(* Users, their accounts, the general-ledger accounts that belong to them, *)
(* and the journal: sign-up, the accounts of AccountsService with their    *)
(* linked cash GL accounts, manual postings, and the posting of a          *)
(* transaction to the GL accounts of its user.  Every operation is one     *)
(* database transaction, or writes once after its checks.                  *)
(*                                                                         *)
(* A transaction here is one that needs no positions: what it posts is     *)
(* GlPosting's concern, where it posts to is this module's.  An amount is  *)
(* 1 and a credit is negative.                                             *)
(***************************************************************************)
EXTENDS Integers, FiniteSetsExt

CONSTANTS
  Users,        \* a user for each e-mail address
  Admins,       \* those with the role admin
  AccountIds,   \* Account.id
  Currencies,   \* "TWD" is among them
  TxIds,        \* Transaction.id
  TxTypes,      \* the types of transactions that are recorded
  ManualGl,     \* the GL accounts that callers name in manual postings
  MaxEntries,   \* bound on the journal
  None

ASSUME AdminsAreUsers == Admins \subseteq Users

VARIABLES
  users,        \* the users there are
  accounts,     \* Account rows, or None
  glAccounts,   \* GlAccount rows, or None
  tx,           \* Transaction rows, or None
  entries,      \* GlEntry rows that are not archived
  posted        \* how many entries were written

accountsVars == <<users, accounts, glAccounts, tx, entries, posted>>

Purposes == {"investment_bucket", "equity_contribution", "dividend_income",
             "realized_gain_income", "fee_expense", "realized_loss_expense"}

\* The system accounts of a user, and the cash GL account made for an account.
GlIds == (Users \X Purposes) \cup AccountIds

ASSUME AccountsAreNoSystemAccounts == AccountIds \cap (Users \X Purposes) = {}
ASSUME ManualGlAreGl == ManualGl \subseteq GlIds

Exists(a) == accounts[a] # None

\* assertSameUserOrAdmin: a caller acts for themselves, an admin for anyone.
MayActFor(caller, u) == caller = u \/ caller \in Admins

\* validateAccountOwnership
MayUse(caller, a) == Exists(a) /\ MayActFor(caller, accounts[a].user)

-----------------------------------------------------------------------------
(***************************************************************************)
(* AccountsService                                                         *)
(***************************************************************************)
\* Mutant: an existing GL account stays as it is.
LinkedGlCreatedOnly(gl, a, row) ==
  IF gl[a] # None THEN gl
  ELSE [gl EXCEPT ![a] = [user |-> row.user, purpose |-> None,
                          currency |-> row.currency, linked |-> a]]

\* ensureLinkedGlAccount: an upsert by the linked account.
LinkedGl(gl, a, row) ==
  [gl EXCEPT ![a] = [user |-> row.user, purpose |-> None,
                     currency |-> row.currency, linked |-> a]]

WriteAccount(a, row, gl) ==
  /\ accounts' = [accounts EXCEPT ![a] = row]
  /\ glAccounts' = LinkedGl(gl, a, row)

\* Account ids are not taken again: the GL account of a removed one stays.
CreateAccount(caller, a, row) ==
  /\ MayActFor(caller, row.user)
  /\ row.user \in users
  /\ glAccounts[a] = None
  /\ WriteAccount(a, row, glAccounts)
  /\ UNCHANGED <<users, tx, entries, posted>>

UpdateAccount(caller, a, row) ==
  /\ MayActFor(caller, row.user)
  /\ MayUse(caller, a)
  /\ row.user \in users
  /\ WriteAccount(a, row, glAccounts)
  /\ UNCHANGED <<users, tx, entries, posted>>

OnAccount(t, a) == tx[t] # None /\ tx[t].account = a

WithoutTransactionsOf(a) == [t \in TxIds |-> IF OnAccount(t, a) THEN None ELSE tx[t]]

\* Mutant: the transactions of the account stay.
RemoveAccountAlone(caller, a) ==
  /\ MayUse(caller, a)
  /\ accounts' = [accounts EXCEPT ![a] = None]
  /\ glAccounts' = [glAccounts EXCEPT ![a].linked = None]
  /\ UNCHANGED <<users, tx, entries, posted>>

\* Mutant: the linked GL account goes with its lines.
RemoveAccountWithGl(caller, a) ==
  /\ MayUse(caller, a)
  /\ accounts' = [accounts EXCEPT ![a] = None]
  /\ glAccounts' = [glAccounts EXCEPT ![a] = None]
  /\ tx' = WithoutTransactionsOf(a)
  /\ entries' = {[e EXCEPT !.lines = {l \in @ : l.gl # a}] : e \in entries}
  /\ UNCHANGED <<users, posted>>

\* remove: the transactions of the account cascade; its GL account loses the
\* link and stays, and so do the entries of the transactions.
RemoveAccount(caller, a) ==
  /\ MayUse(caller, a)
  /\ accounts' = [accounts EXCEPT ![a] = None]
  /\ glAccounts' = [glAccounts EXCEPT ![a].linked = None]
  /\ tx' = WithoutTransactionsOf(a)
  /\ UNCHANGED <<users, entries, posted>>

-----------------------------------------------------------------------------
(***************************************************************************)
(* OnboardingService.signup: the user, the default chart and a starter     *)
(* account in one transaction.  There is a chart for TWD only, and a       *)
(* sign-up in another currency is rolled back.  UsersService.create makes  *)
(* a user without a chart.                                                 *)
(***************************************************************************)
DefaultChart(gl, u, currency) ==
  [g \in GlIds |-> IF g \in {u} \X Purposes
                     THEN [user |-> u, purpose |-> g[2], currency |-> currency,
                           linked |-> None]
                     ELSE gl[g]]

Signup(u, a, currency) ==
  /\ u \notin users
  /\ currency = "TWD"
  /\ glAccounts[a] = None
  /\ users' = users \cup {u}
  /\ WriteAccount(a, [user |-> u, currency |-> currency],
                  DefaultChart(glAccounts, u, currency))
  /\ UNCHANGED <<tx, entries, posted>>

CreateUser(u) ==
  /\ u \notin users
  /\ users' = users \cup {u}
  /\ UNCHANGED <<accounts, glAccounts, tx, entries, posted>>

-----------------------------------------------------------------------------
(***************************************************************************)
(* PostingService                                                          *)
(***************************************************************************)
Line(g, amount, currency) == [gl |-> g, amount |-> amount, currency |-> currency]

Entry(u, ref, lines) == [id |-> posted + 1, user |-> u, ref |-> ref, lines |-> lines]

\* createEntry, on the entries that are left when those of the reference
\* have been archived.
WriteEntry(e, left) ==
  /\ posted < MaxEntries
  /\ entries' = left \cup {e}
  /\ posted' = posted + 1

EntriesOf(u, t) == {e \in entries : e.user = u /\ e.ref = t}

\* validateGlAccountOwnership for the user of the command.
MayPostTo(u, g) ==
  /\ glAccounts[g] # None
  /\ MayActFor(u, glAccounts[g].user)

\* postTransfer, postExpense and postIncome: an amount from the second GL
\* account to the first.
PostManual(caller, u, debit, credit, currency) ==
  /\ MayActFor(caller, u)
  /\ u \in users
  /\ MayPostTo(u, debit) /\ MayPostTo(u, credit)
  /\ WriteEntry(Entry(u, None, {Line(debit, 1, currency), Line(credit, -1, currency)}),
                entries)
  /\ UNCHANGED <<users, accounts, glAccounts, tx>>

\* The GL account a transaction is posted against and what it does to cash.
Contra == [deposit  |-> "equity_contribution", withdraw |-> "equity_contribution",
           dividend |-> "dividend_income", fee |-> "fee_expense",
           buy |-> "investment_bucket"]

CashAmount(type) == IF type \in {"deposit", "dividend"} THEN 1 ELSE -1

\* getByPurpose: only the investment bucket is looked up by its currency.
ByPurpose(u, type, currency) ==
  {g \in {u} \X {Contra[type]} :
     /\ glAccounts[g] # None
     /\ type = "buy" => glAccounts[g].currency = currency}

\* Mutant: the entry is the caller's.
PostingUserIsCaller(caller, a) == caller

PostingUser(caller, a) == accounts[a].user

TransactionEntry(u, t, row, contra) ==
  LET currency == accounts[row.account].currency
      amount   == CashAmount(row.type) IN
  Entry(u, t, {Line(row.account, amount, currency), Line(contra, -amount, currency)})

\* Mutant: the entries of the transaction are archived after the new one.
PostTransactionThenArchive(caller, t, row) ==
  LET u == PostingUser(caller, row.account) IN
  \E contra \in ByPurpose(u, row.type, accounts[row.account].currency) :
    /\ posted < MaxEntries
    /\ posted' = posted + 1
    /\ entries' = entries \ EntriesOf(u, t)

PostTransaction(caller, t, row) ==
  LET u == PostingUser(caller, row.account) IN
  \E contra \in ByPurpose(u, row.type, accounts[row.account].currency) :
    WriteEntry(TransactionEntry(u, t, row, contra), entries \ EntriesOf(u, t))

RecordTransaction(caller, t, row) ==
  /\ tx[t] = None
  /\ ~\E e \in entries : e.ref = t
  /\ MayUse(caller, row.account)
  /\ tx' = [tx EXCEPT ![t] = row]
  /\ PostTransaction(caller, t, row)
  /\ UNCHANGED <<users, accounts, glAccounts>>

\* An update may move the transaction to another account.
UpdateTransaction(caller, t, row) ==
  /\ tx[t] # None
  /\ MayUse(caller, tx[t].account) /\ MayUse(caller, row.account)
  /\ tx' = [tx EXCEPT ![t] = row]
  /\ PostTransaction(caller, t, row)
  /\ UNCHANGED <<users, accounts, glAccounts>>

\* archiveTransactionEntries, and the row goes.
DeleteTransaction(caller, t) ==
  /\ tx[t] # None
  /\ MayUse(caller, tx[t].account)
  /\ tx' = [tx EXCEPT ![t] = None]
  /\ entries' = entries \ EntriesOf(accounts[tx[t].account].user, t)
  /\ UNCHANGED <<users, accounts, glAccounts, posted>>

-----------------------------------------------------------------------------
AccountRows == [user : Users, currency : Currencies]

GlRows == [user : Users, purpose : Purposes \cup {None},
           currency : Currencies, linked : AccountIds \cup {None}]

TxRows == [account : AccountIds, type : TxTypes]

ASSUME TypesAreKnown == TxTypes \subseteq DOMAIN Contra
ASSUME NoneIsNoRow == None \notin AccountRows \cup GlRows \cup TxRows

AccountsInit ==
  /\ users = {}
  /\ accounts = [a \in AccountIds |-> None]
  /\ glAccounts = [g \in GlIds |-> None]
  /\ tx = [t \in TxIds |-> None]
  /\ entries = {}
  /\ posted = 0

AccountsNext ==
  \/ \E u \in Users : CreateUser(u)
  \/ \E u \in Users, a \in AccountIds, c \in Currencies : Signup(u, a, c)
  \/ \E caller \in users :
       \/ \E a \in AccountIds :
            \/ \E row \in AccountRows : CreateAccount(caller, a, row)
            \/ \E row \in AccountRows : UpdateAccount(caller, a, row)
            \/ RemoveAccount(caller, a)
       \/ \E u \in Users, debit, credit \in ManualGl, c \in Currencies :
            PostManual(caller, u, debit, credit, c)
       \/ \E t \in TxIds :
            \/ \E row \in TxRows : RecordTransaction(caller, t, row)
            \/ \E row \in TxRows : UpdateTransaction(caller, t, row)
            \/ DeleteTransaction(caller, t)

AccountsSpec == AccountsInit /\ [][AccountsNext]_accountsVars

-----------------------------------------------------------------------------
(***************************************************************************)
(* Rows refer to rows that are there, whatever was removed before: a       *)
(* transaction to its account, a GL account to its user, and a line to its *)
(* GL account (accounts.service.ts:152).                                   *)
(***************************************************************************)
AccountsTypeOK ==
  /\ \A a \in AccountIds : Exists(a) => accounts[a].user \in users
  /\ \A g \in GlIds : glAccounts[g] # None => glAccounts[g].user \in users
  /\ \A t \in TxIds : tx[t] # None => Exists(tx[t].account)
  /\ \A e \in entries : \A l \in e.lines : glAccounts[l.gl] # None

(***************************************************************************)
(* An account has its own cash GL account, of its user and its currency,   *)
(* after every update and when an admin hands it to another user, and a GL *)
(* account is linked to no account but that (accounts.service.ts:85).      *)
(***************************************************************************)
CashAccountOfEachAccount ==
  \A a \in AccountIds :
    IF Exists(a)
      THEN /\ glAccounts[a] # None
           /\ glAccounts[a].linked = a
           /\ glAccounts[a].user = accounts[a].user
           /\ glAccounts[a].currency = accounts[a].currency
      ELSE glAccounts[a] # None => glAccounts[a].linked = None

(***************************************************************************)
(* Every entry is balanced in one currency, also when an account it was    *)
(* posted to has been removed or changed (gl-validation.util.ts:18).       *)
(***************************************************************************)
JournalStaysBalanced ==
  \A e \in entries :
    /\ MapThenSumSet(LAMBDA l : l.amount, e.lines) = 0
    /\ \A l, k \in e.lines : l.currency = k.currency

(***************************************************************************)
(* A new entry is one of the user whose GL accounts it is posted to, also  *)
(* when an admin records the transaction for them; only what an admin      *)
(* posts by hand reaches further (posting.service.ts:87,                   *)
(* transactions.service.ts:80, :228).                                      *)
(***************************************************************************)
PostingsStayWithUserStep ==
  \A e \in entries' \ entries :
    \A l \in e.lines :
      \/ glAccounts'[l.gl].user = e.user
      \/ e.ref = None /\ e.user \in Admins

PostingsStayWithUser == [][PostingsStayWithUserStep]_accountsVars

(***************************************************************************)
(* A transaction that is there has an entry with a line on the cash GL     *)
(* account of its account, whatever was updated since                      *)
(* (posting.service.ts:52: the old entry goes and the new one comes).      *)
(***************************************************************************)
EveryTransactionIsPosted ==
  \A t \in TxIds :
    tx[t] # None =>
      \E e \in entries : e.ref = t /\ \E l \in e.lines : l.gl = tx[t].account
=============================================================================
