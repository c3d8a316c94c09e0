---------------------------- MODULE AccountsProofs ---------------------------
(***************************************************************************)
(* Accounts, GL accounts and the journal of any number of users: rows      *)
(* refer to rows, each account keeps its cash GL account, entries balance  *)
(* and stay with their user, and every transaction is posted.              *)
(***************************************************************************)
EXTENDS Accounts, TLAPS

(***************************************************************************)
(* The amounts of two lines are summed: the function that MapThenSumSet    *)
(* defines by recursion exists for a set of two elements.                  *)
(***************************************************************************)
LEMMA SumOfPair ==
  ASSUME NEW a, NEW b, a # b, a.amount \in Int, b.amount \in Int
  PROVE  MapThenSumSet(LAMBDA l : l.amount, {a, b}) = a.amount + b.amount
<1> DEFINE S == {a, b}
           Pick(s) == CHOOSE x \in s : TRUE
           Sums(f) == f = [s \in SUBSET S |->
                              IF s = {} THEN 0
                              ELSE LET x == Pick(s) IN x.amount + f[s \ {x}]]
           sum == CHOOSE f : Sums(f)
           One(s) == IF s = {} THEN 0 ELSE Pick(s).amount
           w == [s \in SUBSET S |->
                    IF s = {} THEN 0 ELSE Pick(s).amount + One(s \ {Pick(s)})]
<1>1. MapThenSumSet(LAMBDA l : l.amount, S) = sum[S]
  BY DEF MapThenSumSet, MapThenFoldSet
<1>2. \A s \in SUBSET S : s = {} \/ s = {a} \/ s = {b} \/ s = {a, b}
  OBVIOUS
<1>3. \A s \in SUBSET S : s # {} => Pick(s) \in s
  OBVIOUS
<1> HIDE DEF Pick
<1>4. \A s \in SUBSET S : One(s) \in Int
  BY <1>2, <1>3
<1>5. Sums(w)
  <2>1. ASSUME NEW s \in SUBSET S, s # {}
        PROVE  One(s \ {Pick(s)}) = w[s \ {Pick(s)}]
    <3> DEFINE r == s \ {Pick(s)}
    <3>1. r = {} \/ r = {a} \/ r = {b}
      BY <1>2, <1>3, <2>1
    <3>2. CASE r = {}
      BY <3>2
    <3>3. CASE r # {}
      <4>1. r \ {Pick(r)} = {}
        BY <1>3, <3>1, <3>3
      <4>2. One(r \ {Pick(r)}) = 0
        BY <4>1
      <4>3. w[r] = Pick(r).amount + 0 /\ Pick(r).amount \in Int
        BY <3>1, <3>3, <4>2, <1>3
      <4>4. One(r) = Pick(r).amount
        BY <3>3
      <4> HIDE DEF w, One, r
      <4>5. w[r] = One(r)
        BY <4>3, <4>4
      <4>6. QED BY <4>5 DEF r
    <3>4. QED BY <3>2, <3>3
  <2>2. \A s \in SUBSET S : w[s] = IF s = {} THEN 0 ELSE Pick(s).amount + w[s \ {Pick(s)}]
    BY <2>1
  <2>3. w = [s \in SUBSET S |-> w[s]]
    OBVIOUS
  <2> HIDE DEF w
  <2>4. QED BY <2>2, <2>3
<1>6. Sums(sum)
  <2> HIDE DEF w, Sums
  <2>1. QED BY <1>5
<1>7. sum[S] = a.amount + b.amount
  <2> HIDE DEF sum, One, w
  <2>1. \A s \in SUBSET S : sum[s] = IF s = {} THEN 0 ELSE Pick(s).amount + sum[s \ {Pick(s)}]
    BY <1>6
  <2>2. sum[{}] = 0
    BY <2>1
  <2>3. sum[{a}] = a.amount /\ sum[{b}] = b.amount
    <3>1. Pick({a}) = a /\ Pick({b}) = b
      BY <1>3
    <3>2. sum[{a}] = a.amount + sum[{a} \ {a}] /\ sum[{b}] = b.amount + sum[{b} \ {b}]
      BY <2>1, <3>1
    <3>3. {a} \ {a} = {} /\ {b} \ {b} = {}
      OBVIOUS
    <3>4. sum[{a}] = a.amount + 0 /\ sum[{b}] = b.amount + 0
      BY <2>2, <3>2, <3>3
    <3> HIDE DEF Sums
    <3>5. QED BY <3>4
  <2>4. Pick(S) = a \/ Pick(S) = b
    BY <1>3
  <2>5. S \ {a} = {b} /\ S \ {b} = {a}
    OBVIOUS
  <2>6. sum[S] = Pick(S).amount + sum[S \ {Pick(S)}]
    BY <2>1
  <2> HIDE DEF S, Sums
  <2>7. CASE Pick(S) = a
    BY <2>3, <2>5, <2>6, <2>7
  <2>8. CASE Pick(S) = b
    <3>1. sum[S] = b.amount + a.amount
      BY <2>3, <2>5, <2>6, <2>8
    <3>2. QED BY <3>1
  <2>9. QED BY <2>4, <2>7, <2>8
<1>8. QED BY <1>1, <1>7

-----------------------------------------------------------------------------
(***************************************************************************)
(* The inductive invariant.  The tables have their types; a system account *)
(* belongs to the user whose chart it is in; an entry has a debit and a    *)
(* credit of the same amount.                                              *)
(***************************************************************************)
TableTypes ==
  /\ users \subseteq Users
  /\ accounts \in [AccountIds -> AccountRows \cup {None}]
  /\ glAccounts \in [GlIds -> GlRows \cup {None}]
  /\ tx \in [TxIds -> TxRows \cup {None}]

ChartsAreOwned ==
  \A u \in Users, p \in Purposes :
    glAccounts[<<u, p>>] # None => glAccounts[<<u, p>>].user = u

TwoLines(e) ==
  \E debit, credit \in GlIds, amount \in {1, -1}, c \in Currencies :
    /\ e.lines = {Line(debit, amount, c), Line(credit, -amount, c)}
    /\ glAccounts[debit] # None /\ glAccounts[credit] # None

AccountsInv ==
  /\ TableTypes
  /\ AccountsTypeOK
  /\ CashAccountOfEachAccount
  /\ ChartsAreOwned
  /\ \A e \in entries : TwoLines(e)
  /\ EveryTransactionIsPosted

(***************************************************************************)
(* An entry with a debit and a credit of the same amount is balanced.      *)
(***************************************************************************)
LEMMA TwoLinesBalance ==
  ASSUME NEW e, TwoLines(e)
  PROVE  /\ MapThenSumSet(LAMBDA l : l.amount, e.lines) = 0
         /\ \A l, k \in e.lines : l.currency = k.currency
<1>1. PICK d, g \in GlIds, n \in {1, -1}, c \in Currencies :
        e.lines = {Line(d, n, c), Line(g, -n, c)}
  BY DEF TwoLines
<1>2. PICK a, b : a = Line(d, n, c) /\ b = Line(g, -n, c)
  OBVIOUS
<1>3. a.amount = n /\ b.amount = -n /\ a.currency = c /\ b.currency = c
  BY <1>2 DEF Line
<1>4. a # b
  BY <1>3
<1>5. MapThenSumSet(LAMBDA l : l.amount, {a, b}) = a.amount + b.amount
  BY <1>3, <1>4, SumOfPair
<1>6. QED BY <1>1, <1>2, <1>3, <1>5

-----------------------------------------------------------------------------
(***************************************************************************)
(* GL accounts are never removed, so lines keep theirs.                    *)
(***************************************************************************)
LEMMA EntriesKeepTheirLines ==
  ASSUME AccountsInv, \A g \in GlIds : glAccounts[g] # None => glAccounts'[g] # None
  PROVE  /\ \A e \in entries : TwoLines(e)'
         /\ \A e \in entries : \A l \in e.lines : glAccounts'[l.gl] # None
<1>1. ASSUME NEW e \in entries PROVE TwoLines(e)'
  BY DEF AccountsInv, TwoLines
<1>2. ASSUME NEW e \in entries, NEW l \in e.lines PROVE glAccounts'[l.gl] # None
  <2>1. TwoLines(e)
    BY DEF AccountsInv
  <2>2. l.gl \in GlIds /\ glAccounts[l.gl] # None
    BY <2>1 DEF TwoLines, Line
  <2>3. QED BY <2>2
<1>3. QED BY <1>1, <1>2

(***************************************************************************)
(* A row of an account is written with its cash GL account, after a chart  *)
(* that leaves the other GL accounts alone.                                *)
(***************************************************************************)
LEMMA WritingAnAccount ==
  ASSUME AccountsInv,
         NEW a \in AccountIds, NEW row \in AccountRows,
         NEW gl \in [GlIds -> GlRows \cup {None}],
         \A b \in AccountIds : gl[b] = glAccounts[b],
         \A g \in GlIds : glAccounts[g] # None => gl[g] # None,
         \A g \in GlIds : gl[g] # None => gl[g].user \in users',
         \A u \in Users, p \in Purposes :
           gl[<<u, p>>] # None => gl[<<u, p>>].user = u,
         WriteAccount(a, row, gl),
         users \subseteq users', users' \subseteq Users, row.user \in users',
         UNCHANGED <<tx, entries>>
  PROVE  AccountsInv'
<1>0. PICK cash : cash = [user |-> row.user, purpose |-> None,
                          currency |-> row.currency, linked |-> a]
  OBVIOUS
<1>1. cash \in GlRows /\ cash # None /\ row # None
  BY <1>0, NoneIsNoRow DEF GlRows, AccountRows
<1>2. a \in GlIds /\ \A u \in Users, p \in Purposes : <<u, p>> \in GlIds /\ <<u, p>> # a
  BY AccountsAreNoSystemAccounts DEF GlIds
<1>3. accounts' = [accounts EXCEPT ![a] = row] /\ glAccounts' = [gl EXCEPT ![a] = cash]
  BY <1>0 DEF WriteAccount, LinkedGl
<1>4. /\ accounts'[a] = row /\ \A b \in AccountIds \ {a} : accounts'[b] = accounts[b]
      /\ glAccounts'[a] = cash /\ \A g \in GlIds \ {a} : glAccounts'[g] = gl[g]
  BY <1>2, <1>3 DEF AccountsInv, TableTypes
<1>5. TableTypes'
  BY <1>1, <1>3 DEF AccountsInv, TableTypes
<1>6. \A g \in GlIds : glAccounts[g] # None => glAccounts'[g] # None
  BY <1>1, <1>4
<1>7. AccountsTypeOK'
  <2>1. \A b \in AccountIds : Exists(b)' => accounts'[b].user \in users'
    BY <1>4 DEF AccountsInv, AccountsTypeOK, Exists
  <2>2. \A g \in GlIds : glAccounts'[g] # None => glAccounts'[g].user \in users'
    BY <1>0, <1>4
  <2>3. ASSUME NEW t \in TxIds, tx[t] # None PROVE accounts'[tx[t].account] # None
    <3>1. tx[t].account \in AccountIds /\ accounts[tx[t].account] # None
      BY <2>3 DEF AccountsInv, AccountsTypeOK, TableTypes, TxRows, Exists
    <3>2. QED BY <1>1, <1>4, <3>1
  <2>4. \A e \in entries : \A l \in e.lines : glAccounts'[l.gl] # None
    BY <1>6, EntriesKeepTheirLines
  <2>5. QED BY <2>1, <2>2, <2>3, <2>4 DEF AccountsTypeOK, Exists
<1>8. CashAccountOfEachAccount'
  <2> SUFFICES ASSUME NEW b \in AccountIds
               PROVE  IF Exists(b)'
                        THEN /\ glAccounts'[b] # None
                             /\ glAccounts'[b].linked = b
                             /\ glAccounts'[b].user = accounts'[b].user
                             /\ glAccounts'[b].currency = accounts'[b].currency
                        ELSE glAccounts'[b] # None => glAccounts'[b].linked = None
    BY DEF CashAccountOfEachAccount
  <2>1. CASE b = a
    BY <1>0, <1>1, <1>4, <2>1 DEF Exists
  <2>2. CASE b # a
    <3>1. accounts'[b] = accounts[b] /\ glAccounts'[b] = glAccounts[b]
      BY <1>4, <2>2 DEF GlIds
    <3>2. QED BY <3>1 DEF AccountsInv, CashAccountOfEachAccount, Exists
  <2>3. QED BY <2>1, <2>2
<1>9. ChartsAreOwned'
  BY <1>2, <1>4 DEF ChartsAreOwned
<1>10. EveryTransactionIsPosted'
  BY SMTT(60) DEF AccountsInv, EveryTransactionIsPosted
<1>11. QED BY <1>5, <1>6, <1>7, <1>8, <1>9, <1>10, EntriesKeepTheirLines DEF AccountsInv

(***************************************************************************)
(* The entry that posting writes: its GL accounts are there, and they are  *)
(* those of the user it is posted for.                                     *)
(***************************************************************************)
LEMMA PostedLines ==
  ASSUME AccountsInv, NEW t, NEW row \in TxRows, Exists(row.account),
         NEW contra \in ByPurpose(accounts[row.account].user, row.type,
                                  accounts[row.account].currency)
  PROVE  LET u == accounts[row.account].user
             e == TransactionEntry(u, t, row, contra)
         IN  /\ TwoLines(e)
             /\ e.user = u /\ e.ref = t
             /\ \E l \in e.lines : l.gl = row.account
             /\ \A l \in e.lines : glAccounts[l.gl].user = u
<1>0. PICK u, c, n, a :
        /\ u = accounts[row.account].user /\ c = accounts[row.account].currency
        /\ n = CashAmount(row.type) /\ a = row.account
  OBVIOUS
<1>1. a \in AccountIds /\ a \in GlIds /\ row.type \in DOMAIN Contra
  BY <1>0, TypesAreKnown DEF TxRows, GlIds
<1>2. u \in Users /\ c \in Currencies /\ n \in {1, -1}
  BY <1>0, <1>1 DEF AccountsInv, TableTypes, AccountRows, Exists, CashAmount
<1>3. glAccounts[a] # None /\ glAccounts[a].user = u
  BY <1>0, <1>1 DEF AccountsInv, CashAccountOfEachAccount
<1>4. Contra[row.type] \in Purposes
  BY <1>1 DEF Contra, Purposes
<1>5. contra = <<u, Contra[row.type]>> /\ glAccounts[contra] # None
  BY <1>0 DEF ByPurpose
<1>6. contra \in GlIds /\ glAccounts[contra].user = u
  BY <1>2, <1>4, <1>5 DEF GlIds, AccountsInv, ChartsAreOwned
<1>7. TransactionEntry(u, t, row, contra) =
        Entry(u, t, {Line(a, n, c), Line(contra, -n, c)})
  BY <1>0 DEF TransactionEntry
<1>8. PICK e : e = TransactionEntry(u, t, row, contra)
  OBVIOUS
<1>9. e.user = u /\ e.ref = t /\ e.lines = {Line(a, n, c), Line(contra, -n, c)}
  BY <1>7, <1>8 DEF Entry
<1>10. TwoLines(e)
  BY <1>1, <1>2, <1>3, <1>5, <1>6, <1>9 DEF TwoLines
<1>11. (\E l \in e.lines : l.gl = a) /\ \A l \in e.lines : glAccounts[l.gl].user = u
  BY <1>3, <1>6, <1>9 DEF Line
<1>12. QED BY <1>0, <1>8, <1>9, <1>10, <1>11

(***************************************************************************)
(* A transaction is written and posted.                                    *)
(***************************************************************************)
LEMMA PostingATransaction ==
  ASSUME AccountsInv, NEW caller, NEW t \in TxIds, NEW row \in TxRows,
         Exists(row.account), tx' = [tx EXCEPT ![t] = row],
         PostTransaction(caller, t, row),
         UNCHANGED <<users, accounts, glAccounts>>
  PROVE  AccountsInv' /\ PostingsStayWithUserStep
<1>1. PICK e :
        /\ entries' = (entries \ EntriesOf(accounts[row.account].user, t)) \cup {e}
        /\ TwoLines(e) /\ e.user = accounts[row.account].user /\ e.ref = t
        /\ \E l \in e.lines : l.gl = row.account
        /\ \A l \in e.lines : glAccounts[l.gl].user = e.user
  <2>0. PICK u, c : u = accounts[row.account].user /\ c = accounts[row.account].currency
    OBVIOUS
  <2>1. PICK contra \in ByPurpose(u, row.type, c) :
          entries' = (entries \ EntriesOf(u, t)) \cup {TransactionEntry(u, t, row, contra)}
    BY <2>0 DEF PostTransaction, PostingUser, WriteEntry
  <2>2. PICK e : e = TransactionEntry(u, t, row, contra)
    OBVIOUS
  <2>3. /\ TwoLines(e) /\ e.user = u /\ e.ref = t
        /\ \E l \in e.lines : l.gl = row.account
        /\ \A l \in e.lines : glAccounts[l.gl].user = u
    BY SMTT(60), <2>0, <2>2, PostedLines
  <2>4. QED BY <2>0, <2>1, <2>2, <2>3
<1>2. row # None /\ row.account \in AccountIds
  BY NoneIsNoRow DEF TxRows
<1>3. tx'[t] = row /\ \A s \in TxIds \ {t} : tx'[s] = tx[s]
  BY DEF AccountsInv, TableTypes
<1>4. TableTypes'
  BY DEF AccountsInv, TableTypes
<1>5. \A f \in entries' : TwoLines(f)'
  BY <1>1, EntriesKeepTheirLines DEF TwoLines
<1>6. \A f \in entries' : \A l \in f.lines : glAccounts'[l.gl] # None
  BY <1>5 DEF TwoLines, Line
<1>7. AccountsTypeOK'
  BY <1>3, <1>6 DEF AccountsInv, AccountsTypeOK, Exists
<1>8. CashAccountOfEachAccount' /\ ChartsAreOwned'
  BY DEF AccountsInv, CashAccountOfEachAccount, ChartsAreOwned, Exists
<1>9. EveryTransactionIsPosted'
  <2> SUFFICES ASSUME NEW s \in TxIds, tx'[s] # None
               PROVE  \E f \in entries' : f.ref = s /\ \E l \in f.lines : l.gl = tx'[s].account
    BY DEF EveryTransactionIsPosted
  <2>1. CASE s = t
    BY <1>1, <1>3, <2>1
  <2>2. CASE s # t
    <3>1. PICK f \in entries : f.ref = s /\ \E l \in f.lines : l.gl = tx[s].account
      BY <1>3, <2>2 DEF AccountsInv, EveryTransactionIsPosted
    <3>2. f \in entries'
      BY <1>1, <2>2, <3>1 DEF EntriesOf
    <3>3. QED BY <1>3, <2>2, <3>1, <3>2
  <2>3. QED BY <2>1, <2>2
<1>10. PostingsStayWithUserStep
  BY <1>1 DEF PostingsStayWithUserStep
<1>11. QED BY <1>4, <1>5, <1>7, <1>8, <1>9, <1>10 DEF AccountsInv

-----------------------------------------------------------------------------
(***************************************************************************)
(* The invariant holds initially, and after every operation.               *)
(***************************************************************************)
LEMMA AccountsInitial == AccountsInit => AccountsInv
BY DEF AccountsInit, AccountsInv, TableTypes, AccountsTypeOK, CashAccountOfEachAccount,
       ChartsAreOwned, EveryTransactionIsPosted, Exists, GlIds

(***************************************************************************)
(* Every operation keeps the invariant and posts within the accounts of    *)
(* the user of the entry.                                                  *)
(***************************************************************************)
LEMMA AccountsInductive ==
  AccountsInv /\ [AccountsNext]_accountsVars => AccountsInv' /\ PostingsStayWithUserStep
<1> SUFFICES ASSUME AccountsInv, [AccountsNext]_accountsVars
             PROVE  AccountsInv' /\ PostingsStayWithUserStep
  OBVIOUS
<1>0. /\ users \subseteq Users
      /\ accounts \in [AccountIds -> AccountRows \cup {None}]
      /\ glAccounts \in [GlIds -> GlRows \cup {None}]
      /\ tx \in [TxIds -> TxRows \cup {None}]
  BY DEF AccountsInv, TableTypes
<1>1. ASSUME entries' \subseteq entries PROVE PostingsStayWithUserStep
  BY <1>1 DEF PostingsStayWithUserStep
<1>2. ASSUME NEW u \in Users, CreateUser(u) PROVE AccountsInv'
  BY <1>2 DEF CreateUser, AccountsInv, TableTypes, AccountsTypeOK,
      CashAccountOfEachAccount, ChartsAreOwned, EveryTransactionIsPosted, TwoLines, Exists
<1>3. ASSUME NEW u \in Users, NEW a \in AccountIds, NEW c \in Currencies, Signup(u, a, c)
      PROVE  AccountsInv'
  <2>1. PICK gl : gl = DefaultChart(glAccounts, u, c)
    OBVIOUS
  <2>2. PICK row : row = [user |-> u, currency |-> c]
    OBVIOUS
  <2>3. row \in AccountRows /\ row.user = u
    BY <2>2 DEF AccountRows
  <2> DEFINE Row(p) == [user |-> u, purpose |-> p, currency |-> c, linked |-> None]
  <2>4. gl = [g \in GlIds |-> IF g \in {u} \X Purposes THEN Row(g[2]) ELSE glAccounts[g]]
    BY <2>1 DEF DefaultChart
  <2>5. /\ \A p : Row(p).user = u
        /\ \A g \in {u} \X Purposes : Row(g[2]) \in GlRows
    BY DEF GlRows
  <2> HIDE DEF Row
  <2>6. gl \in [GlIds -> GlRows \cup {None}]
    BY <1>0, <2>4, <2>5
  <2>7. \A b \in AccountIds : b \in GlIds /\ gl[b] = glAccounts[b]
    <3>1. \A b \in AccountIds : b \in GlIds /\ b \notin Users \X Purposes
      BY AccountsAreNoSystemAccounts DEF GlIds
    <3>2. {u} \X Purposes \subseteq Users \X Purposes
      OBVIOUS
    <3>3. QED BY <2>4, <3>1, <3>2
  <2>8. \A g \in GlIds : glAccounts[g] # None => gl[g] # None
    BY <2>4, <2>5, NoneIsNoRow
  <2>9. users' = users \cup {u} /\ WriteAccount(a, row, gl) /\ UNCHANGED <<tx, entries>>
    BY <1>3, <2>1, <2>2 DEF Signup
  <2>10. ASSUME NEW g \in GlIds, gl[g] # None PROVE gl[g].user \in users'
    <3>1. CASE g \in {u} \X Purposes
      <4>1. gl[g].user = u
        BY <2>4, <2>5, <3>1
      <4>2. QED BY <2>9, <4>1
    <3>2. CASE g \notin {u} \X Purposes
      <4>1. gl[g] = glAccounts[g]
        BY <2>4, <3>2
      <4>2. QED BY <2>9, <2>10, <4>1 DEF AccountsInv, AccountsTypeOK
    <3>3. QED BY <3>1, <3>2
  <2>11. ASSUME NEW v \in Users, NEW p \in Purposes, gl[<<v, p>>] # None
         PROVE  gl[<<v, p>>].user = v
    <3>1. <<v, p>> \in GlIds
      BY DEF GlIds
    <3>2. CASE v = u
      <4>1. <<v, p>> \in {u} \X Purposes
        BY <3>2
      <4>2. gl[<<v, p>>].user = u
        BY <2>4, <2>5, <3>1, <4>1
      <4>3. QED BY <3>2, <4>2
    <3>3. CASE v # u
      BY <2>4, <2>11, <3>1, <3>3 DEF AccountsInv, ChartsAreOwned
    <3>4. QED BY <3>2, <3>3
  <2>12. QED BY <1>0, <2>3, <2>6, <2>7, <2>8, <2>9, <2>10, <2>11, WritingAnAccount
<1>4. ASSUME NEW a \in AccountIds, NEW row \in AccountRows,
             WriteAccount(a, row, glAccounts), row.user \in users,
             UNCHANGED <<users, tx, entries>>
      PROVE  AccountsInv'
  <2>1. \A g \in GlIds : glAccounts[g] # None => glAccounts[g].user \in users'
    BY <1>4 DEF AccountsInv, AccountsTypeOK
  <2>2. \A u \in Users, p \in Purposes :
          glAccounts[<<u, p>>] # None => glAccounts[<<u, p>>].user = u
    BY DEF AccountsInv, ChartsAreOwned
  <2>3. QED BY <1>0, <1>4, <2>1, <2>2, WritingAnAccount
<1>5. ASSUME NEW caller \in users, NEW a \in AccountIds, RemoveAccount(caller, a)
      PROVE  AccountsInv'
  <2>1. /\ accounts' = [accounts EXCEPT ![a] = None]
        /\ glAccounts' = [glAccounts EXCEPT ![a].linked = None]
        /\ tx' = WithoutTransactionsOf(a)
        /\ UNCHANGED <<users, entries>> /\ accounts[a] # None
    BY <1>5 DEF RemoveAccount, MayUse, Exists
  <2>2. a \in GlIds /\ glAccounts[a] \in GlRows
    BY <1>0, <2>1 DEF GlIds, AccountsInv, CashAccountOfEachAccount, Exists
  <2>3. [glAccounts[a] EXCEPT !.linked = None] \in GlRows
    BY <2>2 DEF GlRows
  <2>4. /\ glAccounts'[a] \in GlRows
        /\ glAccounts'[a].user = glAccounts[a].user
        /\ glAccounts'[a].linked = None
        /\ \A g \in GlIds \ {a} : glAccounts'[g] = glAccounts[g]
    BY <1>0, <2>1, <2>2, <2>3 DEF GlRows
  <2>5. accounts'[a] = None /\ \A b \in AccountIds \ {a} : accounts'[b] = accounts[b]
    BY <1>0, <2>1
  <2>6. \A t \in TxIds : tx'[t] = IF tx[t] # None /\ tx[t].account = a THEN None ELSE tx[t]
    BY <2>1 DEF WithoutTransactionsOf, OnAccount
  <2>7. TableTypes'
    <3>1. tx' \in [TxIds -> TxRows \cup {None}]
      BY <1>0, <2>1 DEF WithoutTransactionsOf
    <3>2. glAccounts' \in [GlIds -> GlRows \cup {None}]
      BY <1>0, <2>1, <2>2, <2>3
    <3>3. QED BY <1>0, <2>1, <3>1, <3>2 DEF TableTypes
  <2>8. \A g \in GlIds : glAccounts[g] # None => glAccounts'[g] # None
    BY <2>4, NoneIsNoRow
  <2>9. AccountsTypeOK'
    <3>1. \A b \in AccountIds : accounts'[b] # None => accounts'[b].user \in users'
      BY <2>1, <2>5 DEF AccountsInv, AccountsTypeOK, Exists
    <3>2. \A g \in GlIds : glAccounts'[g] # None => glAccounts'[g].user \in users'
      BY <2>1, <2>2, <2>4, NoneIsNoRow DEF AccountsInv, AccountsTypeOK
    <3>3. ASSUME NEW t \in TxIds, tx'[t] # None PROVE accounts'[tx'[t].account] # None
      <4>1. tx'[t] = tx[t] /\ tx[t] # None /\ tx[t].account # a
        BY <2>6, <3>3
      <4>2. tx[t].account \in AccountIds /\ accounts[tx[t].account] # None
        BY <1>0, <4>1 DEF AccountsInv, AccountsTypeOK, Exists, TxRows
      <4>3. QED BY <2>5, <4>1, <4>2
    <3>4. \A e \in entries' : \A l \in e.lines : glAccounts'[l.gl] # None
      BY <2>1, <2>8, EntriesKeepTheirLines
    <3>5. QED BY <3>1, <3>2, <3>3, <3>4 DEF AccountsTypeOK, Exists
  <2>10. CashAccountOfEachAccount'
    <3> SUFFICES ASSUME NEW b \in AccountIds
                 PROVE  IF Exists(b)'
                          THEN /\ glAccounts'[b] # None
                               /\ glAccounts'[b].linked = b
                               /\ glAccounts'[b].user = accounts'[b].user
                               /\ glAccounts'[b].currency = accounts'[b].currency
                          ELSE glAccounts'[b] # None => glAccounts'[b].linked = None
      BY DEF CashAccountOfEachAccount
    <3>1. CASE b = a
      BY <2>4, <2>5, <3>1 DEF Exists
    <3>2. CASE b # a
      <4>1. accounts'[b] = accounts[b] /\ glAccounts'[b] = glAccounts[b]
        BY <2>4, <2>5, <3>2 DEF GlIds
      <4>2. QED BY <4>1 DEF AccountsInv, CashAccountOfEachAccount, Exists
    <3>3. QED BY <3>1, <3>2
  <2>11. ChartsAreOwned'
    <3>1. \A u \in Users, p \in Purposes : <<u, p>> \in GlIds /\ <<u, p>> # a
      BY AccountsAreNoSystemAccounts DEF GlIds
    <3>2. QED BY <2>4, <3>1 DEF AccountsInv, ChartsAreOwned
  <2>12. EveryTransactionIsPosted'
    BY <2>1, <2>6 DEF AccountsInv, EveryTransactionIsPosted
  <2>13. QED BY <2>1, <2>7, <2>8, <2>9, <2>10, <2>11, <2>12, EntriesKeepTheirLines
    DEF AccountsInv
<1>6. ASSUME NEW caller \in users, NEW u \in Users, NEW debit \in ManualGl,
             NEW credit \in ManualGl, NEW c \in Currencies,
             PostManual(caller, u, debit, credit, c)
      PROVE  AccountsInv' /\ PostingsStayWithUserStep
  <2>1. PICK e : e = Entry(u, None, {Line(debit, 1, c), Line(credit, -1, c)})
    OBVIOUS
  <2>2. /\ entries' = entries \cup {e}
        /\ glAccounts[debit] # None /\ MayActFor(u, glAccounts[debit].user)
        /\ glAccounts[credit] # None /\ MayActFor(u, glAccounts[credit].user)
        /\ UNCHANGED <<users, accounts, glAccounts, tx>>
    BY <1>6, <2>1 DEF PostManual, WriteEntry, MayPostTo
  <2>3. /\ e.user = u /\ e.ref = None
        /\ e.lines = {Line(debit, 1, c), Line(credit, -1, c)}
    BY <2>1 DEF Entry
  <2>4. TwoLines(e)
    BY <2>2, <2>3, ManualGlAreGl DEF TwoLines
  <2>5. \A f \in entries' : TwoLines(f)'
    BY <2>2, <2>4, EntriesKeepTheirLines DEF TwoLines
  <2>6. \A f \in entries' : \A l \in f.lines : glAccounts'[l.gl] # None
    BY <2>5 DEF TwoLines, Line
  <2>7. AccountsTypeOK'
    BY <2>2, <2>6 DEF AccountsInv, AccountsTypeOK, Exists
  <2>8. TableTypes' /\ CashAccountOfEachAccount' /\ ChartsAreOwned'
    BY <2>2 DEF AccountsInv, TableTypes, CashAccountOfEachAccount, ChartsAreOwned, Exists
  <2>9. EveryTransactionIsPosted'
    BY <2>2 DEF AccountsInv, EveryTransactionIsPosted
  <2>10. PostingsStayWithUserStep
    BY <2>2, <2>3 DEF PostingsStayWithUserStep, MayActFor, Line
  <2>11. QED BY <2>5, <2>7, <2>8, <2>9, <2>10 DEF AccountsInv
<1>7. ASSUME NEW caller \in users, NEW t \in TxIds, NEW row \in TxRows,
             RecordTransaction(caller, t, row) \/ UpdateTransaction(caller, t, row)
      PROVE  AccountsInv' /\ PostingsStayWithUserStep
  BY <1>7, PostingATransaction DEF RecordTransaction, UpdateTransaction, MayUse
<1>8. ASSUME NEW caller \in users, NEW t \in TxIds, DeleteTransaction(caller, t)
      PROVE  AccountsInv'
  <2>1. /\ tx' = [tx EXCEPT ![t] = None]
        /\ entries' = entries \ EntriesOf(accounts[tx[t].account].user, t)
        /\ UNCHANGED <<users, accounts, glAccounts>>
    BY <1>8 DEF DeleteTransaction
  <2>2. tx'[t] = None /\ \A s \in TxIds \ {t} : tx'[s] = tx[s]
    BY <1>0, <2>1
  <2>3. \A f \in entries' : TwoLines(f)'
    BY <2>1, EntriesKeepTheirLines
  <2>4. \A f \in entries' : \A l \in f.lines : glAccounts'[l.gl] # None
    BY <2>3 DEF TwoLines, Line
  <2>5. AccountsTypeOK'
    BY <2>1, <2>2, <2>4 DEF AccountsInv, AccountsTypeOK, Exists
  <2>6. TableTypes' /\ CashAccountOfEachAccount' /\ ChartsAreOwned'
    BY <2>1 DEF AccountsInv, TableTypes, CashAccountOfEachAccount, ChartsAreOwned, Exists
  <2>7. EveryTransactionIsPosted'
    BY <2>1, <2>2 DEF AccountsInv, EveryTransactionIsPosted, EntriesOf
  <2>8. QED BY <2>3, <2>5, <2>6, <2>7 DEF AccountsInv
<1>9. CASE UNCHANGED accountsVars
  BY <1>9 DEF accountsVars, AccountsInv, TableTypes, AccountsTypeOK,
      CashAccountOfEachAccount, ChartsAreOwned, EveryTransactionIsPosted, TwoLines,
      Exists, PostingsStayWithUserStep
<1>10. QED
  <2>1. ASSUME NEW u \in Users, CreateUser(u) PROVE PostingsStayWithUserStep
    BY <1>1, <2>1 DEF CreateUser
  <2>2. ASSUME NEW u \in Users, NEW a \in AccountIds, NEW c \in Currencies, Signup(u, a, c)
        PROVE  PostingsStayWithUserStep
    BY <1>1, <2>2 DEF Signup
  <2>3. ASSUME NEW caller \in users, NEW a \in AccountIds, NEW row \in AccountRows,
               CreateAccount(caller, a, row) \/ UpdateAccount(caller, a, row)
        PROVE  AccountsInv' /\ PostingsStayWithUserStep
    BY <1>1, <1>4, <2>3 DEF CreateAccount, UpdateAccount
  <2>4. ASSUME NEW caller \in users, NEW a \in AccountIds, RemoveAccount(caller, a)
        PROVE  PostingsStayWithUserStep
    BY <1>1, <2>4 DEF RemoveAccount
  <2>5. ASSUME NEW caller \in users, NEW t \in TxIds, DeleteTransaction(caller, t)
        PROVE  PostingsStayWithUserStep
    BY <1>1, <2>5 DEF DeleteTransaction
  <2>6. QED BY <1>2, <1>3, <1>5, <1>6, <1>7, <1>8, <1>9, <2>1, <2>2, <2>3, <2>4, <2>5
    DEF AccountsNext

(***************************************************************************)
(* Every table refers to rows that are there, each account has its cash GL *)
(* account, entries have two lines of one amount, and every transaction is *)
(* posted, after any operations of any users.                              *)
(***************************************************************************)
THEOREM AccountsInvariant == AccountsSpec => []AccountsInv
BY AccountsInitial, AccountsInductive, PTL DEF AccountsSpec

(***************************************************************************)
(* Rows refer to rows that are there (accounts.service.ts:152).            *)
(***************************************************************************)
THEOREM RowsResolve == AccountsSpec => []AccountsTypeOK
<1>1. AccountsInv => AccountsTypeOK
  BY DEF AccountsInv
<1>2. QED BY <1>1, AccountsInvariant, PTL

(***************************************************************************)
(* Each account has its own cash GL account, of its user and its currency, *)
(* whatever was updated or handed over (accounts.service.ts:85).           *)
(***************************************************************************)
THEOREM AccountsKeepTheirCash == AccountsSpec => []CashAccountOfEachAccount
<1>1. AccountsInv => CashAccountOfEachAccount
  BY DEF AccountsInv
<1>2. QED BY <1>1, AccountsInvariant, PTL

(***************************************************************************)
(* Every entry balances in one currency, also after the removal of an      *)
(* account it was posted to (gl-validation.util.ts:18).                    *)
(***************************************************************************)
THEOREM EntriesBalance == AccountsSpec => []JournalStaysBalanced
<1>1. AccountsInv => JournalStaysBalanced
  BY TwoLinesBalance DEF AccountsInv, JournalStaysBalanced
<1>2. QED BY <1>1, AccountsInvariant, PTL

(***************************************************************************)
(* A transaction that is there has an entry with a line on the cash GL     *)
(* account of its account (posting.service.ts:52).                         *)
(***************************************************************************)
THEOREM TransactionsArePosted == AccountsSpec => []EveryTransactionIsPosted
<1>1. AccountsInv => EveryTransactionIsPosted
  BY DEF AccountsInv
<1>2. QED BY <1>1, AccountsInvariant, PTL

(***************************************************************************)
(* An entry is written for the user whose GL accounts it is posted to,     *)
(* unless an admin posts by hand (posting.service.ts:87).                  *)
(***************************************************************************)
THEOREM PostingsStay == AccountsSpec => PostingsStayWithUser
<1>1. AccountsInv /\ [AccountsNext]_accountsVars => [PostingsStayWithUserStep]_accountsVars
  BY AccountsInductive
<1>2. QED BY <1>1, AccountsInvariant, PTL DEF AccountsSpec, PostingsStayWithUser
=============================================================================
