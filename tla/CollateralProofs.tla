-------------------------- MODULE CollateralProofs --------------------------

(***************************************************************************)
(* Theorems about Collateral, for every value of its constants.            *)
(*                                                                         *)
(* Between two messages of a transaction the contracts disagree: what the  *)
(* overseer has recorded as locked is not yet locked by the custody        *)
(* contract, what that contract has given up is still in its balance.  The *)
(* difference is exactly what the waiting messages will do.  So every      *)
(* part of the invariant adds to the stores the total effect of the queue; *)
(* a message that runs moves its effect from the queue to the stores.      *)
(***************************************************************************)
EXTENDS Collateral, ArithmeticProofs, SequenceTheorems

Liquidators == {Liquidation, Successor}

\* The messages that may wait.
BankSends == [type : {"bank_send"}, from : {Liquidation},
              to : Users \cup {Market, Overseer}, amount : Nat]
             \cup [type : {"bank_send"}, from : {Market}, to : Users, amount : Nat]
Transfers == [type : {"transfer"}, token : Tokens, from : Custodies \cup {Liquidation},
              to : Users, amount : Nat]
Sends == [type : {"send"}, token : Tokens, from : Custodies, to : Liquidators,
          liquidator : Users, amount : Nat]
Locks == [type : {"lock"}, custody : Custodies, borrower : Users, amount : Nat]
Unlocks == [type : {"unlock"}, custody : Custodies, borrower : Users, amount : Nat]
Liquidates == [type : {"liquidate"}, custody : Custodies, liquidator : Users,
               borrower : Users, amount : Nat]
Executes == [type : {"execute_bid"}, token : Tokens, at : Liquidators,
             liquidator : Users, amount : Nat]
Repays == [type : {"repay"}, borrower : Users, prev_balance : Nat]
Msg == BankSends \cup Transfers \cup Sends \cup Locks \cup Unlocks \cup Liquidates
         \cup Executes \cup Repays

\* What all messages of q add to a quantity to which message m adds f[m].
total(f, q) == SumFunctionOnSet([i \in 1 .. Len(q) |-> f[q[i]]], 1 .. Len(q))

\* Tokens that will leave custody contract c.
Leaving(c) ==
    [m \in Msg |-> IF m.type \in {"transfer", "send"}
                   THEN IF m.from = c /\ m.token = CustodyToken[c] THEN m.amount ELSE 0
                   ELSE 0]

\* Tokens t that pass through liquidation contract a.
Passing(t, a) ==
    [m \in Msg |-> IF m.type = "transfer"
                   THEN IF m.from = a /\ m.token = t THEN m.amount ELSE 0
                   ELSE IF m.type = "execute_bid"
                   THEN IF m.at = a /\ m.token = t THEN m.amount ELSE 0
                   ELSE 0]

\* Coins that account a will send.
Paying(a) ==
    [m \in Msg |-> IF m.type = "bank_send"
                   THEN IF m.from = a THEN m.amount ELSE 0
                   ELSE 0]

\* Collateral t of u to be locked, less what is to be released.
ToLock(u, t) ==
    [m \in Msg |-> IF m.type = "lock"
                   THEN IF m.borrower = u /\ CustodyToken[m.custody] = t THEN m.amount ELSE 0
                   ELSE IF m.type \in {"unlock", "liquidate"}
                   THEN IF m.borrower = u /\ CustodyToken[m.custody] = t THEN -m.amount ELSE 0
                   ELSE 0]

\* Collateral t of u to become spendable, less what is to be locked.
ToFree(u, t) ==
    [m \in Msg |-> IF m.type = "unlock"
                   THEN IF m.borrower = u /\ CustodyToken[m.custody] = t THEN m.amount ELSE 0
                   ELSE IF m.type = "lock"
                   THEN IF m.borrower = u /\ CustodyToken[m.custody] = t THEN -m.amount ELSE 0
                   ELSE 0]

(***************************************************************************)
(* The invariant of the stores, with the messages that wait                *)
(***************************************************************************)
Backed(st, q) ==
    \A c \in Custodies : kept_in(st, c) + total(Leaving(c), q) <= st.cw20[CustodyToken[c]][c]

PassedOn(st, q) ==
    \A t \in Tokens, a \in Liquidators : st.cw20[t][a] = total(Passing(t, a), q)

worth(bid) == IF bid = None THEN 0 ELSE bid.amount
escrowed(st) == SumFunctionOnSet([u \in Users |-> bid_by(st, u)], Users)
Escrowed(st, q) == escrowed(st) + total(Paying(Liquidation), q) <= st.bank[Liquidation]

Agree(st, q) ==
    \A u \in Users, t \in Tokens :
      st.collaterals[u][t] = locked_of(st, u)[t] + total(ToLock(u, t), q)

SpendableHeld(st) ==
    \A c \in Custodies, u \in Users : st.custody[c][u].spendable <= st.custody[c][u].balance

Sound(st, q) ==
    /\ st \in Stores /\ SpendableHeld(st)
    /\ Backed(st, q) /\ PassedOn(st, q) /\ Escrowed(st, q) /\ Agree(st, q)

\* What is locked is of a token on the whitelist.
LockedListed(st, list) ==
    \A u \in Users, t \in Tokens : st.collaterals[u][t] > 0 => list[t] # None

\* A token's custody contract holds that token.
ListedCustody(list) ==
    \A t \in Tokens : list[t] # None => CustodyToken[list[t].custody_contract] = t

(***************************************************************************)
(* What a transaction has done, and its waiting messages will do, against  *)
(* the stores from which it started                                        *)
(***************************************************************************)
\* compute_borrow_limit at the prices prs and with the whitelist list.
limit(prs, list, have) ==
    LET held == {t \in Tokens : have[t] > 0}
    IN  SumFunctionOnSet([t \in held |->
            UintMulDec(UintMulDec(have[t], DecDiv(prs[t].price, One)), list[t].max_ltv)], held)

\* Of ReleasedOnlyIfCovered.
JudgedFor(prs, list, before, after, u) ==
    ~contains(after.collaterals[u], before.collaterals[u]) =>
      \/ limit(prs, list, after.collaterals[u]) >= before.loan[u]
      \/ limit(prs, list, before.collaterals[u]) < before.loan[u]
Judged(prs, list, before, after) == \A u \in Users : JudgedFor(prs, list, before, after, u)

\* Of DebtForgivenIsPaid.
forgiven(before, after) ==
    SumFunctionOnSet([u \in Users |-> before.loan[u] - after.loan[u]], Users)
Paid(before, after, q) ==
    forgiven(before, after) + total(Paying(Market), q) <= after.bank[Market] - before.bank[Market]

\* The repayment comes last; until then the market has paid for nothing, and
\* no loan has moved.
RepayLast(before, after, q) ==
    \A i \in 1 .. Len(q) : q[i].type = "repay" =>
      /\ i = Len(q) /\ q[i].prev_balance = before.bank[Market]
      /\ after.loan = before.loan
      /\ \A j \in 1 .. Len(q) : q[j].type = "bank_send" => q[j].from = Liquidation

\* Of ImplementsLedger: what will be spendable.
free_after(st, q, u) ==
    [t \in Tokens |-> spendable_of(st, u)[t] + total(ToFree(u, t), q)]

NoMore(f, g) == \A t \in Tokens : f[t] <= g[t]
Shift(f, l, f2, l2) == \A t \in Tokens : f2[t] + l2[t] = f[t] + l[t]

Accounted(f, l, f2, l2) ==
    \/ l2 = l /\ NoMore(f, f2)
    \/ l2 = l /\ NoMore(f2, f)
    \/ NoMore(f2, f) /\ Shift(f, l, f2, l2)
    \/ NoMore(f, f2) /\ Shift(f, l, f2, l2)
    \/ f2 = f /\ NoMore(l2, l)

OneAccount(before, after, q) ==
    \E h \in Users :
      /\ \A u \in Users \ {h} : /\ free_after(after, q, u) = spendable_of(before, u)
                                /\ after.collaterals[u] = before.collaterals[u]
      /\ Accounted(spendable_of(before, h), before.collaterals[h],
                   free_after(after, q, h), after.collaterals[h])

Underway(prs, list, before, after, q) ==
    /\ Sound(before, <<>>) /\ LockedListed(before, list)
    /\ Judged(prs, list, before, after) /\ Paid(before, after, q) /\ RepayLast(before, after, q)
    /\ OneAccount(before, after, q)

CInv ==
    /\ TypeOK /\ queue \in Seq(Msg) /\ ListedCustody(whitelist)
    /\ Sound(present, queue) /\ LockedListed(present, whitelist)
    /\ ~Idle => Underway(prices, whitelist, saved, present, queue)

(***************************************************************************)
(* Totals over a queue                                                     *)
(***************************************************************************)
LEMMA IntervalFinite ==
    ASSUME NEW n \in Nat
    PROVE  IsFiniteSet(1 .. n)
BY FS_Interval

LEMMA TotalTerms ==
    ASSUME NEW M, NEW f \in [M -> Int], NEW q \in Seq(M)
    PROVE  /\ Len(q) \in Nat /\ IsFiniteSet(1 .. Len(q))
           /\ \A i \in 1 .. Len(q) : q[i] \in M /\ f[q[i]] \in Int
BY LenProperties, IntervalFinite

LEMMA TotalType ==
    ASSUME NEW M, NEW f \in [M -> Int], NEW q \in Seq(M)
    PROVE  total(f, q) \in Int
<1> DEFINE S == 1 .. Len(q)
           g == [i \in 1 .. Len(q) |-> f[q[i]]]
<1>1. IsFiniteSet(S) /\ \A i \in S : g[i] \in Int
  BY TotalTerms
<1>2. SumFunctionOnSet(g, S) \in Int
  <2> HIDE DEF S, g
  <2> QED
    BY <1>1, SumType
<1> QED
  BY <1>2 DEF total

LEMMA TotalEmpty ==
    ASSUME NEW f
    PROVE  total(f, <<>>) = 0
<1>1. 1 .. Len(<<>>) = {}
  OBVIOUS
<1> QED
  BY <1>1, SumEmpty DEF total

LEMMA TotalZero ==
    ASSUME NEW M, NEW f \in [M -> Int], NEW q \in Seq(M),
           \A i \in 1 .. Len(q) : f[q[i]] = 0
    PROVE  total(f, q) = 0
<1> DEFINE S == 1 .. Len(q)
           g == [i \in 1 .. Len(q) |-> f[q[i]]]
<1>1. IsFiniteSet(S) /\ \A i \in S : g[i] = 0
  BY TotalTerms
<1>2. SumFunctionOnSet(g, S) = 0
  <2> HIDE DEF S, g
  <2> QED
    BY <1>1, SumZero
<1> QED
  BY <1>2 DEF total

\* Only one of the messages counts.
LEMMA TotalSingle ==
    ASSUME NEW M, NEW f \in [M -> Int], NEW q \in Seq(M), NEW n \in 1 .. Len(q),
           \A i \in 1 .. Len(q) : i # n => f[q[i]] = 0
    PROVE  total(f, q) = f[q[n]]
<1> DEFINE S == 1 .. Len(q)
           g == [i \in 1 .. Len(q) |-> f[q[i]]]
<1>1. IsFiniteSet(S) /\ n \in S /\ g[n] \in Int /\ \A i \in S : i # n => g[i] = 0
  BY TotalTerms
<1>2. SumFunctionOnSet(g, S) = g[n]
  <2> HIDE DEF S, g
  <2> QED
    BY <1>1, SumSingle
<1> QED
  BY <1>2 DEF total

Empty(q) == q = <<>>
Single(q, m) == q = <<m>>

LEMMA TotalOne ==
    ASSUME NEW M, NEW f \in [M -> Int], NEW m \in M, NEW q, Single(q, m)
    PROVE  total(f, q) = f[m]
<1>1. q \in Seq(M) /\ Len(q) = 1 /\ q[1] = m
  BY DEF Single
<1>2. 1 \in 1 .. Len(q) /\ \A i \in 1 .. Len(q) : i # 1 => f[q[i]] = 0
  BY <1>1
<1>3. total(f, q) = f[q[1]]
  BY <1>1, <1>2, TotalSingle
<1> QED
  BY <1>1, <1>3

LEMMA TotalConcat ==
    ASSUME NEW M, NEW f \in [M -> Int], NEW s \in Seq(M), NEW t \in Seq(M)
    PROVE  s \o t \in Seq(M) /\ total(f, s \o t) = total(f, s) + total(f, t)
<1> DEFINE q == s \o t
           S == 1 .. Len(s)
           T == 1 .. Len(t)
           b == [i \in T |-> Len(s) + i]
           gq == [i \in 1 .. Len(q) |-> f[q[i]]]
           gs == [i \in 1 .. Len(s) |-> f[s[i]]]
           gt == [i \in 1 .. Len(t) |-> f[t[i]]]
           U == Image(b, T)
<1>1. /\ q \in Seq(M) /\ Len(q) = Len(s) + Len(t) /\ Len(s) \in Nat /\ Len(t) \in Nat
      /\ \A i \in S : q[i] = s[i]
      /\ \A i \in T : q[Len(s) + i] = t[i]
  BY ConcatProperties, LenProperties
<1>2. /\ IsFiniteSet(S) /\ IsFiniteSet(T)
      /\ \A i \in S : gs[i] \in Int
      /\ \A i \in T : gt[i] \in Int
  BY TotalTerms
<1>3. U = Len(s) + 1 .. Len(q) /\ S \cap U = {} /\ S \cup U = 1 .. Len(q)
  <2>1. ASSUME NEW j \in Len(s) + 1 .. Len(q) PROVE j \in U
    <3>1. j - Len(s) \in T /\ b[j - Len(s)] = j
      BY <1>1
    <3> QED
      BY <3>1 DEF Image
  <2>2. \A j \in U : j \in Len(s) + 1 .. Len(q)
    BY <1>1 DEF Image
  <2>3. U = Len(s) + 1 .. Len(q)
    BY <2>1, <2>2
  <2> HIDE DEF U, q
  <2> QED
    BY <1>1, <2>3
<1>4. \A i \in S : gq[i] = gs[i]
  BY <1>1
<1>5. Renames(b, gt, gq, T)
  <2>1. \A i \in T : b[i] \in 1 .. Len(q) /\ b[i] = Len(s) + i
    BY <1>1
  <2>2. \A i \in T : gt[i] \in Int /\ gq[b[i]] = gt[i]
    BY <1>1, <1>2, <2>1
  <2>3. \A x, y \in T : b[x] = b[y] => x = y
    BY <1>1, <2>1
  <2> QED
    BY <2>2, <2>3 DEF Renames
<1>6. SumFunctionOnSet(gq, U) = SumFunctionOnSet(gt, T)
  <2> HIDE DEF T, gt, gq, b
  <2> QED
    BY <1>2, <1>5, SumRename
<1>7. SumFunctionOnSet(gq, S) = SumFunctionOnSet(gs, S)
  <2> HIDE DEF S, gs, gq
  <2> QED
    BY <1>2, <1>4, SumAgree
<1>8. \A i \in S \cup U : gq[i] \in Int
  BY <1>1, <1>3, TotalTerms
<1>9. IsFiniteSet(U)
  BY <1>1, <1>3, FS_Interval
<1>10. SumFunctionOnSet(gq, S \cup U) = SumFunctionOnSet(gq, S) + SumFunctionOnSet(gq, U)
  <2> HIDE DEF S, U, gq
  <2> QED
    BY <1>2, <1>3, <1>8, <1>9, SumUnion
<1>11. total(f, q) = SumFunctionOnSet(gq, S \cup U)
  BY <1>3 DEF total
<1>12. total(f, s) = SumFunctionOnSet(gs, S) /\ total(f, t) = SumFunctionOnSet(gt, T)
  BY DEF total
<1> QED
  BY <1>1, <1>6, <1>7, <1>10, <1>11, <1>12

LEMMA TotalTwo ==
    ASSUME NEW M, NEW f \in [M -> Int], NEW m \in M, NEW n \in M,
           NEW r, r = <<m, n>>
    PROVE  total(f, r) = f[m] + f[n]
<1> DEFINE s == <<m>>
           t == <<n>>
<1>1. /\ s \in Seq(M) /\ t \in Seq(M) /\ r \in Seq(M)
      /\ Len(s) = 1 /\ Len(t) = 1 /\ Len(r) = 2
      /\ s[1] = m /\ t[1] = n /\ r[1] = m /\ r[2] = n
  OBVIOUS
<1>2. total(f, s) = f[m] /\ total(f, t) = f[n]
  <2>1. Single(s, m) /\ Single(t, n)
    BY DEF Single
  <2> HIDE DEF s, t
  <2> QED
    BY <2>1, TotalOne
<1> HIDE DEF s, t
<1>3. total(f, s \o t) = f[m] + f[n]
  BY <1>1, <1>2, TotalConcat
<1>4. /\ s \o t \in Seq(M) /\ Len(s \o t) = 2
      /\ (s \o t)[1] = m /\ (s \o t)[2] = n
  <2>1. /\ s \o t \in Seq(M) /\ Len(s \o t) = Len(s) + Len(t)
        /\ \A i \in 1 .. Len(s) + Len(t) :
             (s \o t)[i] = IF i <= Len(s) THEN s[i] ELSE t[i - Len(s)]
    BY ZenonT(40), <1>1, ConcatProperties
  <2>2. /\ (s \o t)[1] = IF 1 <= Len(s) THEN s[1] ELSE t[1 - Len(s)]
        /\ (s \o t)[2] = IF 2 <= Len(s) THEN s[2] ELSE t[2 - Len(s)]
    BY <1>1, <2>1
  <2> QED
    BY <1>1, <2>1, <2>2
<1>5. s \o t = r
  <2>1. \A i \in 1 .. Len(r) : (s \o t)[i] = r[i]
    BY <1>1, <1>4
  <2> QED
    BY ZenonT(40), <1>1, <1>4, <2>1, SeqEqual
<1> QED
  BY <1>1, <1>3, <1>5

\* A message runs: its effect leaves the queue, that of what it returns comes in.
LEMMA TotalStep ==
    ASSUME NEW M, NEW f \in [M -> Int], NEW q \in Seq(M), q # <<>>, NEW ms \in Seq(M),
           NEW q2, q2 = ms \o Tail(q)
    PROVE  total(f, q2) = total(f, q) - f[Head(q)] + total(f, ms)
<1>1. /\ Head(q) \in M /\ Tail(q) \in Seq(M)
      /\ <<Head(q)>> \in Seq(M) /\ q = <<Head(q)>> \o Tail(q)
  BY HeadTailProperties, SMT
<1>2. total(f, q) = f[Head(q)] + total(f, Tail(q))
  <2>1. total(f, <<Head(q)>> \o Tail(q)) = total(f, <<Head(q)>>) + total(f, Tail(q))
    BY <1>1, TotalConcat
  <2>2. total(f, <<Head(q)>>) = f[Head(q)]
    BY <1>1, TotalOne DEF Single
  <2> QED
    BY <1>1, <2>1, <2>2
<1>3. ms \o Tail(q) \in Seq(M) /\ total(f, ms \o Tail(q)) = total(f, ms) + total(f, Tail(q))
  BY <1>1, TotalConcat
<1>4. f[Head(q)] \in Int /\ total(f, Tail(q)) \in Int /\ total(f, ms) \in Int
  BY <1>1, TotalType
<1> QED
  BY <1>1, <1>2, <1>3, <1>4

(***************************************************************************)
(* What the messages do                                                    *)
(***************************************************************************)
LEMMA MsgTypes ==
    ASSUME NEW m \in Msg
    PROVE  /\ m.type = "bank_send" => m \in BankSends
           /\ m.type = "transfer" => m \in Transfers
           /\ m.type = "send" => m \in Sends
           /\ m.type = "lock" => m \in Locks
           /\ m.type = "unlock" => m \in Unlocks
           /\ m.type = "liquidate" => m \in Liquidates
           /\ m.type = "execute_bid" => m \in Executes
           /\ m.type = "repay" => m \in Repays
           /\ m.type \in {"bank_send", "transfer", "send", "lock", "unlock",
                          "liquidate", "execute_bid", "repay"}
BY DEF Msg, BankSends, Transfers, Sends, Locks, Unlocks, Liquidates, Executes, Repays

LEMMA BankSendParts ==
    ASSUME NEW m \in BankSends
    PROVE  /\ m \in Msg /\ m.type = "bank_send" /\ m.amount \in Nat
           /\ m.from \in {Liquidation, Market} /\ m.to \in Users \cup {Market, Overseer}
           /\ m.from # m.to
BY AccountsAssumption DEF Msg, BankSends, Liquidation, Market, Overseer, Successor

LEMMA TransferParts ==
    ASSUME NEW m \in Transfers
    PROVE  /\ m \in Msg /\ m.type = "transfer" /\ m.amount \in Nat /\ m.token \in Tokens
           /\ m.from \in Custodies \cup {Liquidation} /\ m.to \in Users
BY DEF Msg, Transfers

LEMMA SendParts ==
    ASSUME NEW m \in Sends
    PROVE  /\ m \in Msg /\ m.type = "send" /\ m.amount \in Nat /\ m.token \in Tokens
           /\ m.from \in Custodies /\ m.to \in Liquidators /\ m.liquidator \in Users
BY DEF Msg, Sends

LEMMA LockParts ==
    ASSUME NEW m \in Locks
    PROVE  /\ m \in Msg /\ m.type = "lock" /\ m.amount \in Nat
           /\ m.custody \in Custodies /\ m.borrower \in Users
BY DEF Msg, Locks

LEMMA UnlockParts ==
    ASSUME NEW m \in Unlocks
    PROVE  /\ m \in Msg /\ m.type = "unlock" /\ m.amount \in Nat
           /\ m.custody \in Custodies /\ m.borrower \in Users
BY DEF Msg, Unlocks

LEMMA LiquidateParts ==
    ASSUME NEW m \in Liquidates
    PROVE  /\ m \in Msg /\ m.type = "liquidate" /\ m.amount \in Nat
           /\ m.custody \in Custodies /\ m.borrower \in Users /\ m.liquidator \in Users
BY DEF Msg, Liquidates

LEMMA ExecuteParts ==
    ASSUME NEW m \in Executes
    PROVE  /\ m \in Msg /\ m.type = "execute_bid" /\ m.amount \in Nat /\ m.token \in Tokens
           /\ m.at \in Liquidators /\ m.liquidator \in Users
BY DEF Msg, Executes

LEMMA RepayParts ==
    ASSUME NEW m \in Repays
    PROVE  /\ m \in Msg /\ m.type = "repay" /\ m.borrower \in Users /\ m.prev_balance \in Nat
BY DEF Msg, Repays

LEMMA LeavingType ==
    ASSUME NEW c \in Custodies
    PROVE  Leaving(c) \in [Msg -> Int]
BY MsgTypes, TransferParts, SendParts DEF Leaving

LEMMA PassingType ==
    ASSUME NEW t \in Tokens, NEW a
    PROVE  Passing(t, a) \in [Msg -> Int]
BY MsgTypes, TransferParts, ExecuteParts DEF Passing

LEMMA PayingType ==
    ASSUME NEW a
    PROVE  Paying(a) \in [Msg -> Int]
BY MsgTypes, BankSendParts DEF Paying

LEMMA ToLockType ==
    ASSUME NEW u, NEW t
    PROVE  ToLock(u, t) \in [Msg -> Int]
BY MsgTypes, LockParts, UnlockParts, LiquidateParts DEF ToLock

LEMMA ToFreeType ==
    ASSUME NEW u, NEW t
    PROVE  ToFree(u, t) \in [Msg -> Int]
BY MsgTypes, LockParts, UnlockParts DEF ToFree

(***************************************************************************)
(* The books of the custody contracts                                      *)
(***************************************************************************)
Books == [Custodies -> [Users -> BorrowerInfo]]

\* Only the account of b with c may differ.
Touches(st, st2, c, b) ==
    /\ st.custody \in Books /\ st2.custody \in Books
    /\ \A d \in Custodies, u \in Users :
         d # c \/ u # b => st2.custody[d][u] = st.custody[d][u]

LEMMA BooksParts ==
    ASSUME NEW st, st.custody \in Books, NEW c \in Custodies, NEW u \in Users
    PROVE  /\ st.custody[c][u] \in BorrowerInfo
           /\ st.custody[c][u].balance \in Nat /\ st.custody[c][u].spendable \in Nat
BY DEF Books, BorrowerInfo

LEMMA CustodiesOfFinite ==
    ASSUME NEW t
    PROVE  IsFiniteSet(CustodiesOf(t)) /\ CustodiesOf(t) \subseteq Custodies
<1>1. CustodiesOf(t) \subseteq Custodies
  BY DEF CustodiesOf
<1> QED
  BY <1>1, AccountsAssumption, FS_Subset

LEMMA BooksTypes ==
    ASSUME NEW st, st.custody \in Books
    PROVE  /\ \A c \in Custodies : kept_in(st, c) \in Nat
           /\ \A u \in Users : spendable_of(st, u) \in [Tokens -> Nat]
           /\ \A u \in Users : locked_of(st, u) \in [Tokens -> Int]
<1>1. ASSUME NEW c \in Custodies PROVE kept_in(st, c) \in Nat
  <2> DEFINE f == [u \in Users |-> st.custody[c][u].balance]
  <2>1. \A u \in Users : f[u] \in Nat
    BY BooksParts
  <2>2. SumFunctionOnSet(f, Users) \in Nat
    <3> HIDE DEF f
    <3> QED
      BY <2>1, AccountsAssumption, SumNat
  <2> QED
    BY <2>2 DEF kept_in
<1>2. ASSUME NEW u \in Users, NEW t \in Tokens PROVE spendable_of(st, u)[t] \in Nat
  <2> DEFINE f == [c \in Custodies |-> st.custody[c][u].spendable]
             S == CustodiesOf(t)
  <2>1. IsFiniteSet(S) /\ \A c \in S : f[c] \in Nat
    BY BooksParts, CustodiesOfFinite
  <2>2. SumFunctionOnSet(f, S) \in Nat
    <3> HIDE DEF f, S
    <3> QED
      BY <2>1, SumNat
  <2> QED
    BY <2>2 DEF spendable_of
<1>3. ASSUME NEW u \in Users, NEW t \in Tokens PROVE locked_of(st, u)[t] \in Int
  <2> DEFINE f == [c \in Custodies |-> st.custody[c][u].balance - st.custody[c][u].spendable]
             S == CustodiesOf(t)
  <2>1. IsFiniteSet(S) /\ \A c \in S : f[c] \in Int
    BY BooksParts, CustodiesOfFinite
  <2>2. SumFunctionOnSet(f, S) \in Int
    <3> HIDE DEF f, S
    <3> QED
      BY <2>1, SumType
  <2> QED
    BY <2>2 DEF locked_of
<1>4. \A u \in Users : /\ spendable_of(st, u) = [t \in Tokens |-> spendable_of(st, u)[t]]
                       /\ locked_of(st, u) = [t \in Tokens |-> locked_of(st, u)[t]]
  BY DEF spendable_of, locked_of
<1>5. \A u \in Users : spendable_of(st, u) \in [Tokens -> Nat]
  BY <1>2, <1>4
<1>6. \A u \in Users : locked_of(st, u) \in [Tokens -> Int]
  BY <1>3, <1>4
<1> QED
  BY <1>1, <1>5, <1>6

LEMMA KeptChange ==
    ASSUME NEW st, NEW st2, NEW c \in Custodies, NEW b \in Users, Touches(st, st2, c, b)
    PROVE  /\ kept_in(st2, c) = kept_in(st, c) + st2.custody[c][b].balance
                                  - st.custody[c][b].balance
           /\ \A d \in Custodies : d # c => kept_in(st2, d) = kept_in(st, d)
<1> DEFINE f(d) == [u \in Users |-> st.custody[d][u].balance]
           g(d) == [u \in Users |-> st2.custody[d][u].balance]
<1>1. \A d \in Custodies, u \in Users : f(d)[u] \in Int /\ g(d)[u] \in Int
  BY BooksParts DEF Touches
<1>2. \A d \in Custodies, u \in Users : d # c \/ u # b => g(d)[u] = f(d)[u]
  BY DEF Touches
<1>3. SumFunctionOnSet(g(c), Users) = SumFunctionOnSet(f(c), Users) + g(c)[b] - f(c)[b]
  <2> DEFINE fc == f(c)
             gc == g(c)
  <2>1. /\ \A u \in Users : fc[u] \in Int
        /\ gc[b] \in Int /\ \A u \in Users : u # b => gc[u] = fc[u]
    BY <1>1, <1>2
  <2>2. SumFunctionOnSet(gc, Users) = SumFunctionOnSet(fc, Users) + gc[b] - fc[b]
    <3> HIDE DEF fc, gc
    <3> QED
      BY <2>1, AccountsAssumption, SumChange
  <2> QED
    BY <2>2
<1>4. ASSUME NEW d \in Custodies, d # c
      PROVE  SumFunctionOnSet(g(d), Users) = SumFunctionOnSet(f(d), Users)
  <2> DEFINE fc == f(d)
             gc == g(d)
  <2>1. \A u \in Users : gc[u] = fc[u]
    BY <1>2, <1>4
  <2>2. SumFunctionOnSet(gc, Users) = SumFunctionOnSet(fc, Users)
    <3> HIDE DEF fc, gc
    <3> QED
      BY <2>1, AccountsAssumption, SumAgree
  <2> QED
    BY <2>2
<1> QED
  BY <1>3, <1>4 DEF kept_in

LEMMA SpendableChange ==
    ASSUME NEW st, NEW st2, NEW c \in Custodies, NEW b \in Users, Touches(st, st2, c, b)
    PROVE  spendable_of(st2, b)[CustodyToken[c]] =
             spendable_of(st, b)[CustodyToken[c]] + st2.custody[c][b].spendable
               - st.custody[c][b].spendable
<1> DEFINE f(u) == [d \in Custodies |-> st.custody[d][u].spendable]
           g(u) == [d \in Custodies |-> st2.custody[d][u].spendable]
<1>1. \A d \in Custodies, u \in Users : f(u)[d] \in Int /\ g(u)[d] \in Int
  BY BooksParts DEF Touches
<1>2. \A d \in Custodies, u \in Users : d # c \/ u # b => g(u)[d] = f(u)[d]
  BY DEF Touches
<1>3. c \in CustodiesOf(CustodyToken[c]) /\ CustodyToken[c] \in Tokens
  BY CustodyAssumption DEF CustodiesOf
<1>4. SumFunctionOnSet(g(b), CustodiesOf(CustodyToken[c])) =
        SumFunctionOnSet(f(b), CustodiesOf(CustodyToken[c])) + g(b)[c] - f(b)[c]
  <2> DEFINE fc == f(b)
             gc == g(b)
             S == CustodiesOf(CustodyToken[c])
  <2>1. /\ IsFiniteSet(S) /\ c \in S
        /\ \A d \in S : fc[d] \in Int
        /\ gc[c] \in Int /\ \A d \in S : d # c => gc[d] = fc[d]
    BY <1>1, <1>2, <1>3, CustodiesOfFinite
  <2>2. SumFunctionOnSet(gc, S) = SumFunctionOnSet(fc, S) + gc[c] - fc[c]
    <3> HIDE DEF fc, gc, S
    <3> QED
      BY <2>1, SumChange
  <2> QED
    BY <2>2
<1> QED
  BY <1>3, <1>4 DEF spendable_of

LEMMA SpendableElse ==
    ASSUME NEW st, NEW st2, NEW c \in Custodies, NEW b \in Users, Touches(st, st2, c, b),
           NEW u \in Users, NEW t \in Tokens, u # b \/ t # CustodyToken[c]
    PROVE  spendable_of(st2, u)[t] = spendable_of(st, u)[t]
<1> DEFINE f == [d \in Custodies |-> st.custody[d][u].spendable]
           g == [d \in Custodies |-> st2.custody[d][u].spendable]
           S == CustodiesOf(t)
<1>1. IsFiniteSet(S) /\ \A d \in S : g[d] = f[d]
  BY CustodiesOfFinite DEF Touches, CustodiesOf
<1>2. SumFunctionOnSet(g, S) = SumFunctionOnSet(f, S)
  <2> HIDE DEF f, g, S
  <2> QED
    BY <1>1, SumAgree
<1> QED
  BY <1>2 DEF spendable_of

LEMMA LockedChange ==
    ASSUME NEW st, NEW st2, NEW c \in Custodies, NEW b \in Users, Touches(st, st2, c, b)
    PROVE  locked_of(st2, b)[CustodyToken[c]] =
             locked_of(st, b)[CustodyToken[c]]
               + (st2.custody[c][b].balance - st2.custody[c][b].spendable)
               - (st.custody[c][b].balance - st.custody[c][b].spendable)
<1> DEFINE f(u) == [d \in Custodies |-> st.custody[d][u].balance - st.custody[d][u].spendable]
           g(u) == [d \in Custodies |-> st2.custody[d][u].balance - st2.custody[d][u].spendable]
<1>1. \A d \in Custodies, u \in Users : f(u)[d] \in Int /\ g(u)[d] \in Int
  BY BooksParts DEF Touches
<1>2. \A d \in Custodies, u \in Users : d # c \/ u # b => g(u)[d] = f(u)[d]
  BY DEF Touches
<1>3. c \in CustodiesOf(CustodyToken[c]) /\ CustodyToken[c] \in Tokens
  BY CustodyAssumption DEF CustodiesOf
<1>4. SumFunctionOnSet(g(b), CustodiesOf(CustodyToken[c])) =
        SumFunctionOnSet(f(b), CustodiesOf(CustodyToken[c])) + g(b)[c] - f(b)[c]
  <2> DEFINE fc == f(b)
             gc == g(b)
             S == CustodiesOf(CustodyToken[c])
  <2>1. /\ IsFiniteSet(S) /\ c \in S
        /\ \A d \in S : fc[d] \in Int
        /\ gc[c] \in Int /\ \A d \in S : d # c => gc[d] = fc[d]
    BY <1>1, <1>2, <1>3, CustodiesOfFinite
  <2>2. SumFunctionOnSet(gc, S) = SumFunctionOnSet(fc, S) + gc[c] - fc[c]
    <3> HIDE DEF fc, gc, S
    <3> QED
      BY <2>1, SumChange
  <2> QED
    BY <2>2
<1> QED
  BY <1>3, <1>4 DEF locked_of

LEMMA LockedElse ==
    ASSUME NEW st, NEW st2, NEW c \in Custodies, NEW b \in Users, Touches(st, st2, c, b),
           NEW u \in Users, NEW t \in Tokens, u # b \/ t # CustodyToken[c]
    PROVE  locked_of(st2, u)[t] = locked_of(st, u)[t]
<1> DEFINE f == [d \in Custodies |-> st.custody[d][u].balance - st.custody[d][u].spendable]
           g == [d \in Custodies |-> st2.custody[d][u].balance - st2.custody[d][u].spendable]
           S == CustodiesOf(t)
<1>1. IsFiniteSet(S) /\ \A d \in S : g[d] = f[d]
  BY CustodiesOfFinite DEF Touches, CustodiesOf
<1>2. SumFunctionOnSet(g, S) = SumFunctionOnSet(f, S)
  <2> HIDE DEF f, g, S
  <2> QED
    BY <1>1, SumAgree
<1> QED
  BY <1>2 DEF locked_of

(***************************************************************************)
(* Bids and loans                                                          *)
(***************************************************************************)
BidBooks == [Users -> [Tokens -> Bid \cup {None}]]

\* Only b's bid on token s may differ.
TouchesBid(st, st2, b, s) ==
    /\ st.bids \in BidBooks /\ st2.bids \in BidBooks
    /\ \A u \in Users, t \in Tokens : u # b \/ t # s => st2.bids[u][t] = st.bids[u][t]

LEMMA WorthType ==
    ASSUME NEW bid \in Bid \cup {None}
    PROVE  worth(bid) \in Nat
BY DEF worth, Bid

LEMMA BidByType ==
    ASSUME NEW st, st.bids \in BidBooks, NEW u \in Users
    PROVE  bid_by(st, u) \in Int
<1> DEFINE f == [t \in Tokens |-> IF st.bids[u][t] = None THEN 0 ELSE st.bids[u][t].amount]
<1>1. \A t \in Tokens : f[t] \in Int
  BY DEF BidBooks, Bid
<1>2. SumFunctionOnSet(f, Tokens) \in Int
  <2> HIDE DEF f
  <2> QED
    BY <1>1, AccountsAssumption, SumType
<1> QED
  BY <1>2 DEF bid_by

LEMMA EscrowType ==
    ASSUME NEW st, st.bids \in BidBooks
    PROVE  escrowed(st) \in Int
<1> DEFINE f == [u \in Users |-> bid_by(st, u)]
<1>1. \A u \in Users : f[u] \in Int
  BY BidByType
<1>2. SumFunctionOnSet(f, Users) \in Int
  <2> HIDE DEF f
  <2> QED
    BY <1>1, AccountsAssumption, SumType
<1> QED
  BY <1>2 DEF escrowed

LEMMA EscrowChange ==
    ASSUME NEW st, NEW st2, NEW b \in Users, NEW s \in Tokens, TouchesBid(st, st2, b, s)
    PROVE  escrowed(st2) = escrowed(st) + worth(st2.bids[b][s]) - worth(st.bids[b][s])
<1> DEFINE f(u) == [t \in Tokens |-> IF st.bids[u][t] = None THEN 0 ELSE st.bids[u][t].amount]
           g(u) == [t \in Tokens |-> IF st2.bids[u][t] = None THEN 0 ELSE st2.bids[u][t].amount]
           x == [u \in Users |-> bid_by(st, u)]
           y == [u \in Users |-> bid_by(st2, u)]
<1>1. \A u \in Users, t \in Tokens :
        /\ f(u)[t] \in Int /\ g(u)[t] \in Int
        /\ f(u)[t] = worth(st.bids[u][t]) /\ g(u)[t] = worth(st2.bids[u][t])
        /\ u # b \/ t # s => g(u)[t] = f(u)[t]
  BY DEF TouchesBid, BidBooks, Bid, worth
<1>2. bid_by(st2, b) = bid_by(st, b) + worth(st2.bids[b][s]) - worth(st.bids[b][s])
  <2> DEFINE fb == f(b)
             gb == g(b)
  <2>1. /\ \A t \in Tokens : fb[t] \in Int
        /\ gb[s] \in Int /\ \A t \in Tokens : t # s => gb[t] = fb[t]
        /\ fb[s] = worth(st.bids[b][s]) /\ gb[s] = worth(st2.bids[b][s])
    BY <1>1
  <2>2. SumFunctionOnSet(gb, Tokens) = SumFunctionOnSet(fb, Tokens) + gb[s] - fb[s]
    <3> HIDE DEF fb, gb
    <3> QED
      BY <2>1, AccountsAssumption, SumChange
  <2>3. bid_by(st, b) = SumFunctionOnSet(fb, Tokens) /\ bid_by(st2, b) = SumFunctionOnSet(gb, Tokens)
    BY DEF bid_by
  <2> QED
    BY <2>1, <2>2, <2>3
<1>3. ASSUME NEW u \in Users, u # b PROVE y[u] = x[u]
  <2> DEFINE fb == f(u)
             gb == g(u)
  <2>1. \A t \in Tokens : gb[t] = fb[t]
    BY <1>1, <1>3
  <2>2. SumFunctionOnSet(gb, Tokens) = SumFunctionOnSet(fb, Tokens)
    <3> HIDE DEF fb, gb
    <3> QED
      BY <2>1, AccountsAssumption, SumAgree
  <2> QED
    BY <2>2 DEF bid_by
<1>4. /\ \A u \in Users : x[u] \in Int /\ y[u] \in Int
      /\ x[b] = bid_by(st, b) /\ y[b] = bid_by(st2, b)
  BY BidByType DEF TouchesBid
<1>5. SumFunctionOnSet(y, Users) = SumFunctionOnSet(x, Users) + y[b] - x[b]
  <2> HIDE DEF x, y
  <2> QED
    BY <1>3, <1>4, AccountsAssumption, SumChange
<1>6. escrowed(st) = SumFunctionOnSet(x, Users) /\ escrowed(st2) = SumFunctionOnSet(y, Users)
  BY DEF escrowed
<1>7. /\ escrowed(st) \in Int /\ bid_by(st, b) \in Int
      /\ worth(st2.bids[b][s]) \in Int /\ worth(st.bids[b][s]) \in Int
  BY EscrowType, BidByType, WorthType DEF TouchesBid, BidBooks
<1> HIDE DEF x, y
<1> QED
  BY <1>2, <1>4, <1>5, <1>6, <1>7

LoanBooks == [Users -> Nat]

LEMMA NothingForgiven ==
    ASSUME NEW st, NEW st2, st.loan \in LoanBooks, st2.loan = st.loan
    PROVE  forgiven(st, st2) = 0
<1> DEFINE f == [u \in Users |-> st.loan[u] - st2.loan[u]]
<1>1. \A u \in Users : f[u] = 0
  BY DEF LoanBooks
<1>2. SumFunctionOnSet(f, Users) = 0
  <2> HIDE DEF f
  <2> QED
    BY <1>1, AccountsAssumption, SumZero
<1> QED
  BY <1>2 DEF forgiven

\* The loan of b alone is reduced.
LEMMA OneForgiven ==
    ASSUME NEW st, NEW st2, st.loan \in LoanBooks, st2.loan \in LoanBooks, NEW b \in Users,
           \A u \in Users : u # b => st2.loan[u] = st.loan[u]
    PROVE  forgiven(st, st2) = st.loan[b] - st2.loan[b]
<1> DEFINE f == [u \in Users |-> st.loan[u] - st2.loan[u]]
<1>1. f[b] = st.loan[b] - st2.loan[b] /\ f[b] \in Int /\ \A u \in Users : u # b => f[u] = 0
  BY DEF LoanBooks
<1>2. SumFunctionOnSet(f, Users) = f[b]
  <2> HIDE DEF f
  <2> QED
    BY <1>1, AccountsAssumption, SumSingle
<1> QED
  BY <1>1, <1>2 DEF forgiven

(***************************************************************************)
(* Prices, limits and the amounts to liquidate                             *)
(***************************************************************************)
Priced == prices \in [Tokens -> PriceInfo \cup {None}]
Whitelisted == whitelist \in [Tokens -> Elems \cup {None}]
Goodly == [Tokens -> Nat]

LEMMA RateType ==
    ASSUME Priced, NEW t \in Tokens, NEW frame, price_valid(t, frame)
    PROVE  rate(t) \in Nat
<1>1. prices[t] \in PriceInfo
  BY DEF Priced, price_valid
<1>2. prices[t].price \in Nat /\ One \in Nat /\ One > 0
  BY <1>1, ScaleAssumption DEF PriceInfo, One
<1> QED
  BY <1>2, DecDivNat DEF rate

LEMMA LimitType ==
    ASSUME Priced, Whitelisted, NEW have \in Goodly, can_compute_borrow_limit(have)
    PROVE  compute_borrow_limit(have) \in Nat
<1> DEFINE held == {t \in Tokens : have[t] > 0}
           f == [t \in held |-> UintMulDec(UintMulDec(have[t], rate(t)), whitelist[t].max_ltv)]
<1>1. ASSUME NEW t \in held PROVE f[t] \in Nat
  <2>1. rate(t) \in Nat /\ have[t] \in Nat
    BY RateType DEF can_compute_borrow_limit, Goodly
  <2>2. UintMulDec(have[t], rate(t)) \in Nat
    BY <2>1, UintMulDecBound
  <2>3. whitelist[t] \in Elems
    BY DEF can_compute_borrow_limit, Whitelisted
  <2>4. whitelist[t].max_ltv \in Nat
    <3>1. whitelist[t].max_ltv \in MaxLtvs
      BY <2>3 DEF Elems
    <3>2. \A l \in MaxLtvs : l \in Nat
      <4>1. MaxLtvs \subseteq 0 .. One
        BY CollateralAssumption
      <4> QED
        BY <4>1, SMT
    <3> QED
      BY <3>1, <3>2
  <2> QED
    BY <2>2, <2>4, UintMulDecBound
<1>2. IsFiniteSet(held)
  BY AccountsAssumption, FS_Subset
<1>3. SumFunctionOnSet(f, held) \in Nat
  <2> HIDE DEF held, f
  <2> QED
    BY <1>1, <1>2, SumNat
<1> QED
  BY <1>3 DEF compute_borrow_limit

\* Nothing is covered by nothing, at no price.
LEMMA LimitOfNothing ==
    ASSUME NEW have, \A t \in Tokens : have[t] = 0
    PROVE  can_compute_borrow_limit(have) /\ compute_borrow_limit(have) = 0
<1> DEFINE held == {t \in Tokens : have[t] > 0}
<1>1. held = {}
  OBVIOUS
<1>2. compute_borrow_limit(have) =
        SumFunctionOnSet([t \in held |-> UintMulDec(UintMulDec(have[t], rate(t)),
                                                    whitelist[t].max_ltv)], held)
  BY DEF compute_borrow_limit
<1> QED
  BY <1>1, <1>2, SumEmpty DEF can_compute_borrow_limit

LEMMA ValueType ==
    ASSUME Priced, NEW have \in Goodly, can_compute_borrow_limit(have)
    PROVE  collaterals_value(have) \in Nat
<1> DEFINE held == {t \in Tokens : have[t] > 0}
           f == [t \in held |-> UintMulDec(have[t], rate(t))]
<1>1. ASSUME NEW t \in held PROVE f[t] \in Nat
  <2>1. rate(t) \in Nat /\ have[t] \in Nat
    BY RateType DEF can_compute_borrow_limit, Goodly
  <2> QED
    BY <2>1, UintMulDecBound
<1>2. IsFiniteSet(held)
  BY AccountsAssumption, FS_Subset
<1>3. SumFunctionOnSet(f, held) \in Nat
  <2> HIDE DEF held, f
  <2> QED
    BY <1>1, <1>2, SumNat
<1> QED
  BY <1>3 DEF collaterals_value

\* A part of at most one never makes more.
LEMMA PartBound ==
    ASSUME NEW n \in Nat, NEW d \in 0 .. One
    PROVE  UintMulDec(n, d) \in Nat /\ UintMulDec(n, d) <= n
<1>1. d \in Nat /\ d <= Scale /\ Scale \in Nat /\ Scale > 0
  BY ScaleAssumption DEF One
<1>2. UintMulDec(n, d) \in Nat /\ UintMulDec(n, d) * Scale <= n * d
  BY <1>1, UintMulDecBound
<1>3. d * n <= Scale * n
  BY <1>1, MulMono
<1>4. UintMulDec(n, d) * Scale <= n * Scale
  BY <1>1, <1>2, <1>3
<1> QED
  BY <1>1, <1>2, <1>4, MulCancel

LEMMA ConfigParts ==
    ASSUME NEW cfg \in LiquidationConfigs
    PROVE  /\ cfg.safe_ratio \in 0 .. One /\ cfg.bid_fee \in 0 .. One
           /\ cfg.max_premium_rate \in 0 .. One /\ One \in Nat /\ One > 0
           /\ One = Scale
<1>1. cfg \in [owner : Users, safe_ratio : 0 .. One, bid_fee : 0 .. One,
               max_premium_rate : 0 .. One, liquidation_threshold : Nat,
               price_timeframe : Nat]
  BY CollateralAssumption
<1> QED
  BY <1>1, ScaleAssumption DEF One

LEMMA WholeQuotient ==
    ASSUME NEW n \in Nat, NEW d \in Nat, d > 0
    PROVE  DecDiv(FromUint(n), FromUint(d)) \in Nat
<1>1. n * Scale \in Nat /\ d * Scale \in Nat /\ d * Scale > 0
  BY ScaleAssumption, SMT
<1> QED
  BY <1>1, DecDivNat DEF FromUint

LEMMA RatioBound ==
    ASSUME NEW cfg \in LiquidationConfigs, NEW borrow_amount \in Nat,
           NEW borrow_limit \in Nat, borrow_limit < borrow_amount, NEW value \in Nat
    PROVE  liquidation_ratio(cfg, borrow_amount, borrow_limit, value) \in 0 .. One
<1> DEFINE e == UintMulDec(value, fee_deductor(cfg))
           s == safe_borrow_amount(cfg, borrow_limit)
           part == IF value < cfg.liquidation_threshold
                   THEN DecDiv(FromUint(borrow_amount), FromUint(e))
                   ELSE DecDiv(FromUint(borrow_amount - s), FromUint(e - s))
<1>0. /\ cfg.safe_ratio \in 0 .. One /\ cfg.bid_fee \in Int /\ cfg.max_premium_rate \in Int
      /\ One \in Nat /\ One > 0 /\ One = Scale
  BY ConfigParts
<1>1. s \in Nat /\ s <= borrow_limit
  BY <1>0, PartBound DEF safe_borrow_amount
<1>2. \A a, b \in Int : DecMul(a, b) \in Int
  <2> TAKE a, b \in Int
  <2>1. a * b \in Int
    BY SMT
  <2> QED
    BY <2>1, DivInt, ScaleAssumption DEF DecMul
<1>3. fee_deductor(cfg) \in Int
  <2> DEFINE x == One - cfg.max_premium_rate
             y == One - cfg.bid_fee
             z == One - TaxRate
  <2>1. x \in Int /\ y \in Int /\ z \in Int
    BY <1>0, TaxAssumption
  <2>2. fee_deductor(cfg) = DecMul(DecMul(x, y), z)
    BY DEF fee_deductor
  <2> HIDE DEF x, y, z
  <2>3. DecMul(x, y) \in Int
    BY <1>2, <2>1
  <2> QED
    BY <1>2, <2>1, <2>2, <2>3
<1>4. e \in Int
  <2>1. value * fee_deductor(cfg) \in Int
    BY <1>3, SMT
  <2> QED
    BY <2>1, DivInt, ScaleAssumption DEF UintMulDec
<1>5. liquidation_ratio(cfg, borrow_amount, borrow_limit, value) =
        IF e <= borrow_amount THEN One ELSE Lesser(One, part)
  BY DEF liquidation_ratio
<1>6. CASE e <= borrow_amount
  BY <1>0, <1>5, <1>6
<1>7. CASE ~(e <= borrow_amount)
  <2> HIDE DEF e, s
  <2>1. /\ e \in Nat /\ e > 0 /\ borrow_amount - s \in Nat /\ e - s \in Nat /\ e - s > 0
    BY <1>1, <1>4, <1>7
  <2>2. /\ DecDiv(FromUint(borrow_amount), FromUint(e)) \in Nat
        /\ DecDiv(FromUint(borrow_amount - s), FromUint(e - s)) \in Nat
    BY <2>1, WholeQuotient
  <2>3. part \in Nat
    BY <2>2
  <2> HIDE DEF part
  <2>4. Lesser(One, part) \in 0 .. One
    BY <1>0, <2>3 DEF Lesser
  <2> QED
    BY <1>5, <1>7, <2>4
<1> QED
  BY <1>6, <1>7

\* No more is liquidated than there is.
LEMMA LiquidatedPart ==
    ASSUME Priced, NEW cfg \in LiquidationConfigs, NEW have \in Goodly,
           can_compute_borrow_limit(have), NEW borrow_amount \in Nat,
           NEW borrow_limit \in Nat, borrow_limit < borrow_amount
    PROVE  LET amounts == query_liquidation_amount(cfg, borrow_amount, borrow_limit, have)
           IN  amounts \in Goodly /\ contains(have, amounts)
<1> DEFINE ratio == liquidation_ratio(cfg, borrow_amount, borrow_limit, collaterals_value(have))
<1>1. ratio \in 0 .. One
  BY ValueType, RatioBound
<1>2. query_liquidation_amount(cfg, borrow_amount, borrow_limit, have) =
        [t \in Tokens |-> UintMulDec(have[t], ratio)]
  BY DEF query_liquidation_amount
<1> HIDE DEF ratio
<1>3. \A t \in Tokens : UintMulDec(have[t], ratio) \in Nat /\ UintMulDec(have[t], ratio) <= have[t]
  BY <1>1, PartBound DEF Goodly
<1> QED
  BY <1>2, <1>3 DEF Goodly, contains

(***************************************************************************)
(* The messages for a list of amounts                                      *)
(***************************************************************************)
LEMMA ListedTokens ==
    ASSUME NEW amounts
    PROVE  /\ listed(amounts) \in Seq(Tokens)
           /\ \A i \in 1 .. Len(listed(amounts)) : amounts[listed(amounts)[i]] > 0
           /\ \A t \in Tokens : amounts[t] > 0 =>
                \E i \in 1 .. Len(listed(amounts)) : listed(amounts)[i] = t
           /\ \A i, j \in 1 .. Len(listed(amounts)) :
                listed(amounts)[i] = listed(amounts)[j] => i = j
<1> DEFINE S == {t \in Tokens : amounts[t] > 0}
           n == Cardinality(S)
<1>1. IsFiniteSet(S)
  BY AccountsAssumption, FS_Subset
<1>2. n \in Nat /\ ExistsBijection(1 .. n, S)
  <2> HIDE DEF S
  <2> QED
    BY <1>1, FS_CardinalityType
<1>3. PICK f \in Bijection(1 .. n, S) : TRUE
  BY <1>2 DEF ExistsBijection
<1>4. f \in [1 .. n -> S] /\ IsInjective(f)
  BY <1>3 DEF Bijection, Injection
<1> DEFINE l == listed(amounts)
<1>5. l \in [1 .. n -> S] /\ IsInjective(l)
  BY <1>4 DEF listed, SetToSeq
<1>6. l \in Surjection(1 .. n, S)
  <2>1. l \in Injection(1 .. n, S)
    BY <1>5 DEF Injection
  <2> HIDE DEF S, l
  <2>2. IsFiniteSet(1 .. n) /\ Cardinality(1 .. n) = Cardinality(S)
    BY <1>2, FS_Interval
  <2> QED
    BY <1>1, <2>1, <2>2, FS_Injection
<1>7. l \in Seq(Tokens) /\ Len(l) = n
  <2>1. l \in [1 .. n -> Tokens]
    BY <1>5
  <2> HIDE DEF S, l
  <2>2. l \in Seq(Tokens)
    BY <1>2, <2>1, SeqDef
  <2> QED
    BY <1>2, <2>1, <2>2, LenProperties
<1>8. \A t \in S : \E i \in 1 .. n : l[i] = t
  BY <1>6 DEF Surjection
<1>9. \A i, j \in 1 .. n : l[i] = l[j] => i = j
  BY <1>5 DEF IsInjective
<1> QED
  BY <1>5, <1>7, <1>8, <1>9

LEMMA CallsTotal ==
    ASSUME NEW f \in [Msg -> Int], NEW q \in Seq(Msg), NEW amounts \in Goodly,
           Len(q) = Len(listed(amounts)), NEW t \in Tokens, NEW x \in Int,
           amounts[t] = 0 => x = 0,
           \A i \in 1 .. Len(q) : f[q[i]] = IF listed(amounts)[i] = t THEN x ELSE 0
    PROVE  total(f, q) = x
<1>1. CASE amounts[t] > 0
  <2>1. PICK n \in 1 .. Len(q) : listed(amounts)[n] = t
    BY <1>1, ListedTokens
  <2>2. \A i \in 1 .. Len(q) : i # n => listed(amounts)[i] # t
    BY <2>1, ListedTokens
  <2>3. total(f, q) = f[q[n]]
    BY <2>2, TotalSingle
  <2> QED
    BY <2>1, <2>3
<1>2. CASE ~(amounts[t] > 0)
  <2>1. x = 0
    BY <1>2 DEF Goodly
  <2>2. \A i \in 1 .. Len(q) : f[q[i]] = 0
    BY <2>1
  <2> QED
    BY <2>1, <2>2, TotalZero
<1> QED
  BY <1>1, <1>2

\* q calls, of every token of amounts, the custody contract on the whitelist.
Calls(q, kind, amounts, borrower) ==
    /\ q \in Seq(Msg) /\ Len(q) = Len(listed(amounts))
    /\ \A i \in 1 .. Len(q) :
         /\ q[i].type = kind /\ q[i].borrower = borrower
         /\ q[i].amount = amounts[listed(amounts)[i]]
         /\ CustodyToken[q[i].custody] = listed(amounts)[i]

\* A sequence made from another one element by element.
LEMMA MadeFrom ==
    ASSUME NEW S, NEW l \in Seq(S), NEW M, NEW g, \A i \in 1 .. Len(l) : g[i] \in M,
           g = [i \in DOMAIN l |-> g[i]]
    PROVE  g \in Seq(M) /\ Len(g) = Len(l)
<1>1. Len(l) \in Nat /\ DOMAIN l = 1 .. Len(l)
  BY LenProperties
<1>2. g \in [1 .. Len(l) -> M]
  BY <1>1
<1>3. g \in Seq(M)
  BY <1>1, <1>2, SeqDef
<1> QED
  BY <1>1, <1>2, <1>3, LenProperties

LEMMA ListedCalls ==
    ASSUME Whitelisted, ListedCustody(whitelist), NEW amounts \in Goodly, Registered(amounts),
           NEW i \in 1 .. Len(listed(amounts))
    PROVE  LET t == listed(amounts)[i]
           IN  /\ t \in Tokens /\ amounts[t] \in Nat
               /\ whitelist[t].custody_contract \in Custodies
               /\ CustodyToken[whitelist[t].custody_contract] = t
<1> DEFINE t == listed(amounts)[i]
<1>1. t \in Tokens /\ amounts[t] > 0
  BY ListedTokens, LenProperties
<1>2. whitelist[t] # None
  BY <1>1 DEF Registered
<1>3. whitelist[t] \in Elems
  BY <1>1, <1>2 DEF Whitelisted
<1> QED
  BY <1>1, <1>2, <1>3 DEF Goodly, ListedCustody, Elems

LEMMA LockCalls ==
    ASSUME Whitelisted, ListedCustody(whitelist), NEW amounts \in Goodly, Registered(amounts),
           NEW borrower \in Users
    PROVE  Calls([i \in DOMAIN listed(amounts) |->
                    LET t == listed(amounts)[i]
                    IN  LockMessage(whitelist[t].custody_contract, borrower, amounts[t])],
                 "lock", amounts, borrower)
<1> DEFINE l == listed(amounts)
           g == [i \in DOMAIN listed(amounts) |->
                    LET t == listed(amounts)[i]
                    IN  LockMessage(whitelist[t].custody_contract, borrower, amounts[t])]
<1>1. l \in Seq(Tokens) /\ DOMAIN l = 1 .. Len(l)
  BY ListedTokens, LenProperties
<1>2. ASSUME NEW i \in 1 .. Len(l)
      PROVE  /\ g[i] \in Locks /\ g[i].type = "lock" /\ g[i].borrower = borrower
             /\ g[i].amount = amounts[l[i]] /\ CustodyToken[g[i].custody] = l[i]
  <2>1. g[i] = LockMessage(whitelist[l[i]].custody_contract, borrower, amounts[l[i]])
    BY <1>1
  <2>2. /\ l[i] \in Tokens /\ amounts[l[i]] \in Nat
        /\ whitelist[l[i]].custody_contract \in Custodies
        /\ CustodyToken[whitelist[l[i]].custody_contract] = l[i]
    BY ListedCalls
  <2> HIDE DEF g, l
  <2> QED
    BY <2>1, <2>2 DEF LockMessage, Locks
<1>3. g \in Seq(Msg) /\ Len(g) = Len(l)
  <2>1. g = [i \in DOMAIN l |-> g[i]]
    OBVIOUS
  <2>2. \A i \in 1 .. Len(l) : g[i] \in Msg
    BY <1>2, LockParts
  <2> HIDE DEF g, l
  <2> QED
    BY <1>1, <2>1, <2>2, MadeFrom
<1> HIDE DEF g
<1>4. Calls(g, "lock", amounts, borrower)
  BY <1>2, <1>3 DEF Calls
<1> QED
  BY <1>4 DEF g

LEMMA UnlockCalls ==
    ASSUME Whitelisted, ListedCustody(whitelist), NEW amounts \in Goodly, Registered(amounts),
           NEW borrower \in Users
    PROVE  Calls([i \in DOMAIN listed(amounts) |->
                    LET t == listed(amounts)[i]
                    IN  UnlockMessage(whitelist[t].custody_contract, borrower, amounts[t])],
                 "unlock", amounts, borrower)
<1> DEFINE l == listed(amounts)
           g == [i \in DOMAIN listed(amounts) |->
                    LET t == listed(amounts)[i]
                    IN  UnlockMessage(whitelist[t].custody_contract, borrower, amounts[t])]
<1>1. l \in Seq(Tokens) /\ DOMAIN l = 1 .. Len(l)
  BY ListedTokens, LenProperties
<1>2. ASSUME NEW i \in 1 .. Len(l)
      PROVE  /\ g[i] \in Unlocks /\ g[i].type = "unlock" /\ g[i].borrower = borrower
             /\ g[i].amount = amounts[l[i]] /\ CustodyToken[g[i].custody] = l[i]
  <2>1. g[i] = UnlockMessage(whitelist[l[i]].custody_contract, borrower, amounts[l[i]])
    BY <1>1
  <2>2. /\ l[i] \in Tokens /\ amounts[l[i]] \in Nat
        /\ whitelist[l[i]].custody_contract \in Custodies
        /\ CustodyToken[whitelist[l[i]].custody_contract] = l[i]
    BY ListedCalls
  <2> HIDE DEF g, l
  <2> QED
    BY <2>1, <2>2 DEF UnlockMessage, Unlocks
<1>3. g \in Seq(Msg) /\ Len(g) = Len(l)
  <2>1. g = [i \in DOMAIN l |-> g[i]]
    OBVIOUS
  <2>2. \A i \in 1 .. Len(l) : g[i] \in Msg
    BY <1>2, UnlockParts
  <2> HIDE DEF g, l
  <2> QED
    BY <1>1, <2>1, <2>2, MadeFrom
<1> HIDE DEF g
<1>4. Calls(g, "unlock", amounts, borrower)
  BY <1>2, <1>3 DEF Calls
<1> QED
  BY <1>4 DEF g

LEMMA LiquidateCalls ==
    ASSUME Whitelisted, ListedCustody(whitelist), NEW amounts \in Goodly, Registered(amounts),
           NEW borrower \in Users, NEW liquidator \in Users
    PROVE  Calls([i \in DOMAIN listed(amounts) |->
                    LET t == listed(amounts)[i]
                    IN  LiquidateMessage(whitelist[t].custody_contract,
                                         liquidator, borrower, amounts[t])],
                 "liquidate", amounts, borrower)
<1> DEFINE l == listed(amounts)
           g == [i \in DOMAIN listed(amounts) |->
                    LET t == listed(amounts)[i]
                    IN  LiquidateMessage(whitelist[t].custody_contract,
                                         liquidator, borrower, amounts[t])]
<1>1. l \in Seq(Tokens) /\ DOMAIN l = 1 .. Len(l)
  BY ListedTokens, LenProperties
<1>2. ASSUME NEW i \in 1 .. Len(l)
      PROVE  /\ g[i] \in Liquidates /\ g[i].type = "liquidate" /\ g[i].borrower = borrower
             /\ g[i].amount = amounts[l[i]] /\ CustodyToken[g[i].custody] = l[i]
  <2>1. g[i] = LiquidateMessage(whitelist[l[i]].custody_contract, liquidator, borrower,
                                amounts[l[i]])
    BY <1>1
  <2>2. /\ l[i] \in Tokens /\ amounts[l[i]] \in Nat
        /\ whitelist[l[i]].custody_contract \in Custodies
        /\ CustodyToken[whitelist[l[i]].custody_contract] = l[i]
    BY ListedCalls
  <2> HIDE DEF g, l
  <2> QED
    BY <2>1, <2>2 DEF LiquidateMessage, Liquidates
<1>3. g \in Seq(Msg) /\ Len(g) = Len(l)
  <2>1. g = [i \in DOMAIN l |-> g[i]]
    OBVIOUS
  <2>2. \A i \in 1 .. Len(l) : g[i] \in Msg
    BY <1>2, LiquidateParts
  <2> HIDE DEF g, l
  <2> QED
    BY <1>1, <2>1, <2>2, MadeFrom
<1> HIDE DEF g
<1>4. Calls(g, "liquidate", amounts, borrower)
  BY <1>2, <1>3 DEF Calls
<1> QED
  BY <1>4 DEF g

\* Calls of custody contracts move no tokens and no coins themselves.
LEMMA CallsMoveNothing ==
    ASSUME NEW q, NEW kind \in {"lock", "unlock", "liquidate"}, NEW amounts, NEW borrower,
           Calls(q, kind, amounts, borrower)
    PROVE  /\ \A c \in Custodies : total(Leaving(c), q) = 0
           /\ \A t \in Tokens, a \in Liquidators : total(Passing(t, a), q) = 0
           /\ \A a \in Accounts : total(Paying(a), q) = 0
<1>1. /\ q \in Seq(Msg)
      /\ \A i \in 1 .. Len(q) : q[i] \in Msg /\ q[i].type = kind
  BY LenProperties DEF Calls
<1>2. ASSUME NEW c \in Custodies PROVE total(Leaving(c), q) = 0
  <2>1. \A i \in 1 .. Len(q) : Leaving(c)[q[i]] = 0
    BY <1>1 DEF Leaving
  <2> QED
    BY <1>1, <2>1, TotalZero, LeavingType
<1>3. ASSUME NEW t \in Tokens, NEW a \in Liquidators PROVE total(Passing(t, a), q) = 0
  <2>1. \A i \in 1 .. Len(q) : Passing(t, a)[q[i]] = 0
    BY <1>1 DEF Passing
  <2> QED
    BY <1>1, <2>1, TotalZero, PassingType
<1>4. ASSUME NEW a \in Accounts PROVE total(Paying(a), q) = 0
  <2>1. \A i \in 1 .. Len(q) : Paying(a)[q[i]] = 0
    BY <1>1 DEF Paying
  <2> QED
    BY <1>1, <2>1, TotalZero, PayingType
<1> QED
  BY <1>2, <1>3, <1>4

LEMMA LockCallsEffect ==
    ASSUME NEW q, NEW amounts \in Goodly, NEW borrower \in Users,
           Calls(q, "lock", amounts, borrower), NEW u \in Users, NEW t \in Tokens
    PROVE  /\ total(ToLock(u, t), q) = IF u = borrower THEN amounts[t] ELSE 0
           /\ total(ToFree(u, t), q) = IF u = borrower THEN -amounts[t] ELSE 0
<1> DEFINE x == IF u = borrower THEN amounts[t] ELSE 0
           y == IF u = borrower THEN -amounts[t] ELSE 0
<1>1. /\ q \in Seq(Msg) /\ Len(q) = Len(listed(amounts))
      /\ \A i \in 1 .. Len(q) :
         /\ q[i] \in Msg /\ q[i].type = "lock" /\ q[i].borrower = borrower
         /\ q[i].amount = amounts[listed(amounts)[i]]
         /\ CustodyToken[q[i].custody] = listed(amounts)[i]
  BY LenProperties DEF Calls
<1>2. x \in Int /\ y \in Int /\ (amounts[t] = 0 => x = 0 /\ y = 0)
  BY DEF Goodly
<1>3. \A i \in 1 .. Len(q) : ToLock(u, t)[q[i]] = IF listed(amounts)[i] = t THEN x ELSE 0
  BY <1>1 DEF ToLock
<1>4. \A i \in 1 .. Len(q) : ToFree(u, t)[q[i]] = IF listed(amounts)[i] = t THEN y ELSE 0
  BY <1>1 DEF ToFree
<1> HIDE DEF x, y
<1>5. total(ToLock(u, t), q) = x
  BY <1>1, <1>2, <1>3, ToLockType, CallsTotal
<1>6. total(ToFree(u, t), q) = y
  BY <1>1, <1>2, <1>4, ToFreeType, CallsTotal
<1> QED
  BY <1>5, <1>6 DEF x, y

LEMMA UnlockCallsEffect ==
    ASSUME NEW q, NEW amounts \in Goodly, NEW borrower \in Users,
           Calls(q, "unlock", amounts, borrower), NEW u \in Users, NEW t \in Tokens
    PROVE  /\ total(ToLock(u, t), q) = IF u = borrower THEN -amounts[t] ELSE 0
           /\ total(ToFree(u, t), q) = IF u = borrower THEN amounts[t] ELSE 0
<1> DEFINE x == IF u = borrower THEN amounts[t] ELSE 0
           y == IF u = borrower THEN -amounts[t] ELSE 0
<1>1. /\ q \in Seq(Msg) /\ Len(q) = Len(listed(amounts))
      /\ \A i \in 1 .. Len(q) :
         /\ q[i] \in Msg /\ q[i].type = "unlock" /\ q[i].borrower = borrower
         /\ q[i].amount = amounts[listed(amounts)[i]]
         /\ CustodyToken[q[i].custody] = listed(amounts)[i]
  BY LenProperties DEF Calls
<1>2. x \in Int /\ y \in Int /\ (amounts[t] = 0 => x = 0 /\ y = 0)
  BY DEF Goodly
<1>3. \A i \in 1 .. Len(q) : ToLock(u, t)[q[i]] = IF listed(amounts)[i] = t THEN y ELSE 0
  BY <1>1 DEF ToLock
<1>4. \A i \in 1 .. Len(q) : ToFree(u, t)[q[i]] = IF listed(amounts)[i] = t THEN x ELSE 0
  BY <1>1 DEF ToFree
<1> HIDE DEF x, y
<1>5. total(ToLock(u, t), q) = y
  BY <1>1, <1>2, <1>3, ToLockType, CallsTotal
<1>6. total(ToFree(u, t), q) = x
  BY <1>1, <1>2, <1>4, ToFreeType, CallsTotal
<1> QED
  BY <1>5, <1>6 DEF x, y

LEMMA LiquidateCallsEffect ==
    ASSUME NEW q, NEW amounts \in Goodly, NEW borrower \in Users,
           Calls(q, "liquidate", amounts, borrower), NEW u \in Users, NEW t \in Tokens
    PROVE  /\ total(ToLock(u, t), q) = IF u = borrower THEN -amounts[t] ELSE 0
           /\ total(ToFree(u, t), q) = 0
<1> DEFINE y == IF u = borrower THEN -amounts[t] ELSE 0
<1>1. /\ q \in Seq(Msg) /\ Len(q) = Len(listed(amounts))
      /\ \A i \in 1 .. Len(q) :
         /\ q[i] \in Msg /\ q[i].type = "liquidate" /\ q[i].borrower = borrower
         /\ q[i].amount = amounts[listed(amounts)[i]]
         /\ CustodyToken[q[i].custody] = listed(amounts)[i]
  BY LenProperties DEF Calls
<1>2. y \in Int /\ (amounts[t] = 0 => y = 0)
  BY DEF Goodly
<1>3. \A i \in 1 .. Len(q) : ToLock(u, t)[q[i]] = IF listed(amounts)[i] = t THEN y ELSE 0
  BY <1>1 DEF ToLock
<1>4. \A i \in 1 .. Len(q) : ToFree(u, t)[q[i]] = 0
  BY <1>1 DEF ToFree
<1> HIDE DEF y
<1>5. total(ToLock(u, t), q) = y
  BY <1>1, <1>2, <1>3, ToLockType, CallsTotal
<1>6. total(ToFree(u, t), q) = 0
  BY <1>1, <1>4, ToFreeType, TotalZero
<1> QED
  BY <1>5, <1>6 DEF y

(***************************************************************************)
(* The stores                                                              *)
(***************************************************************************)
IsStore(st) ==
    st = [bank |-> st.bank, cw20 |-> st.cw20, bids |-> st.bids, custody |-> st.custody,
          collaterals |-> st.collaterals, loan |-> st.loan]

LEMMA StoreParts ==
    ASSUME NEW st
    PROVE  st \in Stores <=>
             /\ IsStore(st)
             /\ st.bank \in [Accounts -> Nat] /\ st.cw20 \in [Tokens -> [Accounts -> Nat]]
             /\ st.bids \in BidBooks /\ st.custody \in Books
             /\ st.collaterals \in [Users -> Goodly] /\ st.loan \in LoanBooks
BY DEF Stores, IsStore, BidBooks, Books, Goodly, LoanBooks

\* What depends on the books of the custody contracts, and on the bids.
LEMMA BooksFrame ==
    ASSUME NEW st, NEW st2, st2.custody = st.custody
    PROVE  /\ \A c \in Custodies : kept_in(st2, c) = kept_in(st, c)
           /\ \A u \in Users : /\ spendable_of(st2, u) = spendable_of(st, u)
                               /\ locked_of(st2, u) = locked_of(st, u)
           /\ SpendableHeld(st) => SpendableHeld(st2)
BY DEF kept_in, spendable_of, locked_of, SpendableHeld

LEMMA BidsFrame ==
    ASSUME NEW st, NEW st2, st2.bids = st.bids
    PROVE  escrowed(st2) = escrowed(st)
BY DEF escrowed, bid_by

\* The first message of q runs and returns ms.
Steps(q, ms, q2) ==
    /\ q \in Seq(Msg) /\ q # <<>> /\ ms \in Seq(Msg)
    /\ q2 = ms \o Tail(q)

\* The total of every kind afterwards.
LEMMA StepTotals ==
    ASSUME NEW q, NEW ms, NEW q2, Steps(q, ms, q2)
    PROVE  /\ q2 \in Seq(Msg) /\ Head(q) \in Msg
           /\ \A c \in Custodies :
                total(Leaving(c), q2) =
                  total(Leaving(c), q) - Leaving(c)[Head(q)] + total(Leaving(c), ms)
           /\ \A t \in Tokens, a \in Liquidators :
                total(Passing(t, a), q2) =
                  total(Passing(t, a), q) - Passing(t, a)[Head(q)] + total(Passing(t, a), ms)
           /\ \A a \in Accounts :
                total(Paying(a), q2) =
                  total(Paying(a), q) - Paying(a)[Head(q)] + total(Paying(a), ms)
           /\ \A u \in Users, t \in Tokens :
                /\ total(ToLock(u, t), q2) =
                     total(ToLock(u, t), q) - ToLock(u, t)[Head(q)] + total(ToLock(u, t), ms)
                /\ total(ToFree(u, t), q2) =
                     total(ToFree(u, t), q) - ToFree(u, t)[Head(q)] + total(ToFree(u, t), ms)
<1>0. q \in Seq(Msg) /\ q # <<>> /\ ms \in Seq(Msg) /\ q2 = ms \o Tail(q)
  BY DEF Steps
<1>1. q2 \in Seq(Msg) /\ Head(q) \in Msg
  BY <1>0, HeadTailProperties, ConcatProperties
<1>2. ASSUME NEW f \in [Msg -> Int]
      PROVE  total(f, q2) = total(f, q) - f[Head(q)] + total(f, ms)
  BY <1>0, TotalStep
<1> QED
  BY <1>1, <1>2, LeavingType, PassingType, PayingType, ToLockType, ToFreeType

\* All totals are integers.
LEMMA TotalTypes ==
    ASSUME NEW q \in Seq(Msg)
    PROVE  /\ \A c \in Custodies : total(Leaving(c), q) \in Int
           /\ \A t \in Tokens, a \in Liquidators : total(Passing(t, a), q) \in Int
           /\ \A a \in Accounts : total(Paying(a), q) \in Int
           /\ \A u \in Users, t \in Tokens : /\ total(ToLock(u, t), q) \in Int
                                             /\ total(ToFree(u, t), q) \in Int
<1>1. \A f \in [Msg -> Int] : total(f, q) \in Int
  BY TotalType
<1> QED
  BY <1>1, LeavingType, PassingType, PayingType, ToLockType, ToFreeType

(***************************************************************************)
(* A message runs: the stores become st2, the queue q2                     *)
(***************************************************************************)
Runs(before, st, q, st2, q2) ==
    /\ q2 \in Seq(Msg) /\ Sound(st2, q2)
    /\ st2.collaterals = st.collaterals
    /\ \A u \in Users : free_after(st2, q2, u) = free_after(st, q, u)
    /\ Paid(before, st, q) /\ RepayLast(before, st, q) =>
         Paid(before, st2, q2) /\ RepayLast(before, st2, q2)

\* What a message other than the repayment returns.
Replies(ms) ==
    \A i \in 1 .. Len(ms) : /\ ms[i].type # "repay"
                            /\ ms[i].type = "bank_send" => ms[i].from = Liquidation

LEMMA RepayStaysLast ==
    ASSUME NEW before, NEW st, NEW st2, st2.loan = st.loan,
           NEW q, NEW ms, NEW q2, Steps(q, ms, q2), Head(q).type # "repay", Replies(ms),
           RepayLast(before, st, q)
    PROVE  RepayLast(before, st2, q2)
<1>0. q \in Seq(Msg) /\ q # <<>> /\ ms \in Seq(Msg) /\ q2 = ms \o Tail(q)
  BY DEF Steps
<1>1. /\ Tail(q) \in Seq(Msg) /\ Len(Tail(q)) = Len(q) - 1
      /\ Len(q) \in Nat /\ Len(q) > 0 /\ Len(ms) \in Nat
      /\ \A i \in 1 .. Len(Tail(q)) : Tail(q)[i] = q[i + 1]
  BY <1>0, HeadTailProperties, LenProperties, EmptySeq
<1>2. /\ Len(q2) = Len(ms) + Len(q) - 1
      /\ \A i \in 1 .. Len(ms) : q2[i] = ms[i]
      /\ \A i \in 1 .. Len(q2) : i > Len(ms) => q2[i] = Tail(q)[i - Len(ms)]
  BY <1>0, <1>1, ConcatProperties
<1>3. ASSUME NEW i \in 1 .. Len(q2), i > Len(ms)
      PROVE  /\ i - Len(ms) + 1 \in 1 .. Len(q)
             /\ q2[i] = q[i - Len(ms) + 1]
  <2>1. i - Len(ms) \in 1 .. Len(Tail(q))
    BY <1>1, <1>2, <1>3
  <2> QED
    BY <1>1, <1>2, <1>3, <2>1
<1>4. ASSUME NEW i \in 1 .. Len(q2), q2[i].type = "repay"
      PROVE  /\ i = Len(q2) /\ q2[i].prev_balance = before.bank[Market]
             /\ st2.loan = before.loan
             /\ \A j \in 1 .. Len(q2) : q2[j].type = "bank_send" => q2[j].from = Liquidation
  <2>1. i > Len(ms)
    <3>1. i <= Len(ms) => ms[i].type # "repay"
      BY <1>1 DEF Replies
    <3> QED
      BY <1>1, <1>2, <1>4, <3>1
  <2>2. /\ i - Len(ms) + 1 \in 1 .. Len(q) /\ q2[i] = q[i - Len(ms) + 1]
        /\ q[i - Len(ms) + 1].type = "repay"
    BY <1>3, <1>4, <2>1
  <2>3. /\ i - Len(ms) + 1 = Len(q)
        /\ q[i - Len(ms) + 1].prev_balance = before.bank[Market]
        /\ st.loan = before.loan
        /\ \A j \in 1 .. Len(q) : q[j].type = "bank_send" => q[j].from = Liquidation
    BY <2>2 DEF RepayLast
  <2>4. ASSUME NEW j \in 1 .. Len(q2), q2[j].type = "bank_send" PROVE q2[j].from = Liquidation
    <3>1. CASE j > Len(ms)
      BY <1>3, <2>3, <2>4, <3>1
    <3>2. CASE ~(j > Len(ms))
      <4>1. j \in 1 .. Len(ms)
        BY <1>1, <1>2, <3>2
      <4> QED
        BY <1>2, <2>4, <4>1 DEF Replies
    <3> QED
      BY <3>1, <3>2
  <2> QED
    BY <1>1, <1>2, <2>2, <2>3, <2>4
<1> QED
  BY <1>4 DEF RepayLast

LEMMA Addresses ==
    /\ Users \subseteq Accounts /\ Custodies \subseteq Accounts /\ Liquidators \subseteq Accounts
    /\ Market \in Accounts /\ Overseer \in Accounts /\ Liquidation \in Liquidators
    /\ \A u \in Users : u \notin Custodies /\ u \notin Liquidators /\ u # Market
    /\ \A c \in Custodies : c \notin Liquidators /\ c # Market
    /\ Market \notin Liquidators /\ Overseer \notin Liquidators
    /\ Liquidation # Market /\ Liquidation # Overseer /\ Market # Overseer
BY AccountsAssumption DEF Accounts, Liquidators, Overseer, Market, Liquidation, Successor

LEMMA MovedParts ==
    ASSUME NEW bal \in [Accounts -> Nat], NEW from \in Accounts, NEW to \in Accounts,
           from # to, NEW amount \in Nat, amount <= bal[from]
    PROVE  /\ moved(bal, from, to, amount) \in [Accounts -> Nat]
           /\ moved(bal, from, to, amount)[from] = bal[from] - amount
           /\ moved(bal, from, to, amount)[to] = bal[to] + amount
           /\ \A a \in Accounts : a # from /\ a # to =>
                moved(bal, from, to, amount)[a] = bal[a]
BY DEF moved

\* out leaves the account from, net arrives at the account to.
Pays(bal, bal2, from, to, out, net) ==
    bal2 = [bal EXCEPT ![from] = @ - out, ![to] = @ + net]

LEMMA SentParts ==
    ASSUME NEW bal \in [Accounts -> Nat], NEW from \in Accounts, NEW to \in Accounts,
           from # to, NEW amount \in Nat, NEW out \in Nat, NEW net \in Nat, out <= amount,
           out <= bal[from], NEW bal2,
           Pays(bal, bal2, from, to, out, net)
    PROVE  /\ bal2 \in [Accounts -> Nat]
           /\ \A a \in Accounts : bal2[a] >= bal[a] - (IF a = from THEN amount ELSE 0)
<1>1. \A a \in Accounts :
        bal2[a] = IF a = from THEN bal[a] - out ELSE IF a = to THEN bal[a] + net ELSE bal[a]
  BY DEF Pays
<1>2. bal2 = [a \in Accounts |-> bal2[a]]
  BY DEF Pays
<1>3. \A a \in Accounts : bal2[a] \in Nat
  BY <1>1
<1>4. bal2 \in [Accounts -> Nat]
  BY <1>2, <1>3
<1> QED
  BY <1>1, <1>4

LEMMA ForgivenType ==
    ASSUME NEW st, NEW st2, st.loan \in LoanBooks, st2.loan \in LoanBooks
    PROVE  forgiven(st, st2) \in Int
<1> DEFINE f == [u \in Users |-> st.loan[u] - st2.loan[u]]
<1>1. \A u \in Users : f[u] \in Int
  BY DEF LoanBooks
<1>2. SumFunctionOnSet(f, Users) \in Int
  <2> HIDE DEF f
  <2> QED
    BY <1>1, AccountsAssumption, SumType
<1> QED
  BY <1>2 DEF forgiven

\* The message m runs and returns ms.
Waits(before, st, q, m, ms, q2) ==
    /\ Steps(q, ms, q2) /\ m = Head(q)
    /\ Sound(st, q) /\ before \in Stores

\* The parts of Sound and Paid that depend on neither what moves nor the queue.
LEMMA SameBooks ==
    ASSUME NEW st, NEW st2, NEW q \in Seq(Msg), NEW q2 \in Seq(Msg),
           st2.custody = st.custody, st.custody \in Books,
           \A u \in Users, t \in Tokens :
             /\ total(ToFree(u, t), q2) = total(ToFree(u, t), q)
             /\ total(ToLock(u, t), q2) = total(ToLock(u, t), q)
    PROVE  /\ \A u \in Users : free_after(st2, q2, u) = free_after(st, q, u)
           /\ st2.collaterals = st.collaterals /\ Agree(st, q) => Agree(st2, q2)
<1>1. \A u \in Users : /\ spendable_of(st2, u) = spendable_of(st, u)
                       /\ locked_of(st2, u) = locked_of(st, u)
  BY BooksFrame
<1>2. ASSUME NEW u \in Users PROVE free_after(st2, q2, u) = free_after(st, q, u)
  BY <1>1 DEF free_after
<1> QED
  BY <1>1, <1>2 DEF Agree

LEMMA BankSendRuns ==
    ASSUME NEW before, NEW st, NEW q, NEW m, NEW ms, NEW q2, Waits(before, st, q, m, ms, q2),
           m.type = "bank_send", Outlay(m.amount) <= st.bank[m.from], ms = <<>>,
           NEW st2, IsStore(st2),
           Pays(st.bank, st2.bank, m.from, m.to, Outlay(m.amount), deduct_tax(m.amount)),
           st2.cw20 = st.cw20, st2.bids = st.bids, st2.custody = st.custody,
           st2.collaterals = st.collaterals, st2.loan = st.loan
    PROVE  Runs(before, st, q, st2, q2)
<1>0. Steps(q, ms, q2) /\ m = Head(q) /\ Sound(st, q) /\ before \in Stores
  BY DEF Waits
<1>1. /\ st.bank \in [Accounts -> Nat] /\ st.cw20 \in [Tokens -> [Accounts -> Nat]]
      /\ st.bids \in BidBooks /\ st.custody \in Books
      /\ st.collaterals \in [Users -> Goodly] /\ st.loan \in LoanBooks
      /\ before.loan \in LoanBooks /\ before.bank \in [Accounts -> Nat]
  BY <1>0, StoreParts DEF Sound
<1>2. m \in BankSends /\ q \in Seq(Msg) /\ q2 \in Seq(Msg)
  BY <1>0, MsgTypes, StepTotals DEF Steps
<1>3. /\ m.amount \in Nat /\ m.from \in {Liquidation, Market}
      /\ m.to \in Users \cup {Market, Overseer} /\ m.from \in Accounts /\ m.to \in Accounts
      /\ m.from # m.to
  BY <1>2, BankSendParts, Addresses
<1>4. /\ deduct_tax(m.amount) \in Nat /\ Outlay(m.amount) \in Nat
      /\ Outlay(m.amount) <= m.amount
  BY <1>3, OutlayBound
<1>5. /\ st2.bank \in [Accounts -> Nat]
      /\ \A a \in Accounts :
           st2.bank[a] >= st.bank[a] - (IF a = m.from THEN m.amount ELSE 0)
  BY <1>1, <1>3, <1>4, SentParts
<1>6. \A f : total(f, ms) = 0
  BY TotalEmpty
<1>7. /\ \A c \in Custodies : Leaving(c)[m] = 0
      /\ \A t \in Tokens, a \in Liquidators : Passing(t, a)[m] = 0
      /\ \A a \in Accounts : Paying(a)[m] = IF a = m.from THEN m.amount ELSE 0
      /\ \A u \in Users, t \in Tokens : ToLock(u, t)[m] = 0 /\ ToFree(u, t)[m] = 0
  BY <1>2, BankSendParts DEF Leaving, Passing, Paying, ToLock, ToFree
<1>8. /\ \A c \in Custodies : total(Leaving(c), q2) = total(Leaving(c), q)
      /\ \A t \in Tokens, a \in Liquidators : total(Passing(t, a), q2) = total(Passing(t, a), q)
      /\ \A u \in Users, t \in Tokens :
           /\ total(ToLock(u, t), q2) = total(ToLock(u, t), q)
           /\ total(ToFree(u, t), q2) = total(ToFree(u, t), q)
  BY <1>0, <1>2, <1>6, <1>7, StepTotals, TotalTypes
<1>9. \A a \in Accounts :
        /\ total(Paying(a), q2) = total(Paying(a), q) - (IF a = m.from THEN m.amount ELSE 0)
        /\ total(Paying(a), q) \in Int
  BY <1>0, <1>2, <1>3, <1>6, <1>7, StepTotals, TotalTypes
<1>10. SpendableHeld(st2) /\ Backed(st2, q2) /\ PassedOn(st2, q2)
  BY <1>0, <1>8, BooksFrame DEF Sound, Backed, PassedOn
<1>11. Escrowed(st2, q2)
  <2>1. escrowed(st2) = escrowed(st) /\ escrowed(st) \in Int
    BY <1>1, BidsFrame, EscrowType
  <2>2. escrowed(st) + total(Paying(Liquidation), q) <= st.bank[Liquidation]
    BY <1>0 DEF Sound, Escrowed
  <2>3. Liquidation \in Accounts
    BY Addresses
  <2> DEFINE x == IF Liquidation = m.from THEN m.amount ELSE 0
  <2>4. /\ total(Paying(Liquidation), q2) = total(Paying(Liquidation), q) - x
        /\ st2.bank[Liquidation] >= st.bank[Liquidation] - x
        /\ x \in Nat /\ st.bank[Liquidation] \in Nat /\ st2.bank[Liquidation] \in Nat
        /\ total(Paying(Liquidation), q) \in Int
    BY <1>1, <1>3, <1>5, <1>9, <2>3
  <2> HIDE DEF x
  <2> QED
    BY SMTT(30), <2>1, <2>2, <2>3, <2>4 DEF Escrowed
<1>12. (\A u \in Users : free_after(st2, q2, u) = free_after(st, q, u)) /\ Agree(st2, q2)
  <2>1. st2.custody = st.custody /\ st2.collaterals = st.collaterals /\ Agree(st, q)
    BY <1>0 DEF Sound
  <2> QED
    BY <1>1, <1>2, <1>8, <2>1, SameBooks
<1>13. ASSUME Paid(before, st, q) PROVE Paid(before, st2, q2)
  <2>1. forgiven(before, st2) = forgiven(before, st) /\ forgiven(before, st) \in Int
    BY <1>1, ForgivenType DEF forgiven
  <2>2. forgiven(before, st) + total(Paying(Market), q) <= st.bank[Market] - before.bank[Market]
    BY <1>13 DEF Paid
  <2>3. Market \in Accounts /\ before.bank[Market] \in Nat
    BY <1>1, Addresses
  <2> DEFINE x == IF Market = m.from THEN m.amount ELSE 0
  <2>4. /\ total(Paying(Market), q2) = total(Paying(Market), q) - x
        /\ st2.bank[Market] >= st.bank[Market] - x
        /\ x \in Nat /\ st.bank[Market] \in Nat /\ st2.bank[Market] \in Nat
        /\ total(Paying(Market), q) \in Int
    BY <1>1, <1>3, <1>5, <1>9, <2>3
  <2> HIDE DEF x
  <2> QED
    BY SMTT(30), <2>1, <2>2, <2>3, <2>4 DEF Paid
<1>14. ASSUME RepayLast(before, st, q) PROVE RepayLast(before, st2, q2)
  <2>1. Head(q).type # "repay" /\ Replies(ms)
    BY <1>0 DEF Replies
  <2> QED
    BY <1>0, <1>14, <2>1, RepayStaysLast
<1>15. st2 \in Stores
  BY <1>1, <1>5, StoreParts
<1> QED
  BY <1>2, <1>10, <1>11, <1>12, <1>13, <1>14, <1>15 DEF Runs, Sound

\* cw2 is cw after amount of token has moved.
TokenMove(cw, cw2, token, from, to, amount) ==
    /\ cw \in [Tokens -> [Accounts -> Nat]] /\ amount <= cw[token][from]
    /\ cw2 = [cw EXCEPT ![token] = moved(@, from, to, amount)]

LEMMA TokensMoved ==
    ASSUME NEW cw, NEW cw2, NEW token \in Tokens, NEW from \in Accounts,
           NEW to \in Accounts, from # to, NEW amount \in Nat,
           TokenMove(cw, cw2, token, from, to, amount)
    PROVE  /\ cw2 \in [Tokens -> [Accounts -> Nat]]
           /\ cw2[token][from] = cw[token][from] - amount
           /\ cw2[token][to] = cw[token][to] + amount
           /\ \A t \in Tokens, a \in Accounts :
                t # token \/ (a # from /\ a # to) => cw2[t][a] = cw[t][a]
<1> DEFINE b == moved(cw[token], from, to, amount)
<1>0. /\ cw \in [Tokens -> [Accounts -> Nat]] /\ amount <= cw[token][from]
      /\ cw2 = [cw EXCEPT ![token] = moved(@, from, to, amount)]
  BY DEF TokenMove
<1>1. /\ b \in [Accounts -> Nat] /\ b[from] = cw[token][from] - amount
      /\ b[to] = cw[token][to] + amount
      /\ \A a \in Accounts : a # from /\ a # to => b[a] = cw[token][a]
  BY <1>0, MovedParts
<1>2. cw2 = [cw EXCEPT ![token] = b]
  BY <1>0
<1> HIDE DEF b
<1>3. cw2 \in [Tokens -> [Accounts -> Nat]] /\ cw2[token] = b
  BY <1>0, <1>1, <1>2
<1>4. \A t \in Tokens : t # token => cw2[t] = cw[t]
  BY <1>0, <1>2
<1> QED
  BY <1>1, <1>3, <1>4

\* Neither coins, bids, loans nor payments that wait.
LEMMA CoinsUntouched ==
    ASSUME NEW before, NEW st, NEW st2, NEW q, NEW q2,
           st2.bank = st.bank, st2.bids = st.bids, st2.loan = st.loan,
           \A a \in Accounts : total(Paying(a), q2) = total(Paying(a), q)
    PROVE  /\ Escrowed(st, q) => Escrowed(st2, q2)
           /\ Paid(before, st, q) => Paid(before, st2, q2)
<1>1. escrowed(st2) = escrowed(st) /\ forgiven(before, st2) = forgiven(before, st)
  BY BidsFrame DEF forgiven
<1>2. /\ total(Paying(Liquidation), q2) = total(Paying(Liquidation), q)
      /\ total(Paying(Market), q2) = total(Paying(Market), q)
  BY Addresses
<1> QED
  BY <1>1, <1>2 DEF Escrowed, Paid

LEMMA TransferRuns ==
    ASSUME NEW before, NEW st, NEW q, NEW m, NEW ms, NEW q2, Waits(before, st, q, m, ms, q2),
           m.type = "transfer", Empty(ms),
           NEW st2, IsStore(st2),
           TokenMove(st.cw20, st2.cw20, m.token, m.from, m.to, m.amount),
           st2.bank = st.bank, st2.bids = st.bids, st2.custody = st.custody,
           st2.collaterals = st.collaterals, st2.loan = st.loan
    PROVE  Runs(before, st, q, st2, q2)
<1>0. Steps(q, ms, q2) /\ m = Head(q) /\ Sound(st, q) /\ before \in Stores
  BY DEF Waits
<1>5. (\A f : total(f, ms) = 0) /\ Replies(ms)
  BY TotalEmpty DEF Replies, Empty
<1>1. /\ st.bank \in [Accounts -> Nat] /\ st.cw20 \in [Tokens -> [Accounts -> Nat]]
      /\ st.bids \in BidBooks /\ st.custody \in Books
      /\ st.collaterals \in [Users -> Goodly] /\ st.loan \in LoanBooks
  BY <1>0, StoreParts DEF Sound
<1>2. m \in Transfers /\ q \in Seq(Msg) /\ q2 \in Seq(Msg)
  BY <1>0, MsgTypes, StepTotals DEF Steps
<1>3. /\ m.amount \in Nat /\ m.token \in Tokens /\ m.from \in Custodies \cup {Liquidation}
      /\ m.to \in Users /\ m.from \in Accounts /\ m.to \in Accounts /\ m.from # m.to
  BY <1>2, TransferParts, Addresses
<1>4. /\ st2.cw20 \in [Tokens -> [Accounts -> Nat]]
      /\ st2.cw20[m.token][m.from] = st.cw20[m.token][m.from] - m.amount
      /\ \A t \in Tokens, a \in Accounts :
           t # m.token \/ (a # m.from /\ a # m.to) => st2.cw20[t][a] = st.cw20[t][a]
  <2> DEFINE cw == st.cw20
             cw2 == st2.cw20
             token == m.token
             from == m.from
             to == m.to
             amount == m.amount
  <2>1. TokenMove(cw, cw2, token, from, to, amount)
    OBVIOUS
  <2>2. token \in Tokens /\ from \in Accounts /\ to \in Accounts /\ from # to /\ amount \in Nat
    BY <1>3
  <2> HIDE DEF cw, cw2, token, from, to, amount
  <2>3. /\ cw2 \in [Tokens -> [Accounts -> Nat]]
        /\ cw2[token][from] = cw[token][from] - amount
        /\ cw2[token][to] = cw[token][to] + amount
        /\ \A t \in Tokens, a \in Accounts :
             t # token \/ (a # from /\ a # to) => cw2[t][a] = cw[t][a]
    BY <2>1, <2>2, TokensMoved
  <2> QED
    BY <2>3 DEF cw, cw2, token, from, to, amount
<1>6. /\ \A c \in Custodies : Leaving(c)[m] =
           IF m.from = c /\ m.token = CustodyToken[c] THEN m.amount ELSE 0
      /\ \A t \in Tokens, a \in Liquidators : Passing(t, a)[m] =
           IF m.from = a /\ m.token = t THEN m.amount ELSE 0
  BY <1>2, TransferParts DEF Leaving, Passing
<1>7. /\ \A a \in Accounts : Paying(a)[m] = 0
      /\ \A u \in Users, t \in Tokens : ToLock(u, t)[m] = 0 /\ ToFree(u, t)[m] = 0
  BY <1>2, TransferParts DEF Paying, ToLock, ToFree
<1>8. /\ \A a \in Accounts : total(Paying(a), q2) = total(Paying(a), q)
      /\ \A u \in Users, t \in Tokens :
           /\ total(ToLock(u, t), q2) = total(ToLock(u, t), q)
           /\ total(ToFree(u, t), q2) = total(ToFree(u, t), q)
  BY <1>0, <1>2, <1>5, <1>7, StepTotals, TotalTypes
<1>9. Backed(st2, q2)
  <2> SUFFICES ASSUME NEW c \in Custodies
               PROVE  kept_in(st2, c) + total(Leaving(c), q2) <= st2.cw20[CustodyToken[c]][c]
    BY DEF Backed
  <2>1. kept_in(st2, c) = kept_in(st, c) /\ kept_in(st, c) \in Nat
    BY <1>1, BooksFrame, BooksTypes
  <2>2. kept_in(st, c) + total(Leaving(c), q) <= st.cw20[CustodyToken[c]][c]
    BY <1>0 DEF Sound, Backed
  <2> DEFINE x == IF m.from = c /\ m.token = CustodyToken[c] THEN m.amount ELSE 0
  <2>3. /\ total(Leaving(c), q2) = total(Leaving(c), q) - x
        /\ total(Leaving(c), q) \in Int /\ x \in Nat
    <3>1. total(Leaving(c), q2) =
            total(Leaving(c), q) - Leaving(c)[m] + total(Leaving(c), ms)
      BY <1>0, StepTotals
    <3>2. Leaving(c)[m] = x /\ total(Leaving(c), ms) = 0
      BY <1>5, <1>6
    <3>3. total(Leaving(c), q) \in Int /\ x \in Nat
      BY <1>2, <1>3, TotalTypes
    <3> QED
      BY <3>1, <3>2, <3>3
  <2>4. /\ CustodyToken[c] \in Tokens /\ c \in Accounts /\ c # m.to
    BY <1>3, Addresses, CustodyAssumption
  <2>5. /\ st2.cw20[CustodyToken[c]][c] = st.cw20[CustodyToken[c]][c] - x
        /\ st.cw20[CustodyToken[c]][c] \in Nat
    BY <1>1, <1>3, <1>4, <2>4
  <2> HIDE DEF x
  <2> QED
    BY <2>1, <2>2, <2>3, <2>5
<1>10. PassedOn(st2, q2)
  <2> SUFFICES ASSUME NEW t \in Tokens, NEW a \in Liquidators
               PROVE  st2.cw20[t][a] = total(Passing(t, a), q2)
    BY DEF PassedOn
  <2>1. st.cw20[t][a] = total(Passing(t, a), q)
    BY <1>0 DEF Sound, PassedOn
  <2> DEFINE x == IF m.from = a /\ m.token = t THEN m.amount ELSE 0
  <2>2. total(Passing(t, a), q2) = total(Passing(t, a), q) - x
    <3>1. total(Passing(t, a), q2) =
            total(Passing(t, a), q) - Passing(t, a)[m] + total(Passing(t, a), ms)
      BY <1>0, StepTotals
    <3>2. Passing(t, a)[m] = x /\ total(Passing(t, a), ms) = 0
      BY <1>5, <1>6
    <3>3. total(Passing(t, a), q) \in Int /\ x \in Nat
      BY <1>2, <1>3, TotalTypes
    <3> QED
      BY <3>1, <3>2, <3>3
  <2>3. a \in Accounts /\ a # m.to
    BY <1>3, Addresses
  <2>4. st2.cw20[t][a] = st.cw20[t][a] - x
    BY <1>1, <1>3, <1>4, <2>3
  <2> QED
    BY <2>1, <2>2, <2>4
<1>11. SpendableHeld(st2) /\ Escrowed(st2, q2)
  BY <1>0, <1>8, BooksFrame, CoinsUntouched DEF Sound
<1>12. (\A u \in Users : free_after(st2, q2, u) = free_after(st, q, u)) /\ Agree(st2, q2)
  <2>1. st2.custody = st.custody /\ st2.collaterals = st.collaterals /\ Agree(st, q)
    BY <1>0 DEF Sound
  <2> QED
    BY <1>1, <1>2, <1>8, <2>1, SameBooks
<1>13. ASSUME Paid(before, st, q) PROVE Paid(before, st2, q2)
  BY <1>8, <1>13, CoinsUntouched
<1>14. ASSUME RepayLast(before, st, q) PROVE RepayLast(before, st2, q2)
  BY <1>0, <1>5, <1>14, RepayStaysLast
<1>15. st2 \in Stores
  BY <1>1, <1>4, StoreParts
<1> QED
  BY <1>2, <1>9, <1>10, <1>11, <1>12, <1>13, <1>14, <1>15 DEF Runs, Sound

LEMMA SendRuns ==
    ASSUME NEW before, NEW st, NEW q, NEW m, NEW ms, NEW q2, Waits(before, st, q, m, ms, q2),
           m.type = "send", NEW n \in Executes,
           n.token = m.token, n.at = m.to, n.amount = m.amount, Single(ms, n),
           NEW st2, IsStore(st2),
           TokenMove(st.cw20, st2.cw20, m.token, m.from, m.to, m.amount),
           st2.bank = st.bank, st2.bids = st.bids, st2.custody = st.custody,
           st2.collaterals = st.collaterals, st2.loan = st.loan
    PROVE  Runs(before, st, q, st2, q2)
<1>0. Steps(q, ms, q2) /\ m = Head(q) /\ Sound(st, q) /\ before \in Stores
  BY DEF Waits
<1>1. /\ st.bank \in [Accounts -> Nat] /\ st.cw20 \in [Tokens -> [Accounts -> Nat]]
      /\ st.bids \in BidBooks /\ st.custody \in Books
      /\ st.collaterals \in [Users -> Goodly] /\ st.loan \in LoanBooks
  BY <1>0, StoreParts DEF Sound
<1>2. m \in Sends /\ q \in Seq(Msg) /\ q2 \in Seq(Msg) /\ n \in Msg /\ n.type = "execute_bid"
  BY <1>0, MsgTypes, StepTotals, ExecuteParts DEF Steps
<1>3. /\ m.amount \in Nat /\ m.token \in Tokens /\ m.from \in Custodies
      /\ m.to \in Liquidators /\ m.from \in Accounts /\ m.to \in Accounts /\ m.from # m.to
  BY <1>2, SendParts, Addresses
<1>4. /\ st2.cw20 \in [Tokens -> [Accounts -> Nat]]
      /\ st2.cw20[m.token][m.from] = st.cw20[m.token][m.from] - m.amount
      /\ st2.cw20[m.token][m.to] = st.cw20[m.token][m.to] + m.amount
      /\ \A t \in Tokens, a \in Accounts :
           t # m.token \/ (a # m.from /\ a # m.to) => st2.cw20[t][a] = st.cw20[t][a]
  <2> DEFINE cw == st.cw20
             cw2 == st2.cw20
             token == m.token
             from == m.from
             to == m.to
             amount == m.amount
  <2>1. TokenMove(cw, cw2, token, from, to, amount)
    OBVIOUS
  <2>2. token \in Tokens /\ from \in Accounts /\ to \in Accounts /\ from # to /\ amount \in Nat
    BY <1>3
  <2> HIDE DEF cw, cw2, token, from, to, amount
  <2>3. /\ cw2 \in [Tokens -> [Accounts -> Nat]]
        /\ cw2[token][from] = cw[token][from] - amount
        /\ cw2[token][to] = cw[token][to] + amount
        /\ \A t \in Tokens, a \in Accounts :
             t # token \/ (a # from /\ a # to) => cw2[t][a] = cw[t][a]
    BY <2>1, <2>2, TokensMoved
  <2> QED
    BY <2>3 DEF cw, cw2, token, from, to, amount
<1>5. ASSUME NEW f \in [Msg -> Int] PROVE total(f, ms) = f[n]
  BY <1>2, TotalOne
<1>6. /\ \A c \in Custodies : /\ Leaving(c)[m] =
                                   IF m.from = c /\ m.token = CustodyToken[c] THEN m.amount ELSE 0
                              /\ total(Leaving(c), ms) = 0
      /\ \A t \in Tokens, a \in Liquidators :
           /\ Passing(t, a)[m] = 0
           /\ total(Passing(t, a), ms) = IF m.to = a /\ m.token = t THEN m.amount ELSE 0
  <2>1. /\ \A c \in Custodies : /\ Leaving(c)[m] =
                                     IF m.from = c /\ m.token = CustodyToken[c] THEN m.amount ELSE 0
                                /\ Leaving(c)[n] = 0
        /\ \A t \in Tokens, a \in Liquidators :
             /\ Passing(t, a)[m] = 0
             /\ Passing(t, a)[n] = IF m.to = a /\ m.token = t THEN m.amount ELSE 0
    BY <1>2, SendParts DEF Leaving, Passing
  <2> QED
    BY <1>5, <2>1, LeavingType, PassingType
<1>7. /\ \A a \in Accounts : Paying(a)[m] = 0 /\ total(Paying(a), ms) = 0
      /\ \A u \in Users, t \in Tokens :
           /\ ToLock(u, t)[m] = 0 /\ ToFree(u, t)[m] = 0
           /\ total(ToLock(u, t), ms) = 0 /\ total(ToFree(u, t), ms) = 0
  <2>1. /\ \A a \in Accounts : Paying(a)[m] = 0 /\ Paying(a)[n] = 0
        /\ \A u \in Users, t \in Tokens : /\ ToLock(u, t)[m] = 0 /\ ToFree(u, t)[m] = 0
                                          /\ ToLock(u, t)[n] = 0 /\ ToFree(u, t)[n] = 0
    BY <1>2, SendParts DEF Paying, ToLock, ToFree
  <2> QED
    BY <1>5, <2>1, PayingType, ToLockType, ToFreeType
<1>8. /\ \A a \in Accounts : total(Paying(a), q2) = total(Paying(a), q)
      /\ \A u \in Users, t \in Tokens :
           /\ total(ToLock(u, t), q2) = total(ToLock(u, t), q)
           /\ total(ToFree(u, t), q2) = total(ToFree(u, t), q)
  BY <1>0, <1>2, <1>7, StepTotals, TotalTypes
<1>9. Backed(st2, q2)
  <2> SUFFICES ASSUME NEW c \in Custodies
               PROVE  kept_in(st2, c) + total(Leaving(c), q2) <= st2.cw20[CustodyToken[c]][c]
    BY DEF Backed
  <2>1. kept_in(st2, c) = kept_in(st, c) /\ kept_in(st, c) \in Nat
    BY <1>1, BooksFrame, BooksTypes
  <2>2. kept_in(st, c) + total(Leaving(c), q) <= st.cw20[CustodyToken[c]][c]
    BY <1>0 DEF Sound, Backed
  <2> DEFINE x == IF m.from = c /\ m.token = CustodyToken[c] THEN m.amount ELSE 0
  <2>3. /\ total(Leaving(c), q2) = total(Leaving(c), q) - x
        /\ total(Leaving(c), q) \in Int /\ x \in Nat
    <3>1. total(Leaving(c), q2) =
            total(Leaving(c), q) - Leaving(c)[m] + total(Leaving(c), ms)
      BY <1>0, StepTotals
    <3>2. Leaving(c)[m] = x /\ total(Leaving(c), ms) = 0
      BY <1>6
    <3>3. total(Leaving(c), q) \in Int /\ x \in Nat
      BY <1>2, <1>3, TotalTypes
    <3> QED
      BY <3>1, <3>2, <3>3
  <2>4. /\ CustodyToken[c] \in Tokens /\ c \in Accounts /\ c # m.to
    BY <1>3, Addresses, CustodyAssumption
  <2>5. /\ st2.cw20[CustodyToken[c]][c] = st.cw20[CustodyToken[c]][c] - x
        /\ st.cw20[CustodyToken[c]][c] \in Nat
    BY <1>1, <1>3, <1>4, <2>4
  <2> HIDE DEF x
  <2> QED
    BY <2>1, <2>2, <2>3, <2>5
<1>10. PassedOn(st2, q2)
  <2> SUFFICES ASSUME NEW t \in Tokens, NEW a \in Liquidators
               PROVE  st2.cw20[t][a] = total(Passing(t, a), q2)
    BY DEF PassedOn
  <2>1. st.cw20[t][a] = total(Passing(t, a), q)
    BY <1>0 DEF Sound, PassedOn
  <2> DEFINE x == IF m.to = a /\ m.token = t THEN m.amount ELSE 0
  <2>2. total(Passing(t, a), q2) = total(Passing(t, a), q) + x
    <3>1. total(Passing(t, a), q2) =
            total(Passing(t, a), q) - Passing(t, a)[m] + total(Passing(t, a), ms)
      BY <1>0, StepTotals
    <3>2. Passing(t, a)[m] = 0 /\ total(Passing(t, a), ms) = x
      BY <1>6
    <3>3. total(Passing(t, a), q) \in Int /\ x \in Nat
      BY <1>2, <1>3, TotalTypes
    <3> QED
      BY <3>1, <3>2, <3>3
  <2>3. a \in Accounts /\ a # m.from
    BY <1>3, Addresses
  <2>4. st2.cw20[t][a] = st.cw20[t][a] + x
    BY <1>1, <1>3, <1>4, <2>3
  <2> QED
    BY <2>1, <2>2, <2>4
<1>11. SpendableHeld(st2) /\ Escrowed(st2, q2)
  BY <1>0, <1>8, BooksFrame, CoinsUntouched DEF Sound
<1>12. (\A u \in Users : free_after(st2, q2, u) = free_after(st, q, u)) /\ Agree(st2, q2)
  <2>1. st2.custody = st.custody /\ st2.collaterals = st.collaterals /\ Agree(st, q)
    BY <1>0 DEF Sound
  <2> QED
    BY <1>1, <1>2, <1>8, <2>1, SameBooks
<1>13. ASSUME Paid(before, st, q) PROVE Paid(before, st2, q2)
  BY <1>8, <1>13, CoinsUntouched
<1>14. ASSUME RepayLast(before, st, q) PROVE RepayLast(before, st2, q2)
  <2>1. Head(q).type # "repay" /\ Replies(ms)
    BY <1>0, <1>2 DEF Replies, Single
  <2> QED
    BY <1>0, <1>14, <2>1, RepayStaysLast
<1>15. st2 \in Stores
  BY <1>1, <1>4, StoreParts
<1> QED
  BY <1>2, <1>9, <1>10, <1>11, <1>12, <1>13, <1>14, <1>15 DEF Runs, Sound

(***************************************************************************)
(* Messages to a custody contract                                          *)
(***************************************************************************)
\* What c keeps for b, and what the messages will take from c.
LeavingShift(st, st2, q, q2, c, b) ==
    /\ total(Leaving(c), q2) = total(Leaving(c), q) + st.custody[c][b].balance
                                 - st2.custody[c][b].balance
    /\ \A d \in Custodies : d # c => total(Leaving(d), q2) = total(Leaving(d), q)

LEMMA EntryBacked ==
    ASSUME NEW st, NEW st2, NEW q \in Seq(Msg), NEW q2 \in Seq(Msg),
           NEW c \in Custodies, NEW b \in Users, Touches(st, st2, c, b),
           st.cw20 \in [Tokens -> [Accounts -> Nat]], st2.cw20 = st.cw20, Backed(st, q),
           LeavingShift(st, st2, q, q2, c, b)
    PROVE  Backed(st2, q2)
<1>1. st.custody \in Books /\ st2.custody \in Books
  BY DEF Touches
<1>2. ASSUME NEW d \in Custodies
      PROVE  kept_in(st2, d) + total(Leaving(d), q2) = kept_in(st, d) + total(Leaving(d), q)
  <2>1. /\ kept_in(st, d) \in Int /\ total(Leaving(d), q) \in Int
        /\ st.custody[c][b].balance \in Int /\ st2.custody[c][b].balance \in Int
    BY <1>1, BooksTypes, BooksParts, TotalTypes
  <2>2. CASE d = c
    <3>1. kept_in(st2, c) = kept_in(st, c) + st2.custody[c][b].balance - st.custody[c][b].balance
      BY KeptChange
    <3>2. total(Leaving(c), q2) = total(Leaving(c), q) + st.custody[c][b].balance
                                    - st2.custody[c][b].balance
      BY DEF LeavingShift
    <3> QED
      BY <2>1, <2>2, <3>1, <3>2
  <2>3. CASE d # c
    BY <2>3, KeptChange DEF LeavingShift
  <2> QED
    BY <2>2, <2>3
<1> QED
  BY <1>2 DEF Backed

\* What b may withdraw from c, and what the messages will free.
FreeShift(st, st2, q, q2, c, b) ==
    /\ total(ToFree(b, CustodyToken[c]), q2) =
         total(ToFree(b, CustodyToken[c]), q) + st.custody[c][b].spendable
           - st2.custody[c][b].spendable
    /\ \A u \in Users, t \in Tokens : u # b \/ t # CustodyToken[c] =>
         total(ToFree(u, t), q2) = total(ToFree(u, t), q)

LEMMA EntryFree ==
    ASSUME NEW st, NEW st2, NEW q \in Seq(Msg), NEW q2 \in Seq(Msg),
           NEW c \in Custodies, NEW b \in Users, Touches(st, st2, c, b),
           FreeShift(st, st2, q, q2, c, b), NEW u \in Users
    PROVE  free_after(st2, q2, u) = free_after(st, q, u)
<1>1. st.custody \in Books /\ st2.custody \in Books
  BY DEF Touches
<1>2. ASSUME NEW t \in Tokens
      PROVE  spendable_of(st2, u)[t] + total(ToFree(u, t), q2) =
               spendable_of(st, u)[t] + total(ToFree(u, t), q)
  <2>1. /\ spendable_of(st, u)[t] \in Int /\ total(ToFree(u, t), q) \in Int
        /\ st.custody[c][b].spendable \in Int /\ st2.custody[c][b].spendable \in Int
    <3>1. spendable_of(st, u) \in [Tokens -> Nat]
      BY <1>1, BooksTypes
    <3> QED
      BY SMTT(30), <1>1, <3>1, BooksParts, TotalTypes
  <2>2. CASE u = b /\ t = CustodyToken[c]
    <3>1. spendable_of(st2, b)[CustodyToken[c]] =
            spendable_of(st, b)[CustodyToken[c]] + st2.custody[c][b].spendable
              - st.custody[c][b].spendable
      BY SpendableChange
    <3>2. total(ToFree(b, CustodyToken[c]), q2) =
            total(ToFree(b, CustodyToken[c]), q) + st.custody[c][b].spendable
              - st2.custody[c][b].spendable
      BY DEF FreeShift
    <3> QED
      BY <2>1, <2>2, <3>1, <3>2
  <2>3. CASE u # b \/ t # CustodyToken[c]
    <3>1. spendable_of(st2, u)[t] = spendable_of(st, u)[t]
      BY <2>3, SpendableElse
    <3>2. total(ToFree(u, t), q2) = total(ToFree(u, t), q)
      BY <2>3 DEF FreeShift
    <3> QED
      BY <3>1, <3>2
  <2> QED
    BY <2>2, <2>3
<1> QED
  BY <1>2 DEF free_after

\* What b has locked with c, and what the messages will lock.
LockShift(st, st2, q, q2, c, b) ==
    /\ total(ToLock(b, CustodyToken[c]), q2) =
         total(ToLock(b, CustodyToken[c]), q)
           + (st.custody[c][b].balance - st.custody[c][b].spendable)
           - (st2.custody[c][b].balance - st2.custody[c][b].spendable)
    /\ \A u \in Users, t \in Tokens : u # b \/ t # CustodyToken[c] =>
         total(ToLock(u, t), q2) = total(ToLock(u, t), q)

LEMMA EntryAgree ==
    ASSUME NEW st, NEW st2, NEW q \in Seq(Msg), NEW q2 \in Seq(Msg),
           NEW c \in Custodies, NEW b \in Users, Touches(st, st2, c, b),
           st2.collaterals = st.collaterals, Agree(st, q), LockShift(st, st2, q, q2, c, b)
    PROVE  Agree(st2, q2)
<1>1. st.custody \in Books /\ st2.custody \in Books
  BY DEF Touches
<1>2. /\ st.custody[c][b].spendable \in Int /\ st2.custody[c][b].spendable \in Int
      /\ st.custody[c][b].balance \in Int /\ st2.custody[c][b].balance \in Int
  BY <1>1, BooksParts
<1>3. ASSUME NEW u \in Users, NEW t \in Tokens
      PROVE  locked_of(st2, u)[t] + total(ToLock(u, t), q2) =
               locked_of(st, u)[t] + total(ToLock(u, t), q)
  <2>1. locked_of(st, u)[t] \in Int
    <3>1. locked_of(st, u) \in [Tokens -> Int]
      BY <1>1, BooksTypes
    <3> QED
      BY <3>1
  <2>2. total(ToLock(u, t), q) \in Int
    BY TotalTypes
  <2>3. CASE u = b /\ t = CustodyToken[c]
    <3>1. locked_of(st2, b)[CustodyToken[c]] =
            locked_of(st, b)[CustodyToken[c]]
              + (st2.custody[c][b].balance - st2.custody[c][b].spendable)
              - (st.custody[c][b].balance - st.custody[c][b].spendable)
      BY LockedChange
    <3>2. total(ToLock(b, CustodyToken[c]), q2) =
            total(ToLock(b, CustodyToken[c]), q)
              + (st.custody[c][b].balance - st.custody[c][b].spendable)
              - (st2.custody[c][b].balance - st2.custody[c][b].spendable)
      BY DEF LockShift
    <3> DEFINE k == CustodyToken[c]
               l == locked_of(st, b)[k]
               l2 == locked_of(st2, b)[k]
               w == total(ToLock(b, k), q)
               w2 == total(ToLock(b, k), q2)
               x == st.custody[c][b].balance - st.custody[c][b].spendable
               y == st2.custody[c][b].balance - st2.custody[c][b].spendable
    <3>3. l2 = l + y - x
      BY <3>1
    <3>6. w2 = w + x - y
      BY <3>2
    <3>4. l \in Int /\ w \in Int /\ x \in Int /\ y \in Int
      <4>1. x \in Int /\ y \in Int
        BY <1>2
      <4>2. l \in Int
        BY <2>1, <2>3, Zenon
      <4>3. w \in Int
        BY <2>2, <2>3, Zenon
      <4> QED
        BY <4>1, <4>2, <4>3
    <3> HIDE DEF l, l2, w, w2, x, y
    <3>5. l2 + w2 = l + w
      BY <3>3, <3>4, <3>6
    <3> QED
      BY <2>3, <3>5 DEF l, l2, w, w2
  <2>4. CASE u # b \/ t # CustodyToken[c]
    <3>1. locked_of(st2, u)[t] = locked_of(st, u)[t]
      BY <2>4, LockedElse
    <3>2. total(ToLock(u, t), q2) = total(ToLock(u, t), q)
      BY <2>4 DEF LockShift
    <3> QED
      BY <3>1, <3>2
  <2> QED
    BY <2>3, <2>4
<1> QED
  BY <1>3 DEF Agree

\* The account of b with c becomes balance and spendable.
Entry(st, st2, c, b, balance, spendable) ==
    /\ Touches(st, st2, c, b)
    /\ st2.custody[c][b].balance = balance /\ st2.custody[c][b].spendable = spendable

LEMMA EntryHeld ==
    ASSUME NEW st, NEW st2, NEW c \in Custodies, NEW b \in Users, Touches(st, st2, c, b),
           SpendableHeld(st), st2.custody[c][b].spendable <= st2.custody[c][b].balance
    PROVE  SpendableHeld(st2)
BY DEF SpendableHeld, Touches

\* Everything but the books is as it was.
OtherwiseSame(st, st2) ==
    /\ IsStore(st2) /\ st2.bank = st.bank /\ st2.cw20 = st.cw20 /\ st2.bids = st.bids
    /\ st2.collaterals = st.collaterals /\ st2.loan = st.loan

\* A message to a custody contract that moves no coins.
LEMMA EntryRuns ==
    ASSUME NEW before, NEW st, NEW q, NEW m, NEW ms, NEW q2, Waits(before, st, q, m, ms, q2),
           m.type # "repay", Replies(ms), NEW st2, OtherwiseSame(st, st2),
           NEW c \in Custodies, NEW b \in Users, Touches(st, st2, c, b),
           st2.custody[c][b].spendable <= st2.custody[c][b].balance,
           Backed(st2, q2), Agree(st2, q2),
           \A u \in Users : free_after(st2, q2, u) = free_after(st, q, u),
           \A t \in Tokens, a \in Liquidators : total(Passing(t, a), q2) = total(Passing(t, a), q),
           \A a \in Accounts : total(Paying(a), q2) = total(Paying(a), q)
    PROVE  Runs(before, st, q, st2, q2)
<1>0. Steps(q, ms, q2) /\ m = Head(q) /\ Sound(st, q) /\ before \in Stores
  BY DEF Waits
<1>1. /\ IsStore(st2) /\ st2.bank = st.bank /\ st2.cw20 = st.cw20 /\ st2.bids = st.bids
      /\ st2.collaterals = st.collaterals /\ st2.loan = st.loan
  BY DEF OtherwiseSame
<1>2. q2 \in Seq(Msg)
  BY <1>0, StepTotals
<1>3. st2 \in Stores
  BY <1>0, <1>1, StoreParts DEF Sound, Touches
<1>4. SpendableHeld(st2)
  BY <1>0, EntryHeld DEF Sound
<1>5. PassedOn(st2, q2)
  BY <1>0, <1>1 DEF Sound, PassedOn
<1>6. Escrowed(st2, q2)
  BY <1>0, <1>1, CoinsUntouched DEF Sound
<1>7. ASSUME Paid(before, st, q) PROVE Paid(before, st2, q2)
  BY <1>1, <1>7, CoinsUntouched
<1>8. ASSUME RepayLast(before, st, q) PROVE RepayLast(before, st2, q2)
  BY <1>0, <1>1, <1>8, RepayStaysLast
<1> QED
  BY <1>1, <1>2, <1>3, <1>4, <1>5, <1>6, <1>7, <1>8 DEF Runs, Sound

LEMMA SpendableEntry ==
    ASSUME NEW st, NEW st2, st.custody \in Books, NEW c \in Custodies, NEW b \in Users,
           NEW x \in Nat, st2.custody = [st.custody EXCEPT ![c][b].spendable = x]
    PROVE  Entry(st, st2, c, b, st.custody[c][b].balance, x)
BY DEF Entry, Touches, Books, BorrowerInfo

LEMMA BalanceEntry ==
    ASSUME NEW st, NEW st2, st.custody \in Books, NEW c \in Custodies, NEW b \in Users,
           NEW x \in Nat, st2.custody = [st.custody EXCEPT ![c][b].balance = x]
    PROVE  Entry(st, st2, c, b, x, st.custody[c][b].spendable)
BY DEF Entry, Touches, Books, BorrowerInfo

\* d is locked, or -d unlocked.
Relocks(m, d) == d = IF m.type = "lock" THEN m.amount ELSE -m.amount

LEMMA RelockRuns ==
    ASSUME NEW before, NEW st, NEW q, NEW m, NEW ms, NEW q2, Waits(before, st, q, m, ms, q2),
           m.type \in {"lock", "unlock"}, Empty(ms),
           NEW d, Relocks(m, d),
           NEW c, c = m.custody, NEW b, b = m.borrower,
           NEW x \in Nat, NEW y \in Nat, NEW z \in Nat, y = z - d, y <= x,
           NEW st2, OtherwiseSame(st, st2),
           Entry(st, st, c, b, x, z), Entry(st, st2, c, b, x, y)
    PROVE  Runs(before, st, q, st2, q2)
<1>1. (\A f : total(f, ms) = 0) /\ Replies(ms)
  BY TotalEmpty DEF Replies, Empty
<1>2. Steps(q, ms, q2) /\ m = Head(q) /\ Sound(st, q) /\ before \in Stores
  BY DEF Waits
<1>3. st.cw20 \in [Tokens -> [Accounts -> Nat]] /\ st.custody \in Books
  BY <1>2, StoreParts DEF Sound
<1>4. m \in Locks \cup Unlocks /\ q \in Seq(Msg) /\ q2 \in Seq(Msg)
  BY <1>2, MsgTypes, StepTotals DEF Steps
<1>5. /\ m.amount \in Nat /\ d \in Int /\ c \in Custodies /\ b \in Users
      /\ CustodyToken[c] \in Tokens
  BY <1>4, LockParts, UnlockParts, CustodyAssumption DEF Relocks
<1>6. /\ \A e \in Custodies : Leaving(e)[m] = 0
      /\ \A t \in Tokens, a \in Liquidators : Passing(t, a)[m] = 0
      /\ \A a \in Accounts : Paying(a)[m] = 0
      /\ \A u \in Users, t \in Tokens :
           /\ ToLock(u, t)[m] = IF u = b /\ t = CustodyToken[c] THEN d ELSE 0
           /\ ToFree(u, t)[m] = IF u = b /\ t = CustodyToken[c] THEN -d ELSE 0
  <2>1. (m.type = "lock" => d = m.amount) /\ (m.type = "unlock" => d = -m.amount)
    BY DEF Relocks
  <2> QED
    BY <1>4, <1>5, <2>1, LockParts, UnlockParts DEF Leaving, Passing, Paying, ToLock, ToFree
<1>7. /\ Touches(st, st2, c, b)
      /\ st.custody[c][b].spendable = z /\ st.custody[c][b].balance = x
      /\ st2.custody[c][b].spendable = y /\ st2.custody[c][b].balance = x
  BY DEF Entry
<1>8. /\ \A e \in Custodies : total(Leaving(e), q2) = total(Leaving(e), q)
      /\ \A t \in Tokens, a \in Liquidators : total(Passing(t, a), q2) = total(Passing(t, a), q)
      /\ \A a \in Accounts : total(Paying(a), q2) = total(Paying(a), q)
  BY <1>1, <1>2, <1>4, <1>6, StepTotals, TotalTypes
<1>9. ASSUME NEW u \in Users, NEW t \in Tokens, u # b \/ t # CustodyToken[c]
      PROVE  /\ total(ToLock(u, t), q2) = total(ToLock(u, t), q)
             /\ total(ToFree(u, t), q2) = total(ToFree(u, t), q)
  BY <1>1, <1>2, <1>4, <1>6, <1>9, StepTotals, TotalTypes
<1>10. /\ total(ToLock(b, CustodyToken[c]), q2) = total(ToLock(b, CustodyToken[c]), q) - d
       /\ total(ToFree(b, CustodyToken[c]), q2) = total(ToFree(b, CustodyToken[c]), q) + d
       /\ total(ToLock(b, CustodyToken[c]), q) \in Int
       /\ total(ToFree(b, CustodyToken[c]), q) \in Int
  <2> DEFINE k == CustodyToken[c]
  <2>1. ToLock(b, k)[m] = d /\ ToFree(b, k)[m] = -d /\ k \in Tokens
    BY <1>5, <1>6
  <2> HIDE DEF k
  <2>2. total(ToLock(b, k), q) \in Int /\ total(ToFree(b, k), q) \in Int
    BY <1>4, <1>5, <2>1, TotalTypes
  <2>3. /\ total(ToLock(b, k), q2) =
             total(ToLock(b, k), q) - ToLock(b, k)[m] + total(ToLock(b, k), ms)
        /\ total(ToFree(b, k), q2) =
             total(ToFree(b, k), q) - ToFree(b, k)[m] + total(ToFree(b, k), ms)
    BY <1>2, <1>5, <2>1, StepTotals
  <2>4. total(ToLock(b, k), ms) = 0 /\ total(ToFree(b, k), ms) = 0
    BY <1>1
  <2>5. /\ total(ToLock(b, k), q2) = total(ToLock(b, k), q) - d
        /\ total(ToFree(b, k), q2) = total(ToFree(b, k), q) + d
    BY <1>5, <2>1, <2>2, <2>3, <2>4
  <2> QED
    BY <2>2, <2>5 DEF k
<1>11. Backed(st2, q2)
  <2>1. total(Leaving(c), q) \in Int
    BY <1>4, <1>5, TotalTypes
  <2>2. LeavingShift(st, st2, q, q2, c, b)
    BY <1>5, <1>7, <1>8, <2>1 DEF LeavingShift
  <2> QED
    BY <1>2, <1>3, <1>4, <1>5, <1>7, <2>2, EntryBacked DEF OtherwiseSame, Sound
<1>12. Agree(st2, q2)
  <2>1. LockShift(st, st2, q, q2, c, b)
    BY <1>5, <1>7, <1>9, <1>10 DEF LockShift
  <2> QED
    BY <1>2, <1>4, <1>5, <1>7, <2>1, EntryAgree DEF OtherwiseSame, Sound
<1>13. \A u \in Users : free_after(st2, q2, u) = free_after(st, q, u)
  <2>1. FreeShift(st, st2, q, q2, c, b)
    BY <1>5, <1>7, <1>9, <1>10 DEF FreeShift
  <2> QED
    BY <1>4, <1>5, <1>7, <2>1, EntryFree
<1> QED
  BY <1>1, <1>5, <1>7, <1>8, <1>11, <1>12, <1>13, EntryRuns

LEMMA LiquidateRuns ==
    ASSUME NEW before, NEW st, NEW q, NEW m, NEW ms, NEW q2, Waits(before, st, q, m, ms, q2),
           m.type = "liquidate", NEW n \in Sends, Single(ms, n),
           NEW c, c = m.custody, NEW b, b = m.borrower, NEW d, d = m.amount,
           n.from = c, n.token = CustodyToken[c], n.amount = d,
           NEW x \in Nat, NEW y \in Nat, NEW z \in Nat, y = x - d, z <= y,
           NEW st2, OtherwiseSame(st, st2),
           Entry(st, st, c, b, x, z), Entry(st, st2, c, b, y, z)
    PROVE  Runs(before, st, q, st2, q2)
<1>0. n \in Msg /\ n.type = "send"
  BY SendParts
<1>1. (\A f \in [Msg -> Int] : total(f, ms) = f[n]) /\ Replies(ms)
  <2>1. ASSUME NEW f \in [Msg -> Int] PROVE total(f, ms) = f[n]
    BY <1>0, TotalOne
  <2>2. Replies(ms)
    BY <1>0 DEF Replies, Single
  <2> QED
    BY <2>1, <2>2
<1>2. Steps(q, ms, q2) /\ m = Head(q) /\ Sound(st, q) /\ before \in Stores
  BY DEF Waits
<1>3. st.cw20 \in [Tokens -> [Accounts -> Nat]] /\ st.custody \in Books
  BY <1>2, StoreParts DEF Sound
<1>4. m \in Liquidates /\ q \in Seq(Msg) /\ q2 \in Seq(Msg)
  BY <1>2, MsgTypes, StepTotals DEF Steps
<1>5. d \in Nat /\ c \in Custodies /\ b \in Users /\ CustodyToken[c] \in Tokens
  BY <1>4, LiquidateParts, CustodyAssumption
<1>6. /\ \A e \in Custodies : Leaving(e)[m] = 0
      /\ \A t \in Tokens, a \in Liquidators : Passing(t, a)[m] = 0
      /\ \A a \in Accounts : Paying(a)[m] = 0
      /\ \A u \in Users, t \in Tokens :
           /\ ToLock(u, t)[m] = IF u = b /\ t = CustodyToken[c] THEN -d ELSE 0
           /\ ToFree(u, t)[m] = 0
  BY <1>4, <1>5, LiquidateParts DEF Leaving, Passing, Paying, ToLock, ToFree
<1>7. /\ \A e \in Custodies : total(Leaving(e), ms) = IF e = c THEN d ELSE 0
      /\ \A t \in Tokens, a \in Liquidators : total(Passing(t, a), ms) = 0
      /\ \A a \in Accounts : total(Paying(a), ms) = 0
      /\ \A u \in Users, t \in Tokens : total(ToLock(u, t), ms) = 0 /\ total(ToFree(u, t), ms) = 0
  <2>1. /\ \A e \in Custodies : Leaving(e)[n] = IF e = c THEN d ELSE 0
        /\ \A t \in Tokens, a \in Liquidators : Passing(t, a)[n] = 0
        /\ \A a \in Accounts : Paying(a)[n] = 0
        /\ \A u \in Users, t \in Tokens : ToLock(u, t)[n] = 0 /\ ToFree(u, t)[n] = 0
    BY <1>0, <1>5 DEF Leaving, Passing, Paying, ToLock, ToFree
  <2> QED
    BY <1>1, <2>1, LeavingType, PassingType, PayingType, ToLockType, ToFreeType
<1>8. /\ Touches(st, st2, c, b)
      /\ st.custody[c][b].spendable = z /\ st.custody[c][b].balance = x
      /\ st2.custody[c][b].spendable = z /\ st2.custody[c][b].balance = y
  BY DEF Entry
<1>9. /\ \A t \in Tokens, a \in Liquidators : total(Passing(t, a), q2) = total(Passing(t, a), q)
      /\ \A a \in Accounts : total(Paying(a), q2) = total(Paying(a), q)
  BY <1>2, <1>4, <1>6, <1>7, StepTotals, TotalTypes
<1>10. ASSUME NEW u \in Users, NEW t \in Tokens
       PROVE  /\ total(ToFree(u, t), q2) = total(ToFree(u, t), q)
              /\ total(ToFree(u, t), q) \in Int
              /\ u # b \/ t # CustodyToken[c] =>
                   total(ToLock(u, t), q2) = total(ToLock(u, t), q)
  BY <1>2, <1>4, <1>6, <1>7, StepTotals, TotalTypes
<1>11. /\ total(ToLock(b, CustodyToken[c]), q2) = total(ToLock(b, CustodyToken[c]), q) + d
       /\ total(ToLock(b, CustodyToken[c]), q) \in Int
  <2> DEFINE k == CustodyToken[c]
  <2>1. ToLock(b, k)[m] = -d /\ k \in Tokens
    BY <1>5, <1>6
  <2> HIDE DEF k
  <2>2. total(ToLock(b, k), q) \in Int
    BY <1>4, <1>5, <2>1, TotalTypes
  <2>3. total(ToLock(b, k), q2) =
          total(ToLock(b, k), q) - ToLock(b, k)[m] + total(ToLock(b, k), ms)
    BY <1>2, <1>5, <2>1, StepTotals
  <2>4. total(ToLock(b, k), ms) = 0
    BY <1>5, <1>7, <2>1
  <2>5. total(ToLock(b, k), q2) = total(ToLock(b, k), q) + d
    BY <1>5, <2>1, <2>2, <2>3, <2>4
  <2> QED
    BY <2>2, <2>5 DEF k
<1>12. Backed(st2, q2)
  <2>1. ASSUME NEW e \in Custodies
        PROVE  /\ total(Leaving(e), q2) = total(Leaving(e), q) + (IF e = c THEN d ELSE 0)
               /\ total(Leaving(e), q) \in Int
    <3>1. total(Leaving(e), q) \in Int
      BY <1>4, TotalTypes
    <3>2. total(Leaving(e), q2) = total(Leaving(e), q) - Leaving(e)[m] + total(Leaving(e), ms)
      BY <1>2, StepTotals
    <3>3. Leaving(e)[m] = 0 /\ total(Leaving(e), ms) = IF e = c THEN d ELSE 0
      BY <1>6, <1>7
    <3> QED
      BY <1>5, <3>1, <3>2, <3>3
  <2>2. LeavingShift(st, st2, q, q2, c, b)
    BY <1>5, <1>8, <2>1 DEF LeavingShift
  <2> QED
    BY <1>2, <1>3, <1>4, <1>5, <1>8, <2>2, EntryBacked DEF OtherwiseSame, Sound
<1>13. Agree(st2, q2)
  <2>1. LockShift(st, st2, q, q2, c, b)
    BY <1>5, <1>8, <1>10, <1>11 DEF LockShift
  <2> QED
    BY <1>2, <1>4, <1>5, <1>8, <2>1, EntryAgree DEF OtherwiseSame, Sound
<1>14. \A u \in Users : free_after(st2, q2, u) = free_after(st, q, u)
  <2>1. FreeShift(st, st2, q, q2, c, b)
    BY <1>5, <1>8, <1>10 DEF FreeShift
  <2> QED
    BY <1>4, <1>5, <1>8, <2>1, EntryFree
<1> QED
  BY <1>1, <1>5, <1>8, <1>9, <1>12, <1>13, <1>14, EntryRuns

(***************************************************************************)
(* Executing a bid                                                         *)
(***************************************************************************)
\* ms gives up the collateral n1, pays the market n2 and, if it is not zero, the fee n3.
Settles(ms, n1, n2, n3) ==
    /\ n1 \in Transfers /\ n2 \in BankSends /\ n3 \in BankSends
    /\ n1.from = Liquidation /\ n2.from = Liquidation /\ n3.from = Liquidation
    /\ ms = <<n1, n2>> \o IF n3.amount = 0 THEN <<>> ELSE <<n3>>

LEMMA SettlesReplies ==
    ASSUME NEW ms, NEW n1, NEW n2, NEW n3, Settles(ms, n1, n2, n3)
    PROVE  ms \in Seq(Msg) /\ Replies(ms)
<1>1. /\ n1 \in Msg /\ n1.type = "transfer" /\ n2 \in Msg /\ n2.from = Liquidation
      /\ n2.type = "bank_send" /\ n3 \in Msg /\ n3.type = "bank_send" /\ n3.from = Liquidation
  BY TransferParts, BankSendParts DEF Settles
<1>2. CASE n3.amount = 0
  <2>1. ms = <<n1, n2>>
    BY <1>2 DEF Settles
  <2>2. ms \in Seq(Msg) /\ Len(ms) = 2 /\ ms[1] = n1 /\ ms[2] = n2
    BY <1>1, <2>1
  <2>3. \A i \in 1 .. Len(ms) : ms[i] = n1 \/ ms[i] = n2
    BY <2>2
  <2> QED
    BY <1>1, <2>2, <2>3 DEF Replies
<1>3. CASE n3.amount # 0
  <2> DEFINE s == <<n1, n2>>
             t == <<n3>>
  <2>1. ms = s \o t
    BY <1>3 DEF Settles
  <2>2. /\ s \in Seq(Msg) /\ Len(s) = 2 /\ s[1] = n1 /\ s[2] = n2
        /\ t \in Seq(Msg) /\ Len(t) = 1 /\ t[1] = n3
    BY <1>1
  <2> HIDE DEF s, t
  <2>3. /\ ms \in Seq(Msg) /\ Len(ms) = 3
        /\ \A i \in 1 .. 3 : ms[i] = IF i <= 2 THEN s[i] ELSE t[i - 2]
    BY <2>1, <2>2, ConcatProperties
  <2>4. \A i \in 1 .. Len(ms) : ms[i] = n1 \/ ms[i] = n2 \/ ms[i] = n3
    BY <2>2, <2>3
  <2> QED
    BY <1>1, <2>3, <2>4 DEF Replies
<1> QED
  BY <1>2, <1>3

LEMMA SettlesTotal ==
    ASSUME NEW ms, NEW n1, NEW n2, NEW n3, Settles(ms, n1, n2, n3), NEW f \in [Msg -> Int]
    PROVE  total(f, ms) = f[n1] + f[n2] + (IF n3.amount = 0 THEN 0 ELSE f[n3])
<1>1. n1 \in Msg /\ n2 \in Msg /\ n3 \in Msg
  BY TransferParts, BankSendParts DEF Settles
<1> DEFINE s == <<n1, n2>>
           t == IF n3.amount = 0 THEN <<>> ELSE <<n3>>
<1>2. ms = s \o t
  BY DEF Settles
<1>3. s \in Seq(Msg) /\ t \in Seq(Msg) /\ s = <<n1, n2>>
  BY <1>1
<1>4. total(f, t) = IF n3.amount = 0 THEN 0 ELSE f[n3]
  <2>1. CASE n3.amount = 0
    BY <2>1, TotalEmpty
  <2>2. CASE n3.amount # 0
    <3>1. Single(t, n3)
      BY <2>2 DEF Single
    <3> HIDE DEF t
    <3>2. total(f, t) = f[n3]
      BY <1>1, <3>1, TotalOne
    <3> QED
      BY <2>2, <3>2
  <2> QED
    BY <2>1, <2>2
<1> HIDE DEF s, t
<1>5. total(f, s) = f[n1] + f[n2]
  BY <1>1, <1>3, TotalTwo
<1>6. total(f, s \o t) = total(f, s) + total(f, t)
  BY <1>3, TotalConcat
<1> QED
  BY <1>2, <1>4, <1>5, <1>6

LEMMA ExecuteRuns ==
    ASSUME NEW before, NEW st, NEW q, NEW m, NEW ms, NEW q2, Waits(before, st, q, m, ms, q2),
           m.type = "execute_bid", m.at = Liquidation,
           NEW n1, NEW n2, NEW n3, Settles(ms, n1, n2, n3),
           n1.token = m.token, n1.amount = m.amount,
           NEW st2, IsStore(st2), TouchesBid(st, st2, m.liquidator, m.token),
           worth(st2.bids[m.liquidator][m.token]) =
             worth(st.bids[m.liquidator][m.token]) - (n2.amount + n3.amount),
           st2.bank = st.bank, st2.cw20 = st.cw20, st2.custody = st.custody,
           st2.collaterals = st.collaterals, st2.loan = st.loan
    PROVE  Runs(before, st, q, st2, q2)
<1>0. Steps(q, ms, q2) /\ m = Head(q) /\ Sound(st, q) /\ before \in Stores
  BY DEF Waits
<1>1. /\ st.bank \in [Accounts -> Nat] /\ st.cw20 \in [Tokens -> [Accounts -> Nat]]
      /\ st.bids \in BidBooks /\ st.custody \in Books
      /\ st.collaterals \in [Users -> Goodly] /\ st.loan \in LoanBooks
      /\ st2.bids \in BidBooks
  BY <1>0, StoreParts DEF Sound, TouchesBid
<1>2. m \in Executes /\ q \in Seq(Msg) /\ q2 \in Seq(Msg) /\ Replies(ms)
  BY <1>0, MsgTypes, StepTotals, SettlesReplies DEF Steps
<1>3. /\ m.amount \in Nat /\ m.token \in Tokens /\ m.liquidator \in Users
      /\ n2.amount \in Nat /\ n3.amount \in Nat /\ m.type # "repay"
  BY <1>2, ExecuteParts, BankSendParts DEF Settles
<1>4. /\ n1 \in Msg /\ n1.type = "transfer" /\ n1.from = Liquidation
      /\ n2 \in Msg /\ n2.type = "bank_send" /\ n2.from = Liquidation
      /\ n3 \in Msg /\ n3.type = "bank_send" /\ n3.from = Liquidation
  BY TransferParts, BankSendParts DEF Settles
<1>5. ASSUME NEW f \in [Msg -> Int]
      PROVE  total(f, ms) = f[n1] + f[n2] + (IF n3.amount = 0 THEN 0 ELSE f[n3])
  BY SettlesTotal
<1>6. ASSUME NEW c \in Custodies PROVE total(Leaving(c), q2) = total(Leaving(c), q)
  <2>1. Leaving(c)[m] = 0 /\ Leaving(c)[n1] = 0 /\ Leaving(c)[n2] = 0 /\ Leaving(c)[n3] = 0
    BY <1>2, <1>4, ExecuteParts, Addresses DEF Leaving
  <2>2. total(Leaving(c), ms) = 0
    BY <1>5, <2>1, LeavingType
  <2> QED
    BY <1>0, <1>2, <2>1, <2>2, StepTotals, TotalTypes
<1>7. ASSUME NEW t \in Tokens, NEW a \in Liquidators
      PROVE  total(Passing(t, a), q2) = total(Passing(t, a), q)
  <2>1. /\ Passing(t, a)[m] = Passing(t, a)[n1] /\ Passing(t, a)[m] \in Int
        /\ Passing(t, a)[n2] = 0 /\ Passing(t, a)[n3] = 0
    BY <1>2, <1>3, <1>4, ExecuteParts DEF Passing
  <2>2. total(Passing(t, a), ms) = Passing(t, a)[m]
    BY <1>5, <2>1, PassingType
  <2> QED
    BY <1>0, <1>2, <2>1, <2>2, StepTotals, TotalTypes
<1>8. ASSUME NEW u \in Users, NEW t \in Tokens
      PROVE  /\ total(ToLock(u, t), q2) = total(ToLock(u, t), q)
             /\ total(ToFree(u, t), q2) = total(ToFree(u, t), q)
  <2>1. /\ ToLock(u, t)[m] = 0 /\ ToLock(u, t)[n1] = 0 /\ ToLock(u, t)[n2] = 0
        /\ ToLock(u, t)[n3] = 0
        /\ ToFree(u, t)[m] = 0 /\ ToFree(u, t)[n1] = 0 /\ ToFree(u, t)[n2] = 0
        /\ ToFree(u, t)[n3] = 0
    BY <1>2, <1>4, ExecuteParts DEF ToLock, ToFree
  <2>2. total(ToLock(u, t), ms) = 0 /\ total(ToFree(u, t), ms) = 0
    BY <1>5, <2>1, ToLockType, ToFreeType
  <2> QED
    BY <1>0, <1>2, <2>1, <2>2, StepTotals, TotalTypes
<1>9. /\ total(Paying(Liquidation), q2) = total(Paying(Liquidation), q) + (n2.amount + n3.amount)
      /\ total(Paying(Liquidation), q) \in Int
  <2>1. /\ Paying(Liquidation)[m] = 0 /\ Paying(Liquidation)[n1] = 0
        /\ Paying(Liquidation)[n2] = n2.amount /\ Paying(Liquidation)[n3] = n3.amount
    BY <1>2, <1>4, ExecuteParts DEF Paying
  <2>2. total(Paying(Liquidation), ms) = n2.amount + n3.amount
    BY <1>3, <1>5, <2>1, PayingType
  <2>3. Liquidation \in Accounts /\ total(Paying(Liquidation), q) \in Int
    BY <1>2, Addresses, TotalTypes
  <2> QED
    BY <1>0, <1>3, <2>1, <2>2, <2>3, StepTotals
<1>10. total(Paying(Market), q2) = total(Paying(Market), q)
  <2>1. /\ Paying(Market)[m] = 0 /\ Paying(Market)[n1] = 0
        /\ Paying(Market)[n2] = 0 /\ Paying(Market)[n3] = 0
    BY <1>2, <1>4, ExecuteParts, Addresses DEF Paying
  <2>2. total(Paying(Market), ms) = 0
    BY <1>5, <2>1, PayingType
  <2>3. Market \in Accounts /\ total(Paying(Market), q) \in Int
    BY <1>2, Addresses, TotalTypes
  <2> QED
    BY <1>0, <2>1, <2>2, <2>3, StepTotals
<1>11. SpendableHeld(st2) /\ Backed(st2, q2) /\ PassedOn(st2, q2)
  BY <1>0, <1>6, <1>7, BooksFrame DEF Sound, Backed, PassedOn
<1>12. Escrowed(st2, q2)
  <2>1. escrowed(st2) = escrowed(st) + worth(st2.bids[m.liquidator][m.token])
                          - worth(st.bids[m.liquidator][m.token])
    BY <1>3, EscrowChange
  <2>2. escrowed(st) \in Int /\ worth(st.bids[m.liquidator][m.token]) \in Int
    <3>1. st.bids[m.liquidator][m.token] \in Bid \cup {None}
      BY <1>1, <1>3 DEF BidBooks
    <3> QED
      BY <1>1, <3>1, EscrowType, WorthType
  <2>3. escrowed(st2) = escrowed(st) - (n2.amount + n3.amount)
    BY <1>3, <2>1, <2>2
  <2>4. escrowed(st) + total(Paying(Liquidation), q) <= st.bank[Liquidation]
    BY <1>0 DEF Sound, Escrowed
  <2>5. escrowed(st2) + total(Paying(Liquidation), q2) = escrowed(st) + total(Paying(Liquidation), q)
    BY <1>3, <1>9, <2>2, <2>3
  <2> QED
    BY <2>4, <2>5 DEF Escrowed
<1>13. (\A u \in Users : free_after(st2, q2, u) = free_after(st, q, u)) /\ Agree(st2, q2)
  <2>1. st2.custody = st.custody /\ st2.collaterals = st.collaterals /\ Agree(st, q)
    BY <1>0 DEF Sound
  <2> QED
    BY <1>1, <1>2, <1>8, <2>1, SameBooks
<1>14. ASSUME Paid(before, st, q) PROVE Paid(before, st2, q2)
  BY <1>10, <1>14 DEF Paid, forgiven
<1>15. ASSUME RepayLast(before, st, q) PROVE RepayLast(before, st2, q2)
  BY <1>0, <1>2, <1>3, <1>15, RepayStaysLast
<1>16. st2 \in Stores
  BY <1>1, StoreParts
<1> QED
  BY <1>2, <1>11, <1>12, <1>13, <1>14, <1>15, <1>16 DEF Runs, Sound

(***************************************************************************)
(* The repayment                                                           *)
(***************************************************************************)
\* ms pays back what the loan does not take, if anything.
Refunds(ms, n) ==
    /\ n \in BankSends /\ n.from = Market
    /\ ms = IF n.amount = 0 THEN <<>> ELSE <<n>>

LEMMA RefundsTotal ==
    ASSUME NEW ms, NEW n, Refunds(ms, n), NEW f \in [Msg -> Int]
    PROVE  total(f, ms) = IF n.amount = 0 THEN 0 ELSE f[n]
<1>1. n \in Msg
  BY BankSendParts DEF Refunds
<1>2. CASE n.amount = 0
  BY <1>2, TotalEmpty DEF Refunds
<1>3. CASE n.amount # 0
  <2>1. Single(ms, n)
    BY <1>3 DEF Single, Refunds
  <2> QED
    BY <1>1, <1>3, <2>1, TotalOne
<1> QED
  BY <1>2, <1>3

LEMMA RefundsParts ==
    ASSUME NEW ms, NEW n, Refunds(ms, n)
    PROVE  /\ ms \in Seq(Msg)
           /\ \A i \in 1 .. Len(ms) : ms[i].type = "bank_send"
<1>1. n \in Msg /\ n.type = "bank_send"
  BY BankSendParts DEF Refunds
<1>2. CASE n.amount = 0
  BY <1>2 DEF Refunds
<1>3. CASE n.amount # 0
  BY <1>1, <1>3 DEF Refunds
<1> QED
  BY <1>2, <1>3

\* The repayment is all of the queue.
LEMMA RepayAlone ==
    ASSUME NEW before, NEW st, NEW q, NEW ms, NEW q2, Steps(q, ms, q2),
           Head(q).type = "repay", RepayLast(before, st, q)
    PROVE  /\ q2 = ms /\ Head(q).prev_balance = before.bank[Market] /\ st.loan = before.loan
           /\ Single(q, Head(q))
<1>1. q \in Seq(Msg) /\ q # <<>> /\ ms \in Seq(Msg) /\ q2 = ms \o Tail(q)
  BY DEF Steps
<1>2. Len(q) \in Nat /\ Len(q) > 0 /\ Head(q) = q[1]
  BY <1>1, LenProperties, EmptySeq, HeadTailProperties
<1>3. 1 = Len(q) /\ q[1].prev_balance = before.bank[Market] /\ st.loan = before.loan
  <2>1. 1 \in 1 .. Len(q) /\ q[1].type = "repay"
    BY <1>2
  <2> QED
    BY <2>1 DEF RepayLast
<1>4. Tail(q) = <<>>
  <2>1. Tail(q) \in Seq(Msg) /\ Len(Tail(q)) = 0
    BY <1>1, <1>3, HeadTailProperties
  <2> QED
    BY <2>1, EmptySeq
<1>5. q2 = ms
  BY <1>1, <1>4, ConcatEmptySeq
<1>6. Single(q, Head(q))
  BY <1>1, <1>2, <1>3 DEF Single
<1> QED
  BY <1>2, <1>3, <1>5, <1>6

LoanReduced(st, st2, b, repaid) == st2.loan = [st.loan EXCEPT ![b] = @ - repaid]

LEMMA RepayRuns ==
    ASSUME NEW before, NEW st, NEW q, NEW m, NEW ms, NEW q2, Waits(before, st, q, m, ms, q2),
           m.type = "repay", NEW b, b = m.borrower,
           NEW amount \in Nat, amount = st.bank[Market] - m.prev_balance,
           NEW repaid \in Nat, repaid <= st.loan[b],
           NEW n, Refunds(ms, n), n.amount = amount - repaid,
           NEW st2, IsStore(st2), LoanReduced(st, st2, b, repaid),
           st2.bank = st.bank, st2.cw20 = st.cw20, st2.bids = st.bids,
           st2.custody = st.custody, st2.collaterals = st.collaterals
    PROVE  Runs(before, st, q, st2, q2)
<1>0. Steps(q, ms, q2) /\ m = Head(q) /\ Sound(st, q) /\ before \in Stores
  BY DEF Waits
<1>1. /\ st.bank \in [Accounts -> Nat] /\ st.cw20 \in [Tokens -> [Accounts -> Nat]]
      /\ st.bids \in BidBooks /\ st.custody \in Books
      /\ st.collaterals \in [Users -> Goodly] /\ st.loan \in LoanBooks
  BY <1>0, StoreParts DEF Sound
<1>2. m \in Repays /\ q \in Seq(Msg) /\ q2 \in Seq(Msg)
  BY <1>0, MsgTypes, StepTotals DEF Steps
<1>3. /\ b \in Users /\ n \in Msg /\ n.type = "bank_send" /\ n.from = Market
      /\ n.amount \in Nat /\ m.type = "repay"
  BY <1>2, RepayParts, BankSendParts DEF Refunds
<1>4. /\ st2.loan \in LoanBooks /\ st2.loan[b] = st.loan[b] - repaid
      /\ \A u \in Users : u # b => st2.loan[u] = st.loan[u]
      /\ st.loan[b] \in Nat
  BY <1>1, <1>3 DEF LoanBooks, LoanReduced
<1>5. ASSUME NEW f \in [Msg -> Int] PROVE total(f, ms) = IF n.amount = 0 THEN 0 ELSE f[n]
  BY RefundsTotal
<1>6. ASSUME NEW c \in Custodies PROVE total(Leaving(c), q2) = total(Leaving(c), q)
  <2>1. Leaving(c)[m] = 0 /\ Leaving(c)[n] = 0
    BY <1>2, <1>3, RepayParts DEF Leaving
  <2>2. total(Leaving(c), ms) = 0
    BY <1>5, <2>1, LeavingType
  <2> QED
    BY <1>0, <1>2, <2>1, <2>2, StepTotals, TotalTypes
<1>7. ASSUME NEW t \in Tokens, NEW a \in Liquidators
      PROVE  total(Passing(t, a), q2) = total(Passing(t, a), q)
  <2>1. Passing(t, a)[m] = 0 /\ Passing(t, a)[n] = 0
    BY <1>2, <1>3, RepayParts DEF Passing
  <2>2. total(Passing(t, a), ms) = 0
    BY <1>5, <2>1, PassingType
  <2> QED
    BY <1>0, <1>2, <2>1, <2>2, StepTotals, TotalTypes
<1>8. ASSUME NEW u \in Users, NEW t \in Tokens
      PROVE  /\ total(ToLock(u, t), q2) = total(ToLock(u, t), q)
             /\ total(ToFree(u, t), q2) = total(ToFree(u, t), q)
  <2>1. /\ ToLock(u, t)[m] = 0 /\ ToLock(u, t)[n] = 0
        /\ ToFree(u, t)[m] = 0 /\ ToFree(u, t)[n] = 0
    BY <1>2, <1>3, RepayParts DEF ToLock, ToFree
  <2>2. total(ToLock(u, t), ms) = 0 /\ total(ToFree(u, t), ms) = 0
    BY <1>5, <2>1, ToLockType, ToFreeType
  <2> QED
    BY <1>0, <1>2, <2>1, <2>2, StepTotals, TotalTypes
<1>9. total(Paying(Liquidation), q2) = total(Paying(Liquidation), q)
  <2>1. Paying(Liquidation)[m] = 0 /\ Paying(Liquidation)[n] = 0
    BY <1>2, <1>3, RepayParts, Addresses DEF Paying
  <2>2. total(Paying(Liquidation), ms) = 0
    BY <1>5, <2>1, PayingType
  <2>3. Liquidation \in Accounts /\ total(Paying(Liquidation), q) \in Int
    BY <1>2, Addresses, TotalTypes
  <2> QED
    BY <1>0, <2>1, <2>2, <2>3, StepTotals
<1>10. SpendableHeld(st2) /\ Backed(st2, q2) /\ PassedOn(st2, q2)
  BY <1>0, <1>6, <1>7, BooksFrame DEF Sound, Backed, PassedOn
<1>11. Escrowed(st2, q2)
  BY <1>0, <1>9, BidsFrame DEF Sound, Escrowed
<1>12. (\A u \in Users : free_after(st2, q2, u) = free_after(st, q, u)) /\ Agree(st2, q2)
  <2>1. st2.custody = st.custody /\ st2.collaterals = st.collaterals /\ Agree(st, q)
    BY <1>0 DEF Sound
  <2> QED
    BY <1>1, <1>2, <1>8, <2>1, SameBooks
<1>13. ASSUME RepayLast(before, st, q)
       PROVE  Paid(before, st2, q2) /\ RepayLast(before, st2, q2)
  <2>1. q2 = ms /\ m.prev_balance = before.bank[Market] /\ st.loan = before.loan
    BY <1>0, <1>3, <1>13, RepayAlone
  <2>2. forgiven(before, st2) = repaid
    <3>1. forgiven(before, st2) = before.loan[b] - st2.loan[b]
      BY <1>1, <1>3, <1>4, <2>1, OneForgiven
    <3> QED
      BY <1>4, <2>1, <3>1
  <2>3. total(Paying(Market), q2) = n.amount
    <3>1. Paying(Market) \in [Msg -> Int] /\ Paying(Market)[n] = n.amount
      BY <1>3, PayingType DEF Paying
    <3>2. total(Paying(Market), ms) = IF n.amount = 0 THEN 0 ELSE Paying(Market)[n]
      BY <1>5, <3>1
    <3> QED
      BY <2>1, <3>1, <3>2
  <2>4. Paid(before, st2, q2)
    BY <1>3, <2>1, <2>2, <2>3 DEF Paid
  <2>5. RepayLast(before, st2, q2)
    BY <2>1, RefundsParts DEF RepayLast
  <2> QED
    BY <2>4, <2>5
<1>14. st2 \in Stores
  BY <1>1, <1>4, StoreParts
<1> QED
  BY <1>2, <1>10, <1>11, <1>12, <1>13, <1>14 DEF Runs, Sound

(***************************************************************************)
(* A transaction starts                                                    *)
(***************************************************************************)
LEMMA LimitIs ==
    ASSUME NEW have
    PROVE  compute_borrow_limit(have) = limit(prices, whitelist, have)
BY DEF compute_borrow_limit, limit, rate

\* From the stores st, with nothing waiting, to st2, with q2 waiting.
Starts(prs, list, st, st2, q2) ==
    /\ q2 \in Seq(Msg) /\ Sound(st2, q2) /\ LockedListed(st2, list)
    /\ Judged(prs, list, st, st2) /\ RepayLast(st, st2, q2) /\ OneAccount(st, st2, q2)
    /\ q2 # <<>> \/ st2.collaterals # st.collaterals => Paid(st, st2, q2)

LEMMA EmptyParts ==
    ASSUME NEW q, Empty(q)
    PROVE  /\ q \in Seq(Msg) /\ \A f : total(f, q) = 0
           /\ \A before, after : RepayLast(before, after, q)
BY TotalEmpty DEF Empty, RepayLast

LEMMA FreeNow ==
    ASSUME NEW st, st.custody \in Books, NEW q, NEW u \in Users,
           \A t \in Tokens : total(ToFree(u, t), q) = 0
    PROVE  free_after(st, q, u) = spendable_of(st, u)
<1>1. spendable_of(st, u) \in [Tokens -> Nat]
  BY BooksTypes
<1>2. \A t \in Tokens : spendable_of(st, u)[t] + total(ToFree(u, t), q) = spendable_of(st, u)[t]
  BY <1>1
<1>3. spendable_of(st, u) = [t \in Tokens |-> spendable_of(st, u)[t]]
  BY <1>1
<1> QED
  BY <1>2, <1>3 DEF free_after

LEMMA NobodyMoves ==
    ASSUME NEW st, NEW st2, NEW q2, st.custody \in Books, st2.collaterals = st.collaterals,
           \A u \in Users : free_after(st2, q2, u) = spendable_of(st, u)
    PROVE  OneAccount(st, st2, q2)
<1>1. \A u \in Users : spendable_of(st, u) \in [Tokens -> Nat]
  BY BooksTypes
<1>2. \A u \in Users : NoMore(spendable_of(st, u), spendable_of(st, u))
  BY <1>1 DEF NoMore
<1>3. Owner \in Users
  BY CollateralAssumption
<1> QED
  BY <1>2, <1>3 DEF OneAccount, Accounted

LEMMA NothingTaken ==
    ASSUME NEW prs, NEW list, NEW st, NEW st2, st.collaterals \in [Users -> Goodly],
           st2.collaterals = st.collaterals
    PROVE  /\ Judged(prs, list, st, st2)
           /\ LockedListed(st, list) => LockedListed(st2, list)
<1>1. \A u \in Users, t \in Tokens : st.collaterals[u][t] \in Nat
  BY DEF Goodly
<1>2. Judged(prs, list, st, st2)
  BY <1>1 DEF Judged, JudgedFor, contains
<1> QED
  BY <1>2 DEF LockedListed

LEMMA NothingPaid ==
    ASSUME NEW st, NEW st2, NEW q2, st.loan \in LoanBooks, st2.loan = st.loan,
           st.bank[Market] \in Nat, st2.bank[Market] = st.bank[Market],
           total(Paying(Market), q2) = 0
    PROVE  Paid(st, st2, q2)
<1>1. forgiven(st, st2) = 0
  BY NothingForgiven
<1> QED
  BY <1>1 DEF Paid

LEMMA SpendableFrame ==
    ASSUME NEW st, NEW st2, NEW c \in Custodies, NEW b \in Users, Touches(st, st2, c, b),
           NEW u \in Users, u # b
    PROVE  spendable_of(st2, u) = spendable_of(st, u)
<1>1. \A t \in Tokens : spendable_of(st2, u)[t] = spendable_of(st, u)[t]
  BY SpendableElse
<1>2. spendable_of(st2, u) \in [Tokens -> Nat] /\ spendable_of(st, u) \in [Tokens -> Nat]
  BY BooksTypes DEF Touches
<1> QED
  BY <1>1, <1>2

LEMMA SpendableRises ==
    ASSUME NEW st, NEW st2, NEW c \in Custodies, NEW b \in Users, Touches(st, st2, c, b),
           st.custody[c][b].spendable <= st2.custody[c][b].spendable
    PROVE  NoMore(spendable_of(st, b), spendable_of(st2, b))
<1> SUFFICES ASSUME NEW t \in Tokens PROVE spendable_of(st, b)[t] <= spendable_of(st2, b)[t]
  BY DEF NoMore
<1>1. st.custody \in Books /\ st2.custody \in Books
  BY DEF Touches
<1>2. spendable_of(st, b)[t] \in Int
  <2>1. spendable_of(st, b) \in [Tokens -> Nat]
    BY <1>1, BooksTypes
  <2> QED
    BY <2>1
<1>3. CASE t = CustodyToken[c]
  <2>1. spendable_of(st2, b)[CustodyToken[c]] =
          spendable_of(st, b)[CustodyToken[c]] + st2.custody[c][b].spendable
            - st.custody[c][b].spendable
    BY SpendableChange
  <2>2. st.custody[c][b].spendable \in Int /\ st2.custody[c][b].spendable \in Int
    BY <1>1, BooksParts
  <2> QED
    BY <1>2, <1>3, <2>1, <2>2
<1>4. CASE t # CustodyToken[c]
  <2>1. spendable_of(st2, b)[t] = spendable_of(st, b)[t]
    BY <1>4, SpendableElse
  <2> QED
    BY <1>2, <2>1
<1> QED
  BY <1>3, <1>4

LEMMA DepositStarts ==
    ASSUME NEW prs, NEW list, NEW st, NEW q, Empty(q), Sound(st, q), LockedListed(st, list),
           NEW c \in Custodies, NEW b \in Users, NEW a \in Nat,
           NEW x \in Nat, NEW z \in Nat, NEW x2, x2 = x + a, NEW z2, z2 = z + a,
           NEW st2, Entry(st, st, c, b, x, z), Entry(st, st2, c, b, x2, z2),
           TokenMove(st.cw20, st2.cw20, CustodyToken[c], b, c, a),
           IsStore(st2), st2.bank = st.bank, st2.bids = st.bids,
           st2.collaterals = st.collaterals, st2.loan = st.loan
    PROVE  Starts(prs, list, st, st2, q)
<1>1. /\ st.bank \in [Accounts -> Nat] /\ st.cw20 \in [Tokens -> [Accounts -> Nat]]
      /\ st.bids \in BidBooks /\ st.custody \in Books
      /\ st.collaterals \in [Users -> Goodly] /\ st.loan \in LoanBooks
  BY StoreParts DEF Sound
<1>2. /\ q \in Seq(Msg) /\ \A f : total(f, q) = 0
      /\ \A before, after : RepayLast(before, after, q)
  BY EmptyParts
<1>3. /\ Touches(st, st2, c, b) /\ st2.custody \in Books
      /\ st.custody[c][b].spendable = z /\ st.custody[c][b].balance = x
      /\ st2.custody[c][b].spendable = z2 /\ st2.custody[c][b].balance = x2
  BY DEF Entry, Touches
<1>4. /\ CustodyToken[c] \in Tokens /\ b \in Accounts /\ c \in Accounts /\ b # c
      /\ z <= x /\ z2 <= x2
  BY <1>3, CustodyAssumption, Addresses DEF Sound, SpendableHeld
<1>5. /\ st2.cw20 \in [Tokens -> [Accounts -> Nat]]
      /\ st2.cw20[CustodyToken[c]][c] = st.cw20[CustodyToken[c]][c] + a
      /\ \A t \in Tokens, d \in Accounts :
           t # CustodyToken[c] \/ (d # b /\ d # c) => st2.cw20[t][d] = st.cw20[t][d]
  <2> DEFINE token == CustodyToken[c]
             cw == st.cw20
             cw2 == st2.cw20
  <2>1. token \in Tokens /\ TokenMove(cw, cw2, token, b, c, a)
    BY <1>4
  <2> HIDE DEF token, cw, cw2
  <2>2. /\ cw2 \in [Tokens -> [Accounts -> Nat]] /\ cw2[token][c] = cw[token][c] + a
        /\ \A t \in Tokens, d \in Accounts :
             t # token \/ (d # b /\ d # c) => cw2[t][d] = cw[t][d]
    BY <1>4, <2>1, TokensMoved
  <2> QED
    BY <2>2 DEF token, cw, cw2
<1>6. Backed(st2, q)
  <2> SUFFICES ASSUME NEW d \in Custodies
               PROVE  kept_in(st2, d) + total(Leaving(d), q) <= st2.cw20[CustodyToken[d]][d]
    BY DEF Backed
  <2>1. kept_in(st, d) + 0 <= st.cw20[CustodyToken[d]][d]
    BY <1>2 DEF Sound, Backed
  <2>2. /\ kept_in(st, d) \in Int /\ CustodyToken[d] \in Tokens /\ d \in Accounts
        /\ st.cw20[CustodyToken[d]][d] \in Int /\ d # b
    BY <1>1, BooksTypes, CustodyAssumption, Addresses
  <2>3. CASE d = c
    <3>1. kept_in(st2, c) = kept_in(st, c) + st2.custody[c][b].balance - st.custody[c][b].balance
      BY <1>3, KeptChange
    <3>2. kept_in(st2, c) = kept_in(st, c) + a
      BY <1>3, <2>2, <2>3, <3>1
    <3> QED
      BY <1>2, <1>5, <2>1, <2>2, <2>3, <3>2
  <2>4. CASE d # c
    <3>1. kept_in(st2, d) = kept_in(st, d)
      BY <1>3, <2>4, KeptChange
    <3> QED
      BY <1>2, <1>5, <2>1, <2>2, <2>4, <3>1
  <2> QED
    BY <2>3, <2>4
<1>7. PassedOn(st2, q)
  BY <1>4, <1>5, Addresses DEF Sound, PassedOn
<1>8. Escrowed(st2, q)
  BY CoinsUntouched DEF Sound
<1>9. Agree(st2, q)
  <2>1. \A u \in Users, t \in Tokens : total(ToLock(u, t), q) = 0
    BY <1>2
  <2>2. LockShift(st, st2, q, q, c, b)
    BY <1>3, <1>4, <2>1 DEF LockShift
  <2> QED
    BY <1>2, <1>3, <2>2, EntryAgree DEF Sound
<1>10. SpendableHeld(st2)
  BY <1>3, <1>4, EntryHeld DEF Sound
<1>11. OneAccount(st, st2, q)
  <2>1. \A u \in Users : /\ free_after(st2, q, u) = spendable_of(st2, u)
                         /\ spendable_of(st, u) \in [Tokens -> Nat]
    BY <1>1, <1>2, <1>3, FreeNow, BooksTypes
  <2>2. \A u \in Users : u # b => spendable_of(st2, u) = spendable_of(st, u)
    BY <1>3, SpendableFrame
  <2>3. NoMore(spendable_of(st, b), spendable_of(st2, b))
    <3>1. st.custody[c][b].spendable <= st2.custody[c][b].spendable
      BY <1>3
    <3> QED
      BY <1>3, <3>1, SpendableRises
  <2> QED
    BY <2>1, <2>2, <2>3 DEF OneAccount, Accounted
<1>12. st2 \in Stores
  BY <1>1, <1>3, <1>5, StoreParts
<1>13. Judged(prs, list, st, st2) /\ LockedListed(st2, list)
  BY <1>1, NothingTaken
<1>14. q = <<>>
  BY DEF Empty
<1> QED
  BY <1>2, <1>6, <1>7, <1>8, <1>9, <1>10, <1>11, <1>12, <1>13, <1>14 DEF Starts, Sound

LEMMA WithdrawStarts ==
    ASSUME NEW prs, NEW list, NEW st, NEW q, Empty(q), Sound(st, q), LockedListed(st, list),
           NEW c \in Custodies, NEW b \in Users, NEW a \in Nat,
           NEW x \in Nat, NEW z \in Nat, a <= z, NEW x2, x2 = x - a, NEW z2, z2 = z - a,
           NEW st2, Entry(st, st, c, b, x, z), Entry(st, st2, c, b, x2, z2),
           OtherwiseSame(st, st2),
           NEW n \in Transfers, n.from = c, n.token = CustodyToken[c], n.amount = a,
           NEW q2, Single(q2, n)
    PROVE  Starts(prs, list, st, st2, q2)
<1>1. /\ st.bank \in [Accounts -> Nat] /\ st.cw20 \in [Tokens -> [Accounts -> Nat]]
      /\ st.bids \in BidBooks /\ st.custody \in Books
      /\ st.collaterals \in [Users -> Goodly] /\ st.loan \in LoanBooks
  BY StoreParts DEF Sound
<1>2. q \in Seq(Msg) /\ \A f : total(f, q) = 0
  BY EmptyParts
<1>3. /\ Touches(st, st2, c, b) /\ st2.custody \in Books
      /\ st.custody[c][b].spendable = z /\ st.custody[c][b].balance = x
      /\ st2.custody[c][b].spendable = z2 /\ st2.custody[c][b].balance = x2
  BY DEF Entry, Touches
<1>4. z <= x /\ z2 <= x2
  BY <1>3 DEF Sound, SpendableHeld
<1>5. n \in Msg /\ n.type = "transfer" /\ c \notin Liquidators
  BY TransferParts, Addresses
<1>6. q2 \in Seq(Msg) /\ \A i \in 1 .. Len(q2) : q2[i].type = "transfer"
  BY <1>5 DEF Single
<1>7. /\ \A d \in Custodies : total(Leaving(d), q2) = IF d = c THEN a ELSE 0
      /\ \A t \in Tokens, l \in Liquidators : total(Passing(t, l), q2) = 0
      /\ \A d \in Accounts : total(Paying(d), q2) = 0
      /\ \A u \in Users, t \in Tokens : total(ToLock(u, t), q2) = 0 /\ total(ToFree(u, t), q2) = 0
  <2>1. /\ \A d \in Custodies : Leaving(d)[n] = IF d = c THEN a ELSE 0
        /\ \A t \in Tokens, l \in Liquidators : Passing(t, l)[n] = 0
        /\ \A d \in Accounts : Paying(d)[n] = 0
        /\ \A u \in Users, t \in Tokens : ToLock(u, t)[n] = 0 /\ ToFree(u, t)[n] = 0
    BY <1>5 DEF Leaving, Passing, Paying, ToLock, ToFree
  <2>2. ASSUME NEW f \in [Msg -> Int] PROVE total(f, q2) = f[n]
    BY <1>5, TotalOne
  <2> QED
    BY <2>1, <2>2, LeavingType, PassingType, PayingType, ToLockType, ToFreeType
<1>8. Backed(st2, q2)
  <2>1. LeavingShift(st, st2, q, q2, c, b)
    BY <1>2, <1>3, <1>7 DEF LeavingShift
  <2> QED
    BY <1>1, <1>2, <1>3, <1>6, <2>1, EntryBacked DEF Sound, OtherwiseSame
<1>9. PassedOn(st2, q2)
  BY <1>2, <1>7 DEF Sound, PassedOn, OtherwiseSame
<1>10. Escrowed(st2, q2) /\ Paid(st, st2, q2)
  <2>1. \A d \in Accounts : total(Paying(d), q2) = total(Paying(d), q)
    BY <1>2, <1>7
  <2>2. Escrowed(st2, q2)
    BY <2>1, CoinsUntouched DEF Sound, OtherwiseSame
  <2>3. total(Paying(Market), q2) = 0 /\ st.bank[Market] \in Nat
    BY <1>1, <1>7, Addresses
  <2>4. Paid(st, st2, q2)
    BY <1>1, <2>3, NothingPaid DEF OtherwiseSame
  <2> QED
    BY <2>2, <2>4
<1>11. Agree(st2, q2)
  <2>1. \A u \in Users, t \in Tokens : total(ToLock(u, t), q2) = 0 /\ total(ToLock(u, t), q) = 0
    BY <1>2, <1>7
  <2>2. 0 = 0 + (x - z) - (x2 - z2) /\ CustodyToken[c] \in Tokens
    BY CustodyAssumption
  <2>3. LockShift(st, st2, q, q2, c, b)
    BY <1>3, <2>1, <2>2 DEF LockShift
  <2> QED
    BY <1>2, <1>3, <1>6, <2>3, EntryAgree DEF Sound, OtherwiseSame
<1>12. SpendableHeld(st2)
  BY <1>3, <1>4, EntryHeld DEF Sound
<1>13. OneAccount(st, st2, q2)
  <2>1. \A u \in Users : free_after(st2, q2, u) = spendable_of(st2, u)
    BY <1>3, <1>7, FreeNow
  <2>2. \A u \in Users : u # b => spendable_of(st2, u) = spendable_of(st, u)
    BY <1>3, SpendableFrame
  <2>3. NoMore(spendable_of(st2, b), spendable_of(st, b))
    <3>1. Touches(st2, st, c, b)
      BY <1>3 DEF Touches
    <3>2. st2.custody[c][b].spendable <= st.custody[c][b].spendable
      BY <1>3
    <3> QED
      BY <3>1, <3>2, SpendableRises
  <2> QED
    BY <2>1, <2>2, <2>3 DEF OneAccount, Accounted, OtherwiseSame
<1>14. st2 \in Stores
  BY <1>1, <1>3, StoreParts DEF OtherwiseSame
<1>15. Judged(prs, list, st, st2) /\ LockedListed(st2, list)
  BY <1>1, NothingTaken DEF OtherwiseSame
<1>16. RepayLast(st, st2, q2)
  BY <1>6 DEF RepayLast
<1> QED
  BY <1>6, <1>8, <1>9, <1>10, <1>11, <1>12, <1>13, <1>14, <1>15, <1>16 DEF Starts, Sound

\* Only what the overseer has recorded of b becomes different.
Recorded(st, st2, b, new) ==
    /\ IsStore(st2) /\ st2.bank = st.bank /\ st2.cw20 = st.cw20 /\ st2.bids = st.bids
    /\ st2.custody = st.custody /\ st2.loan = st.loan
    /\ st2.collaterals = [st.collaterals EXCEPT ![b] = new]

LEMMA RecordedParts ==
    ASSUME NEW st, st \in Stores, NEW b \in Users, NEW new \in Goodly,
           NEW st2, Recorded(st, st2, b, new)
    PROVE  /\ st2 \in Stores /\ st2.collaterals[b] = new
           /\ \A u \in Users : u # b => st2.collaterals[u] = st.collaterals[u]
<1>1. st.collaterals \in [Users -> Goodly]
  BY StoreParts
<1>2. /\ st2.collaterals \in [Users -> Goodly] /\ st2.collaterals[b] = new
      /\ \A u \in Users : u # b => st2.collaterals[u] = st.collaterals[u]
  BY <1>1 DEF Recorded
<1>3. st2 \in Stores
  BY <1>2, StoreParts DEF Recorded
<1> QED
  BY <1>2, <1>3

\* A call of the overseer: what it records is what the messages will lock.
LEMMA RecordedSound ==
    ASSUME NEW st, NEW q, Empty(q), Sound(st, q), NEW b \in Users, NEW new \in Goodly,
           NEW st2, Recorded(st, st2, b, new), NEW q2 \in Seq(Msg),
           \A c \in Custodies : total(Leaving(c), q2) = 0,
           \A t \in Tokens, a \in Liquidators : total(Passing(t, a), q2) = 0,
           \A a \in Accounts : total(Paying(a), q2) = 0,
           \A t \in Tokens : total(ToLock(b, t), q2) = new[t] - st.collaterals[b][t],
           \A u \in Users, t \in Tokens : u # b => total(ToLock(u, t), q2) = 0
    PROVE  Sound(st2, q2) /\ Paid(st, st2, q2)
<1>1. /\ st.bank \in [Accounts -> Nat] /\ st.custody \in Books
      /\ st.collaterals \in [Users -> Goodly] /\ st.loan \in LoanBooks /\ st \in Stores
  BY StoreParts DEF Sound
<1>2. \A f : total(f, q) = 0
  BY EmptyParts
<1>3. /\ st2 \in Stores /\ st2.collaterals[b] = new
      /\ \A u \in Users : u # b => st2.collaterals[u] = st.collaterals[u]
  BY <1>1, RecordedParts
<1>4. /\ st2.bank = st.bank /\ st2.cw20 = st.cw20 /\ st2.bids = st.bids
      /\ st2.custody = st.custody /\ st2.loan = st.loan
  BY DEF Recorded
<1>5. SpendableHeld(st2) /\ Backed(st2, q2) /\ PassedOn(st2, q2)
  BY <1>2, <1>4, BooksFrame DEF Sound, Backed, PassedOn
<1>6. Escrowed(st2, q2)
  <2>1. \A a \in Accounts : total(Paying(a), q2) = total(Paying(a), q)
    BY <1>2
  <2> QED
    BY <1>4, <2>1, CoinsUntouched DEF Sound
<1>7. Agree(st2, q2)
  <2> SUFFICES ASSUME NEW u \in Users, NEW t \in Tokens
               PROVE  st2.collaterals[u][t] = locked_of(st2, u)[t] + total(ToLock(u, t), q2)
    BY DEF Agree
  <2>1. locked_of(st2, u) = locked_of(st, u) /\ locked_of(st, u) \in [Tokens -> Int]
    BY <1>1, <1>4, BooksFrame, BooksTypes
  <2>2. st.collaterals[u][t] = locked_of(st, u)[t] + 0
    BY <1>2 DEF Sound, Agree
  <2>3. locked_of(st, u)[t] \in Int /\ new[t] \in Int
    BY <2>1 DEF Goodly
  <2>4. CASE u = b
    <3>1. total(ToLock(b, t), q2) = new[t] - st.collaterals[b][t]
      OBVIOUS
    <3>2. new[t] = locked_of(st, b)[t] + total(ToLock(b, t), q2)
      BY <2>2, <2>3, <2>4, <3>1
    <3> QED
      BY <1>3, <2>1, <2>4, <3>2
  <2>5. CASE u # b
    <3>1. total(ToLock(u, t), q2) = 0
      BY <2>5
    <3> QED
      BY <1>3, <2>1, <2>2, <2>3, <2>5, <3>1
  <2> QED
    BY <2>4, <2>5
<1>8. Paid(st, st2, q2)
  <2>1. total(Paying(Market), q2) = 0 /\ st.bank[Market] \in Nat
    BY <1>1, Addresses
  <2> QED
    BY <1>1, <1>4, <2>1, NothingPaid
<1> QED
  BY <1>3, <1>5, <1>6, <1>7, <1>8 DEF Sound

\* What will be spendable, when the books are as they were.
LEMMA FreeLater ==
    ASSUME NEW st, NEW st2, st.custody \in Books, st2.custody = st.custody, NEW q2, NEW u \in Users
    PROVE  /\ \A t \in Tokens : /\ free_after(st2, q2, u)[t] =
                                     spendable_of(st, u)[t] + total(ToFree(u, t), q2)
                                /\ spendable_of(st, u)[t] \in Nat
           /\ (\A t \in Tokens : total(ToFree(u, t), q2) = 0) =>
                free_after(st2, q2, u) = spendable_of(st, u)
<1>1. spendable_of(st2, u) = spendable_of(st, u) /\ spendable_of(st, u) \in [Tokens -> Nat]
  BY BooksFrame, BooksTypes
<1>2. (\A t \in Tokens : total(ToFree(u, t), q2) = 0) => free_after(st2, q2, u) = spendable_of(st2, u)
  BY FreeNow
<1> QED
  BY <1>1, <1>2 DEF free_after

LEMMA LockStarts ==
    ASSUME NEW prs, NEW list, NEW st, NEW q, Empty(q), Sound(st, q), LockedListed(st, list),
           NEW amounts \in Goodly, \A t \in Tokens : amounts[t] > 0 => list[t] # None,
           NEW b \in Users, NEW new, new = add(st.collaterals[b], amounts),
           NEW st2, Recorded(st, st2, b, new),
           NEW q2, Calls(q2, "lock", amounts, b)
    PROVE  Starts(prs, list, st, st2, q2)
<1>1. st.custody \in Books /\ st.collaterals \in [Users -> Goodly] /\ st \in Stores
  BY StoreParts DEF Sound
<1>2. /\ new \in Goodly
      /\ \A t \in Tokens : /\ new[t] = st.collaterals[b][t] + amounts[t]
                           /\ st.collaterals[b][t] \in Nat /\ amounts[t] \in Nat
  BY <1>1 DEF add, Goodly
<1>3. /\ st2.collaterals[b] = new
      /\ \A u \in Users : u # b => st2.collaterals[u] = st.collaterals[u]
  BY <1>1, <1>2, RecordedParts
<1>4. q2 \in Seq(Msg) /\ \A i \in 1 .. Len(q2) : q2[i].type = "lock"
  BY DEF Calls
<1>5. /\ \A t \in Tokens : /\ total(ToLock(b, t), q2) = amounts[t]
                           /\ total(ToFree(b, t), q2) = -amounts[t]
      /\ \A u \in Users, t \in Tokens : u # b => /\ total(ToLock(u, t), q2) = 0
                                                 /\ total(ToFree(u, t), q2) = 0
  BY LockCallsEffect
<1>6. Sound(st2, q2) /\ Paid(st, st2, q2)
  <2>1. \A t \in Tokens : total(ToLock(b, t), q2) = new[t] - st.collaterals[b][t]
    BY <1>2, <1>5
  <2> QED
    BY <1>2, <1>4, <1>5, <2>1, CallsMoveNothing, RecordedSound
<1>7. LockedListed(st2, list)
  BY <1>2, <1>3 DEF LockedListed
<1>8. Judged(prs, list, st, st2)
  <2>1. \A u \in Users, t \in Tokens : st.collaterals[u][t] <= st2.collaterals[u][t]
    BY <1>1, <1>2, <1>3 DEF Goodly
  <2> QED
    BY <2>1 DEF Judged, JudgedFor, contains
<1>9. OneAccount(st, st2, q2)
  <2>1. st2.custody = st.custody
    BY DEF Recorded
  <2>2. \A u \in Users : u # b => free_after(st2, q2, u) = spendable_of(st, u)
    BY <1>1, <1>5, <2>1, FreeLater
  <2>3. \A t \in Tokens : /\ free_after(st2, q2, b)[t] = spendable_of(st, b)[t] + (-amounts[t])
                          /\ spendable_of(st, b)[t] \in Nat
    BY <1>1, <1>5, <2>1, FreeLater
  <2>4. NoMore(free_after(st2, q2, b), spendable_of(st, b))
    BY <1>2, <2>3 DEF NoMore
  <2>5. Shift(spendable_of(st, b), st.collaterals[b], free_after(st2, q2, b), new)
    BY <1>2, <2>3 DEF Shift
  <2> QED
    BY <1>3, <2>2, <2>4, <2>5 DEF OneAccount, Accounted
<1>10. RepayLast(st, st2, q2)
  BY <1>4 DEF RepayLast
<1> QED
  BY <1>4, <1>6, <1>7, <1>8, <1>9, <1>10 DEF Starts

LEMMA UnlockStarts ==
    ASSUME NEW prs, NEW list, NEW st, NEW q, Empty(q), Sound(st, q), LockedListed(st, list),
           NEW amounts \in Goodly, NEW b \in Users, contains(st.collaterals[b], amounts),
           NEW new, new = sub(st.collaterals[b], amounts), limit(prs, list, new) >= st.loan[b],
           NEW st2, Recorded(st, st2, b, new),
           NEW q2, Calls(q2, "unlock", amounts, b)
    PROVE  Starts(prs, list, st, st2, q2)
<1>1. st.custody \in Books /\ st.collaterals \in [Users -> Goodly] /\ st \in Stores
  BY StoreParts DEF Sound
<1>2. /\ new \in Goodly
      /\ \A t \in Tokens : /\ new[t] = st.collaterals[b][t] - amounts[t]
                           /\ st.collaterals[b][t] \in Nat /\ amounts[t] \in Nat
                           /\ new[t] <= st.collaterals[b][t] /\ new[t] \in Nat
  <2>1. \A t \in Tokens : /\ st.collaterals[b][t] \in Nat /\ amounts[t] \in Nat
                          /\ amounts[t] <= st.collaterals[b][t]
    BY <1>1 DEF contains, Goodly
  <2>2. /\ new = [t \in Tokens |-> new[t]]
        /\ \A t \in Tokens : new[t] = st.collaterals[b][t] - amounts[t]
    BY DEF sub
  <2>3. \A t \in Tokens : new[t] \in Nat /\ new[t] <= st.collaterals[b][t]
    BY <2>1, <2>2
  <2> QED
    BY <2>1, <2>2, <2>3 DEF Goodly
<1>3. /\ st2.collaterals[b] = new
      /\ \A u \in Users : u # b => st2.collaterals[u] = st.collaterals[u]
  BY <1>1, <1>2, RecordedParts
<1>4. q2 \in Seq(Msg) /\ \A i \in 1 .. Len(q2) : q2[i].type = "unlock"
  BY DEF Calls
<1>5. /\ \A t \in Tokens : /\ total(ToLock(b, t), q2) = -amounts[t]
                           /\ total(ToFree(b, t), q2) = amounts[t]
      /\ \A u \in Users, t \in Tokens : u # b => /\ total(ToLock(u, t), q2) = 0
                                                 /\ total(ToFree(u, t), q2) = 0
  BY UnlockCallsEffect
<1>6. Sound(st2, q2) /\ Paid(st, st2, q2)
  <2>1. \A t \in Tokens : total(ToLock(b, t), q2) = new[t] - st.collaterals[b][t]
    BY <1>2, <1>5
  <2> QED
    BY <1>2, <1>4, <1>5, <2>1, CallsMoveNothing, RecordedSound
<1>7. LockedListed(st2, list)
  BY <1>2, <1>3 DEF LockedListed
<1>8. Judged(prs, list, st, st2)
  <2> SUFFICES ASSUME NEW u \in Users PROVE JudgedFor(prs, list, st, st2, u)
    BY DEF Judged
  <2>1. CASE u = b
    BY <1>3, <2>1 DEF JudgedFor
  <2>2. CASE u # b
    BY <1>1, <1>3, <2>2 DEF JudgedFor, contains, Goodly
  <2> QED
    BY <2>1, <2>2
<1>9. OneAccount(st, st2, q2)
  <2>1. st2.custody = st.custody
    BY DEF Recorded
  <2>2. \A u \in Users : u # b => free_after(st2, q2, u) = spendable_of(st, u)
    BY <1>1, <1>5, <2>1, FreeLater
  <2>3. \A t \in Tokens : /\ free_after(st2, q2, b)[t] = spendable_of(st, b)[t] + amounts[t]
                          /\ spendable_of(st, b)[t] \in Nat
    BY <1>1, <1>5, <2>1, FreeLater
  <2>4. NoMore(spendable_of(st, b), free_after(st2, q2, b))
    BY <1>2, <2>3 DEF NoMore
  <2>5. Shift(spendable_of(st, b), st.collaterals[b], free_after(st2, q2, b), new)
    BY <1>2, <2>3 DEF Shift
  <2> QED
    BY <1>3, <2>2, <2>4, <2>5 DEF OneAccount, Accounted
<1>10. RepayLast(st, st2, q2)
  BY <1>4 DEF RepayLast
<1> QED
  BY <1>4, <1>6, <1>7, <1>8, <1>9, <1>10 DEF Starts

\* The repayment moves nothing by itself.
Ends(q2, s, n) == q2 = s \o <<n>>

LEMMA RepayTotals ==
    ASSUME NEW s \in Seq(Msg), NEW n \in Repays, NEW q2, Ends(q2, s, n)
    PROVE  /\ q2 \in Seq(Msg) /\ Len(q2) = Len(s) + 1 /\ q2[Len(s) + 1] = n
           /\ \A i \in 1 .. Len(s) : q2[i] = s[i]
<1>1. n \in Msg
  BY RepayParts
<1> DEFINE r == <<n>>
<1>2. r \in Seq(Msg) /\ Len(r) = 1 /\ r[1] = n
  BY <1>1
<1>3. q2 = s \o r /\ Len(s) \in Nat
  BY LenProperties DEF Ends
<1> HIDE DEF r
<1>4. q2 \in Seq(Msg) /\ Len(q2) = Len(s) + Len(r)
  BY <1>2, <1>3, ConcatProperties
<1>5. \A i \in 1 .. Len(s) + Len(r) : q2[i] = IF i <= Len(s) THEN s[i] ELSE r[i - Len(s)]
  BY <1>2, <1>3, ConcatProperties
<1> QED
  BY <1>2, <1>3, <1>4, <1>5

LEMMA RepayEffect ==
    ASSUME NEW s \in Seq(Msg), NEW n \in Repays, NEW q2, Ends(q2, s, n),
           NEW f \in [Msg -> Int], f[n] = 0
    PROVE  total(f, q2) = total(f, s)
<1>1. n \in Msg
  BY RepayParts
<1> DEFINE r == <<n>>
<1>2. r \in Seq(Msg) /\ Single(r, n) /\ q2 = s \o r
  BY <1>1 DEF Single, Ends
<1> HIDE DEF r
<1>3. total(f, r) = 0
  BY <1>1, <1>2, TotalOne
<1>4. total(f, s \o r) = total(f, s) + total(f, r)
  BY <1>2, TotalConcat
<1>5. total(f, s) \in Int
  BY TotalType
<1> QED
  BY <1>2, <1>3, <1>4, <1>5

LEMMA LiquidationStarts ==
    ASSUME NEW prs, NEW list, NEW st, NEW q, Empty(q), Sound(st, q), LockedListed(st, list),
           NEW amounts \in Goodly, NEW b \in Users, contains(st.collaterals[b], amounts),
           NEW new, new = sub(st.collaterals[b], amounts),
           limit(prs, list, st.collaterals[b]) < st.loan[b],
           NEW st2, Recorded(st, st2, b, new),
           NEW s, Calls(s, "liquidate", amounts, b),
           NEW n \in Repays, n.prev_balance = st.bank[Market], NEW q2, Ends(q2, s, n)
    PROVE  Starts(prs, list, st, st2, q2)
<1>1. st.custody \in Books /\ st.collaterals \in [Users -> Goodly] /\ st \in Stores
  BY StoreParts DEF Sound
<1>2. /\ new \in Goodly
      /\ \A t \in Tokens : /\ new[t] = st.collaterals[b][t] - amounts[t]
                           /\ st.collaterals[b][t] \in Nat /\ amounts[t] \in Nat
                           /\ new[t] <= st.collaterals[b][t] /\ new[t] \in Nat
  <2>1. \A t \in Tokens : /\ st.collaterals[b][t] \in Nat /\ amounts[t] \in Nat
                          /\ amounts[t] <= st.collaterals[b][t]
    BY <1>1 DEF contains, Goodly
  <2>2. /\ new = [t \in Tokens |-> new[t]]
        /\ \A t \in Tokens : new[t] = st.collaterals[b][t] - amounts[t]
    BY DEF sub
  <2>3. \A t \in Tokens : new[t] \in Nat /\ new[t] <= st.collaterals[b][t]
    BY <2>1, <2>2
  <2> QED
    BY <2>1, <2>2, <2>3 DEF Goodly
<1>3. /\ st2.collaterals[b] = new
      /\ \A u \in Users : u # b => st2.collaterals[u] = st.collaterals[u]
  BY <1>1, <1>2, RecordedParts
<1>4. s \in Seq(Msg) /\ \A i \in 1 .. Len(s) : s[i].type = "liquidate"
  BY DEF Calls
<1>5. /\ q2 \in Seq(Msg) /\ Len(q2) = Len(s) + 1 /\ q2[Len(s) + 1] = n
      /\ \A i \in 1 .. Len(s) : q2[i] = s[i]
  BY <1>4, RepayTotals
<1>6. n \in Msg /\ n.type = "repay"
  BY RepayParts
<1>7. ASSUME NEW f \in [Msg -> Int], f[n] = 0 PROVE total(f, q2) = total(f, s)
  BY <1>4, <1>7, RepayEffect
<1>8. /\ \A c \in Custodies : total(Leaving(c), q2) = 0
      /\ \A t \in Tokens, a \in Liquidators : total(Passing(t, a), q2) = 0
      /\ \A a \in Accounts : total(Paying(a), q2) = 0
  <2>1. /\ \A c \in Custodies : Leaving(c)[n] = 0
        /\ \A t \in Tokens, a \in Liquidators : Passing(t, a)[n] = 0
        /\ \A a \in Accounts : Paying(a)[n] = 0
    BY <1>6 DEF Leaving, Passing, Paying
  <2> QED
    BY <1>7, <2>1, LeavingType, PassingType, PayingType, CallsMoveNothing
<1>9. /\ \A t \in Tokens : total(ToLock(b, t), q2) = -amounts[t]
      /\ \A u \in Users, t \in Tokens : u # b => total(ToLock(u, t), q2) = 0
      /\ \A u \in Users, t \in Tokens : total(ToFree(u, t), q2) = 0
  <2>1. \A u \in Users, t \in Tokens : ToLock(u, t)[n] = 0 /\ ToFree(u, t)[n] = 0
    BY <1>6 DEF ToLock, ToFree
  <2> QED
    BY <1>7, <2>1, ToLockType, ToFreeType, LiquidateCallsEffect
<1>10. Sound(st2, q2) /\ Paid(st, st2, q2)
  <2>1. \A t \in Tokens : total(ToLock(b, t), q2) = new[t] - st.collaterals[b][t]
    BY <1>2, <1>9
  <2> QED
    BY <1>2, <1>5, <1>8, <1>9, <2>1, RecordedSound
<1>11. LockedListed(st2, list)
  BY <1>2, <1>3 DEF LockedListed
<1>12. Judged(prs, list, st, st2)
  <2> SUFFICES ASSUME NEW u \in Users PROVE JudgedFor(prs, list, st, st2, u)
    BY DEF Judged
  <2>1. CASE u = b
    BY <2>1 DEF JudgedFor
  <2>2. CASE u # b
    BY <1>1, <1>3, <2>2 DEF JudgedFor, contains, Goodly
  <2> QED
    BY <2>1, <2>2
<1>13. OneAccount(st, st2, q2)
  <2>1. st2.custody = st.custody
    BY DEF Recorded
  <2>2. \A u \in Users : free_after(st2, q2, u) = spendable_of(st, u)
    BY <1>1, <1>9, <2>1, FreeLater
  <2>3. NoMore(new, st.collaterals[b])
    BY <1>2 DEF NoMore
  <2> QED
    BY <1>3, <2>2, <2>3 DEF OneAccount, Accounted
<1>14. RepayLast(st, st2, q2)
  <2>1. Len(s) \in Nat
    BY <1>4, LenProperties
  <2>2. \A i \in 1 .. Len(q2) : \/ i = Len(q2) /\ q2[i] = n
                                \/ i \in 1 .. Len(s) /\ q2[i] = s[i]
    BY <1>5, <2>1
  <2>3. st2.loan = st.loan
    BY DEF Recorded
  <2> QED
    BY <1>4, <1>6, <2>2, <2>3 DEF RepayLast
<1> QED
  BY <1>5, <1>10, <1>11, <1>12, <1>13, <1>14 DEF Starts

\* Neither collateral nor the custody contracts have a part in it.
LEMMA CoinsStart ==
    ASSUME NEW prs, NEW list, NEW st, NEW q, Empty(q), Sound(st, q), LockedListed(st, list),
           NEW st2, IsStore(st2), st2.bank \in [Accounts -> Nat], st2.bids \in BidBooks,
           st2.loan \in LoanBooks, st2.cw20 = st.cw20, st2.custody = st.custody,
           st2.collaterals = st.collaterals,
           NEW q2 \in Seq(Msg), \A i \in 1 .. Len(q2) : q2[i].type = "bank_send",
           Escrowed(st2, q2), q2 # <<>> => Paid(st, st2, q2)
    PROVE  Starts(prs, list, st, st2, q2)
<1>1. /\ st.cw20 \in [Tokens -> [Accounts -> Nat]] /\ st.custody \in Books
      /\ st.collaterals \in [Users -> Goodly] /\ st \in Stores
  BY StoreParts DEF Sound
<1>2. \A f : total(f, q) = 0
  BY EmptyParts
<1>3. \A i \in 1 .. Len(q2) : q2[i] \in Msg
  BY LenProperties
<1>4. \A c \in Custodies : total(Leaving(c), q2) = 0
  <2> SUFFICES ASSUME NEW c \in Custodies PROVE total(Leaving(c), q2) = 0
    OBVIOUS
  <2>1. \A i \in 1 .. Len(q2) : Leaving(c)[q2[i]] = 0
    BY <1>3 DEF Leaving
  <2> QED
    BY <2>1, TotalZero, LeavingType
<1>5. \A t \in Tokens, a \in Liquidators : total(Passing(t, a), q2) = 0
  <2> SUFFICES ASSUME NEW t \in Tokens, NEW a \in Liquidators
               PROVE  total(Passing(t, a), q2) = 0
    OBVIOUS
  <2>1. \A i \in 1 .. Len(q2) : Passing(t, a)[q2[i]] = 0
    BY <1>3 DEF Passing
  <2> QED
    BY <2>1, TotalZero, PassingType
<1>6. \A u \in Users, t \in Tokens : total(ToLock(u, t), q2) = 0 /\ total(ToFree(u, t), q2) = 0
  <2> SUFFICES ASSUME NEW u \in Users, NEW t \in Tokens
               PROVE  total(ToLock(u, t), q2) = 0 /\ total(ToFree(u, t), q2) = 0
    OBVIOUS
  <2>1. \A i \in 1 .. Len(q2) : ToLock(u, t)[q2[i]] = 0 /\ ToFree(u, t)[q2[i]] = 0
    BY <1>3 DEF ToLock, ToFree
  <2> QED
    BY <2>1, TotalZero, ToLockType, ToFreeType
<1>7. SpendableHeld(st2) /\ Backed(st2, q2) /\ PassedOn(st2, q2)
  BY <1>2, <1>4, <1>5, BooksFrame DEF Sound, Backed, PassedOn
<1>8. Agree(st2, q2)
  BY <1>2, <1>6, BooksFrame DEF Sound, Agree
<1>9. st2 \in Stores
  BY <1>1, StoreParts
<1>10. OneAccount(st, st2, q2)
  <2>1. \A u \in Users : free_after(st2, q2, u) = spendable_of(st, u)
    BY <1>1, <1>6, FreeLater
  <2> QED
    BY <1>1, <2>1, NobodyMoves
<1>11. Judged(prs, list, st, st2) /\ LockedListed(st2, list)
  BY <1>1, NothingTaken
<1>12. RepayLast(st, st2, q2)
  BY DEF RepayLast
<1> QED
  BY <1>7, <1>8, <1>9, <1>10, <1>11, <1>12 DEF Starts, Sound

Escrows(bal, bal2, b, a) == bal2 = moved(bal, b, Liquidation, a)

LEMMA SubmitStarts ==
    ASSUME NEW prs, NEW list, NEW st, NEW q, Empty(q), Sound(st, q), LockedListed(st, list),
           NEW b \in Users, NEW t \in Tokens, NEW a \in Nat, a <= st.bank[b],
           NEW st2, IsStore(st2), TouchesBid(st, st2, b, t),
           worth(st2.bids[b][t]) = worth(st.bids[b][t]) + a,
           Escrows(st.bank, st2.bank, b, a),
           st2.cw20 = st.cw20, st2.custody = st.custody,
           st2.collaterals = st.collaterals, st2.loan = st.loan
    PROVE  Starts(prs, list, st, st2, q)
<1>1. st.bank \in [Accounts -> Nat] /\ st.loan \in LoanBooks /\ st.bids \in BidBooks
  BY StoreParts DEF Sound
<1>2. b \in Accounts /\ Liquidation \in Accounts /\ b # Liquidation
  BY Addresses
<1>3. /\ st2.bank \in [Accounts -> Nat]
      /\ st2.bank[Liquidation] = st.bank[Liquidation] + a
  BY <1>1, <1>2, MovedParts DEF Escrows
<1>4. Escrowed(st2, q)
  <2>1. /\ escrowed(st2) = escrowed(st) + worth(st2.bids[b][t]) - worth(st.bids[b][t])
        /\ escrowed(st) \in Int
    BY <1>1, EscrowChange, EscrowType
  <2>2. worth(st.bids[b][t]) \in Int
    BY <1>1, WorthType DEF BidBooks
  <2>3. escrowed(st) + total(Paying(Liquidation), q) <= st.bank[Liquidation]
    BY DEF Sound, Escrowed
  <2>4. total(Paying(Liquidation), q) = 0 /\ st.bank[Liquidation] \in Int
    BY <1>1, <1>2, EmptyParts
  <2>5. escrowed(st2) = escrowed(st) + a
    BY <2>1, <2>2
  <2> QED
    BY <1>3, <2>1, <2>3, <2>4, <2>5 DEF Escrowed
<1>5. q \in Seq(Msg) /\ q = <<>> /\ \A i \in 1 .. Len(q) : q[i].type = "bank_send"
  BY DEF Empty
<1> QED
  BY <1>1, <1>3, <1>4, <1>5, CoinsStart DEF TouchesBid

LEMMA RetractStarts ==
    ASSUME NEW prs, NEW list, NEW st, NEW q, Empty(q), Sound(st, q), LockedListed(st, list),
           NEW b \in Users, NEW t \in Tokens, NEW a \in Nat,
           NEW st2, IsStore(st2), TouchesBid(st, st2, b, t),
           worth(st2.bids[b][t]) = worth(st.bids[b][t]) - a,
           st2.bank = st.bank, st2.cw20 = st.cw20, st2.custody = st.custody,
           st2.collaterals = st.collaterals, st2.loan = st.loan,
           NEW n \in BankSends, n.from = Liquidation, n.amount = a,
           NEW q2, Single(q2, n)
    PROVE  Starts(prs, list, st, st2, q2)
<1>1. st.bank \in [Accounts -> Nat] /\ st.loan \in LoanBooks /\ st.bids \in BidBooks
  BY StoreParts DEF Sound
<1>2. n \in Msg /\ n.type = "bank_send" /\ Liquidation # Market
  BY BankSendParts, Addresses
<1>3. q2 \in Seq(Msg) /\ \A i \in 1 .. Len(q2) : q2[i].type = "bank_send"
  BY <1>2 DEF Single
<1>4. total(Paying(Liquidation), q2) = a /\ total(Paying(Market), q2) = 0
  <2>1. Paying(Liquidation)[n] = a /\ Paying(Market)[n] = 0
    BY <1>2 DEF Paying
  <2> QED
    BY <1>2, <2>1, TotalOne, PayingType
<1>5. Escrowed(st2, q2)
  <2>1. /\ escrowed(st2) = escrowed(st) + worth(st2.bids[b][t]) - worth(st.bids[b][t])
        /\ escrowed(st) \in Int
    BY <1>1, EscrowChange, EscrowType
  <2>2. worth(st.bids[b][t]) \in Int
    BY <1>1, WorthType DEF BidBooks
  <2>3. escrowed(st) + total(Paying(Liquidation), q) <= st.bank[Liquidation]
    BY DEF Sound, Escrowed
  <2>4. total(Paying(Liquidation), q) = 0 /\ st.bank[Liquidation] \in Int
    BY <1>1, Addresses, EmptyParts
  <2>5. escrowed(st2) = escrowed(st) - a
    BY <2>1, <2>2
  <2> QED
    BY <1>4, <2>1, <2>3, <2>4, <2>5 DEF Escrowed
<1>6. Paid(st, st2, q2)
  BY <1>1, <1>4, NothingPaid, Addresses
<1> QED
  BY <1>1, <1>3, <1>5, <1>6, CoinsStart DEF TouchesBid

\* The loan of a borrower becomes different, or nothing at all.
LEMMA MarketStarts ==
    ASSUME NEW prs, NEW list, NEW st, NEW q, Empty(q), Sound(st, q), LockedListed(st, list),
           NEW st2, IsStore(st2), st2.loan \in LoanBooks,
           st2.bank = st.bank, st2.cw20 = st.cw20, st2.bids = st.bids,
           st2.custody = st.custody, st2.collaterals = st.collaterals
    PROVE  Starts(prs, list, st, st2, q)
<1>1. st.bank \in [Accounts -> Nat] /\ st.bids \in BidBooks
  BY StoreParts DEF Sound
<1>2. Escrowed(st2, q)
  BY BidsFrame DEF Sound, Escrowed
<1>3. q \in Seq(Msg) /\ q = <<>> /\ \A i \in 1 .. Len(q) : q[i].type = "bank_send"
  BY DEF Empty
<1> QED
  BY <1>1, <1>2, <1>3, CoinsStart

(***************************************************************************)
(* A transaction goes on                                                   *)
(***************************************************************************)
LEMMA UnderwayKept ==
    ASSUME NEW prs, NEW list, NEW before, NEW st, NEW q, NEW st2, NEW q2,
           Underway(prs, list, before, st, q), Runs(before, st, q, st2, q2)
    PROVE  Underway(prs, list, before, st2, q2)
<1>1. /\ st2.collaterals = st.collaterals
      /\ \A u \in Users : free_after(st2, q2, u) = free_after(st, q, u)
  BY DEF Runs
<1>2. Judged(prs, list, before, st) /\ OneAccount(before, st, q)
  BY DEF Underway
<1>3. Judged(prs, list, before, st2)
  BY <1>1, <1>2 DEF Judged, JudgedFor
<1>4. OneAccount(before, st2, q2)
  BY <1>1, <1>2 DEF OneAccount
<1>5. Paid(before, st2, q2) /\ RepayLast(before, st2, q2)
  BY DEF Underway, Runs
<1> QED
  BY <1>3, <1>4, <1>5 DEF Underway

(***************************************************************************)
(* The messages, as actions                                                *)
(***************************************************************************)
LEMMA PresentFields ==
    /\ IsStore(present) /\ present.bank = bank /\ present.cw20 = cw20 /\ present.bids = bids
    /\ present.custody = custody /\ present.collaterals = collaterals /\ present.loan = loan
BY DEF IsStore, present

LEMMA NextFields ==
    /\ IsStore(present') /\ present'.bank = bank' /\ present'.cw20 = cw20'
    /\ present'.bids = bids' /\ present'.custody = custody'
    /\ present'.collaterals = collaterals' /\ present'.loan = loan'
BY DEF IsStore, present

LEMMA PresentTypes ==
    ASSUME CInv
    PROVE  /\ bank \in [Accounts -> Nat] /\ cw20 \in [Tokens -> [Accounts -> Nat]]
           /\ bids \in BidBooks /\ custody \in Books
           /\ collaterals \in [Users -> Goodly] /\ loan \in LoanBooks
<1>1. present \in Stores
  BY DEF CInv, TypeOK
<1> QED
  BY <1>1, StoreParts, PresentFields

LEMMA ConfigTypes ==
    ASSUME CInv
    PROVE  /\ Priced /\ Whitelisted /\ liquidation_config \in LiquidationConfigs
           /\ custody_config \in [Custodies -> Keeper]
<1>1. /\ time \in Nat /\ whitelist \in [Tokens -> Elems \cup {None}]
      /\ prices \in [Tokens -> [price : Nat, last_updated_time : 0 .. time] \cup {None}]
      /\ liquidation_config \in LiquidationConfigs /\ custody_config \in [Custodies -> Keeper]
  BY DEF CInv, TypeOK
<1>2. 0 .. time \subseteq Nat
  BY <1>1
<1>3. Priced
  BY <1>1, <1>2 DEF Priced, PriceInfo
<1> QED
  BY <1>1, <1>3 DEF Whitelisted

LEMMA Waiting ==
    ASSUME CInv, NEW type, Current(type), NEW ms \in Seq(Msg), Then(ms),
           NEW m, m = Head(queue)
    PROVE  Waits(saved, present, queue, m, ms, queue') /\ m \in Msg /\ m.type = type
<1>1. queue \in Seq(Msg) /\ queue # <<>> /\ Head(queue).type = type
  BY DEF CInv, Current
<1>2. Steps(queue, ms, queue')
  BY <1>1 DEF Steps, Then
<1>3. saved \in Stores /\ Sound(present, queue)
  BY <1>1 DEF CInv, Idle, Underway, Sound
<1>4. m \in Msg
  BY <1>1, HeadTailProperties
<1> QED
  BY <1>1, <1>2, <1>3, <1>4 DEF Waits

LEMMA BankSendStep ==
    ASSUME CInv, bank_send, UNCHANGED <<lvars, kvars, collaterals, loan>>
    PROVE  Runs(saved, present, queue, present', queue')
<1>1. PICK m, ms, st2, q2 : m = Head(queue) /\ ms = <<>> /\ st2 = present' /\ q2 = queue'
  OBVIOUS
<1>2. Waits(saved, present, queue, m, ms, q2) /\ m.type = "bank_send"
  <2>1. ms \in Seq(Msg) /\ Current("bank_send") /\ Then(ms)
    BY <1>1 DEF bank_send
  <2> QED
    BY <1>1, <2>1, Waiting
<1>3. Outlay(m.amount) <= present.bank[m.from]
  BY <1>1, PresentFields DEF bank_send, can_bank_send
<1>4. st2.bank = [present.bank EXCEPT ![m.from] = @ - Outlay(m.amount),
                                      ![m.to] = @ + deduct_tax(m.amount)]
  BY <1>1, PresentFields, NextFields DEF bank_send
<1>5. /\ IsStore(st2) /\ st2.cw20 = present.cw20 /\ st2.bids = present.bids
      /\ st2.custody = present.custody /\ st2.collaterals = present.collaterals
      /\ st2.loan = present.loan
  BY <1>1, PresentFields, NextFields DEF bank_send, lvars, kvars
<1>6. Runs(saved, present, queue, st2, q2)
  BY <1>1, <1>2, <1>3, <1>4, <1>5, BankSendRuns DEF Pays
<1> QED
  BY <1>1, <1>6

LEMMA TransferStep ==
    ASSUME CInv, transfer, UNCHANGED <<lvars, kvars, collaterals, loan>>
    PROVE  Runs(saved, present, queue, present', queue')
<1>1. PICK m, ms, st2, q2 : m = Head(queue) /\ ms = <<>> /\ st2 = present' /\ q2 = queue'
  OBVIOUS
<1>2. Waits(saved, present, queue, m, ms, q2) /\ m.type = "transfer"
  <2>1. ms \in Seq(Msg) /\ Current("transfer") /\ Then(ms)
    BY <1>1 DEF transfer
  <2> QED
    BY <1>1, <2>1, Waiting
<1>3. TokenMove(present.cw20, st2.cw20, m.token, m.from, m.to, m.amount)
  BY <1>1, PresentFields, NextFields, PresentTypes DEF transfer, can_transfer, TokenMove
<1>4. /\ IsStore(st2) /\ st2.bank = present.bank /\ st2.bids = present.bids
      /\ st2.custody = present.custody /\ st2.collaterals = present.collaterals
      /\ st2.loan = present.loan
  BY <1>1, PresentFields, NextFields DEF transfer, lvars, kvars
<1>5. Runs(saved, present, queue, st2, q2)
  BY <1>1, <1>2, <1>3, <1>4, TransferRuns DEF Empty
<1> QED
  BY <1>1, <1>5

LEMMA SendStep ==
    ASSUME CInv, send, UNCHANGED <<lvars, kvars, collaterals, loan>>
    PROVE  Runs(saved, present, queue, present', queue')
<1>1. PICK m, st2, q2 : m = Head(queue) /\ st2 = present' /\ q2 = queue'
  OBVIOUS
<1>2. PICK n : n = [type |-> "execute_bid", token |-> m.token, at |-> m.to,
                    liquidator |-> m.liquidator, amount |-> m.amount]
  OBVIOUS
<1>3. PICK ms : ms = <<n>>
  OBVIOUS
<1>4. Current("send") /\ Then(ms) /\ can_transfer(m)
  BY <1>1, <1>2, <1>3 DEF send
<1>5. m \in Sends
  BY <1>1, <1>4, MsgTypes, HeadTailProperties DEF CInv, Current
<1>6. /\ n \in Executes /\ n.token = m.token /\ n.at = m.to /\ n.amount = m.amount
      /\ n \in Msg
  BY <1>2, <1>5, SendParts, ExecuteParts DEF Executes
<1>7. Waits(saved, present, queue, m, ms, q2) /\ m.type = "send"
  <2>1. ms \in Seq(Msg)
    BY <1>3, <1>6
  <2> QED
    BY <1>1, <1>4, <2>1, Waiting
<1>8. TokenMove(present.cw20, st2.cw20, m.token, m.from, m.to, m.amount)
  BY <1>1, <1>4, PresentFields, NextFields, PresentTypes DEF send, can_transfer, TokenMove
<1>9. /\ IsStore(st2) /\ st2.bank = present.bank /\ st2.bids = present.bids
      /\ st2.custody = present.custody /\ st2.collaterals = present.collaterals
      /\ st2.loan = present.loan
  BY <1>1, PresentFields, NextFields DEF send, lvars, kvars
<1> HIDE <1>2
<1>10. Runs(saved, present, queue, st2, q2)
  BY <1>3, <1>6, <1>7, <1>8, <1>9, SendRuns DEF Single
<1> QED
  BY <1>1, <1>10

LEMMA LockStep ==
    ASSUME CInv, custody_lock_collateral, UNCHANGED <<lvars, collaterals, loan>>
    PROVE  Runs(saved, present, queue, present', queue')
<1>1. PICK m, ms, st2, q2 : m = Head(queue) /\ ms = <<>> /\ st2 = present' /\ q2 = queue'
  OBVIOUS
<1>2. Waits(saved, present, queue, m, ms, q2) /\ m \in Msg /\ m.type = "lock"
  <2>1. ms \in Seq(Msg) /\ Current("lock") /\ Then(ms)
    BY <1>1 DEF custody_lock_collateral
  <2> QED
    BY <1>1, <2>1, Waiting
<1>3. m.custody \in Custodies /\ m.borrower \in Users /\ m.amount \in Nat
  BY <1>2, MsgTypes, LockParts
<1>4. PICK c, b, d : c = m.custody /\ b = m.borrower /\ d = m.amount
  OBVIOUS
<1>5. PICK x, z : x = custody[c][b].balance /\ z = custody[c][b].spendable
  OBVIOUS
<1>6. /\ x \in Nat /\ z \in Nat /\ present.custody \in Books
      /\ present.custody[c][b].balance = x /\ present.custody[c][b].spendable = z
  BY <1>3, <1>4, <1>5, PresentTypes, PresentFields, BooksParts
<1>7. z <= x /\ d <= z /\ z - d \in Nat
  <2>1. z <= x
    BY <1>3, <1>4, <1>6 DEF CInv, Sound, SpendableHeld
  <2>2. d <= z
    BY <1>1, <1>4, <1>5 DEF custody_lock_collateral, can_lock
  <2> QED
    BY <1>3, <1>4, <1>6, <2>1, <2>2
<1>8. st2.custody = [present.custody EXCEPT ![c][b].spendable = z - d]
  BY <1>1, <1>4, <1>5, PresentFields, NextFields DEF custody_lock_collateral
<1>9. Entry(present, st2, c, b, x, z - d)
  BY <1>3, <1>4, <1>6, <1>7, <1>8, SpendableEntry
<1>10. Entry(present, present, c, b, x, z)
  BY <1>6 DEF Entry, Touches
<1>11. OtherwiseSame(present, st2)
  BY <1>1, PresentFields, NextFields DEF custody_lock_collateral, lvars, OtherwiseSame
<1>12. PICK y : y = z - d
  OBVIOUS
<1>13. y \in Nat /\ y <= x /\ Entry(present, st2, c, b, x, y)
  BY <1>3, <1>4, <1>6, <1>7, <1>9, <1>12
<1>14. d = IF m.type = "lock" THEN m.amount ELSE -m.amount
  BY <1>2, <1>4
<1>15. Runs(saved, present, queue, st2, q2)
  <2> HIDE <1>8
  <2> QED
    BY <1>1, <1>2, <1>4, <1>6, <1>10, <1>11, <1>12, <1>13, <1>14, RelockRuns DEF Relocks, Empty
<1> QED
  BY <1>1, <1>15

LEMMA UnlockStep ==
    ASSUME CInv, custody_unlock_collateral, UNCHANGED <<lvars, collaterals, loan>>
    PROVE  Runs(saved, present, queue, present', queue')
<1>1. PICK m, ms, st2, q2 : m = Head(queue) /\ ms = <<>> /\ st2 = present' /\ q2 = queue'
  OBVIOUS
<1>2. Waits(saved, present, queue, m, ms, q2) /\ m \in Msg /\ m.type = "unlock"
  <2>1. ms \in Seq(Msg) /\ Current("unlock") /\ Then(ms)
    BY <1>1 DEF custody_unlock_collateral
  <2> QED
    BY <1>1, <2>1, Waiting
<1>3. m.custody \in Custodies /\ m.borrower \in Users /\ m.amount \in Nat
  BY <1>2, MsgTypes, UnlockParts
<1>4. PICK c, b, d, e : c = m.custody /\ b = m.borrower /\ d = m.amount /\ e = -d
  OBVIOUS
<1>5. PICK x, z : x = custody[c][b].balance /\ z = custody[c][b].spendable
  OBVIOUS
<1>6. /\ x \in Nat /\ z \in Nat /\ present.custody \in Books
      /\ present.custody[c][b].balance = x /\ present.custody[c][b].spendable = z
  BY <1>3, <1>4, <1>5, PresentTypes, PresentFields, BooksParts
<1>7. d <= x - z /\ z + d \in Nat
  <2>1. d <= x - z
    BY <1>1, <1>4, <1>5 DEF custody_unlock_collateral, can_release, locked_in
  <2> QED
    BY <1>3, <1>4, <1>6, <2>1
<1>8. st2.custody = [present.custody EXCEPT ![c][b].spendable = z + d]
  BY <1>1, <1>4, <1>5, PresentFields, NextFields DEF custody_unlock_collateral
<1>9. Entry(present, st2, c, b, x, z + d)
  BY <1>3, <1>4, <1>6, <1>7, <1>8, SpendableEntry
<1>10. Entry(present, present, c, b, x, z)
  BY <1>6 DEF Entry, Touches
<1>11. OtherwiseSame(present, st2)
  BY <1>1, PresentFields, NextFields DEF custody_unlock_collateral, lvars, OtherwiseSame
<1>12. PICK y : y = z + d
  OBVIOUS
<1>13. y \in Nat /\ y <= x /\ Entry(present, st2, c, b, x, y) /\ y = z - e
  BY <1>3, <1>4, <1>6, <1>7, <1>9, <1>12
<1>14. e = IF m.type = "lock" THEN m.amount ELSE -m.amount
  BY <1>2, <1>4
<1>15. Runs(saved, present, queue, st2, q2)
  <2> HIDE <1>8
  <2> QED
    BY <1>1, <1>2, <1>4, <1>6, <1>10, <1>11, <1>13, <1>14, RelockRuns DEF Relocks, Empty
<1> QED
  BY <1>1, <1>15

LEMMA LiquidateStep ==
    ASSUME CInv, custody_liquidate_collateral, UNCHANGED <<lvars, collaterals, loan>>
    PROVE  Runs(saved, present, queue, present', queue')
<1>1. PICK m, st2, q2 : m = Head(queue) /\ st2 = present' /\ q2 = queue'
  OBVIOUS
<1>2. PICK n : n = SendToBid(CustodyToken[m.custody], m.custody,
                             custody_config[m.custody].liquidation_contract,
                             m.liquidator, m.amount)
  OBVIOUS
<1>3. PICK ms : ms = <<n>>
  OBVIOUS
<1>4. Current("liquidate") /\ Then(ms) /\ can_release(m)
  BY <1>1, <1>2, <1>3 DEF custody_liquidate_collateral
<1>5. m \in Liquidates
  BY <1>1, <1>4, MsgTypes, HeadTailProperties DEF CInv, Current
<1>6. m.custody \in Custodies /\ m.borrower \in Users /\ m.amount \in Nat /\ m.liquidator \in Users
  BY <1>5, LiquidateParts
<1>7. PICK c, b, d : c = m.custody /\ b = m.borrower /\ d = m.amount
  OBVIOUS
<1>8. /\ n \in Sends /\ n.from = c /\ n.token = CustodyToken[c] /\ n.amount = d
  <2>1. custody_config[c].liquidation_contract \in Liquidators /\ CustodyToken[c] \in Tokens
    BY <1>6, <1>7, ConfigTypes, CustodyAssumption DEF Keeper, Liquidators
  <2> QED
    BY <1>2, <1>6, <1>7, <2>1 DEF SendToBid, Sends
<1> HIDE <1>2
<1>9. Waits(saved, present, queue, m, ms, q2) /\ m.type = "liquidate"
  <2>1. ms \in Seq(Msg)
    BY <1>3, <1>8, SendParts
  <2> QED
    BY <1>1, <1>4, <2>1, Waiting
<1>10. PICK x, z : x = custody[c][b].balance /\ z = custody[c][b].spendable
  OBVIOUS
<1>11. /\ x \in Nat /\ z \in Nat /\ present.custody \in Books
       /\ present.custody[c][b].balance = x /\ present.custody[c][b].spendable = z
  BY <1>6, <1>7, <1>10, PresentTypes, PresentFields, BooksParts
<1>12. d <= x - z
  BY <1>4, <1>7, <1>10 DEF can_release, locked_in
<1>13. st2.custody = [present.custody EXCEPT ![c][b].balance = x - d]
  BY <1>1, <1>7, <1>10, PresentFields, NextFields DEF custody_liquidate_collateral
<1>14. x - d \in Nat
  BY <1>6, <1>7, <1>11, <1>12
<1>15. Entry(present, st2, c, b, x - d, z)
  BY <1>6, <1>7, <1>11, <1>13, <1>14, BalanceEntry
<1>16. Entry(present, present, c, b, x, z)
  BY <1>11 DEF Entry, Touches
<1>17. OtherwiseSame(present, st2)
  BY <1>1, PresentFields, NextFields DEF custody_liquidate_collateral, lvars, OtherwiseSame
<1>18. PICK y : y = x - d
  OBVIOUS
<1>19. y \in Nat /\ z <= y /\ Entry(present, st2, c, b, y, z)
  BY <1>6, <1>7, <1>11, <1>12, <1>14, <1>15, <1>18
<1>20. Single(ms, n)
  BY <1>3 DEF Single
<1>21. Runs(saved, present, queue, st2, q2)
  <2> HIDE <1>3, <1>13
  <2> QED
    BY <1>7, <1>8, <1>9, <1>11, <1>16, <1>17, <1>18, <1>19, <1>20, LiquidateRuns
<1> QED
  BY <1>1, <1>21

\* What a bid costs is a number, and the fee is a part of it.
LEMMA RequiredType ==
    ASSUME CInv, NEW bid \in Bid, NEW t \in Tokens, NEW n \in Nat, NEW frame,
           price_valid(t, frame)
    PROVE  LET required == required_stable(bid, t, n)
               fee == UintMulDec(required, liquidation_config.bid_fee)
           IN  required \in Nat /\ fee \in Nat /\ fee <= required
<1> DEFINE required == required_stable(bid, t, n)
           premium == Lesser(bid.premium_rate, liquidation_config.max_premium_rate)
<1>1. /\ liquidation_config.bid_fee \in 0 .. One
      /\ liquidation_config.max_premium_rate \in 0 .. One /\ One \in Nat
  BY ConfigTypes, ConfigParts
<1>2. bid.premium_rate \in Nat
  BY DEF Bid
<1>3. One - premium \in Nat
  BY <1>1, <1>2 DEF Lesser
<1>4. UintMulDec(n, rate(t)) \in Nat
  BY ConfigTypes, RateType, UintMulDecBound
<1>5. required = UintMulDec(UintMulDec(n, rate(t)), One - premium)
  BY DEF required_stable
<1> HIDE DEF required, premium
<1>6. required \in Nat
  BY <1>3, <1>4, <1>5, UintMulDecBound
<1>7. /\ UintMulDec(required, liquidation_config.bid_fee) \in Nat
      /\ UintMulDec(required, liquidation_config.bid_fee) <= required
  BY <1>1, <1>6, PartBound
<1> QED
  BY <1>6, <1>7 DEF required

LEMMA LessParts ==
    ASSUME NEW bid \in Bid, NEW n \in Nat, n <= bid.amount
    PROVE  less(bid, n) \in Bid \cup {None} /\ worth(less(bid, n)) = worth(bid) - n
<1>1. bid # None
  BY NoneAssumption
<1>2. bid.amount \in Nat /\ worth(bid) = bid.amount
  BY <1>1 DEF Bid, worth
<1>3. CASE bid.amount = n
  <2>1. less(bid, n) = None
    BY <1>3 DEF less
  <2> QED
    BY <1>2, <1>3, <2>1 DEF worth
<1>4. CASE bid.amount # n
  <2>1. less(bid, n) = [bid EXCEPT !.amount = @ - n]
    BY <1>4 DEF less
  <2>2. less(bid, n) \in Bid /\ less(bid, n).amount = bid.amount - n
    BY <1>2, <1>4, <2>1 DEF Bid
  <2>3. less(bid, n) # None
    BY <2>2, NoneAssumption
  <2> QED
    BY <1>2, <2>2, <2>3 DEF worth
<1> QED
  BY <1>3, <1>4

\* One bid is replaced.
LEMMA BidReplaced ==
    ASSUME NEW st, NEW st2, st.bids \in BidBooks, NEW b \in Users, NEW t \in Tokens,
           NEW new \in Bid \cup {None}, st2.bids = [st.bids EXCEPT ![b][t] = new]
    PROVE  TouchesBid(st, st2, b, t)
BY DEF TouchesBid, BidBooks

LEMMA ExecuteStep ==
    ASSUME CInv, execute_bid, UNCHANGED <<kvars, collaterals, loan>>
    PROVE  Runs(saved, present, queue, present', queue')
<1>1. PICK m, st2, q2 : m = Head(queue) /\ st2 = present' /\ q2 = queue'
  OBVIOUS
<1>2. Current("execute_bid") /\ can_execute_bid(m)
  BY <1>1 DEF execute_bid
<1>3. m \in Executes
  BY <1>1, <1>2, MsgTypes, HeadTailProperties DEF CInv, Current
<1>4. m.amount \in Nat /\ m.token \in Tokens /\ m.liquidator \in Users
  BY <1>3, ExecuteParts
<1>5. PICK bid, required, fee :
        /\ bid = bids[m.liquidator][m.token]
        /\ required = required_stable(bid, m.token, m.amount)
        /\ fee = UintMulDec(required, liquidation_config.bid_fee)
  OBVIOUS
<1>6. /\ m.at = Liquidation /\ bid \in Bid /\ required <= bid.amount
      /\ price_valid(m.token, liquidation_config.price_timeframe)
  BY <1>2, <1>4, <1>5, PresentTypes DEF can_execute_bid, BidBooks
<1>7. required \in Nat /\ fee \in Nat /\ required - fee \in Nat
  <2>1. required \in Nat /\ fee \in Nat /\ fee <= required
    BY <1>4, <1>5, <1>6, RequiredType
  <2> QED
    BY <2>1
<1>8. PICK n1, n2, n3 : /\ n1 = Transfer(m.token, Liquidation, m.liquidator, m.amount)
                        /\ n2 = BankSend(Liquidation, Market, required - fee)
                        /\ n3 = BankSend(Liquidation, Overseer, fee)
  OBVIOUS
<1>9. PICK ms : ms = <<n1, n2>> \o IF fee = 0 THEN <<>> ELSE <<n3>>
  OBVIOUS
<1>10. Then(ms)
  BY <1>1, <1>5, <1>8, <1>9 DEF execute_bid
<1>11. /\ n1 \in Transfers /\ n1.token = m.token /\ n1.amount = m.amount /\ n1.from = Liquidation
       /\ n2 \in BankSends /\ n2.from = Liquidation /\ n2.amount = required - fee
       /\ n3 \in BankSends /\ n3.from = Liquidation /\ n3.amount = fee
  BY <1>4, <1>7, <1>8 DEF Transfer, BankSend, Transfers, BankSends
<1>12. Settles(ms, n1, n2, n3)
  BY <1>9, <1>11 DEF Settles
<1>13. bids' = [bids EXCEPT ![m.liquidator][m.token] = less(bid, required)]
  BY <1>1, <1>5 DEF execute_bid
<1> HIDE <1>8, <1>9
<1>14. Waits(saved, present, queue, m, ms, q2) /\ m.type = "execute_bid"
  <2>1. ms \in Seq(Msg)
    BY <1>12, SettlesReplies
  <2> QED
    BY <1>1, <1>2, <1>10, <2>1, Waiting
<1>15. /\ less(bid, required) \in Bid \cup {None}
       /\ worth(less(bid, required)) = worth(bid) - required
  BY <1>6, <1>7, LessParts
<1>16. /\ TouchesBid(present, st2, m.liquidator, m.token)
       /\ st2.bids[m.liquidator][m.token] = less(bid, required)
  <2>1. PICK new : new = less(bid, required)
    OBVIOUS
  <2>2. st2.bids = [present.bids EXCEPT ![m.liquidator][m.token] = new]
    BY <1>1, <1>13, <2>1, PresentFields, NextFields
  <2>3. present.bids \in BidBooks /\ new \in Bid \cup {None}
    BY <1>15, <2>1, PresentTypes, PresentFields
  <2>4. TouchesBid(present, st2, m.liquidator, m.token)
    BY <1>4, <2>2, <2>3, BidReplaced
  <2>5. st2.bids[m.liquidator][m.token] = new
    BY <1>4, <2>2, <2>3 DEF BidBooks
  <2> QED
    BY <2>1, <2>4, <2>5
<1> HIDE <1>13
<1>17. worth(st2.bids[m.liquidator][m.token]) =
         worth(present.bids[m.liquidator][m.token]) - (n2.amount + n3.amount)
  <2>1. (required - fee) + fee = required
    BY <1>7
  <2> QED
    BY <1>5, <1>11, <1>15, <1>16, <2>1, PresentFields
<1>18. /\ IsStore(st2) /\ st2.bank = present.bank /\ st2.cw20 = present.cw20
       /\ st2.custody = present.custody /\ st2.collaterals = present.collaterals
       /\ st2.loan = present.loan
  BY <1>1, PresentFields, NextFields DEF execute_bid, kvars
<1>19. Runs(saved, present, queue, st2, q2)
  BY <1>6, <1>11, <1>12, <1>14, <1>16, <1>17, <1>18, ExecuteRuns
<1> QED
  BY <1>1, <1>19

LEMMA RepayStep ==
    ASSUME CInv, repay_stable_from_liquidation, UNCHANGED <<lvars, kvars, collaterals>>
    PROVE  Runs(saved, present, queue, present', queue')
<1>1. PICK m, st2, q2 : m = Head(queue) /\ st2 = present' /\ q2 = queue'
  OBVIOUS
<1>2. Current("repay") /\ can_repay(m)
  BY <1>1 DEF repay_stable_from_liquidation
<1>3. m \in Repays
  BY <1>1, <1>2, MsgTypes, HeadTailProperties DEF CInv, Current
<1>4. m.borrower \in Users /\ m.prev_balance \in Nat
  BY <1>3, RepayParts
<1>5. PICK b, amount, repaid :
        /\ b = m.borrower /\ amount = bank[Market] - m.prev_balance
        /\ repaid = Lesser(loan[b], amount)
  OBVIOUS
<1>6. bank[Market] \in Nat /\ loan[b] \in Nat
  BY <1>4, <1>5, PresentTypes, Addresses DEF LoanBooks
<1>7. /\ amount \in Nat /\ repaid \in Nat /\ repaid <= loan[b] /\ amount - repaid \in Nat
      /\ loan[b] < amount <=> amount - repaid # 0
  BY <1>2, <1>4, <1>5, <1>6 DEF can_repay, Lesser
<1>8. PICK n : n = BankSend(Market, b, amount - repaid)
  OBVIOUS
<1>9. PICK ms : ms = IF loan[b] < amount THEN <<n>> ELSE <<>>
  OBVIOUS
<1>10. Then(ms) /\ loan' = [loan EXCEPT ![b] = @ - repaid]
  BY <1>1, <1>5, <1>8, <1>9 DEF repay_stable_from_liquidation
<1>11. n \in BankSends /\ n.from = Market /\ n.amount = amount - repaid
  BY <1>4, <1>5, <1>7, <1>8 DEF BankSend, BankSends
<1>12. Refunds(ms, n)
  BY <1>7, <1>9, <1>11 DEF Refunds
<1> HIDE <1>8, <1>9
<1>13. Waits(saved, present, queue, m, ms, q2) /\ m.type = "repay"
  <2>1. ms \in Seq(Msg)
    BY <1>12, RefundsParts
  <2> QED
    BY <1>1, <1>2, <1>10, <2>1, Waiting
<1>14. st2.loan = [present.loan EXCEPT ![b] = @ - repaid]
  BY <1>1, <1>10, PresentFields, NextFields
<1>15. /\ IsStore(st2) /\ st2.bank = present.bank /\ st2.cw20 = present.cw20
       /\ st2.bids = present.bids /\ st2.custody = present.custody
       /\ st2.collaterals = present.collaterals
  BY <1>1, PresentFields, NextFields DEF repay_stable_from_liquidation, lvars, kvars
<1>16. amount = present.bank[Market] - m.prev_balance /\ repaid <= present.loan[b]
  BY <1>5, <1>7, PresentFields
<1>17. Runs(saved, present, queue, st2, q2)
  BY <1>5, <1>7, <1>11, <1>12, <1>13, <1>14, <1>15, <1>16, RepayRuns DEF LoanReduced
<1> QED
  BY <1>1, <1>17

LEMMA MessageRuns ==
    ASSUME CInv, Message
    PROVE  Runs(saved, present, queue, present', queue')
<1>1. CASE ChainMessage
  <2>1. UNCHANGED <<lvars, kvars, collaterals, loan>>
    BY <1>1 DEF ChainMessage
  <2> QED
    BY <1>1, <2>1, BankSendStep, TransferStep, SendStep DEF ChainMessage
<1>2. CASE CustodyMessage
  <2>1. UNCHANGED <<lvars, collaterals, loan>>
    BY <1>2 DEF CustodyMessage
  <2> QED
    BY <1>2, <2>1, LockStep, UnlockStep, LiquidateStep DEF CustodyMessage
<1>3. CASE BidMessage
  BY <1>3, ExecuteStep DEF BidMessage
<1>4. CASE MarketMessage
  BY <1>4, RepayStep DEF MarketMessage
<1> QED
  BY <1>1, <1>2, <1>3, <1>4 DEF Message

(***************************************************************************)
(* The transactions, as actions                                            *)
(***************************************************************************)
LEMMA IdleParts ==
    ASSUME CInv, Idle
    PROVE  /\ Empty(queue) /\ Sound(present, queue) /\ LockedListed(present, whitelist)
           /\ present \in Stores /\ Sound(present, <<>>)
BY DEF CInv, Idle, Empty, Sound

LEMMA BothReplaced ==
    ASSUME NEW st, NEW st2, st.custody \in Books, NEW c \in Custodies, NEW b \in Users,
           NEW x \in Nat, NEW z \in Nat,
           st2.custody = [st.custody EXCEPT ![c][b] = [balance |-> x, spendable |-> z]]
    PROVE  Entry(st, st2, c, b, x, z)
BY DEF Entry, Touches, Books, BorrowerInfo

LEMMA DepositStep ==
    ASSUME CInv, Idle, NEW b \in Users, NEW c \in Custodies, NEW a \in Amounts,
           deposit_collateral(b, c, a), UNCHANGED <<lvars, collaterals, loan>>
    PROVE  Starts(prices, whitelist, present, present', queue')
<1>1. PICK q, st2 : q = queue /\ st2 = present'
  OBVIOUS
<1>2. Empty(q) /\ Sound(present, q) /\ LockedListed(present, whitelist)
  BY <1>1, IdleParts
<1>3. PICK x, z : x = custody[c][b].balance /\ z = custody[c][b].spendable
  OBVIOUS
<1>4. /\ x \in Nat /\ z \in Nat /\ present.custody \in Books /\ a \in Nat
      /\ x + a \in Nat /\ z + a \in Nat
      /\ present.custody[c][b].balance = x /\ present.custody[c][b].spendable = z
  <2>1. a \in Nat
    BY CollateralAssumption
  <2>2. x \in Nat /\ z \in Nat
    BY <1>3, PresentTypes, PresentFields, BooksParts
  <2> QED
    BY <1>3, <2>1, <2>2, PresentTypes, PresentFields
<1>5. st2.custody = [present.custody EXCEPT ![c][b] = [balance |-> x + a, spendable |-> z + a]]
  <2>1. custody' = [custody EXCEPT ![c][b] = [balance |-> x + a, spendable |-> z + a]]
    BY <1>3, PresentTypes DEF deposit_collateral, Books, BorrowerInfo
  <2> QED
    BY <1>1, <2>1, PresentFields, NextFields
<1>6. Entry(present, st2, c, b, x + a, z + a)
  BY <1>4, <1>5, BothReplaced
<1>7. Entry(present, present, c, b, x, z)
  BY <1>4 DEF Entry, Touches
<1>8. TokenMove(present.cw20, st2.cw20, CustodyToken[c], b, c, a)
  BY <1>1, PresentTypes, PresentFields, NextFields DEF deposit_collateral, TokenMove
<1>9. /\ IsStore(st2) /\ st2.bank = present.bank /\ st2.bids = present.bids
      /\ st2.collaterals = present.collaterals /\ st2.loan = present.loan
  BY <1>1, PresentFields, NextFields DEF deposit_collateral, lvars
<1>10. PICK x2, z2 : x2 = x + a /\ z2 = z + a
  OBVIOUS
<1>11. Starts(prices, whitelist, present, st2, q)
  <2> HIDE <1>5
  <2> QED
    BY <1>2, <1>4, <1>6, <1>7, <1>8, <1>9, <1>10, DepositStarts
<1>12. queue' = queue
  BY DEF deposit_collateral
<1> QED
  BY <1>1, <1>11, <1>12

LEMMA WithdrawStep ==
    ASSUME CInv, Idle, NEW b \in Users, NEW c \in Custodies, NEW a \in Nat,
           withdraw_collateral(b, c, a), UNCHANGED <<lvars, collaterals, loan>>
    PROVE  Starts(prices, whitelist, present, present', queue')
<1>1. PICK q, q2, st2 : q = queue /\ q2 = queue' /\ st2 = present'
  OBVIOUS
<1>2. Empty(q) /\ Sound(present, q) /\ LockedListed(present, whitelist)
  BY <1>1, IdleParts
<1>3. PICK x, z : x = custody[c][b].balance /\ z = custody[c][b].spendable
  OBVIOUS
<1>4. /\ x \in Nat /\ z \in Nat /\ present.custody \in Books /\ a <= z
      /\ x - a \in Nat /\ z - a \in Nat
      /\ present.custody[c][b].balance = x /\ present.custody[c][b].spendable = z
  <2>1. a <= z
    BY <1>3 DEF withdraw_collateral
  <2>2. /\ x \in Nat /\ z \in Nat /\ present.custody \in Books
        /\ present.custody[c][b].balance = x /\ present.custody[c][b].spendable = z
    BY <1>3, PresentTypes, PresentFields, BooksParts
  <2>3. z <= x
    BY <1>2, <2>2 DEF Sound, SpendableHeld
  <2> QED
    BY <2>1, <2>2, <2>3
<1>5. st2.custody = [present.custody EXCEPT ![c][b] = [balance |-> x - a, spendable |-> z - a]]
  <2>1. custody' = [custody EXCEPT ![c][b] = [balance |-> x - a, spendable |-> z - a]]
    BY <1>3, PresentTypes DEF withdraw_collateral, Books, BorrowerInfo
  <2> QED
    BY <1>1, <2>1, PresentFields, NextFields
<1>6. Entry(present, st2, c, b, x - a, z - a)
  BY <1>4, <1>5, BothReplaced
<1>7. Entry(present, present, c, b, x, z)
  BY <1>4 DEF Entry, Touches
<1>8. OtherwiseSame(present, st2)
  BY <1>1, PresentFields, NextFields DEF withdraw_collateral, lvars, OtherwiseSame
<1>9. PICK n : n = Transfer(CustodyToken[c], c, b, a)
  OBVIOUS
<1>10. /\ n \in Transfers /\ n.from = c /\ n.token = CustodyToken[c] /\ n.amount = a
  BY <1>9, CustodyAssumption DEF Transfer, Transfers
<1>11. Single(q2, n)
  BY <1>1, <1>9 DEF withdraw_collateral, Single
<1>12. PICK x2, z2 : x2 = x - a /\ z2 = z - a
  OBVIOUS
<1>13. Starts(prices, whitelist, present, st2, q2)
  <2> HIDE <1>5, <1>9
  <2> QED
    BY <1>2, <1>4, <1>6, <1>7, <1>8, <1>10, <1>11, <1>12, WithdrawStarts
<1> QED
  BY <1>1, <1>13

LEMMA GoodsType ==
    ASSUME NEW g \in Goods
    PROVE  g \in Goodly
<1>1. \A a \in Amounts \cup {0} : a \in Nat
  <2>1. Amounts \subseteq Nat \ {0}
    BY CollateralAssumption
  <2> QED
    BY <2>1
<1>2. g \in [Tokens -> Amounts \cup {0}]
  BY DEF Goods
<1> QED
  BY <1>1, <1>2 DEF Goodly

LEMMA LockTransaction ==
    ASSUME CInv, Idle, NEW b \in Users, NEW g \in Goods, lock_collateral(b, g),
           UNCHANGED liquidation_config
    PROVE  Starts(prices, whitelist, present, present', queue')
<1>1. PICK q, q2, st2 : q = queue /\ q2 = queue' /\ st2 = present'
  OBVIOUS
<1>2. Empty(q) /\ Sound(present, q) /\ LockedListed(present, whitelist)
  BY <1>1, IdleParts
<1>3. PICK new : new = add(present.collaterals[b], g)
  OBVIOUS
<1>4. Recorded(present, st2, b, new)
  BY <1>1, <1>3, PresentFields, NextFields DEF lock_collateral, kvars, Recorded
<1>5. g \in Goodly /\ Registered(g)
  BY GoodsType DEF lock_collateral
<1>6. \A t \in Tokens : g[t] > 0 => whitelist[t] # None
  BY <1>5 DEF Registered
<1>7. Calls(q2, "lock", g, b)
  BY <1>1, <1>5, ConfigTypes, LockCalls DEF lock_collateral, CInv
<1>8. Starts(prices, whitelist, present, st2, q2)
  BY <1>2, <1>3, <1>4, <1>5, <1>6, <1>7, LockStarts
<1> QED
  BY <1>1, <1>8

LEMMA UnlockTransaction ==
    ASSUME CInv, Idle, NEW b \in Users, NEW g \in Goods, unlock_collateral(b, g),
           UNCHANGED liquidation_config
    PROVE  Starts(prices, whitelist, present, present', queue')
<1>1. PICK q, q2, st2 : q = queue /\ q2 = queue' /\ st2 = present'
  OBVIOUS
<1>2. Empty(q) /\ Sound(present, q) /\ LockedListed(present, whitelist)
  BY <1>1, IdleParts
<1>3. PICK new : new = sub(present.collaterals[b], g)
  OBVIOUS
<1>4. Recorded(present, st2, b, new)
  BY <1>1, <1>3, PresentFields, NextFields DEF unlock_collateral, kvars, Recorded
<1>5. g \in Goodly /\ Registered(g) /\ contains(present.collaterals[b], g)
  BY GoodsType, PresentFields DEF unlock_collateral
<1>6. limit(prices, whitelist, new) >= present.loan[b]
  BY <1>3, PresentFields, LimitIs DEF unlock_collateral, may_unlock
<1>7. Calls(q2, "unlock", g, b)
  BY <1>1, <1>5, ConfigTypes, UnlockCalls DEF unlock_collateral, CInv
<1>8. Starts(prices, whitelist, present, st2, q2)
  BY <1>2, <1>3, <1>4, <1>5, <1>6, <1>7, UnlockStarts
<1> QED
  BY <1>1, <1>8

LEMMA LiquidateTransaction ==
    ASSUME CInv, Idle, NEW u \in Users, NEW b \in Users, liquidate_collateral(u, b),
           UNCHANGED liquidation_config
    PROVE  Starts(prices, whitelist, present, present', queue')
<1>1. PICK q, q2, st2 : q = queue /\ q2 = queue' /\ st2 = present'
  OBVIOUS
<1>2. Empty(q) /\ Sound(present, q) /\ LockedListed(present, whitelist)
  BY <1>1, IdleParts
<1>3. PICK have, borrow_limit : have = collaterals[b] /\ borrow_limit = compute_borrow_limit(have)
  OBVIOUS
<1>4. PICK amounts :
        amounts = query_liquidation_amount(liquidation_config, loan[b], borrow_limit, have)
  OBVIOUS
<1>5. PICK new : new = sub(present.collaterals[b], amounts)
  OBVIOUS
<1>6. can_compute_borrow_limit(have) /\ borrow_limit < loan[b]
  BY <1>3, <1>4 DEF liquidate_collateral
<1>7. have \in Goodly /\ loan[b] \in Nat
  BY <1>3, PresentTypes DEF LoanBooks
<1>8. amounts \in Goodly /\ contains(have, amounts)
  <2>1. borrow_limit \in Nat
    BY <1>3, <1>6, <1>7, ConfigTypes, LimitType
  <2> QED
    BY <1>4, <1>6, <1>7, <2>1, ConfigTypes, LiquidatedPart
<1>9. Registered(amounts)
  <2> SUFFICES ASSUME NEW t \in Tokens, amounts[t] > 0 PROVE whitelist[t] # None
    BY DEF Registered
  <2>1. amounts[t] <= have[t] /\ amounts[t] \in Nat /\ have[t] \in Nat
    BY <1>7, <1>8 DEF contains, Goodly
  <2> QED
    BY <1>6, <2>1 DEF can_compute_borrow_limit
<1>10. PICK s : s = [i \in DOMAIN listed(amounts) |->
                       LET t == listed(amounts)[i]
                       IN  LiquidateMessage(whitelist[t].custody_contract, u, b, amounts[t])]
  OBVIOUS
<1>11. PICK n : n = RepayMessage(b, bank[Market])
  OBVIOUS
<1>12. q2 = s \o <<n>>
  BY <1>1, <1>3, <1>4, <1>10, <1>11 DEF liquidate_collateral
<1>13. Calls(s, "liquidate", amounts, b)
  BY <1>8, <1>9, <1>10, ConfigTypes, LiquidateCalls DEF CInv
<1> HIDE <1>10
<1>14. Recorded(present, st2, b, new)
  BY <1>1, <1>3, <1>4, <1>5, PresentFields, NextFields DEF liquidate_collateral, kvars, Recorded
<1>15. n \in Repays /\ n.prev_balance = present.bank[Market]
  BY <1>11, PresentTypes, PresentFields, Addresses DEF RepayMessage, Repays
<1>16. contains(present.collaterals[b], amounts)
  BY <1>3, <1>8, PresentFields
<1>17. limit(prices, whitelist, present.collaterals[b]) < present.loan[b]
  BY <1>3, <1>6, PresentFields, LimitIs
<1>18. Starts(prices, whitelist, present, st2, q2)
  BY <1>2, <1>5, <1>8, <1>12, <1>13, <1>14, <1>15, <1>16, <1>17, LiquidationStarts DEF Ends
<1> QED
  BY <1>1, <1>18

LEMMA SubmitStep ==
    ASSUME CInv, Idle, NEW b \in Users, NEW t \in Tokens, NEW p \in PremiumRates,
           NEW a \in Amounts, submit_bid(b, t, p, a), UNCHANGED <<kvars, collaterals, loan>>
    PROVE  Starts(prices, whitelist, present, present', queue')
<1>1. PICK q, st2 : q = queue /\ st2 = present'
  OBVIOUS
<1>2. Empty(q) /\ Sound(present, q) /\ LockedListed(present, whitelist)
  BY <1>1, IdleParts
<1>3. PICK new : new = [amount |-> a, premium_rate |-> p]
  OBVIOUS
<1>4. new \in Bid /\ new.amount = a /\ a \in Nat
  BY <1>3, CollateralAssumption DEF Bid
<1>5. worth(new) = a /\ worth(present.bids[b][t]) = 0
  BY <1>4, NoneAssumption, PresentFields DEF worth, submit_bid
<1>6. st2.bids = [present.bids EXCEPT ![b][t] = new]
  BY <1>1, <1>3, PresentFields, NextFields DEF submit_bid
<1>7. TouchesBid(present, st2, b, t) /\ st2.bids[b][t] = new
  <2>1. present.bids \in BidBooks /\ new \in Bid \cup {None}
    BY <1>4, PresentTypes, PresentFields
  <2>2. TouchesBid(present, st2, b, t)
    BY <1>6, <2>1, BidReplaced
  <2>3. st2.bids[b][t] = new
    BY <1>6, <2>1 DEF BidBooks
  <2> QED
    BY <2>2, <2>3
<1> HIDE <1>3, <1>6
<1>8. worth(st2.bids[b][t]) = worth(present.bids[b][t]) + a
  BY <1>4, <1>5, <1>7
<1>9. /\ a <= present.bank[b] /\ st2.bank = moved(present.bank, b, Liquidation, a)
      /\ IsStore(st2) /\ st2.cw20 = present.cw20 /\ st2.custody = present.custody
      /\ st2.collaterals = present.collaterals /\ st2.loan = present.loan
  BY <1>1, PresentFields, NextFields DEF submit_bid, kvars
<1>10. Starts(prices, whitelist, present, st2, q)
  BY <1>2, <1>4, <1>7, <1>8, <1>9, SubmitStarts DEF Escrows
<1>11. queue' = queue
  BY DEF submit_bid
<1> QED
  BY <1>1, <1>10, <1>11

LEMMA RetractStep ==
    ASSUME CInv, Idle, NEW b \in Users, NEW t \in Tokens, NEW a \in Amounts,
           retract_bid(b, t, a), UNCHANGED <<kvars, collaterals, loan>>
    PROVE  Starts(prices, whitelist, present, present', queue')
<1>1. PICK q, q2, st2 : q = queue /\ q2 = queue' /\ st2 = present'
  OBVIOUS
<1>2. Empty(q) /\ Sound(present, q) /\ LockedListed(present, whitelist)
  BY <1>1, IdleParts
<1>3. PICK bid, new : bid = bids[b][t] /\ new = less(bid, a)
  OBVIOUS
<1>4. bid \in Bid /\ a <= bid.amount /\ a \in Nat
  BY <1>3, CollateralAssumption, PresentTypes DEF retract_bid, BidBooks
<1>5. new \in Bid \cup {None} /\ worth(new) = worth(bid) - a
  BY <1>3, <1>4, LessParts
<1>6. st2.bids = [present.bids EXCEPT ![b][t] = new]
  BY <1>1, <1>3, PresentFields, NextFields DEF retract_bid
<1>7. TouchesBid(present, st2, b, t) /\ st2.bids[b][t] = new
  <2>1. present.bids \in BidBooks
    BY PresentTypes, PresentFields
  <2>2. TouchesBid(present, st2, b, t)
    BY <1>5, <1>6, <2>1, BidReplaced
  <2>3. st2.bids[b][t] = new
    BY <1>6, <2>1 DEF BidBooks
  <2> QED
    BY <2>2, <2>3
<1> HIDE <1>6
<1>8. worth(st2.bids[b][t]) = worth(present.bids[b][t]) - a
  BY <1>3, <1>5, <1>7, PresentFields
<1>9. PICK n : n = BankSend(Liquidation, b, a)
  OBVIOUS
<1>10. n \in BankSends /\ n.from = Liquidation /\ n.amount = a
  BY <1>4, <1>9 DEF BankSend, BankSends
<1>11. Single(q2, n)
  BY <1>1, <1>9 DEF retract_bid, Single
<1> HIDE <1>9
<1>12. /\ IsStore(st2) /\ st2.bank = present.bank /\ st2.cw20 = present.cw20
       /\ st2.custody = present.custody /\ st2.collaterals = present.collaterals
       /\ st2.loan = present.loan
  BY <1>1, PresentFields, NextFields DEF retract_bid, kvars
<1>13. Starts(prices, whitelist, present, st2, q2)
  BY <1>2, <1>4, <1>7, <1>8, <1>10, <1>11, <1>12, RetractStarts
<1> QED
  BY <1>1, <1>13

LEMMA MarketStep ==
    ASSUME CInv, Idle, MarketTransaction
    PROVE  Starts(prices, whitelist, present, present', queue')
<1>1. PICK q, st2 : q = queue /\ st2 = present'
  OBVIOUS
<1>2. Empty(q) /\ Sound(present, q) /\ LockedListed(present, whitelist)
  BY <1>1, IdleParts
<1>3. PICK u \in Users, n \in Loans : loan' = [loan EXCEPT ![u] = n]
  BY DEF MarketTransaction
<1>4. loan' \in LoanBooks
  BY <1>3, PresentTypes, CollateralAssumption DEF LoanBooks
<1> HIDE <1>3
<1>5. /\ IsStore(st2) /\ st2.bank = present.bank /\ st2.cw20 = present.cw20
      /\ st2.bids = present.bids /\ st2.custody = present.custody
      /\ st2.collaterals = present.collaterals /\ st2.loan \in LoanBooks
  BY <1>1, <1>4, PresentFields, NextFields DEF MarketTransaction, chainVars, lvars, kvars
<1>6. Starts(prices, whitelist, present, st2, q)
  BY <1>2, <1>5, MarketStarts
<1>7. queue' = queue
  BY DEF MarketTransaction, chainVars
<1> QED
  BY <1>1, <1>6, <1>7

\* The oracle and the configs are no part of the stores.
LEMMA QuietStep ==
    ASSUME CInv, Idle, present' = present, queue' = queue
    PROVE  Starts(prices, whitelist, present, present', queue')
<1>1. PICK q, st2 : q = queue /\ st2 = present
  OBVIOUS
<1>2. Empty(q) /\ Sound(present, q) /\ LockedListed(present, whitelist)
  BY <1>1, IdleParts
<1>3. /\ IsStore(st2) /\ st2.bank = present.bank /\ st2.cw20 = present.cw20
      /\ st2.bids = present.bids /\ st2.custody = present.custody
      /\ st2.collaterals = present.collaterals /\ st2.loan \in LoanBooks
  BY <1>1, PresentFields, PresentTypes
<1>4. Starts(prices, whitelist, present, st2, q)
  BY <1>2, <1>3, MarketStarts
<1> QED
  BY <1>1, <1>4

LEMMA TransactionStarts ==
    ASSUME CInv, Transaction
    PROVE  Starts(prices, whitelist, present, present', queue')
<1>0. Idle
  BY DEF Transaction
<1>1. CASE CustodyTransaction
  <2>1. UNCHANGED <<lvars, collaterals, loan>>
    BY <1>1 DEF CustodyTransaction
  <2>2. PICK u \in Users, c \in Custodies :
          \/ \E a \in Amounts : deposit_collateral(u, c, a)
          \/ \E a \in Amounts \cup {custody[c][u].spendable} : withdraw_collateral(u, c, a)
    BY <1>1 DEF CustodyTransaction
  <2>3. CASE \E a \in Amounts : deposit_collateral(u, c, a)
    BY <1>0, <2>1, <2>3, DepositStep
  <2>4. CASE \E a \in Amounts \cup {custody[c][u].spendable} : withdraw_collateral(u, c, a)
    <3>1. PICK a \in Amounts \cup {custody[c][u].spendable} : withdraw_collateral(u, c, a)
      BY <2>4
    <3>2. custody[c][u].spendable \in Nat
      BY PresentTypes, PresentFields, BooksParts
    <3>3. a \in Nat
      BY <3>2, CollateralAssumption
    <3> QED
      BY <1>0, <2>1, <3>1, <3>3, WithdrawStep
  <2> QED
    BY <2>2, <2>3, <2>4
<1>2. CASE OverseerTransaction
  <2>1. UNCHANGED liquidation_config
    BY <1>2 DEF OverseerTransaction
  <2> QED
    BY <1>0, <1>2, <2>1, LockTransaction, UnlockTransaction, LiquidateTransaction
       DEF OverseerTransaction
<1>3. CASE BidTransaction
  <2>1. UNCHANGED <<kvars, collaterals, loan>>
    BY <1>3 DEF BidTransaction
  <2> QED
    BY <1>0, <1>3, <2>1, SubmitStep, RetractStep DEF BidTransaction
<1>4. CASE OracleTransaction
  <2>1. present' = present /\ queue' = queue
    BY <1>4 DEF OracleTransaction, present, chainVars, lvars, kvars
  <2> QED
    BY <1>0, <2>1, QuietStep
<1>5. CASE GovernanceTransaction
  <2>1. present' = present /\ queue' = queue
    BY <1>5 DEF GovernanceTransaction, liquidation_update_config, custody_update_config,
                present, chainVars, lvars, kvars
  <2> QED
    BY <1>0, <2>1, QuietStep
<1>6. CASE MarketTransaction
  BY <1>0, <1>6, MarketStep
<1> QED
  BY <1>1, <1>2, <1>3, <1>4, <1>5, <1>6 DEF Transaction

(***************************************************************************)
(* What governance and the feeders decide                                  *)
(***************************************************************************)
Configured ==
    /\ oracle_owner \in Users /\ feeder \in [Tokens -> Users \cup {None}]
    /\ prices \in [Tokens -> [price : Nat, last_updated_time : 0 .. time] \cup {None}]
    /\ whitelist \in [Tokens -> Elems \cup {None}] /\ ListedCustody(whitelist)
    /\ liquidation_config \in LiquidationConfigs /\ time \in Nat
    /\ custody_config \in [Custodies -> Keeper]

decided == <<oracleVars, whitelist, liquidation_config, custody_config>>

LEMMA ConfiguredNow ==
    ASSUME CInv
    PROVE  Configured
BY DEF CInv, TypeOK, Configured

LEMMA ConfiguredFrame ==
    ASSUME Configured, UNCHANGED decided
    PROVE  Configured' /\ \A t \in Tokens : whitelist[t] # None => whitelist'[t] # None
BY DEF Configured, decided, oracleVars, ListedCustody

LEMMA OracleConfigures ==
    ASSUME Configured, OracleTransaction
    PROVE  Configured' /\ whitelist' = whitelist
<1>1. /\ oracle_owner \in Users /\ feeder \in [Tokens -> Users \cup {None}]
      /\ prices \in [Tokens -> [price : Nat, last_updated_time : 0 .. time] \cup {None}]
      /\ time \in Nat
  BY DEF Configured
<1>2. /\ UNCHANGED <<lvars, kvars, whitelist>>
      /\ \/ \E s, o \in Users : oracle_update_config(s, o)
         \/ \E s, w \in Users, t \in Tokens : register_feeder(s, t, w)
         \/ \E s \in Users, assets \in SUBSET Tokens \ {{}} :
              \E fed \in [assets -> Prices] : feed_prices(s, fed)
         \/ time_passes
  BY DEF OracleTransaction
<1>3. CASE \E s, o \in Users : oracle_update_config(s, o)
  BY <1>1, <1>2, <1>3 DEF Configured, ListedCustody, oracle_update_config, lvars, kvars
<1>4. CASE \E s, w \in Users, t \in Tokens : register_feeder(s, t, w)
  BY <1>1, <1>2, <1>4 DEF Configured, ListedCustody, register_feeder, lvars, kvars
<1>5. ASSUME NEW s \in Users, NEW assets \in SUBSET Tokens, NEW fed \in [assets -> Prices],
             feed_prices(s, fed)
      PROVE  Configured' /\ whitelist' = whitelist
  <2>1. prices' = [t \in Tokens |-> IF t \in DOMAIN fed
                                    THEN [price |-> fed[t], last_updated_time |-> time]
                                    ELSE prices[t]]
    BY <1>5 DEF feed_prices
  <2>2. \A t \in assets : fed[t] \in Nat
    BY CollateralAssumption
  <2>3. ASSUME NEW t \in Tokens
        PROVE  prices'[t] \in [price : Nat, last_updated_time : 0 .. time] \cup {None}
    <3>1. CASE t \in assets
      <4>1. prices'[t] = [price |-> fed[t], last_updated_time |-> time]
        BY <2>1, <3>1
      <4> QED
        BY <1>1, <2>2, <3>1, <4>1
    <3>2. CASE t \notin assets
      <4>1. prices'[t] = prices[t]
        BY <2>1, <3>2
      <4> QED
        BY <1>1, <4>1
    <3> QED
      BY <3>1, <3>2
  <2>4. prices' \in [Tokens -> [price : Nat, last_updated_time : 0 .. time] \cup {None}]
    BY <2>1, <2>3
  <2> QED
    BY <1>1, <1>2, <1>5, <2>4 DEF Configured, ListedCustody, feed_prices, lvars, kvars
<1>6. CASE time_passes
  <2>1. 0 .. time \subseteq 0 .. time' /\ time' \in Nat
    BY <1>1, <1>6 DEF time_passes
  <2>2. prices' = prices /\ oracle_owner' = oracle_owner /\ feeder' = feeder
    BY <1>6 DEF time_passes
  <2>3. prices' \in [Tokens -> [price : Nat, last_updated_time : 0 .. time'] \cup {None}]
    BY <1>1, <2>1, <2>2
  <2> QED
    BY <1>1, <1>2, <2>1, <2>2, <2>3 DEF Configured, ListedCustody, lvars, kvars
<1> QED
  BY <1>2, <1>3, <1>4, <1>5, <1>6

LEMMA GovernanceConfigures ==
    ASSUME Configured, GovernanceTransaction
    PROVE  Configured' /\ \A t \in Tokens : whitelist[t] # None => whitelist'[t] # None
<1>1. /\ whitelist \in [Tokens -> Elems \cup {None}] /\ ListedCustody(whitelist)
      /\ custody_config \in [Custodies -> Keeper]
  BY DEF Configured
<1>2. CASE /\ \E s \in Users, t \in Tokens, e \in Elems :
                /\ CustodyToken[e.custody_contract] = t
                /\ register_whitelist(s, t, e) \/ update_whitelist(s, t, e)
           /\ UNCHANGED <<chainVars, oracleVars, lvars, kvars, collaterals, loan>>
  <2>1. PICK t \in Tokens, e \in Elems : /\ CustodyToken[e.custody_contract] = t
                                         /\ whitelist' = [whitelist EXCEPT ![t] = e]
    BY <1>2 DEF register_whitelist, update_whitelist
  <2>2. e # None
    BY NoneAssumption
  <2>3. /\ whitelist' \in [Tokens -> Elems \cup {None}]
        /\ \A s \in Tokens : whitelist'[s] = IF s = t THEN e ELSE whitelist[s]
    BY <1>1, <2>1
  <2>4. ListedCustody(whitelist')
    BY <1>1, <2>1, <2>3 DEF ListedCustody
  <2>5. UNCHANGED <<oracle_owner, feeder, prices, time, liquidation_config, custody_config>>
    BY <1>2 DEF oracleVars, lvars, kvars
  <2>6. Configured'
    BY <2>3, <2>4, <2>5 DEF Configured, ListedCustody
  <2> QED
    BY <2>2, <2>3, <2>6
<1>3. CASE /\ \E s \in Users, cfg \in LiquidationConfigs : liquidation_update_config(s, cfg)
           /\ UNCHANGED <<oracleVars, kvars, collaterals, whitelist, loan>>
  BY <1>3 DEF Configured, ListedCustody, liquidation_update_config, oracleVars, kvars
<1>4. CASE /\ \E s \in Users, c \in Custodies, cfg \in Keeper : custody_update_config(s, c, cfg)
           /\ UNCHANGED <<oracleVars, lvars, collaterals, whitelist, loan>>
  <2>1. custody_config' \in [Custodies -> Keeper]
    BY <1>1, <1>4 DEF custody_update_config
  <2>2. UNCHANGED <<oracle_owner, feeder, prices, time, liquidation_config, whitelist>>
    BY <1>4 DEF oracleVars, lvars
  <2> QED
    BY <2>1, <2>2 DEF Configured, ListedCustody
<1> QED
  BY <1>2, <1>3, <1>4 DEF GovernanceTransaction

LEMMA TransactionConfigures ==
    ASSUME Configured, Transaction
    PROVE  /\ Configured' /\ \A t \in Tokens : whitelist[t] # None => whitelist'[t] # None
           /\ queue' # <<>> => prices' = prices /\ whitelist' = whitelist
<1>0. queue = <<>>
  BY DEF Transaction, Idle
<1>1. CASE CustodyTransaction \/ OverseerTransaction \/ BidTransaction \/ MarketTransaction
  <2>1. UNCHANGED decided
    <3>1. CASE CustodyTransaction
      BY <3>1 DEF CustodyTransaction, deposit_collateral, withdraw_collateral, decided, lvars
    <3>2. CASE OverseerTransaction
      BY <3>2 DEF OverseerTransaction, lock_collateral, unlock_collateral,
                  liquidate_collateral, decided, kvars
    <3>3. CASE BidTransaction
      BY <3>3 DEF BidTransaction, submit_bid, retract_bid, decided, kvars
    <3>4. CASE MarketTransaction
      BY <3>4 DEF MarketTransaction, decided, lvars, kvars
    <3> QED
      BY <1>1, <3>1, <3>2, <3>3, <3>4
  <2>2. prices' = prices /\ whitelist' = whitelist
    BY <2>1 DEF decided, oracleVars
  <2> QED
    BY <2>1, <2>2, ConfiguredFrame
<1>2. CASE OracleTransaction
  <2>1. queue' = <<>>
    BY <1>0, <1>2 DEF OracleTransaction, chainVars
  <2> QED
    BY <1>2, <2>1, OracleConfigures
<1>3. CASE GovernanceTransaction
  <2>1. queue' = <<>>
    BY <1>0, <1>3 DEF GovernanceTransaction, liquidation_update_config,
                      custody_update_config, chainVars
  <2> QED
    BY <1>3, <2>1, GovernanceConfigures
<1> QED
  BY <1>1, <1>2, <1>3 DEF Transaction

LEMMA MessageConfigures ==
    ASSUME Message \/ Revert
    PROVE  UNCHANGED decided
<1>1. CASE Message
  <2>1. CASE ChainMessage
    BY <2>1 DEF ChainMessage, decided, lvars, kvars
  <2>2. CASE CustodyMessage
    BY <2>2 DEF CustodyMessage, custody_lock_collateral, custody_unlock_collateral,
                custody_liquidate_collateral, decided, lvars, kvars
  <2>3. CASE BidMessage
    BY <2>3 DEF BidMessage, execute_bid, decided, kvars
  <2>4. CASE MarketMessage
    BY <2>4 DEF MarketMessage, decided, lvars, kvars
  <2> QED
    BY <1>1, <2>1, <2>2, <2>3, <2>4 DEF Message
<1>2. CASE Revert
  BY <1>2 DEF Revert, decided
<1> QED
  BY <1>1, <1>2

(***************************************************************************)
(* The invariant                                                           *)
(***************************************************************************)
LEMMA InitSound ==
    ASSUME Init
    PROVE  Sound(present, queue)
<1>1. PICK st, q : st = present /\ q = queue
  OBVIOUS
<1>2. /\ st.bank = [a \in Accounts |-> IF a \in Users \cup {Market} THEN Wallet ELSE 0]
      /\ st.cw20 = [t \in Tokens |-> [a \in Accounts |-> IF a \in Users THEN Wallet ELSE 0]]
      /\ st.bids = [u \in Users |-> [t \in Tokens |-> None]]
      /\ st.custody = [c \in Custodies |-> [u \in Users |-> [balance |-> 0, spendable |-> 0]]]
      /\ st.collaterals = [u \in Users |-> No_collateral] /\ st.loan = [u \in Users |-> 0]
      /\ IsStore(st) /\ Empty(q)
  BY <1>1, PresentFields DEF Init, ChainInit, LiquidationInit, CustodyInit, Empty
<1>3. \A f : total(f, q) = 0
  BY <1>2, EmptyParts
<1>4. st \in Stores
  <2>1. Wallet \in Nat
    BY CollateralAssumption
  <2>2. /\ st.bank \in [Accounts -> Nat] /\ st.cw20 \in [Tokens -> [Accounts -> Nat]]
        /\ st.loan \in LoanBooks
    BY <1>2, <2>1 DEF LoanBooks
  <2>3. st.bids \in BidBooks /\ st.custody \in Books /\ st.collaterals \in [Users -> Goodly]
    BY <1>2 DEF BidBooks, Books, BorrowerInfo, Goodly, No_collateral
  <2> QED
    BY <1>2, <2>2, <2>3, StoreParts
<1>5. \A c \in Custodies, u \in Users : st.custody[c][u].balance = 0 /\ st.custody[c][u].spendable = 0
  BY <1>2
<1>6. Backed(st, q)
  <2> SUFFICES ASSUME NEW c \in Custodies
               PROVE  kept_in(st, c) + total(Leaving(c), q) <= st.cw20[CustodyToken[c]][c]
    BY DEF Backed
  <2>1. kept_in(st, c) = 0
    <3> DEFINE f == [u \in Users |-> st.custody[c][u].balance]
    <3>1. \A u \in Users : f[u] = 0
      BY <1>5
    <3>2. SumFunctionOnSet(f, Users) = 0
      <4> HIDE DEF f
      <4> QED
        BY <3>1, AccountsAssumption, SumZero
    <3> QED
      BY <3>2 DEF kept_in
  <2>2. st.cw20[CustodyToken[c]][c] = 0
    BY <1>2, CustodyAssumption, Addresses
  <2> QED
    BY <1>3, <2>1, <2>2
<1>7. PassedOn(st, q)
  <2>1. \A t \in Tokens, a \in Liquidators : st.cw20[t][a] = 0
    BY <1>2, Addresses
  <2> QED
    BY <1>3, <2>1 DEF PassedOn
<1>8. Escrowed(st, q)
  <2>1. \A u \in Users : bid_by(st, u) = 0
    <3> SUFFICES ASSUME NEW u \in Users PROVE bid_by(st, u) = 0
      OBVIOUS
    <3> DEFINE f == [t \in Tokens |-> IF st.bids[u][t] = None THEN 0 ELSE st.bids[u][t].amount]
    <3>1. \A t \in Tokens : f[t] = 0
      BY <1>2
    <3>2. SumFunctionOnSet(f, Tokens) = 0
      <4> HIDE DEF f
      <4> QED
        BY <3>1, AccountsAssumption, SumZero
    <3> QED
      BY <3>2 DEF bid_by
  <2>2. escrowed(st) = 0
    <3> DEFINE f == [u \in Users |-> bid_by(st, u)]
    <3>1. \A u \in Users : f[u] = 0
      BY <2>1
    <3>2. SumFunctionOnSet(f, Users) = 0
      <4> HIDE DEF f
      <4> QED
        BY <3>1, AccountsAssumption, SumZero
    <3> QED
      BY <3>2 DEF escrowed
  <2>3. st.bank[Liquidation] = 0
    BY <1>2, Addresses
  <2> QED
    BY <1>3, <2>2, <2>3 DEF Escrowed
<1>9. Agree(st, q)
  <2> SUFFICES ASSUME NEW u \in Users, NEW t \in Tokens
               PROVE  st.collaterals[u][t] = locked_of(st, u)[t] + total(ToLock(u, t), q)
    BY DEF Agree
  <2>1. locked_of(st, u)[t] = 0
    <3> DEFINE f == [c \in Custodies |-> st.custody[c][u].balance - st.custody[c][u].spendable]
               S == CustodiesOf(t)
    <3>1. IsFiniteSet(S) /\ \A c \in S : f[c] = 0
      BY <1>5, CustodiesOfFinite
    <3>2. SumFunctionOnSet(f, S) = 0
      <4> HIDE DEF f, S
      <4> QED
        BY <3>1, SumZero
    <3> QED
      BY <3>2 DEF locked_of
  <2>2. st.collaterals[u][t] = 0
    BY <1>2 DEF No_collateral
  <2> QED
    BY <1>3, <2>1, <2>2
<1>10. SpendableHeld(st)
  BY <1>5 DEF SpendableHeld
<1> QED
  BY <1>1, <1>4, <1>6, <1>7, <1>8, <1>9, <1>10 DEF Sound

LEMMA InvInit ==
    ASSUME Init
    PROVE  CInv
<1>1. Sound(present, queue)
  BY InitSound
<1>2. queue = <<>> /\ saved = None
  BY DEF Init, ChainInit
<1>3. Configured
  BY CollateralAssumption
     DEF Init, OracleInit, LiquidationInit, CustodyInit, Configured, ListedCustody, Keeper
<1>4. LockedListed(present, whitelist)
  BY PresentFields DEF Init, LockedListed, No_collateral
<1>5. TypeOK
  BY <1>1, <1>2, <1>3 DEF TypeOK, Configured, Sound, Idle
<1>6. queue \in Seq(Msg)
  BY <1>2
<1> QED
  BY <1>1, <1>2, <1>3, <1>4, <1>5, <1>6 DEF CInv, Configured, Idle

\* What remains of the invariant, once the stores and the configs are in order.
LEMMA Continues ==
    ASSUME Configured', queue' \in Seq(Msg), Sound(present', queue'),
           LockedListed(present', whitelist'),
           saved' = None <=> queue' = <<>>,
           queue' # <<>> => Underway(prices', whitelist', saved', present', queue')
    PROVE  CInv'
<1>1. present' \in Stores
  BY DEF Sound
<1>2. queue' # <<>> => saved' \in Stores
  BY DEF Underway, Sound
<1>3. TypeOK'
  BY <1>1, <1>2 DEF TypeOK, Configured, Idle
<1> QED
  BY <1>3 DEF CInv, Configured, Idle

LEMMA ListedStill ==
    ASSUME NEW st, NEW list, NEW list2, LockedListed(st, list),
           \A t \in Tokens : list[t] # None => list2[t] # None
    PROVE  LockedListed(st, list2)
BY DEF LockedListed

LEMMA TransactionInv ==
    ASSUME CInv, Transaction
    PROVE  CInv'
<1>1. Starts(prices, whitelist, present, present', queue')
  BY TransactionStarts
<1>2. /\ Configured' /\ \A t \in Tokens : whitelist[t] # None => whitelist'[t] # None
      /\ queue' # <<>> => prices' = prices /\ whitelist' = whitelist
  BY ConfiguredNow, TransactionConfigures
<1>3. /\ Idle /\ saved' = IF queue' = <<>> THEN None ELSE present
  BY DEF Transaction
<1>4. /\ present \in Stores /\ present # None /\ Sound(present, <<>>)
      /\ LockedListed(present, whitelist)
  BY <1>3, IdleParts, NoneAssumption
<1>5. PICK st2, q2, list2 : st2 = present' /\ q2 = queue' /\ list2 = whitelist'
  OBVIOUS
<1>6. /\ q2 \in Seq(Msg) /\ Sound(st2, q2) /\ LockedListed(st2, whitelist)
      /\ Judged(prices, whitelist, present, st2) /\ RepayLast(present, st2, q2)
      /\ OneAccount(present, st2, q2)
      /\ q2 # <<>> => Paid(present, st2, q2)
  BY <1>1, <1>5 DEF Starts
<1>7. LockedListed(st2, list2)
  BY <1>2, <1>5, <1>6, ListedStill
<1>8. q2 # <<>> => Underway(prices, whitelist, present, st2, q2)
  BY <1>4, <1>6 DEF Underway
<1>9. queue' # <<>> => Underway(prices', whitelist', saved', present', queue')
  BY <1>2, <1>3, <1>5, <1>8
<1>10. saved' = None <=> queue' = <<>>
  BY <1>3, <1>4
<1> QED
  BY <1>2, <1>5, <1>6, <1>7, <1>9, <1>10, Continues

LEMMA MessageWaits ==
    ASSUME Message
    PROVE  ~Idle
<1>1. CASE ChainMessage
  BY <1>1 DEF ChainMessage, bank_send, transfer, send, Current, Idle
<1>2. CASE CustodyMessage
  BY <1>2 DEF CustodyMessage, custody_lock_collateral, custody_unlock_collateral,
              custody_liquidate_collateral, Current, Idle
<1>3. CASE BidMessage
  BY <1>3 DEF BidMessage, execute_bid, Current, Idle
<1>4. CASE MarketMessage
  BY <1>4 DEF MarketMessage, repay_stable_from_liquidation, Current, Idle
<1> QED
  BY <1>1, <1>2, <1>3, <1>4 DEF Message

LEMMA MessageInv ==
    ASSUME CInv, Message
    PROVE  CInv'
<1>1. ~Idle /\ Underway(prices, whitelist, saved, present, queue)
  BY MessageWaits DEF CInv
<1>2. Runs(saved, present, queue, present', queue')
  BY MessageRuns
<1>3. Configured' /\ prices' = prices /\ whitelist' = whitelist
  <2>1. UNCHANGED decided
    BY MessageConfigures
  <2> QED
    BY <2>1, ConfiguredNow, ConfiguredFrame DEF decided, oracleVars
<1>4. saved' = (IF queue' = <<>> THEN None ELSE saved) /\ saved # None
  BY <1>1 DEF Message, CInv, TypeOK
<1>5. PICK st2, q2 : st2 = present' /\ q2 = queue'
  OBVIOUS
<1>6. Underway(prices, whitelist, saved, st2, q2)
  BY <1>1, <1>2, <1>5, UnderwayKept
<1>7. q2 \in Seq(Msg) /\ Sound(st2, q2) /\ st2.collaterals = present.collaterals
  BY <1>2, <1>5 DEF Runs
<1>8. LockedListed(st2, whitelist)
  BY <1>7 DEF CInv, LockedListed
<1>9. queue' # <<>> => Underway(prices', whitelist', saved', present', queue')
  BY <1>3, <1>4, <1>5, <1>6
<1>10. saved' = None <=> queue' = <<>>
  BY <1>4
<1> QED
  BY <1>3, <1>5, <1>7, <1>8, <1>9, <1>10, Continues

\* The stores are those from which the transaction started.
LEMMA RevertRestores ==
    ASSUME CInv, Revert
    PROVE  present' = saved /\ queue' = <<>> /\ saved' = None
<1>1. saved \in Stores
  BY DEF CInv, TypeOK, Revert
<1>2. IsStore(saved)
  BY <1>1, StoreParts
<1>3. present' = [bank |-> saved.bank, cw20 |-> saved.cw20, bids |-> saved.bids,
                  custody |-> saved.custody, collaterals |-> saved.collaterals,
                  loan |-> saved.loan]
  BY DEF Revert, present
<1> QED
  BY <1>2, <1>3 DEF IsStore, Revert

LEMMA RevertInv ==
    ASSUME CInv, Revert
    PROVE  CInv'
<1>1. ~Idle /\ Underway(prices, whitelist, saved, present, queue)
  BY DEF CInv, Revert
<1>2. Configured' /\ whitelist' = whitelist
  <2>1. UNCHANGED decided
    BY MessageConfigures
  <2> QED
    BY <2>1, ConfiguredNow, ConfiguredFrame DEF decided
<1>3. present' = saved /\ queue' = <<>> /\ saved' = None
  BY RevertRestores
<1>4. Sound(saved, <<>>) /\ LockedListed(saved, whitelist)
  BY <1>1 DEF Underway
<1>5. Sound(present', queue') /\ LockedListed(present', whitelist') /\ queue' \in Seq(Msg)
  BY <1>2, <1>3, <1>4
<1> QED
  BY <1>2, <1>3, <1>5, Continues

LEMMA StutterInv ==
    ASSUME CInv, UNCHANGED cvars
    PROVE  CInv'
<1>1. present' = present /\ queue' = queue /\ saved' = saved
  BY DEF present, cvars, chainVars, lvars, kvars
<1>2. Configured' /\ prices' = prices /\ whitelist' = whitelist
  BY ConfiguredNow, ConfiguredFrame DEF decided, cvars, oracleVars, lvars, kvars
<1>3. /\ queue \in Seq(Msg) /\ Sound(present, queue) /\ LockedListed(present, whitelist)
      /\ saved = None <=> queue = <<>>
      /\ queue # <<>> => Underway(prices, whitelist, saved, present, queue)
  BY DEF CInv, TypeOK, Idle
<1> QED
  BY <1>1, <1>2, <1>3, Continues

LEMMA Inductive ==
    ASSUME CInv, [Next]_cvars
    PROVE  CInv'
BY TransactionInv, MessageInv, RevertInv, StutterInv DEF Next

\* At every message the stores, with what the waiting messages will still do to
\* them, are in order, and a transaction in progress started from stores that are
\* in order and will end as judged when it started.
THEOREM CollateralInvariant == Spec => []CInv
<1>1. Init => CInv
  BY InvInit
<1>2. CInv /\ [Next]_cvars => CInv'
  BY Inductive
<1> QED
  BY <1>1, <1>2, PTL DEF Spec

(***************************************************************************)
(* Theorems about the states                                               *)
(***************************************************************************)
LEMMA TotalNat ==
    ASSUME NEW f \in [Msg -> Int], NEW q \in Seq(Msg), \A m \in Msg : f[m] >= 0
    PROVE  total(f, q) >= 0
<1> DEFINE S == 1 .. Len(q)
           g == [i \in 1 .. Len(q) |-> f[q[i]]]
<1>1. IsFiniteSet(S) /\ \A i \in S : g[i] \in Nat
  BY TotalTerms
<1>2. SumFunctionOnSet(g, S) \in Nat
  <2> HIDE DEF S, g
  <2> QED
    BY <1>1, SumNat
<1> QED
  BY <1>2 DEF total

\* Everything stored keeps its type, and a transaction has something to go back
\* to exactly as long as its messages wait.
THEOREM CollateralTypes == Spec => []TypeOK
<1>1. CInv => TypeOK
  BY DEF CInv
<1> QED
  BY <1>1, CollateralInvariant, PTL

\* A custody contract holds the tokens of its borrowers, and the liquidation
\* contracts keep none of what they are sent to sell: tokens that leave have been
\* taken off the books before.
THEOREM CustodyAlwaysBacked == Spec => []CustodyBacked
<1>1. ASSUME CInv PROVE CustodyBacked
  <2>1. queue \in Seq(Msg) /\ Backed(present, queue) /\ PassedOn(present, queue)
    BY <1>1 DEF CInv, Sound
  <2>2. ASSUME NEW c \in Custodies PROVE kept_in(present, c) <= cw20[CustodyToken[c]][c]
    <3>1. \A m \in Msg : Leaving(c)[m] >= 0
      BY MsgTypes, TransferParts, SendParts DEF Leaving
    <3>2. total(Leaving(c), queue) >= 0 /\ total(Leaving(c), queue) \in Int
      BY <2>1, <3>1, LeavingType, TotalNat, TotalType
    <3>3. kept_in(present, c) + total(Leaving(c), queue) <= cw20[CustodyToken[c]][c]
      BY <2>1, PresentFields DEF Backed
    <3>4. kept_in(present, c) \in Int /\ cw20[CustodyToken[c]][c] \in Int
      BY <1>1, PresentTypes, PresentFields, BooksTypes, Addresses, CustodyAssumption
    <3> QED
      BY <3>2, <3>3, <3>4
  <2>3. ASSUME Idle, NEW t \in Tokens, NEW a \in {Liquidation, Successor} PROVE cw20[t][a] = 0
    <3>1. cw20[t][a] = total(Passing(t, a), queue)
      BY <2>1, PresentFields DEF PassedOn, Liquidators
    <3> QED
      BY <2>3, <3>1, TotalEmpty DEF Idle
  <2> QED
    BY <2>2, <2>3 DEF CustodyBacked
<1> QED
  BY <1>1, CollateralInvariant, PTL

\* The coins of the open bids are in escrow: a bid is reduced by all that its
\* execution pays, fee and tax included, before anything is paid.
THEOREM BidsAlwaysEscrowed == Spec => []BidsEscrowed
<1>1. ASSUME CInv PROVE BidsEscrowed
  <2>1. queue \in Seq(Msg) /\ Escrowed(present, queue)
    BY <1>1 DEF CInv, Sound
  <2>2. \A m \in Msg : Paying(Liquidation)[m] >= 0
    BY MsgTypes, BankSendParts DEF Paying
  <2>3. total(Paying(Liquidation), queue) >= 0 /\ total(Paying(Liquidation), queue) \in Int
    BY <2>1, <2>2, PayingType, TotalNat, TotalType
  <2>4. escrowed(present) + total(Paying(Liquidation), queue) <= bank[Liquidation]
    BY <2>1, PresentFields DEF Escrowed
  <2>5. escrowed(present) \in Int /\ bank[Liquidation] \in Int
    BY <1>1, PresentTypes, PresentFields, EscrowType, Addresses
  <2>6. escrowed(present) <= bank[Liquidation]
    BY <2>3, <2>4, <2>5
  <2> QED
    BY <2>6 DEF BidsEscrowed, escrowed
<1> QED
  BY <1>1, CollateralInvariant, PTL

LEMMA LockedWhenIdle ==
    ASSUME CInv, Idle, NEW u \in Users
    PROVE  collaterals[u] = locked_of(present, u)
<1>1. /\ collaterals[u] \in Goodly /\ locked_of(present, u) \in [Tokens -> Int]
  BY PresentTypes, PresentFields, BooksTypes
<1>2. Agree(present, queue)
  BY DEF CInv, Sound
<1>3. ASSUME NEW t \in Tokens PROVE collaterals[u][t] = locked_of(present, u)[t]
  <2>1. collaterals[u][t] = locked_of(present, u)[t] + total(ToLock(u, t), queue)
    BY <1>2, PresentFields DEF Agree
  <2>2. total(ToLock(u, t), queue) = 0
    BY TotalEmpty DEF Idle
  <2>3. locked_of(present, u)[t] \in Int
    BY <1>1
  <2> QED
    BY <2>1, <2>2, <2>3
<1> QED
  BY <1>1, <1>3 DEF Goodly

\* Overseer and custody contracts agree on what is locked, whenever no message waits.
THEOREM LedgersAlwaysAgree == Spec => []LedgersAgree
<1>1. CInv => LedgersAgree
  BY LockedWhenIdle DEF LedgersAgree
<1> QED
  BY <1>1, CollateralInvariant, PTL

LEMMA LockedTerms ==
    ASSUME CInv, NEW u \in Users, NEW t \in Tokens
    PROVE  /\ IsFiniteSet(CustodiesOf(t))
           /\ \A c \in CustodiesOf(t) : locked_in(c, u) \in Nat
           /\ locked_of(present, u)[t] =
                SumFunctionOnSet([c \in Custodies |-> locked_in(c, u)], CustodiesOf(t))
<1>1. IsFiniteSet(CustodiesOf(t)) /\ CustodiesOf(t) \subseteq Custodies
  BY CustodiesOfFinite
<1>2. ASSUME NEW c \in Custodies PROVE locked_in(c, u) \in Nat
  <2>1. custody[c][u].balance \in Nat /\ custody[c][u].spendable \in Nat
    BY PresentTypes, PresentFields, BooksParts
  <2>2. custody[c][u].spendable <= custody[c][u].balance
    BY PresentFields DEF CInv, Sound, SpendableHeld
  <2> QED
    BY <2>1, <2>2 DEF locked_in
<1> QED
  BY <1>1, <1>2, PresentFields DEF locked_of, locked_in

\* Who owes nothing gets back all that is locked where the whitelist points; the
\* rest is with a custody contract that was replaced.
THEOREM DebtFreeCanAlwaysUnlock == Spec => []DebtFreeCanUnlock
<1>1. ASSUME CInv, Idle, NEW u \in Users, loan[u] = 0,
             NEW here, here = [t \in Tokens |->
                                 IF whitelist[t] = None THEN 0
                                 ELSE locked_in(whitelist[t].custody_contract, u)],
             NEW left, left = sub(collaterals[u], here)
      PROVE  /\ contains(collaterals[u], here)
             /\ left = No_collateral => may_unlock(u, left)
             /\ \A t \in Tokens : left[t] > 0 =>
                  \E c \in CustodiesOf(t) : /\ c # whitelist[t].custody_contract
                                            /\ locked_in(c, u) > 0
  <2>1. ASSUME NEW t \in Tokens, whitelist[t] # None
        PROVE  whitelist[t].custody_contract \in CustodiesOf(t)
    BY <1>1, <2>1, ConfigTypes DEF Whitelisted, Elems, CustodiesOf, CInv, ListedCustody
  <2>2. ASSUME NEW t \in Tokens
        PROVE  /\ here[t] \in Nat /\ here[t] <= collaterals[u][t] /\ collaterals[u][t] \in Nat
               /\ left[t] = collaterals[u][t] - here[t]
    <3> DEFINE f == [c \in Custodies |-> locked_in(c, u)]
               S == CustodiesOf(t)
    <3>1. /\ IsFiniteSet(S) /\ S \subseteq Custodies /\ \A c \in S : f[c] \in Nat /\ f[c] = locked_in(c, u)
          /\ collaterals[u][t] = SumFunctionOnSet(f, S)
      BY <1>1, LockedTerms, LockedWhenIdle, CustodiesOfFinite
    <3>2. collaterals[u][t] \in Nat /\ left[t] = collaterals[u][t] - here[t]
      BY <1>1, PresentTypes DEF Goodly, sub
    <3>3. CASE whitelist[t] = None
      <4>1. here[t] = 0
        BY <1>1, <3>3
      <4> QED
        BY <3>2, <4>1
    <3>4. CASE whitelist[t] # None
      <4>1. PICK c : c = whitelist[t].custody_contract
        OBVIOUS
      <4>2. c \in S /\ here[t] = f[c]
        BY <1>1, <2>1, <3>1, <3>4, <4>1
      <4>3. f[c] <= SumFunctionOnSet(f, S)
        <5> HIDE DEF f, S
        <5> QED
          BY <3>1, <4>2, SumMember
      <4> QED
        BY <3>1, <3>2, <4>2, <4>3
    <3> QED
      BY <3>3, <3>4
  <2>3. contains(collaterals[u], here)
    BY <2>2 DEF contains
  <2>4. ASSUME left = No_collateral PROVE may_unlock(u, left)
    <3>1. \A t \in Tokens : left[t] = 0
      BY <2>4 DEF No_collateral
    <3>2. can_compute_borrow_limit(left) /\ compute_borrow_limit(left) = 0
      BY <3>1, LimitOfNothing
    <3> QED
      BY <1>1, <3>2 DEF may_unlock
  <2>5. ASSUME NEW t \in Tokens, left[t] > 0
        PROVE  \E c \in CustodiesOf(t) : /\ c # whitelist[t].custody_contract
                                         /\ locked_in(c, u) > 0
    <3> SUFFICES ASSUME \A c \in CustodiesOf(t) : c # whitelist[t].custody_contract =>
                          ~(locked_in(c, u) > 0)
                 PROVE  FALSE
      OBVIOUS
    <3> DEFINE f == [c \in Custodies |-> locked_in(c, u)]
               S == CustodiesOf(t)
    <3>1. /\ IsFiniteSet(S) /\ S \subseteq Custodies /\ \A c \in S : f[c] \in Nat /\ f[c] = locked_in(c, u)
          /\ collaterals[u][t] = SumFunctionOnSet(f, S)
      BY <1>1, LockedTerms, LockedWhenIdle, CustodiesOfFinite
    <3>2. whitelist[t] # None
      <4>1. collaterals[u][t] > 0
        BY <2>2, <2>5
      <4> QED
        BY <1>1, <4>1, PresentFields DEF CInv, LockedListed
    <3>3. PICK c : c = whitelist[t].custody_contract
      OBVIOUS
    <3>4. c \in S /\ here[t] = f[c]
      BY <1>1, <2>1, <3>1, <3>2, <3>3
    <3>5. \A d \in S : d # c => f[d] = 0
      BY <3>1, <3>3
    <3>6. SumFunctionOnSet(f, S) = f[c]
      <4> HIDE DEF f, S
      <4> QED
        BY <3>1, <3>4, <3>5, SumSingle
    <3>7. left[t] = 0
      BY <2>2, <3>1, <3>4, <3>6
    <3> QED
      BY <2>5, <3>7
  <2> QED
    BY <2>3, <2>4, <2>5
<1>2. CInv => DebtFreeCanUnlock
  BY <1>1 DEF DebtFreeCanUnlock
<1> QED
  BY <1>2, CollateralInvariant, PTL

(***************************************************************************)
(* Theorems about the steps                                                *)
(***************************************************************************)
\* What a transaction that is over has done.
Commits(prs, list, before, after) ==
    /\ Judged(prs, list, before, after) /\ OneAccount(before, after, <<>>)
    /\ after.collaterals # before.collaterals => Paid(before, after, <<>>)

LEMMA ViewType ==
    ASSUME CInv
    PROVE  View \in Stores
BY DEF CInv, TypeOK, View

\* Others see nothing of a step, or they see a whole transaction.
LEMMA ViewStep ==
    ASSUME CInv, [Next]_cvars
    PROVE  View' = View \/ Commits(prices, whitelist, View, View')
<1>1. CASE Transaction
  <2>1. View = present /\ saved' = IF queue' = <<>> THEN None ELSE present
    BY <1>1 DEF Transaction, View
  <2>2. CASE queue' # <<>>
    BY <2>1, <2>2 DEF View, Idle
  <2>3. CASE queue' = <<>>
    <3>1. PICK st, st2, q2 : st = present /\ st2 = present' /\ q2 = queue'
      OBVIOUS
    <3>2. Starts(prices, whitelist, st, st2, q2)
      BY <1>1, <3>1, TransactionStarts
    <3>3. Commits(prices, whitelist, st, st2)
      BY <2>3, <3>1, <3>2 DEF Starts, Commits
    <3>4. View' = st2
      BY <2>3, <3>1 DEF View, Idle
    <3> QED
      BY <2>1, <3>1, <3>3, <3>4
  <2> QED
    BY <2>2, <2>3
<1>2. CASE Message
  <2>1. ~Idle /\ Underway(prices, whitelist, saved, present, queue)
    BY <1>2, MessageWaits DEF CInv
  <2>2. View = saved /\ saved' = IF queue' = <<>> THEN None ELSE saved
    BY <1>2, <2>1 DEF Message, View
  <2>3. CASE queue' # <<>>
    BY <2>2, <2>3 DEF View, Idle
  <2>4. CASE queue' = <<>>
    <3>1. PICK st2, q2 : st2 = present' /\ q2 = queue'
      OBVIOUS
    <3>2. Underway(prices, whitelist, saved, st2, q2)
      BY <1>2, <2>1, <3>1, MessageRuns, UnderwayKept
    <3>3. Commits(prices, whitelist, saved, st2)
      BY <2>4, <3>1, <3>2 DEF Underway, Commits
    <3>4. View' = st2
      BY <2>4, <3>1 DEF View, Idle
    <3> QED
      BY <2>2, <3>3, <3>4
  <2> QED
    BY <2>3, <2>4
<1>3. CASE Revert
  <2>1. View = saved
    BY <1>3 DEF Revert, View
  <2>2. present' = saved /\ queue' = <<>>
    BY <1>3, RevertRestores
  <2> QED
    BY <2>1, <2>2 DEF View, Idle
<1>4. CASE UNCHANGED cvars
  <2>1. present' = present /\ queue' = queue /\ saved' = saved
    BY <1>4 DEF present, cvars, chainVars, lvars, kvars
  <2> QED
    BY <2>1 DEF View, Idle
<1> QED
  BY <1>1, <1>2, <1>3, <1>4 DEF Next

\* The stores that others see before and after a step.
LEMMA ViewParts ==
    ASSUME CInv, [Next]_cvars, NEW before, NEW after, before = View, after = View'
    PROVE  /\ before \in Stores /\ after \in Stores
           /\ after = before \/ Commits(prices, whitelist, before, after)
<1>1. CInv'
  BY Inductive
<1>2. View' \in Stores
  BY <1>1 DEF CInv, TypeOK, View
<1> QED
  BY <1>2, ViewType, ViewStep

\* Collateral leaves a borrower's record only under a limit that covers the loan,
\* or out of a loan that was not covered: judged by what a whole transaction does.
THEOREM CollateralSecures == Spec => ReleasedOnlyIfCovered
<1> DEFINE Kept == \A u \in Users :
             ~contains(View'.collaterals[u], View.collaterals[u]) =>
               \/ compute_borrow_limit(View'.collaterals[u]) >= View.loan[u]
               \/ compute_borrow_limit(View.collaterals[u]) < View.loan[u]
<1>1. CInv /\ [Next]_cvars => [Kept]_cvars
  <2> SUFFICES ASSUME CInv, [Next]_cvars, NEW u \in Users,
                      ~contains(View'.collaterals[u], View.collaterals[u])
               PROVE  \/ compute_borrow_limit(View'.collaterals[u]) >= View.loan[u]
                      \/ compute_borrow_limit(View.collaterals[u]) < View.loan[u]
    OBVIOUS
  <2>1. PICK before, after : before = View /\ after = View'
    OBVIOUS
  <2>2. /\ before \in Stores /\ ~contains(after.collaterals[u], before.collaterals[u])
        /\ after = before \/ Commits(prices, whitelist, before, after)
    BY <2>1, ViewParts
  <2>3. contains(before.collaterals[u], before.collaterals[u])
    BY <2>2, StoreParts DEF Goodly, contains
  <2>4. JudgedFor(prices, whitelist, before, after, u)
    BY <2>2, <2>3 DEF Commits, Judged
  <2>5. \/ compute_borrow_limit(after.collaterals[u]) >= before.loan[u]
        \/ compute_borrow_limit(before.collaterals[u]) < before.loan[u]
    BY <2>2, <2>4, LimitIs DEF JudgedFor
  <2> QED
    BY <2>1, <2>5
<1>2. Spec => [][Kept]_cvars
  BY <1>1, CollateralInvariant, PTL DEF Spec
<1> QED
  BY <1>2 DEF ReleasedOnlyIfCovered

\* What a liquidation takes off the loan is in the market's balance when it is over.
THEOREM ForgivenDebtIsPaid == Spec => DebtForgivenIsPaid
<1> DEFINE Kept == View'.collaterals # View.collaterals =>
             SumFunctionOnSet([u \in Users |-> View.loan[u] - View'.loan[u]], Users)
               <= View'.bank[Market] - View.bank[Market]
<1>1. CInv /\ [Next]_cvars => [Kept]_cvars
  <2> SUFFICES ASSUME CInv, [Next]_cvars, View'.collaterals # View.collaterals
               PROVE  SumFunctionOnSet([u \in Users |-> View.loan[u] - View'.loan[u]], Users)
                        <= View'.bank[Market] - View.bank[Market]
    OBVIOUS
  <2>1. PICK before, after : before = View /\ after = View'
    OBVIOUS
  <2>2. /\ before \in Stores /\ after \in Stores
        /\ after = before \/ Commits(prices, whitelist, before, after)
    BY <2>1, ViewParts
  <2>3. Paid(before, after, <<>>)
    BY <2>1, <2>2 DEF Commits
  <2>4. forgiven(before, after) \in Int
    BY <2>2, StoreParts, ForgivenType
  <2>5. forgiven(before, after) <= after.bank[Market] - before.bank[Market]
    BY <2>3, <2>4, TotalEmpty DEF Paid
  <2> QED
    BY <2>1, <2>5 DEF forgiven
<1>2. Spec => [][Kept]_cvars
  BY <1>1, CollateralInvariant, PTL DEF Spec
<1> QED
  BY <1>2, PTL DEF DebtForgivenIsPaid

LEMMA NothingToFree ==
    ASSUME NEW st \in Stores, NEW u \in Users
    PROVE  free_after(st, <<>>, u) = spendable_of(st, u)
<1>1. st.custody \in Books
  BY StoreParts
<1>2. PICK q : Empty(q) /\ q = <<>>
  BY DEF Empty
<1>3. \A t \in Tokens : total(ToFree(u, t), q) = 0
  BY <1>2, EmptyParts
<1>4. free_after(st, q, u) = spendable_of(st, u)
  BY <1>1, <1>3, FreeNow
<1> QED
  BY <1>2, <1>4

\* One account moves, the way the ledger allows.
LEMMA OneAccountParts ==
    ASSUME NEW st \in Stores, NEW st2 \in Stores, OneAccount(st, st2, <<>>)
    PROVE  \E h \in Users :
             /\ \A u \in Users \ {h} : /\ spendable_of(st2, u) = spendable_of(st, u)
                                       /\ st2.collaterals[u] = st.collaterals[u]
             /\ Accounted(spendable_of(st, h), st.collaterals[h],
                          spendable_of(st2, h), st2.collaterals[h])
BY NothingToFree DEF OneAccount

\* What is free in the stores st, of every borrower.
free_in(st) == [u \in Users |-> spendable_of(st, u)]

LEMMA LedgerAccount ==
    ASSUME NEW f, NEW f2, NEW l, NEW l2, NEW h \in Users,
           f \in [Users -> [Tokens -> Nat]], f2 \in [Users -> [Tokens -> Nat]],
           l \in [Users -> [Tokens -> Nat]], l2 \in [Users -> [Tokens -> Nat]],
           \A u \in Users \ {h} : f2[u] = f[u] /\ l2[u] = l[u]
    PROVE  /\ f2 = [f EXCEPT ![h] = f2[h]] /\ l2 = [l EXCEPT ![h] = l2[h]]
           /\ f2[h] \in [Tokens -> Nat] /\ l2[h] \in [Tokens -> Nat]
           /\ f2[h] = f[h] => f2 = [f EXCEPT ![h] = f[h]]
           /\ l2[h] = l[h] => l2 = [l EXCEPT ![h] = l[h]]
OBVIOUS

\* Message by message, with failures and rollbacks, the contracts implement
\* CollateralLedger: initial states map to its initial state, and a step to one
\* step of one account or to none.
THEOREM ToCollateralLedger == Spec => ImplementsLedger
<1>1. Init => Ledger!LedgerInit
  <2> SUFFICES ASSUME Init PROVE Ledger!LedgerInit
    OBVIOUS
  <2>1. View = present /\ CInv
    BY InvInit DEF Init, ChainInit, View, Idle
  <2>2. View.collaterals = [u \in Users |-> [t \in Tokens |-> 0]]
    BY <2>1, PresentFields DEF Init, No_collateral
  <2>3. ASSUME NEW u \in Users PROVE spendable_of(View, u) = [t \in Tokens |-> 0]
    <3>1. ASSUME NEW t \in Tokens PROVE spendable_of(View, u)[t] = 0
      <4> DEFINE f == [c \in Custodies |-> View.custody[c][u].spendable]
                 S == CustodiesOf(t)
      <4>1. IsFiniteSet(S) /\ \A c \in S : f[c] = 0
        BY <2>1, PresentFields, CustodiesOfFinite DEF Init, CustodyInit
      <4>2. SumFunctionOnSet(f, S) = 0
        <5> HIDE DEF f, S
        <5> QED
          BY <4>1, SumZero
      <4> QED
        BY <4>2 DEF spendable_of
    <3> QED
      BY <3>1 DEF spendable_of
  <2> QED
    BY <2>2, <2>3 DEF Ledger!LedgerInit, Ledger!Nothing
<1>2. CInv /\ [Next]_cvars => [Ledger!LedgerNext]_(Ledger!ledgerVars)
  <2> SUFFICES ASSUME CInv, [Next]_cvars
               PROVE  Ledger!LedgerNext \/ UNCHANGED Ledger!ledgerVars
    OBVIOUS
  <2>1. PICK st, st2 : st = View /\ st2 = View'
    OBVIOUS
  <2>2. /\ st \in Stores /\ st2 \in Stores
        /\ st2 = st \/ Commits(prices, whitelist, st, st2)
    BY <2>1, ViewParts
  <2>3. PICK f, f2, l, l2 : /\ f = free_in(st) /\ f2 = free_in(st2)
                            /\ l = st.collaterals /\ l2 = st2.collaterals
    OBVIOUS
  <2>4. /\ f = [u \in Users |-> spendable_of(View, u)] /\ l = View.collaterals
        /\ f2 = [u \in Users |-> spendable_of(View, u)]' /\ l2 = View.collaterals'
    BY <2>1, <2>3 DEF free_in
  <2>5. CASE st2 = st
    BY <2>1, <2>3, <2>4, <2>5 DEF Ledger!ledgerVars
  <2>6. CASE Commits(prices, whitelist, st, st2)
    <3>1. PICK h \in Users :
            /\ \A u \in Users \ {h} : /\ spendable_of(st2, u) = spendable_of(st, u)
                                      /\ st2.collaterals[u] = st.collaterals[u]
            /\ Accounted(spendable_of(st, h), st.collaterals[h],
                         spendable_of(st2, h), st2.collaterals[h])
      BY <2>2, <2>6, OneAccountParts DEF Commits
    <3>2. \A u \in Users : f[u] = spendable_of(st, u) /\ f2[u] = spendable_of(st2, u)
      BY <2>3 DEF free_in
    <3>3. /\ f \in [Users -> [Tokens -> Nat]] /\ f2 \in [Users -> [Tokens -> Nat]]
          /\ l \in [Users -> [Tokens -> Nat]] /\ l2 \in [Users -> [Tokens -> Nat]]
      BY <2>2, <2>3, StoreParts, BooksTypes DEF free_in, Goodly
    <3>4. /\ \A u \in Users \ {h} : f2[u] = f[u] /\ l2[u] = l[u]
          /\ Accounted(f[h], l[h], f2[h], l2[h])
      BY <2>3, <3>1, <3>2
    <3>5. /\ f2 = [f EXCEPT ![h] = f2[h]] /\ l2 = [l EXCEPT ![h] = l2[h]]
          /\ f2[h] \in [Tokens -> Nat] /\ l2[h] \in [Tokens -> Nat]
          /\ f2[h] = f[h] => f2 = [f EXCEPT ![h] = f[h]]
          /\ l2[h] = l[h] => l2 = [l EXCEPT ![h] = l[h]]
      BY <3>3, <3>4, LedgerAccount
    <3>6. CASE l2[h] = l[h] /\ NoMore(f[h], f2[h])
      <4>1. Ledger!Deposit(h)
        BY <2>4, <3>3, <3>5, <3>6 DEF Ledger!Deposit, Ledger!Account, NoMore
      <4> QED
        BY <4>1 DEF Ledger!LedgerNext
    <3>7. CASE l2[h] = l[h] /\ NoMore(f2[h], f[h])
      <4>1. Ledger!Withdraw(h)
        BY <2>4, <3>3, <3>5, <3>7 DEF Ledger!Withdraw, Ledger!Account, NoMore
      <4> QED
        BY <4>1 DEF Ledger!LedgerNext
    <3>8. CASE NoMore(f2[h], f[h]) /\ Shift(f[h], l[h], f2[h], l2[h])
      <4>1. Ledger!Lock(h)
        BY <2>4, <3>3, <3>5, <3>8 DEF Ledger!Lock, Ledger!Account, NoMore, Shift
      <4> QED
        BY <4>1 DEF Ledger!LedgerNext
    <3>9. CASE NoMore(f[h], f2[h]) /\ Shift(f[h], l[h], f2[h], l2[h])
      <4>1. Ledger!Unlock(h)
        BY <2>4, <3>3, <3>5, <3>9 DEF Ledger!Unlock, Ledger!Account, NoMore, Shift
      <4> QED
        BY <4>1 DEF Ledger!LedgerNext
    <3>10. CASE f2[h] = f[h] /\ NoMore(l2[h], l[h])
      <4>1. Ledger!Seize(h)
        BY <2>4, <3>3, <3>5, <3>10 DEF Ledger!Seize, Ledger!Account, NoMore
      <4> QED
        BY <4>1 DEF Ledger!LedgerNext
    <3> QED
      BY <3>4, <3>6, <3>7, <3>8, <3>9, <3>10 DEF Accounted
  <2> QED
    BY <2>2, <2>5, <2>6
<1> QED
  BY <1>1, <1>2, CollateralInvariant, PTL DEF Spec, ImplementsLedger, Ledger!LedgerSpec

(***************************************************************************)
(* What a liquidation restores: the share taken, and what selling it brings *)
(***************************************************************************)
\* When something is left to the borrower, the deduction is a part of one, and what
\* the ratio takes off the loan leaves no more than the rest of the safe amount.
LEMMA RatioLeaves ==
    ASSUME NEW cfg \in LiquidationConfigs, NEW borrow_amount \in Nat,
           NEW borrow_limit \in Nat, borrow_limit < borrow_amount, NEW value \in Nat,
           NEW r, r = liquidation_ratio(cfg, borrow_amount, borrow_limit, value), r # One,
           NEW d, d = fee_deductor(cfg), NEW e, e = UintMulDec(value, d),
           NEW s, s = safe_borrow_amount(cfg, borrow_limit)
    PROVE  /\ TaxRate <= Scale /\ d \in 0 .. Scale /\ e \in Nat /\ e * Scale <= value * d
           /\ r \in 0 .. Scale /\ s \in Nat /\ s * Scale <= borrow_limit * cfg.safe_ratio
           /\ Scale * borrow_amount - r * e <= (Scale - r) * s + value
<1>0. /\ cfg.safe_ratio \in 0 .. Scale /\ cfg.bid_fee \in 0 .. Scale
      /\ cfg.max_premium_rate \in 0 .. Scale /\ One = Scale /\ Scale \in Nat /\ Scale > 0
  BY ConfigParts
<1>1. r \in 0 .. Scale
  BY <1>0, RatioBound
<1>2. /\ s \in Nat /\ s <= borrow_limit /\ s * Scale <= borrow_limit * cfg.safe_ratio
  <2>1. cfg.safe_ratio \in 0 .. One /\ cfg.safe_ratio \in Nat
    BY <1>0
  <2>2. s = UintMulDec(borrow_limit, cfg.safe_ratio)
    BY DEF safe_borrow_amount
  <2> QED
    BY <2>1, <2>2, PartBound, UintMulDecNear
<1> DEFINE part == IF value < cfg.liquidation_threshold
                   THEN DecDiv(FromUint(borrow_amount), FromUint(e))
                   ELSE DecDiv(FromUint(borrow_amount - s), FromUint(e - s))
<1>3. r = IF e <= borrow_amount THEN One ELSE Lesser(One, part)
  BY DEF liquidation_ratio
<1>4. ~(e <= borrow_amount) /\ r = part
  BY <1>3 DEF Lesser
<1> DEFINE am == Scale - cfg.max_premium_rate
           b == Scale - cfg.bid_fee
           c == Scale - TaxRate
           k == DecMul(am, b)
<1>5. am \in 0 .. Scale /\ b \in 0 .. Scale /\ c \in Int /\ c <= Scale
  BY <1>0, TaxAssumption
<1>6. d = DecMul(k, c)
  BY <1>0 DEF fee_deductor
<1> HIDE DEF am, b, c, part
<1>7. k \in Nat /\ k <= Scale
  <2>1. k \in Nat /\ k * Scale <= am * b
    BY <1>0, <1>5, UintMulDecBound DEF DecMul, UintMulDec
  <2>2. am * b <= Scale * b /\ b * Scale <= Scale * Scale
    BY <1>0, <1>5, MulMono
  <2> HIDE DEF k
  <2>3. k * Scale <= Scale * Scale
    BY <1>0, <1>5, <2>1, <2>2, SMT
  <2> QED
    BY <1>0, <2>1, <2>3, MulCancel
<1> HIDE DEF k
<1>8. d \in Int /\ d * Scale <= k * c
  <2>1. k * c \in Int
    BY <1>5, <1>7, SMT
  <2> QED
    BY <1>0, <1>6, <2>1, DivInt, SMT DEF DecMul
<1>9. e \in Int /\ e * Scale <= value * d /\ value * d <= e * Scale + Scale
  <2>1. value * d \in Int
    BY <1>8, SMT
  <2> QED
    BY <1>0, <2>1, DivInt, SMT DEF UintMulDec
<1>10. e \in Nat /\ e > borrow_amount /\ e > 0
  BY <1>4, <1>9
<1>11. d > 0
  <2>1. value * d > 0
    <3>1. e * Scale > 0
      BY <1>0, <1>10, SMT
    <3>2. value * d \in Int /\ e * Scale \in Int
      BY <1>0, <1>8, <1>10, SMT
    <3> QED
      BY <1>9, <3>1, <3>2
  <2> QED
    BY <1>8, <2>1, SMT
<1>12. c > 0
  <2>1. k * c > 0
    <3>1. d * Scale > 0
      BY <1>0, <1>8, <1>11, SMT
    <3>2. k * c \in Int /\ d * Scale \in Int
      BY <1>0, <1>5, <1>7, <1>8, SMT
    <3> QED
      BY <1>8, <3>1, <3>2
  <2> QED
    BY <1>5, <1>7, <2>1, SMT
<1>13. d <= Scale /\ TaxRate <= Scale
  <2>1. k * c <= Scale * c /\ c * Scale <= Scale * Scale
    BY <1>0, <1>5, <1>7, <1>12, MulMono
  <2>2. d * Scale <= Scale * Scale
    BY <1>0, <1>5, <1>7, <1>8, <2>1, SMT
  <2>3. d <= Scale
    BY <1>0, <1>8, <2>2, MulCancel
  <2> QED
    BY <1>0, <1>12, <2>3, TaxAssumption DEF c
<1>14. e <= value
  <2>1. d * value <= Scale * value
    BY <1>0, <1>8, <1>13, MulMono
  <2>2. e * Scale <= value * Scale
    BY <1>0, <1>8, <1>9, <2>1, SMT
  <2> QED
    BY <1>0, <1>9, <2>2, MulCancel
\* The quotient of two whole numbers.
<1>15. ASSUME NEW n \in Nat, NEW m \in Nat, m > 0, NEW x, x = DecDiv(FromUint(n), FromUint(m))
       PROVE  x \in Nat /\ Scale * n <= x * m + m
  <2>1. x \in Nat
    BY <1>15, WholeQuotient
  <2>2. n * Scale \in Int /\ m * Scale \in Int /\ m * Scale > 0 /\ (n * Scale) * Scale \in Int
    BY <1>0, <1>15, SMT
  <2>3. (n * Scale) * Scale < (m * Scale) * x + m * Scale
    BY <1>15, <2>2, DivInt DEF DecDiv, FromUint
  <2>4. (Scale * n) * Scale <= (x * m + m) * Scale
    BY <1>0, <1>15, <2>1, <2>3, SMT
  <2>5. Scale * n \in Int /\ x * m + m \in Int
    BY <1>0, <1>15, <2>1, SMT
  <2> QED
    BY <1>0, <2>1, <2>4, <2>5, MulCancel
<1>16. Scale * borrow_amount - r * e <= (Scale - r) * s + value
  <2>1. (Scale - r) * s >= 0 /\ (Scale - r) * s = Scale * s - r * s
    BY <1>0, <1>1, <1>2, SMT
  <2>2. CASE value < cfg.liquidation_threshold
    <3>1. r = DecDiv(FromUint(borrow_amount), FromUint(e))
      BY <1>4, <2>2 DEF part
    <3>2. Scale * borrow_amount <= r * e + e
      BY <1>10, <1>15, <3>1
    <3>3. Scale * borrow_amount \in Int /\ r * e \in Int /\ (Scale - r) * s \in Int
      BY <1>0, <1>1, <1>2, <1>10, SMT
    <3> QED
      BY <1>10, <1>14, <2>1, <3>2, <3>3
  <2>3. CASE ~(value < cfg.liquidation_threshold)
    <3>1. r = DecDiv(FromUint(borrow_amount - s), FromUint(e - s))
      BY <1>4, <2>3 DEF part
    <3>2. Scale * (borrow_amount - s) <= r * (e - s) + (e - s)
      <4>1. borrow_amount - s \in Nat /\ e - s \in Nat /\ e - s > 0
        BY <1>2, <1>10
      <4> QED
        BY <1>15, <3>1, <4>1
    <3>3. /\ Scale * (borrow_amount - s) = Scale * borrow_amount - Scale * s
          /\ r * (e - s) = r * e - r * s
      BY <1>0, <1>1, <1>2, <1>10, SMT
    <3>4. /\ Scale * borrow_amount \in Int /\ Scale * s \in Int /\ r * e \in Int
          /\ r * s \in Int
      BY <1>0, <1>1, <1>2, <1>10, SMT
    <3> QED
      BY <1>2, <1>10, <1>14, <2>1, <3>2, <3>3, <3>4
  <2> QED
    BY <2>2, <2>3
<1>17. d \in 0 .. Scale
  BY <1>0, <1>8, <1>11, <1>13
<1> QED
  BY <1>1, <1>2, <1>9, <1>10, <1>13, <1>16, <1>17

\* The sums over the tokens of what the shares bring and leave.
LEMMA SharesRestore ==
    ASSUME NEW loanNow \in Nat, NEW value \in Nat, NEW r \in 0 .. Scale, NEW d \in 0 .. Scale,
           NEW e \in Nat, e * Scale <= value * d, NEW s \in Nat, NEW ratio \in 0 .. Scale,
           NEW before \in Nat, s * Scale <= before * ratio,
           Scale * loanNow - r * e <= (Scale - r) * s + value,
           NEW brought \in Int, NEW a \in Nat, (r * d) * value <= Scale * brought + Scale * a,
           NEW left \in Nat, NEW b \in Nat, (Scale - r) * before <= Scale * left + b
    PROVE  Scale * loanNow - brought
             <= Scale * UintMulDec(left, ratio) + value + Scale + (a + b)
<1> DEFINE safe == UintMulDec(left, ratio)
           k == Scale - r
<1>1. /\ Scale \in Nat /\ Scale > 0 /\ r \in Nat /\ d \in Nat /\ ratio \in Nat
      /\ ratio <= Scale /\ k \in Nat
  BY ScaleAssumption
<1>2. safe \in Nat /\ left * ratio <= safe * Scale + Scale
  BY <1>1, UintMulDecNear
<1> HIDE DEF safe, k
<1>3. r * e <= brought + a
  <2>1. (e * Scale) * r <= (value * d) * r
    <3>1. e * Scale \in Int /\ value * d \in Int
      BY <1>1, SMT
    <3> QED
      BY <1>1, <3>1, MulMono
  <2>2. (r * e) * Scale <= (brought + a) * Scale
    BY <1>1, <2>1, SMT
  <2>3. r * e \in Int /\ brought + a \in Int
    BY <1>1, SMT
  <2> QED
    BY <1>1, <2>2, <2>3, MulCancel
<1>4. k * s <= Scale * safe + Scale + b
  <2>1. (s * Scale) * k <= (before * ratio) * k
    <3>1. s * Scale \in Int /\ before * ratio \in Int
      BY <1>1, SMT
    <3> QED
      BY <1>1, <3>1, MulMono
  <2>2. (k * before) * ratio <= (Scale * left + b) * ratio
    <3>1. k * before \in Int /\ Scale * left + b \in Int /\ k * before <= Scale * left + b
      BY <1>1, SMT DEF k
    <3> QED
      BY <1>1, <3>1, MulMono
  <2>3. (left * ratio) * Scale <= (safe * Scale + Scale) * Scale
    <3>1. left * ratio \in Int /\ safe * Scale + Scale \in Int
      BY <1>1, <1>2, SMT
    <3> QED
      BY <1>1, <1>2, <3>1, MulMono
  <2>4. ratio * b <= Scale * b
    BY <1>1, MulMono
  <2>5. (k * s) * Scale <= (Scale * safe + Scale + b) * Scale
    BY <1>1, <1>2, <2>1, <2>2, <2>3, <2>4, SMT
  <2>6. k * s \in Int /\ Scale * safe + Scale + b \in Int
    BY <1>1, <1>2, SMT
  <2> QED
    BY <1>1, <2>5, <2>6, MulCancel
<1>5. /\ Scale * loanNow \in Int /\ r * e \in Int /\ k * s \in Int /\ Scale * safe \in Int
      /\ Scale * loanNow - r * e <= k * s + value
  BY <1>1, <1>2, SMT DEF k
<1>6. Scale * loanNow - brought <= Scale * safe + value + Scale + (a + b)
  BY <1>1, <1>3, <1>4, <1>5
<1> QED
  BY <1>6 DEF safe

price_in(prs, t) == DecDiv(prs[t].price, One)

\* Every token of have has a price and a max_ltv.
Quoted(prs, list, have) ==
    \A t \in Tokens : have[t] > 0 => /\ price_in(prs, t) \in Nat
                                     /\ list[t].max_ltv \in 0 .. Scale

held_in(have) == {t \in Tokens : have[t] > 0}

\* Of a token: its value, its limit, what selling x of it brings at least.
value_of(prs, have, t) == UintMulDec(have[t], price_in(prs, t))
limit_of(prs, list, have, t) == UintMulDec(value_of(prs, have, t), list[t].max_ltv)
sale(price, amount, d) == UintMulDec(amount, price) * d - 2 * Scale

value_in(prs, have) ==
    SumFunctionOnSet([t \in held_in(have) |-> value_of(prs, have, t)], held_in(have))

LEMMA LimitTerms ==
    ASSUME NEW prs, NEW list, NEW have
    PROVE  limit(prs, list, have) =
             SumFunctionOnSet([t \in held_in(have) |-> limit_of(prs, list, have, t)],
                              held_in(have))
BY DEF limit, held_in, limit_of, value_of, price_in

LEMMA TermTypes ==
    ASSUME NEW prs, NEW list, NEW have \in Goodly, NEW t \in Tokens,
           price_in(prs, t) \in Nat, list[t].max_ltv \in 0 .. Scale
    PROVE  value_of(prs, have, t) \in Nat /\ limit_of(prs, list, have, t) \in Nat
<1>1. have[t] \in Nat /\ list[t].max_ltv \in Nat
  BY ScaleAssumption DEF Goodly
<1>2. value_of(prs, have, t) \in Nat
  BY <1>1, UintMulDecBound DEF value_of
<1> QED
  BY <1>1, <1>2, UintMulDecBound DEF limit_of

LEMMA NothingOf ==
    ASSUME NEW prs, NEW list, NEW have, NEW t \in Tokens, have[t] = 0,
           price_in(prs, t) \in Nat, list[t].max_ltv \in 0 .. Scale
    PROVE  value_of(prs, have, t) = 0 /\ limit_of(prs, list, have, t) = 0
<1>1. \A d \in Nat : UintMulDec(0, d) = 0
  <2> TAKE d \in Nat
  <2>1. 0 * d = 0
    BY SMT
  <2>2. 0 \div Scale = 0
    BY ScaleAssumption, SMT
  <2> QED
    BY <2>1, <2>2 DEF UintMulDec
<1>2. list[t].max_ltv \in Nat
  BY ScaleAssumption
<1> QED
  BY <1>1, <1>2 DEF value_of, limit_of

\* The limit of a part of have, as a sum over the tokens of have.
LEMMA LimitOfPart ==
    ASSUME NEW prs, NEW list, NEW have \in Goodly, Quoted(prs, list, have),
           NEW new \in Goodly, contains(have, new)
    PROVE  /\ IsFiniteSet(held_in(have))
           /\ limit(prs, list, new) =
                SumFunctionOnSet([t \in held_in(have) |-> limit_of(prs, list, new, t)],
                                 held_in(have))
           /\ limit(prs, list, new) \in Nat
<1> DEFINE S == held_in(have)
           T == held_in(new)
           f == [t \in S |-> limit_of(prs, list, new, t)]
           g == [t \in T |-> limit_of(prs, list, new, t)]
<1>1. IsFiniteSet(S)
  BY AccountsAssumption, FS_Subset DEF held_in
<1>2. T \in SUBSET S
  BY DEF held_in, contains, Goodly
<1>3. \A t \in S : f[t] \in Nat
  BY TermTypes DEF Quoted, held_in
<1>4. \A t \in T : g[t] = f[t]
  BY <1>2
<1>5. \A t \in S \ T : f[t] = 0
  <2> TAKE t \in S \ T
  <2>1. t \in Tokens /\ new[t] = 0 /\ have[t] > 0
    BY DEF held_in, Goodly
  <2> QED
    BY <2>1, NothingOf DEF Quoted
<1>6. limit(prs, list, new) = SumFunctionOnSet(g, T)
  BY LimitTerms
<1> HIDE DEF S, T, f, g
<1>7. SumFunctionOnSet(f, S) = SumFunctionOnSet(g, T)
  BY <1>1, <1>2, <1>3, <1>4, <1>5, SumSupport
<1>8. SumFunctionOnSet(f, S) \in Nat
  BY <1>1, <1>3, SumNat
<1> QED
  BY <1>1, <1>6, <1>7, <1>8 DEF S, f

LEMMA ValueIn ==
    ASSUME NEW prs, NEW list, NEW have \in Goodly, Quoted(prs, list, have)
    PROVE  value_in(prs, have) \in Nat
<1> DEFINE S == held_in(have)
           f == [t \in S |-> value_of(prs, have, t)]
<1>1. IsFiniteSet(S)
  BY AccountsAssumption, FS_Subset DEF held_in
<1>2. \A t \in S : f[t] \in Nat
  BY TermTypes DEF Quoted, held_in
<1> HIDE DEF S, f
<1>3. SumFunctionOnSet(f, S) \in Nat
  BY <1>1, <1>2, SumNat
<1> QED
  BY <1>3 DEF value_in, S, f

\* More of everything has no lower limit.
LEMMA LimitMonotone ==
    ASSUME NEW prs, NEW list, NEW have \in Goodly, Quoted(prs, list, have),
           NEW new \in Goodly, contains(have, new)
    PROVE  limit(prs, list, new) <= limit(prs, list, have)
<1> DEFINE S == held_in(have)
           f == [t \in S |-> limit_of(prs, list, new, t)]
           g == [t \in S |-> limit_of(prs, list, have, t)]
<1>1. contains(have, have)
  BY DEF contains, Goodly
<1>2. /\ IsFiniteSet(S) /\ limit(prs, list, new) = SumFunctionOnSet(f, S)
      /\ limit(prs, list, have) = SumFunctionOnSet(g, S)
  BY <1>1, LimitOfPart
<1>3. ASSUME NEW a \in Nat, NEW b \in Nat, a <= b, NEW d \in Nat
      PROVE  UintMulDec(a, d) <= UintMulDec(b, d)
  <2>1. a * d <= b * d /\ a * d \in Int /\ b * d \in Int
    BY <1>3, MulMono, SMT
  <2> QED
    BY <2>1, DivMono, ScaleAssumption DEF UintMulDec
<1>4. ASSUME NEW t \in S PROVE f[t] \in Int /\ g[t] \in Int /\ f[t] <= g[t]
  <2>1. /\ t \in Tokens /\ price_in(prs, t) \in Nat /\ list[t].max_ltv \in 0 .. Scale
        /\ new[t] \in Nat /\ have[t] \in Nat /\ new[t] <= have[t]
    BY DEF held_in, Quoted, Goodly, contains
  <2>2. list[t].max_ltv \in Nat
    BY <2>1, ScaleAssumption
  <2>3. value_of(prs, new, t) <= value_of(prs, have, t)
    BY <1>3, <2>1 DEF value_of
  <2>4. /\ value_of(prs, new, t) \in Nat /\ value_of(prs, have, t) \in Nat
        /\ limit_of(prs, list, new, t) \in Nat /\ limit_of(prs, list, have, t) \in Nat
    BY <2>1, TermTypes
  <2>5. limit_of(prs, list, new, t) <= limit_of(prs, list, have, t)
    BY <1>3, <2>2, <2>3, <2>4 DEF limit_of
  <2> QED
    BY <2>4, <2>5
<1>5. SumFunctionOnSet(f, S) <= SumFunctionOnSet(g, S)
  <2> HIDE DEF S, f, g
  <2> QED
    BY <1>2, <1>4, SumMonotone
<1> QED
  BY <1>2, <1>5

slack(prs, have) ==
    value_in(prs, have) + FromUint(1)
      + SumFunctionOnSet([t \in held_in(have) |-> price_in(prs, t) + FromUint(5)],
                         held_in(have))

\* The bound of LiquidationRestores on the loan of one who had have and has left.
bound(prs, list, ratio, have, left) ==
    FromUint(UintMulDec(limit(prs, list, left), ratio)) + slack(prs, have)

LEMMA SlackIs ==
    ASSUME NEW have
    PROVE  rounding(have) = slack(prices, have)
BY DEF rounding, slack, collaterals_value, value_in, value_of, price_in, held_in, rate

\* The share r of have is sold: token by token.
Shares(amounts, have, r) ==
    /\ r \in 0 .. Scale /\ amounts = [t \in Tokens |-> UintMulDec(have[t], r)]

LEMMA ShareTypes ==
    ASSUME NEW have \in Goodly, NEW r, NEW amounts, Shares(amounts, have, r)
    PROVE  /\ amounts \in Goodly /\ contains(have, amounts)
           /\ sub(have, amounts) \in Goodly /\ contains(have, sub(have, amounts))
           /\ \A t \in Tokens : /\ amounts[t] = UintMulDec(have[t], r)
                                /\ sub(have, amounts)[t] = have[t] - amounts[t]
                                /\ have[t] \in Nat /\ amounts[t] \in Nat
<1>1. r \in 0 .. One
  BY DEF Shares, One
<1>2. \A t \in Tokens : /\ amounts[t] = UintMulDec(have[t], r)
                        /\ have[t] \in Nat /\ amounts[t] \in Nat /\ amounts[t] <= have[t]
  <2> TAKE t \in Tokens
  <2>1. amounts[t] = UintMulDec(have[t], r) /\ have[t] \in Nat
    BY DEF Shares, Goodly
  <2> QED
    BY <1>1, <2>1, PartBound
<1>3. amounts \in Goodly
  <2>1. amounts = [t \in Tokens |-> amounts[t]]
    BY DEF Shares
  <2> QED
    BY <1>2, <2>1 DEF Goodly
<1>4. \A t \in Tokens : sub(have, amounts)[t] = have[t] - amounts[t]
  BY DEF sub
<1>5. \A t \in Tokens : sub(have, amounts)[t] \in Nat /\ sub(have, amounts)[t] <= have[t]
  BY <1>2, <1>4
<1>6. sub(have, amounts) \in Goodly
  <2>1. sub(have, amounts) = [t \in Tokens |-> sub(have, amounts)[t]]
    BY DEF sub
  <2> QED
    BY <1>5, <2>1 DEF Goodly
<1> QED
  BY <1>2, <1>3, <1>4, <1>5, <1>6 DEF contains

\* What the sales bring of the value.
LEMMA SharesBring ==
    ASSUME NEW prs, NEW list, NEW have \in Goodly, Quoted(prs, list, have),
           NEW r, NEW amounts, Shares(amounts, have, r), NEW d \in 0 .. Scale,
           NEW S, S = held_in(have),
           NEW k, k = [t \in S |-> sale(price_in(prs, t), amounts[t], d)],
           NEW a, a = [t \in S |-> price_in(prs, t) + 3 * Scale]
    PROVE  /\ IsFiniteSet(S) /\ \A t \in S : k[t] \in Int /\ a[t] \in Nat
           /\ (r * d) * value_in(prs, have)
                <= Scale * SumFunctionOnSet(k, S) + Scale * SumFunctionOnSet(a, S)
<1>1. Scale \in Nat /\ Scale > 0 /\ r \in Nat /\ r <= Scale /\ d \in Nat /\ d <= Scale
  BY ScaleAssumption DEF Shares
<1>2. IsFiniteSet(S)
  BY AccountsAssumption, FS_Subset DEF held_in
<1> DEFINE rd == r * d
           v == [t \in S |-> value_of(prs, have, t)]
           g == [t \in S |-> rd * v[t]]
           ka == [t \in S |-> k[t] + a[t]]
           h == [t \in S |-> Scale * ka[t]]
<1>3. rd \in Nat
  BY <1>1, SMT
<1>4. ASSUME NEW t \in S
      PROVE  /\ v[t] \in Nat /\ k[t] \in Int /\ a[t] \in Nat
             /\ rd * v[t] <= Scale * (k[t] + a[t])
  <2> DEFINE p == price_in(prs, t)
             u == UintMulDec(amounts[t], p)
  <2>1. /\ t \in Tokens /\ p \in Nat /\ have[t] \in Nat /\ list[t].max_ltv \in 0 .. Scale
        /\ amounts[t] \in Nat /\ amounts[t] = UintMulDec(have[t], r)
    BY ShareTypes DEF held_in, Quoted
  <2>2. v[t] = UintMulDec(have[t], p) /\ v[t] \in Nat /\ u \in Nat
    BY <2>1, UintMulDecBound, TermTypes DEF value_of
  <2>3. k[t] = u * d - 2 * Scale /\ a[t] = p + 3 * Scale
    BY DEF sale
  <2>4. r * v[t] <= Scale * u + p + Scale
    BY <1>1, <2>1, <2>2, ShareSold
  <2> DEFINE x == v[t]
  <2> HIDE DEF p, u, x
  <2>5. (r * x) * d <= (Scale * u + p + Scale) * d
    <3>1. r * x \in Int /\ Scale * u + p + Scale \in Int
      BY <1>1, <2>1, <2>2, SMT DEF x
    <3> QED
      BY <1>1, <2>4, <3>1, MulMono DEF x
  <2>6. d * (p + Scale) <= Scale * (p + Scale)
    BY <1>1, <2>1, MulMono
  <2>7. k[t] \in Int /\ a[t] \in Nat
    BY <1>1, <2>1, <2>2, <2>3, SMT
  <2>8. Scale * (k[t] + a[t]) = Scale * (u * d) + Scale * p + Scale * Scale
    <3>1. k[t] + a[t] = u * d + p + Scale
      <4>1. u * d \in Int
        BY <1>1, <2>2, SMT
      <4> QED
        BY <1>1, <2>1, <2>3, <4>1
    <3> QED
      BY <1>1, <2>1, <2>2, <3>1, SMT
  <2>9. (r * d) * x <= Scale * (u * d) + Scale * p + Scale * Scale
    BY <1>1, <2>1, <2>2, <2>5, <2>6, SMT DEF x
  <2> QED
    BY <2>2, <2>7, <2>8, <2>9 DEF x
<1> HIDE DEF rd, v
<1>5. \A t \in S : v[t] \in Int /\ g[t] = rd * v[t] /\ g[t] \in Int
  <2> TAKE t \in S
  <2>1. rd * v[t] \in Int
    BY <1>3, <1>4, SMT
  <2> QED
    BY <1>4, <2>1
<1>6. \A t \in S : k[t] \in Int /\ a[t] \in Int /\ ka[t] = k[t] + a[t] /\ ka[t] \in Int
  BY <1>4
<1>7. \A t \in S : h[t] = Scale * ka[t] /\ h[t] \in Int /\ g[t] <= h[t]
  <2> TAKE t \in S
  <2>1. h[t] = Scale * ka[t] /\ ka[t] = k[t] + a[t]
    OBVIOUS
  <2>2. g[t] <= h[t]
    BY <1>4, <2>1
  <2>3. Scale * ka[t] \in Int
    BY <1>1, <1>6, SMT
  <2> QED
    BY <2>1, <2>2, <2>3
<1> HIDE DEF g, ka, h
<1>8. Multiple(g, rd, v, S) /\ Multiple(h, Scale, ka, S)
  BY <1>5, <1>6, <1>7 DEF Multiple
<1>9. SumFunctionOnSet(g, S) = rd * SumFunctionOnSet(v, S)
  BY <1>2, <1>3, <1>8, SumScale
<1>10. SumFunctionOnSet(h, S) = Scale * SumFunctionOnSet(ka, S)
  BY <1>1, <1>2, <1>8, SumScale
<1>11. SumFunctionOnSet(ka, S) = SumFunctionOnSet(k, S) + SumFunctionOnSet(a, S)
  BY <1>2, <1>6, SumAdd
<1>12. SumFunctionOnSet(g, S) <= SumFunctionOnSet(h, S)
  BY <1>2, <1>5, <1>7, SumMonotone
<1>13. SumFunctionOnSet(k, S) \in Int /\ SumFunctionOnSet(a, S) \in Int
  BY <1>2, <1>6, SumType
<1>14. value_in(prs, have) = SumFunctionOnSet(v, S)
  BY DEF value_in, v
<1>15. Scale * (SumFunctionOnSet(k, S) + SumFunctionOnSet(a, S)) =
         Scale * SumFunctionOnSet(k, S) + Scale * SumFunctionOnSet(a, S)
  BY <1>1, <1>13, SMT
<1>16. (r * d) * value_in(prs, have)
         <= Scale * SumFunctionOnSet(k, S) + Scale * SumFunctionOnSet(a, S)
  BY <1>9, <1>10, <1>11, <1>12, <1>14, <1>15 DEF rd
<1> QED
  BY <1>2, <1>4, <1>16

\* What they leave of the limit.
LEMMA SharesLeave ==
    ASSUME NEW prs, NEW list, NEW have \in Goodly, Quoted(prs, list, have),
           NEW r, NEW amounts, Shares(amounts, have, r),
           NEW S, S = held_in(have), NEW b, b = [t \in S |-> 2 * Scale]
    PROVE  /\ limit(prs, list, have) \in Nat /\ limit(prs, list, sub(have, amounts)) \in Nat
           /\ SumFunctionOnSet(b, S) \in Nat /\ \A t \in S : b[t] \in Nat
           /\ (Scale - r) * limit(prs, list, have)
                <= Scale * limit(prs, list, sub(have, amounts)) + SumFunctionOnSet(b, S)
<1>1. Scale \in Nat /\ Scale > 0 /\ r \in 0 .. Scale /\ Scale - r \in Nat
  BY ScaleAssumption DEF Shares
<1>2. PICK new, c : new = sub(have, amounts) /\ c = Scale - r
  OBVIOUS
<1>3. /\ new \in Goodly /\ contains(have, new) /\ contains(have, have)
      /\ \A t \in Tokens : /\ new[t] = have[t] - UintMulDec(have[t], r)
                           /\ have[t] \in Nat /\ new[t] \in Nat
  BY <1>2, ShareTypes DEF contains, Goodly
<1> DEFINE f == [t \in S |-> limit_of(prs, list, have, t)]
           g == [t \in S |-> limit_of(prs, list, new, t)]
           cf == [t \in S |-> c * f[t]]
           sg == [t \in S |-> Scale * g[t]]
           h == [t \in S |-> sg[t] + b[t]]
<1>4. /\ IsFiniteSet(S)
      /\ limit(prs, list, have) = SumFunctionOnSet(f, S) /\ limit(prs, list, have) \in Nat
      /\ limit(prs, list, new) = SumFunctionOnSet(g, S) /\ limit(prs, list, new) \in Nat
  BY <1>3, LimitOfPart
<1>5. ASSUME NEW t \in S
      PROVE  f[t] \in Nat /\ g[t] \in Nat /\ b[t] = 2 * Scale /\ c * f[t] <= Scale * g[t] + b[t]
  <2>1. /\ t \in Tokens /\ price_in(prs, t) \in Nat /\ list[t].max_ltv \in 0 .. Scale
        /\ new[t] = have[t] - UintMulDec(have[t], r) /\ have[t] \in Nat /\ new[t] \in Nat
    BY <1>3 DEF held_in, Quoted
  <2>2. limit_of(prs, list, have, t) \in Nat /\ limit_of(prs, list, new, t) \in Nat
    BY <1>3, <2>1, TermTypes
  <2>3. c * limit_of(prs, list, have, t) <= Scale * limit_of(prs, list, new, t) + 2 * Scale
    BY <1>1, <1>2, <2>1, ShareKept DEF limit_of, value_of
  <2> QED
    BY <2>2, <2>3
<1> HIDE DEF f, g
<1>6. c \in Nat
  BY <1>1, <1>2
<1>7. \A t \in S : /\ f[t] \in Int /\ g[t] \in Int /\ b[t] \in Nat /\ cf[t] = c * f[t]
                   /\ sg[t] = Scale * g[t] /\ h[t] = sg[t] + b[t]
                   /\ cf[t] \in Int /\ sg[t] \in Int /\ h[t] \in Int /\ cf[t] <= h[t]
  <2> TAKE t \in S
  <2>1. cf[t] = c * f[t] /\ sg[t] = Scale * g[t] /\ h[t] = sg[t] + b[t]
    OBVIOUS
  <2>2. c * f[t] \in Int /\ Scale * g[t] \in Int /\ b[t] \in Nat
    BY <1>1, <1>5, <1>6, SMT
  <2> QED
    BY <1>5, <2>1, <2>2
<1> HIDE DEF cf, sg, h
<1>8. Multiple(cf, c, f, S) /\ Multiple(sg, Scale, g, S)
  BY <1>7 DEF Multiple
<1>9. SumFunctionOnSet(cf, S) = c * SumFunctionOnSet(f, S)
  BY <1>4, <1>6, <1>8, SumScale
<1>10. SumFunctionOnSet(sg, S) = Scale * SumFunctionOnSet(g, S)
  BY <1>1, <1>4, <1>8, SumScale
<1>11. SumFunctionOnSet(h, S) = SumFunctionOnSet(sg, S) + SumFunctionOnSet(b, S)
  BY <1>4, <1>7, SumAdd
<1>12. SumFunctionOnSet(cf, S) <= SumFunctionOnSet(h, S)
  BY <1>4, <1>7, SumMonotone
<1>13. SumFunctionOnSet(b, S) \in Nat
  BY <1>4, <1>7, SumNat
<1>14. c * limit(prs, list, have) <= Scale * limit(prs, list, new) + SumFunctionOnSet(b, S)
  BY <1>4, <1>9, <1>10, <1>11, <1>12
<1> QED
  BY <1>2, <1>4, <1>7, <1>13, <1>14

LEMMA SharesBound ==
    ASSUME NEW prs, NEW list, NEW have \in Goodly, Quoted(prs, list, have),
           NEW r, NEW amounts, Shares(amounts, have, r), NEW d \in 0 .. Scale,
           NEW ratio \in 0 .. Scale, NEW value, value = value_in(prs, have),
           NEW before, before = limit(prs, list, have), NEW loanNow \in Nat,
           NEW e \in Nat, e * Scale <= value * d, NEW s \in Nat, s * Scale <= before * ratio,
           Scale * loanNow - r * e <= (Scale - r) * s + value,
           NEW S, S = held_in(have),
           NEW k, k = [t \in S |-> sale(price_in(prs, t), amounts[t], d)],
           NEW brought \in Int, SumFunctionOnSet(k, S) <= brought
    PROVE  /\ bound(prs, list, ratio, have, sub(have, amounts)) \in Nat
           /\ Scale * loanNow - brought <= bound(prs, list, ratio, have, sub(have, amounts))
<1>0. Scale \in Nat /\ Scale > 0 /\ r \in 0 .. Scale /\ ratio \in Nat
  BY ScaleAssumption DEF Shares
<1>1. PICK a, b, left : /\ a = [t \in S |-> price_in(prs, t) + 3 * Scale]
                        /\ b = [t \in S |-> 2 * Scale]
                        /\ left = limit(prs, list, sub(have, amounts))
  OBVIOUS
<1>2. /\ IsFiniteSet(S) /\ \A t \in S : k[t] \in Int /\ a[t] \in Nat
      /\ (r * d) * value <= Scale * SumFunctionOnSet(k, S) + Scale * SumFunctionOnSet(a, S)
  BY <1>1, SharesBring
<1>3. /\ before \in Nat /\ left \in Nat /\ SumFunctionOnSet(b, S) \in Nat
      /\ \A t \in S : b[t] \in Nat
      /\ (Scale - r) * before <= Scale * left + SumFunctionOnSet(b, S)
  BY <1>1, SharesLeave
<1>4. value \in Nat
  BY ValueIn
<1>5. SumFunctionOnSet(k, S) \in Int /\ SumFunctionOnSet(a, S) \in Nat
  BY <1>2, SumType, SumNat
<1>6. PICK A, B : A = SumFunctionOnSet(a, S) /\ B = SumFunctionOnSet(b, S)
  OBVIOUS
<1>7. (r * d) * value <= Scale * brought + Scale * A
  <2>1. SumFunctionOnSet(k, S) * Scale <= brought * Scale
    BY <1>0, <1>5, MulMono
  <2>2. PICK K : K = SumFunctionOnSet(k, S)
    OBVIOUS
  <2>3. K \in Int /\ A \in Nat /\ K * Scale <= brought * Scale
        /\ (r * d) * value <= Scale * K + Scale * A
    BY <1>2, <1>5, <1>6, <2>1, <2>2
  <2>4. (r * d) * value \in Int
    BY <1>0, <1>4, SMT
  <2>5. Scale * K = K * Scale /\ Scale * brought = brought * Scale
    BY <1>0, <2>3, SMT
  <2>6. K * Scale \in Int /\ brought * Scale \in Int /\ Scale * A \in Int
    BY <1>0, <2>3, SMT
  <2> QED
    BY <2>3, <2>4, <2>5, <2>6
<1>8. Scale * loanNow - brought
        <= Scale * UintMulDec(left, ratio) + value + Scale + (A + B)
  <2>1. A \in Nat /\ B \in Nat /\ (Scale - r) * before <= Scale * left + B
    BY <1>3, <1>5, <1>6
  <2>2. r \in 0 .. Scale
    BY <1>0
  <2> QED
    BY ZenonT(40), <1>3, <1>4, <1>7, <2>1, <2>2, SharesRestore
<1> DEFINE c == [t \in S |-> price_in(prs, t) + FromUint(5)]
<1>9. SumFunctionOnSet(c, S) = A + B
  <2>1. \A t \in S : a[t] \in Int /\ b[t] \in Int /\ c[t] = a[t] + b[t]
    <3> TAKE t \in S
    <3>1. price_in(prs, t) \in Nat
      BY DEF held_in, Quoted
    <3>2. a[t] = price_in(prs, t) + 3 * Scale /\ b[t] = 2 * Scale
          /\ c[t] = price_in(prs, t) + 5 * Scale
      BY <1>1 DEF FromUint
    <3> QED
      BY <1>0, <3>1, <3>2
  <2> HIDE DEF c
  <2>2. SumFunctionOnSet(c, S) = SumFunctionOnSet(a, S) + SumFunctionOnSet(b, S)
    BY <1>2, <2>1, SumAdd
  <2> QED
    BY <1>6, <2>2
<1>10. bound(prs, list, ratio, have, sub(have, amounts)) =
         FromUint(UintMulDec(left, ratio)) + (value + FromUint(1) + SumFunctionOnSet(c, S))
  BY <1>1 DEF bound, slack
<1> HIDE DEF c
<1>11. PICK w : w = UintMulDec(left, ratio)
  OBVIOUS
<1>12. w \in Nat /\ Scale * w \in Nat /\ FromUint(w) = Scale * w /\ FromUint(1) = Scale
  <2>1. w \in Nat
    BY <1>0, <1>3, <1>11, UintMulDecBound
  <2> QED
    BY <1>0, <2>1, SMT DEF FromUint
<1>13. Scale * loanNow - brought <= Scale * w + value + Scale + (A + B)
  BY <1>8, <1>11
<1>14. bound(prs, list, ratio, have, sub(have, amounts)) = Scale * w + (value + Scale + (A + B))
  BY <1>9, <1>10, <1>11, <1>12
<1>15. A \in Nat /\ B \in Nat
  BY <1>3, <1>5, <1>6
<1> QED
  <2>1. Scale * loanNow \in Int
    BY <1>0, SMT
  <2> QED
    BY <1>0, <1>4, <1>12, <1>13, <1>14, <1>15, <2>1

(***************************************************************************)
(* What the waiting messages of a liquidation still bring the market       *)
(***************************************************************************)
\* The price of every token, where it has one.
quote(prs) == [t \in Tokens |-> IF prs[t] = None THEN 0 ELSE price_in(prs, t)]

\* Coins that message m will at least bring the market, in units of 1/Scale, when
\* w are the prices and d is the deduction.
Brings(w, d) ==
    [m \in Msg |-> IF m.type = "liquidate" THEN sale(w[CustodyToken[m.custody]], m.amount, d)
                   ELSE IF m.type \in {"send", "execute_bid"} THEN sale(w[m.token], m.amount, d)
                   ELSE IF m.type = "bank_send"
                   THEN IF m.from = Liquidation /\ m.to = Market
                        THEN FromUint(deduct_tax(m.amount)) ELSE 0
                   ELSE 0]

\* The loan of u once the queue has run: at most x.
Owes(f, x, before, st, q, u) ==
    /\ (\A i \in 1 .. Len(q) : q[i].type # "repay") => Scale * st.loan[u] <= x
    /\ \A i \in 1 .. Len(q) : q[i].type = "repay" =>
         /\ q[i].borrower = u
         /\ Scale * st.loan[u] <= x + Scale * (st.bank[Market] - before.bank[Market]) + total(f, q)

LEMMA SaleType ==
    ASSUME NEW p \in Nat, NEW n \in Nat, NEW d \in 0 .. Scale
    PROVE  sale(p, n, d) \in Int
<1>1. UintMulDec(n, p) \in Nat /\ d \in Nat /\ Scale \in Nat
  BY UintMulDecBound, ScaleAssumption
<1> QED
  BY <1>1, SMT DEF sale

LEMMA BringsType ==
    ASSUME NEW w \in [Tokens -> Nat], NEW d \in 0 .. Scale
    PROVE  Brings(w, d) \in [Msg -> Int]
<1> SUFFICES ASSUME NEW m \in Msg PROVE Brings(w, d)[m] \in Int
  BY DEF Brings
<1>1. CASE m.type = "liquidate"
  <2>1. m.amount \in Nat /\ CustodyToken[m.custody] \in Tokens
    BY <1>1, MsgTypes, LiquidateParts, CustodyAssumption
  <2>2. Brings(w, d)[m] = sale(w[CustodyToken[m.custody]], m.amount, d)
    BY <1>1 DEF Brings
  <2> QED
    BY <2>1, <2>2, SaleType
<1>2. CASE m.type \in {"send", "execute_bid"}
  <2>1. m.amount \in Nat /\ m.token \in Tokens
    BY <1>2, MsgTypes, SendParts, ExecuteParts
  <2>2. Brings(w, d)[m] = sale(w[m.token], m.amount, d)
    BY <1>2 DEF Brings
  <2> QED
    BY <2>1, <2>2, SaleType
<1>3. CASE m.type = "bank_send"
  <2>1. m.amount \in Nat
    BY <1>3, MsgTypes, BankSendParts
  <2>2. deduct_tax(m.amount) \in Nat
    BY <2>1, OutlayBound
  <2>3. FromUint(deduct_tax(m.amount)) \in Int
    BY <2>2, ScaleAssumption, SMT DEF FromUint
  <2>4. Brings(w, d)[m] = IF m.from = Liquidation /\ m.to = Market
                          THEN FromUint(deduct_tax(m.amount)) ELSE 0
    BY <1>3 DEF Brings
  <2> QED
    BY <2>3, <2>4
<1>4. CASE m.type \notin {"liquidate", "send", "execute_bid", "bank_send"}
  BY <1>4 DEF Brings
<1> QED
  BY <1>1, <1>2, <1>3, <1>4

\* A message other than the repayment runs: what it was to bring has come, or is to
\* come with what it returns.
LEMMA OwesStep ==
    ASSUME NEW f \in [Msg -> Int], NEW x \in Int, NEW before, NEW st, NEW st2, NEW u,
           NEW q, NEW ms, NEW q2, Steps(q, ms, q2), Head(q).type # "repay", Replies(ms),
           st2.loan = st.loan, st.loan[u] \in Nat, before.bank[Market] \in Nat,
           st.bank[Market] \in Nat, st2.bank[Market] \in Nat,
           (\E i \in 1 .. Len(q) : q[i].type = "repay") =>
             Scale * st.bank[Market] + f[Head(q)] <= Scale * st2.bank[Market] + total(f, ms),
           Owes(f, x, before, st, q, u)
    PROVE  Owes(f, x, before, st2, q2, u)
<1>0. q \in Seq(Msg) /\ q # <<>> /\ ms \in Seq(Msg) /\ q2 = ms \o Tail(q)
  BY DEF Steps
<1>1. /\ Tail(q) \in Seq(Msg) /\ Len(Tail(q)) = Len(q) - 1
      /\ Len(q) \in Nat /\ Len(q) > 0 /\ Len(ms) \in Nat /\ Head(q) = q[1] /\ Head(q) \in Msg
      /\ \A i \in 1 .. Len(Tail(q)) : Tail(q)[i] = q[i + 1]
  BY <1>0, HeadTailProperties, LenProperties, EmptySeq
<1>2. /\ Len(q2) = Len(ms) + Len(q) - 1
      /\ \A i \in 1 .. Len(ms) : q2[i] = ms[i]
      /\ \A i \in 1 .. Len(q2) : i > Len(ms) => q2[i] = Tail(q)[i - Len(ms)]
  BY <1>0, <1>1, ConcatProperties
\* The repayment is the same one before and after.
<1>3. ASSUME NEW i \in 1 .. Len(q2), q2[i].type = "repay"
      PROVE  \E j \in 1 .. Len(q) : q[j] = q2[i]
  <2>1. i > Len(ms)
    <3>1. i <= Len(ms) => ms[i].type # "repay"
      BY <1>1 DEF Replies
    <3> QED
      BY <1>1, <1>2, <1>3, <3>1
  <2>2. i - Len(ms) \in 1 .. Len(Tail(q)) /\ i - Len(ms) + 1 \in 1 .. Len(q)
    BY SMTT(30), <1>1, <1>2, <1>3, <2>1
  <2>3. q2[i] = q[i - Len(ms) + 1]
    BY <1>1, <1>2, <2>1, <2>2
  <2> QED
    BY <2>2, <2>3
<1>4. ASSUME NEW j \in 1 .. Len(q), q[j].type = "repay"
      PROVE  \E i \in 1 .. Len(q2) : q2[i] = q[j]
  <2>1. j # 1
    BY <1>1, <1>4
  <2>2. Len(ms) + (j - 1) \in 1 .. Len(q2)
    BY <1>1, <1>2, <2>1
  <2>3. PICK i \in 1 .. Len(q2) : i = Len(ms) + (j - 1)
    BY <2>2
  <2>4. i > Len(ms) /\ i - Len(ms) = j - 1 /\ j - 1 \in 1 .. Len(Tail(q)) /\ (j - 1) + 1 = j
    BY SMTT(30), <1>1, <2>1, <2>3
  <2>5. q2[i] = Tail(q)[j - 1]
    BY <1>2, <2>4
  <2>6. Tail(q)[j - 1] = q[j]
    BY <1>1, <2>4
  <2> QED
    BY <2>5, <2>6
<1>5. ASSUME \A i \in 1 .. Len(q2) : q2[i].type # "repay" PROVE Scale * st2.loan[u] <= x
  <2>1. \A j \in 1 .. Len(q) : q[j].type # "repay"
    BY <1>4, <1>5
  <2> QED
    BY <2>1 DEF Owes
<1>6. ASSUME NEW i \in 1 .. Len(q2), q2[i].type = "repay"
      PROVE  /\ q2[i].borrower = u
             /\ Scale * st2.loan[u]
                  <= x + Scale * (st2.bank[Market] - before.bank[Market]) + total(f, q2)
  <2>1. PICK j \in 1 .. Len(q) : q[j] = q2[i]
    BY <1>3, <1>6
  <2>2. PICK n, n2, p, l, F, T, h, r :
          /\ n = st.bank[Market] /\ n2 = st2.bank[Market] /\ p = before.bank[Market]
          /\ l = st.loan[u] /\ F = total(f, q) /\ T = total(f, q2) /\ h = f[Head(q)]
          /\ r = total(f, ms)
    OBVIOUS
  <2>3. q[j].borrower = u /\ Scale * l <= x + Scale * (n - p) + F
    BY <1>6, <2>1, <2>2 DEF Owes
  <2>4. Scale * n + h <= Scale * n2 + r
    <3>1. \E k \in 1 .. Len(q) : q[k].type = "repay"
      BY <1>6, <2>1
    <3> QED
      BY <2>2, <3>1
  <2>5. T = F - h + r /\ F \in Int /\ h \in Int /\ r \in Int
    <3>1. total(f, q2) = total(f, q) - f[Head(q)] + total(f, ms)
      BY <1>0, TotalStep
    <3>2. total(f, q) \in Int /\ total(f, ms) \in Int
      BY <1>0, TotalType
    <3>3. f[Head(q)] \in Int
      BY <1>1
    <3> QED
      BY <2>2, <3>1, <3>2, <3>3
  <2>6. n \in Nat /\ n2 \in Nat /\ p \in Nat /\ l \in Nat /\ Scale \in Nat
    BY <2>2, ScaleAssumption
  <2>7. PICK a, b, c, w : a = Scale * n /\ b = Scale * n2 /\ c = Scale * p /\ w = Scale * l
    OBVIOUS
  <2>8. /\ Scale * (n - p) = a - c /\ Scale * (n2 - p) = b - c
        /\ a \in Int /\ b \in Int /\ c \in Int /\ w \in Int
    BY <2>6, <2>7, SMT
  <2>9. w <= x + (b - c) + T
    <3>1. w <= x + (a - c) + F /\ a + h <= b + r
      BY <2>3, <2>4, <2>7, <2>8
    <3> HIDE <2>2
    <3> QED
      BY <2>5, <2>8, <3>1
  <2>10. st2.loan[u] = l
    BY <2>2
  <2> QED
    BY <2>1, <2>2, <2>3, <2>7, <2>8, <2>9, <2>10
<1> QED
  BY <1>5, <1>6 DEF Owes

LEMMA QuoteType ==
    ASSUME Priced
    PROVE  /\ quote(prices) \in [Tokens -> Nat]
           /\ \A t \in Tokens : prices[t] # None => /\ quote(prices)[t] = rate(t)
                                                    /\ quote(prices)[t] = price_in(prices, t)
<1>1. ASSUME NEW t \in Tokens, prices[t] # None PROVE price_in(prices, t) \in Nat
  <2>1. prices[t] \in PriceInfo
    BY <1>1 DEF Priced
  <2>2. prices[t].price \in Nat /\ One \in Nat /\ One > 0
    BY <2>1, ScaleAssumption DEF PriceInfo, One
  <2> QED
    BY <2>2, DecDivNat DEF price_in
<1> QED
  BY <1>1 DEF quote, price_in, rate

LEMMA OneReplies ==
    ASSUME NEW ms, NEW n \in Msg, Single(ms, n), n.type \notin {"repay", "bank_send"}
    PROVE  ms \in Seq(Msg) /\ Replies(ms)
<1>1. ms \in Seq(Msg) /\ \A i \in 1 .. Len(ms) : ms[i] = n
  BY DEF Single
<1> QED
  BY <1>1 DEF Replies

LEMMA NoReplies ==
    /\ <<>> \in Seq(Msg) /\ Replies(<<>>)
BY DEF Replies

\* While a repayment waits, every transfer of coins is of the liquidation contract.
LEMMA RepayWaits ==
    ASSUME CInv, ~Idle, \E i \in 1 .. Len(queue) : queue[i].type = "repay",
           Head(queue).type = "bank_send"
    PROVE  Head(queue).from = Liquidation
<1>1. RepayLast(saved, present, queue)
  BY DEF CInv, Underway
<1>2. queue \in Seq(Msg) /\ queue # <<>>
  BY DEF CInv, Idle
<1>3. 1 \in 1 .. Len(queue) /\ Head(queue) = queue[1]
  BY <1>2, LenProperties, EmptySeq, HeadTailProperties
<1> QED
  BY <1>1, <1>3 DEF RepayLast

\* The stores' numbers that a repayment depends on.
LEMMA MarketTypes ==
    ASSUME CInv, ~Idle, Message
    PROVE  /\ present'.bank[Market] \in Nat /\ present.bank[Market] \in Nat
           /\ saved.bank[Market] \in Nat
           /\ \A u \in Users : /\ present.loan[u] \in Nat /\ saved.loan[u] \in Nat
                               /\ present'.loan[u] \in Nat
<1>1. CInv'
  BY MessageInv
<1>2. present \in Stores /\ saved \in Stores /\ present' \in Stores
  BY <1>1 DEF CInv, TypeOK
<1> QED
  BY <1>2, StoreParts, Addresses DEF LoanBooks

\* A message that is no repayment runs.
LEMMA Carried ==
    ASSUME CInv, Message, NEW type, type # "repay", Current(type), UNCHANGED loan,
           NEW ms, ms \in Seq(Msg), Then(ms), Replies(ms),
           NEW f \in [Msg -> Int], NEW x \in Int, NEW u \in Users,
           Owes(f, x, saved, present, queue, u),
           (\E i \in 1 .. Len(queue) : queue[i].type = "repay") =>
             Scale * bank[Market] + f[Head(queue)] <= Scale * bank'[Market] + total(f, ms)
    PROVE  Owes(f, x, saved, present', queue', u)
<1>1. PICK st2, q2 : st2 = present' /\ q2 = queue'
  OBVIOUS
<1>2. Steps(queue, ms, q2) /\ Head(queue).type # "repay"
  BY <1>1 DEF CInv, Current, Steps, Then
<1>3. /\ st2.loan = present.loan /\ present.loan[u] \in Nat /\ saved.bank[Market] \in Nat
      /\ present.bank[Market] \in Nat /\ st2.bank[Market] \in Nat
  BY <1>1, MessageWaits, MarketTypes, PresentFields, NextFields
<1>4. (\E i \in 1 .. Len(queue) : queue[i].type = "repay") =>
        Scale * present.bank[Market] + f[Head(queue)] <= Scale * st2.bank[Market] + total(f, ms)
  BY <1>1, PresentFields, NextFields
<1>5. Owes(f, x, saved, st2, q2, u)
  BY <1>2, <1>3, <1>4, OwesStep
<1> QED
  BY <1>1, <1>5

\* What the messages of a liquidation still bring: w are the prices, d the deduction.
Sells(f, w, d) == /\ w \in [Tokens -> Nat] /\ d \in 0 .. Scale /\ f = Brings(w, d)

LEMMA BankSendOwes ==
    ASSUME CInv, Message, bank_send, UNCHANGED loan,
           NEW f, NEW w, NEW d, Sells(f, w, d), NEW x \in Int, NEW u \in Users,
           Owes(f, x, saved, present, queue, u)
    PROVE  Owes(f, x, saved, present', queue', u)
<1>1. PICK m, ms : m = Head(queue) /\ ms = <<>>
  OBVIOUS
<1>2. Current("bank_send") /\ Then(ms) /\ ms \in Seq(Msg) /\ Replies(ms)
  BY <1>1, NoReplies DEF bank_send
<1>3. m \in BankSends
  BY <1>1, <1>2, MsgTypes, HeadTailProperties DEF CInv, Current
<1>4. f \in [Msg -> Int]
  BY BringsType DEF Sells
<1>5. ASSUME \E i \in 1 .. Len(queue) : queue[i].type = "repay"
      PROVE  Scale * bank[Market] + f[m] <= Scale * bank'[Market] + total(f, ms)
  <2>1. m.from = Liquidation
    BY <1>1, <1>2, <1>5, RepayWaits, MessageWaits DEF Current
  <2>2. PICK n : n = deduct_tax(m.amount)
    OBVIOUS
  <2>3. m \in Msg /\ m.type = "bank_send" /\ m.amount \in Nat /\ m.to \in Accounts
        /\ m.from # m.to /\ Liquidation # Market
    BY <1>3, BankSendParts, Addresses
  <2>4. n \in Nat
    BY <2>2, <2>3, OutlayBound
  <2>5. f[m] = IF m.to = Market THEN FromUint(n) ELSE 0
    BY <2>1, <2>2, <2>3 DEF Sells, Brings
  <2>6. bank' = [bank EXCEPT ![m.from] = @ - Outlay(m.amount), ![m.to] = @ + n]
    BY <1>1, <2>2 DEF bank_send
  <2>7. bank'[Market] = IF m.to = Market THEN bank[Market] + n ELSE bank[Market]
    BY <2>1, <2>3, <2>6, PresentTypes, Addresses
  <2>8. total(f, ms) = 0
    BY <1>1, TotalEmpty
  <2>9. PICK k : k = bank[Market]
    OBVIOUS
  <2>10. k \in Nat /\ Scale \in Nat
    BY <2>9, PresentTypes, Addresses, ScaleAssumption
  <2>11. Scale * (k + n) = Scale * k + n * Scale /\ Scale * k \in Int /\ n * Scale \in Int
    BY <2>4, <2>10, SMT
  <2>12. CASE m.to = Market
    <3>1. f[m] = n * Scale /\ bank'[Market] = k + n
      BY <2>5, <2>7, <2>9, <2>12 DEF FromUint
    <3>2. Scale * k + f[m] <= Scale * (k + n) + 0
      BY <2>11, <3>1
    <3> QED
      BY <2>8, <2>9, <3>1, <3>2
  <2>13. CASE m.to # Market
    <3>1. f[m] = 0 /\ bank'[Market] = k
      BY <2>5, <2>7, <2>9, <2>13
    <3>2. Scale * k + 0 <= Scale * k + 0
      BY <2>11
    <3> QED
      BY <2>8, <2>9, <3>1, <3>2
  <2> QED
    BY <2>12, <2>13
<1> QED
  BY <1>1, <1>2, <1>4, <1>5, Carried

\* A message that brings what the one it returns brings, or nothing.
LEMMA QuietOwes ==
    ASSUME CInv, Message, NEW type, type # "repay", Current(type), UNCHANGED <<bank, loan>>,
           NEW ms, ms \in Seq(Msg), Then(ms), Replies(ms),
           NEW f, NEW w, NEW d, Sells(f, w, d), f[Head(queue)] = total(f, ms),
           NEW x \in Int, NEW u \in Users, Owes(f, x, saved, present, queue, u)
    PROVE  Owes(f, x, saved, present', queue', u)
<1>1. f \in [Msg -> Int]
  BY BringsType DEF Sells
<1>2. PICK k, h : k = bank[Market] /\ h = total(f, ms)
  OBVIOUS
<1>3. h \in Int
  BY <1>1, <1>2, TotalType
<1>4. k \in Nat /\ Scale \in Nat
  BY <1>2, PresentTypes, Addresses, ScaleAssumption
<1>5. Scale * k + h <= Scale * k + h
  <2>1. Scale * k \in Int
    BY <1>4, SMT
  <2> QED
    BY <1>3, <2>1
<1>6. Scale * bank[Market] + f[Head(queue)] <= Scale * bank'[Market] + total(f, ms)
  BY <1>2, <1>5
<1> QED
  BY <1>1, <1>6, Carried

LEMMA MovingOwes ==
    ASSUME CInv, Message, UNCHANGED loan,
           transfer \/ custody_lock_collateral \/ custody_unlock_collateral,
           NEW f, NEW w, NEW d, Sells(f, w, d), NEW x \in Int, NEW u \in Users,
           Owes(f, x, saved, present, queue, u)
    PROVE  Owes(f, x, saved, present', queue', u)
<1>1. PICK m, ms : m = Head(queue) /\ ms = <<>>
  OBVIOUS
<1>2. PICK type \in {"transfer", "lock", "unlock"} :
        Current(type) /\ Then(ms) /\ UNCHANGED bank
  BY <1>1 DEF transfer, custody_lock_collateral, custody_unlock_collateral
<1>3. m \in Msg /\ m.type = type
  BY <1>1, <1>2, HeadTailProperties DEF CInv, Current
<1>4. f[m] = 0
  BY <1>2, <1>3 DEF Sells, Brings
<1>5. total(f, ms) = 0
  BY <1>1, TotalEmpty
<1>6. ms \in Seq(Msg) /\ Replies(ms)
  BY <1>1, NoReplies
<1> QED
  BY <1>1, <1>2, <1>4, <1>5, <1>6, QuietOwes

LEMMA SendOwes ==
    ASSUME CInv, Message, send, UNCHANGED loan,
           NEW f, NEW w, NEW d, Sells(f, w, d), NEW x \in Int, NEW u \in Users,
           Owes(f, x, saved, present, queue, u)
    PROVE  Owes(f, x, saved, present', queue', u)
<1>1. PICK m : m = Head(queue)
  OBVIOUS
<1>2. PICK n : n = [type |-> "execute_bid", token |-> m.token, at |-> m.to,
                    liquidator |-> m.liquidator, amount |-> m.amount]
  OBVIOUS
<1>3. PICK ms : ms = <<n>>
  OBVIOUS
<1>4. Current("send") /\ Then(ms) /\ UNCHANGED bank
  BY <1>1, <1>2, <1>3 DEF send
<1>5. m \in Sends
  BY <1>1, <1>4, MsgTypes, HeadTailProperties DEF CInv, Current
<1>6. n \in Executes /\ n.token = m.token /\ n.amount = m.amount
  BY <1>2, <1>5, SendParts DEF Executes
<1>7. n \in Msg /\ n.type = "execute_bid" /\ m \in Msg /\ m.type = "send"
  BY <1>5, <1>6, SendParts, ExecuteParts
<1>8. Single(ms, n)
  BY <1>3 DEF Single
<1> HIDE <1>2, <1>3
<1>9. ms \in Seq(Msg) /\ Replies(ms)
  BY <1>7, <1>8, OneReplies
<1>10. f[m] = f[n]
  BY <1>6, <1>7 DEF Sells, Brings
<1>11. total(f, ms) = f[n]
  BY <1>7, <1>8, BringsType, TotalOne DEF Sells
<1> QED
  BY <1>1, <1>4, <1>9, <1>10, <1>11, QuietOwes

LEMMA LiquidateOwes ==
    ASSUME CInv, Message, custody_liquidate_collateral, UNCHANGED loan,
           NEW f, NEW w, NEW d, Sells(f, w, d), NEW x \in Int, NEW u \in Users,
           Owes(f, x, saved, present, queue, u)
    PROVE  Owes(f, x, saved, present', queue', u)
<1>1. PICK m : m = Head(queue)
  OBVIOUS
<1>2. PICK n : n = SendToBid(CustodyToken[m.custody], m.custody,
                             custody_config[m.custody].liquidation_contract,
                             m.liquidator, m.amount)
  OBVIOUS
<1>3. PICK ms : ms = <<n>>
  OBVIOUS
<1>4. Current("liquidate") /\ Then(ms) /\ UNCHANGED bank
  BY <1>1, <1>2, <1>3 DEF custody_liquidate_collateral
<1>5. m \in Liquidates
  BY <1>1, <1>4, MsgTypes, HeadTailProperties DEF CInv, Current
<1>6. /\ m.custody \in Custodies /\ m.amount \in Nat /\ m.liquidator \in Users
      /\ m \in Msg /\ m.type = "liquidate"
  BY <1>5, LiquidateParts
<1>7. n \in Sends /\ n.token = CustodyToken[m.custody] /\ n.amount = m.amount
  <2>1. /\ custody_config[m.custody].liquidation_contract \in Liquidators
        /\ CustodyToken[m.custody] \in Tokens
    BY <1>6, ConfigTypes, CustodyAssumption DEF Keeper, Liquidators
  <2> QED
    BY <1>2, <1>6, <2>1 DEF SendToBid, Sends
<1>8. n \in Msg /\ n.type = "send"
  BY <1>7, SendParts
<1>9. Single(ms, n)
  BY <1>3 DEF Single
<1> HIDE <1>2, <1>3
<1>10. ms \in Seq(Msg) /\ Replies(ms)
  BY <1>8, <1>9, OneReplies
<1>11. f[m] = f[n]
  BY <1>6, <1>7, <1>8 DEF Sells, Brings
<1>12. total(f, ms) = f[n]
  BY <1>8, <1>9, BringsType, TotalOne DEF Sells
<1> QED
  BY <1>1, <1>4, <1>10, <1>11, <1>12, QuietOwes

\* The bid is executed: the market is sent what a sale brings at least.
LEMMA ExecuteOwes ==
    ASSUME CInv, Message, execute_bid, UNCHANGED loan, TaxRate <= Scale,
           NEW f, NEW w, NEW d, Sells(f, w, d), w = quote(prices),
           d = fee_deductor(liquidation_config),
           NEW x \in Int, NEW u \in Users, Owes(f, x, saved, present, queue, u)
    PROVE  Owes(f, x, saved, present', queue', u)
<1>1. PICK m : m = Head(queue)
  OBVIOUS
<1>2. Current("execute_bid") /\ can_execute_bid(m) /\ bank' = bank
  BY <1>1 DEF execute_bid
<1>3. m \in Executes
  BY <1>1, <1>2, MsgTypes, HeadTailProperties DEF CInv, Current
<1>4. /\ m.amount \in Nat /\ m.token \in Tokens /\ m.liquidator \in Users
      /\ m \in Msg /\ m.type = "execute_bid"
  BY <1>3, ExecuteParts
<1>5. PICK bid, required, fee :
        /\ bid = bids[m.liquidator][m.token]
        /\ required = required_stable(bid, m.token, m.amount)
        /\ fee = UintMulDec(required, liquidation_config.bid_fee)
  OBVIOUS
<1>6. /\ bid \in Bid /\ price_valid(m.token, liquidation_config.price_timeframe)
  BY <1>2, <1>4, <1>5, PresentTypes DEF can_execute_bid, BidBooks
<1>7. required \in Nat /\ fee \in Nat /\ required - fee \in Nat
  <2>1. required \in Nat /\ fee \in Nat /\ fee <= required
    BY <1>4, <1>5, <1>6, RequiredType
  <2> QED
    BY <2>1
<1>8. PICK n1, n2, n3 : /\ n1 = Transfer(m.token, Liquidation, m.liquidator, m.amount)
                        /\ n2 = BankSend(Liquidation, Market, required - fee)
                        /\ n3 = BankSend(Liquidation, Overseer, fee)
  OBVIOUS
<1>9. PICK ms : ms = <<n1, n2>> \o IF fee = 0 THEN <<>> ELSE <<n3>>
  OBVIOUS
<1>10. Then(ms)
  BY <1>1, <1>5, <1>8, <1>9 DEF execute_bid
<1>11. /\ n1 \in Transfers /\ n1.from = Liquidation
       /\ n2 \in BankSends /\ n2.from = Liquidation /\ n2.amount = required - fee
       /\ n2.to = Market
       /\ n3 \in BankSends /\ n3.from = Liquidation /\ n3.amount = fee /\ n3.to = Overseer
  BY <1>4, <1>7, <1>8 DEF Transfer, BankSend, Transfers, BankSends
<1>12. Settles(ms, n1, n2, n3)
  BY <1>9, <1>11 DEF Settles
<1> HIDE <1>8, <1>9
<1>13. ms \in Seq(Msg) /\ Replies(ms)
  BY <1>12, SettlesReplies
<1>14. f \in [Msg -> Int]
  BY BringsType DEF Sells
<1>15. PICK g, p, l : /\ g = required - fee /\ p = rate(m.token)
                      /\ l = Lesser(bid.premium_rate, liquidation_config.max_premium_rate)
  OBVIOUS
<1>16. /\ w[m.token] = p /\ p \in Nat
  <2>1. prices[m.token] # None
    BY <1>6 DEF price_valid
  <2> QED
    BY <1>4, <1>15, <2>1, ConfigTypes, QuoteType
<1>17. /\ n1 \in Msg /\ n1.type = "transfer" /\ n2 \in Msg /\ n2.type = "bank_send"
       /\ n3 \in Msg /\ n3.type = "bank_send" /\ Overseer # Market
  BY <1>11, TransferParts, BankSendParts, Addresses
<1>18. f[n1] = 0 /\ f[n2] = FromUint(deduct_tax(g)) /\ f[n3] = 0
  BY <1>11, <1>15, <1>17 DEF Sells, Brings
<1>19. total(f, ms) = Scale * deduct_tax(g)
  <2>1. total(f, ms) = f[n1] + f[n2] + (IF n3.amount = 0 THEN 0 ELSE f[n3])
    BY <1>12, <1>14, SettlesTotal
  <2>2. deduct_tax(g) \in Nat
    BY <1>7, <1>15, OutlayBound
  <2>3. FromUint(deduct_tax(g)) = Scale * deduct_tax(g) /\ Scale * deduct_tax(g) \in Int
    BY <2>2, ScaleAssumption, SMT DEF FromUint
  <2> QED
    BY <1>18, <2>1, <2>3
<1>20. f[m] = UintMulDec(m.amount, p) * d - 2 * Scale
  BY <1>4, <1>16 DEF Sells, Brings, sale
<1>21. f[m] <= total(f, ms) /\ f[m] \in Int /\ total(f, ms) \in Int
  <2>1. PICK v, a, b : /\ v = UintMulDec(m.amount, p)
                       /\ a = liquidation_config.max_premium_rate
                       /\ b = liquidation_config.bid_fee
    OBVIOUS
  <2>2. /\ v \in Nat /\ a \in 0 .. Scale /\ b \in 0 .. Scale /\ Scale = One /\ Scale \in Nat
    BY <1>4, <1>16, <2>1, UintMulDecBound, ConfigTypes, ConfigParts
  <2>3. l \in 0 .. Scale /\ l <= a
    <3>1. bid.premium_rate \in Nat
      BY <1>6 DEF Bid
    <3> QED
      BY <1>15, <2>1, <2>2, <3>1 DEF Lesser
  <2>4. required = UintMulDec(v, Scale - l)
    BY <1>5, <1>15, <2>1, <2>2 DEF required_stable
  <2>5. g = required - UintMulDec(required, b)
    BY <1>5, <1>15, <2>1
  <2>6. d = DecMul(DecMul(Scale - a, Scale - b), Scale - TaxRate)
    BY <2>1, <2>2 DEF fee_deductor
  <2>7. v * d <= Scale * deduct_tax(g) + 2 * Scale
    BY <2>2, <2>3, <2>4, <2>5, <2>6, SaleBrings
  <2>8. PICK y, z : y = v * d /\ z = Scale * deduct_tax(g)
    OBVIOUS
  <2>9. f[m] = y - 2 * Scale /\ total(f, ms) = z /\ y <= z + 2 * Scale
    BY <1>19, <1>20, <2>1, <2>7, <2>8
  <2>10. f[m] \in Int /\ total(f, ms) \in Int
    BY <1>4, <1>13, <1>14, TotalType
  <2>11. y \in Int
    <3>1. d \in Nat
      BY <2>2 DEF Sells
    <3> QED
      BY <2>2, <2>8, <3>1, SMT
  <2> HIDE <2>8
  <2> QED
    BY <2>2, <2>9, <2>10, <2>11
<1>22. Scale * bank[Market] + f[Head(queue)] <= Scale * bank'[Market] + total(f, ms)
  <2>1. PICK k, h, j : k = Scale * bank[Market] /\ h = f[m] /\ j = total(f, ms)
    OBVIOUS
  <2>2. k \in Int
    <3>1. bank[Market] \in Nat
      BY PresentTypes, Addresses
    <3> QED
      BY <2>1, <3>1, ScaleAssumption, SMT
  <2>3. k + h <= k + j
    BY <1>21, <2>1, <2>2
  <2> QED
    BY <1>1, <1>2, <2>1, <2>3
<1> QED
  BY <1>2, <1>10, <1>13, <1>14, <1>22, Carried

\* The repayment takes what came off the loan, or all of the loan.
LEMMA RepayOwes ==
    ASSUME CInv, Message, repay_stable_from_liquidation,
           NEW f, NEW w, NEW d, Sells(f, w, d), NEW x \in Nat, NEW u \in Users,
           Owes(f, x, saved, present, queue, u)
    PROVE  Owes(f, x, saved, present', queue', u)
<1>1. PICK m, st2, q2 : m = Head(queue) /\ st2 = present' /\ q2 = queue'
  OBVIOUS
<1>2. Current("repay") /\ can_repay(m)
  BY <1>1 DEF repay_stable_from_liquidation
<1>3. m \in Repays
  BY <1>1, <1>2, MsgTypes, HeadTailProperties DEF CInv, Current
<1>4. m.borrower \in Users /\ m.prev_balance \in Nat /\ m \in Msg /\ m.type = "repay"
  BY <1>3, RepayParts
<1>5. PICK b, amount, repaid :
        /\ b = m.borrower /\ amount = bank[Market] - m.prev_balance
        /\ repaid = Lesser(loan[b], amount)
  OBVIOUS
<1>6. bank[Market] \in Nat /\ loan[b] \in Nat /\ Scale \in Nat
  BY <1>4, <1>5, PresentTypes, Addresses, ScaleAssumption DEF LoanBooks
<1>7. PICK n : n = BankSend(Market, b, amount - repaid)
  OBVIOUS
<1>8. PICK ms : ms = IF loan[b] < amount THEN <<n>> ELSE <<>>
  OBVIOUS
<1>9. Then(ms) /\ loan' = [loan EXCEPT ![b] = @ - repaid]
  BY <1>1, <1>5, <1>7, <1>8 DEF repay_stable_from_liquidation
<1>10. amount \in Nat /\ amount - repaid \in Nat
  BY <1>2, <1>4, <1>5, <1>6 DEF can_repay, Lesser
<1>11. n \in Msg /\ n.type = "bank_send"
  <2>1. n \in BankSends
    BY <1>4, <1>5, <1>7, <1>10 DEF BankSend, BankSends
  <2> QED
    BY <2>1, BankSendParts
<1>12. ms \in Seq(Msg) /\ \A i \in 1 .. Len(ms) : ms[i].type # "repay"
  BY <1>8, <1>11
<1> HIDE <1>7, <1>8
<1>13. q2 = ms /\ m.prev_balance = saved.bank[Market] /\ Single(queue, m)
  <2>1. Steps(queue, ms, q2)
    BY <1>1, <1>2, <1>9, <1>12 DEF Steps, Then, CInv, Current
  <2>2. RepayLast(saved, present, queue)
    BY <1>2 DEF CInv, Underway, Idle, Current
  <2> QED
    BY <1>1, <1>4, <2>1, <2>2, RepayAlone
<1>14. f \in [Msg -> Int] /\ f[m] = 0
  BY <1>4, BringsType DEF Sells, Brings
<1>15. total(f, queue) = 0
  BY <1>4, <1>13, <1>14, TotalOne
<1>16. /\ b = u
       /\ Scale * loan[u] <= x + Scale * amount + 0
  <2>1. 1 \in 1 .. Len(queue) /\ queue[1] = m
    BY <1>13 DEF Single
  <2>2. /\ m.borrower = u
        /\ Scale * present.loan[u] <= x + Scale * (present.bank[Market] - saved.bank[Market])
                                        + total(f, queue)
    BY <1>4, <2>1 DEF Owes
  <2> QED
    BY <1>5, <1>13, <1>15, <2>2, PresentFields
<1>17. loan'[u] = IF loan[u] <= amount THEN 0 ELSE loan[u] - amount
  <2>1. loan'[u] = loan[u] - repaid
    BY <1>9, <1>16, PresentTypes DEF LoanBooks
  <2>2. repaid = IF loan[u] <= amount THEN loan[u] ELSE amount
    BY <1>5, <1>16 DEF Lesser
  <2>3. loan[u] \in Nat
    BY <1>6, <1>16
  <2>4. CASE loan[u] <= amount
    BY <2>1, <2>2, <2>3, <2>4
  <2>5. CASE ~(loan[u] <= amount)
    BY <2>1, <2>2, <2>3, <2>5
  <2> QED
    BY <2>4, <2>5
<1>18. Scale * loan'[u] <= x
  <2>1. PICK l : l = loan[u]
    OBVIOUS
  <2>2. l \in Nat /\ Scale * l <= x + Scale * amount
    <3>1. Scale * amount \in Int
      BY <1>6, <1>10, SMT
    <3> QED
      BY <1>6, <1>16, <2>1, <3>1
  <2>3. CASE l <= amount
    <3>1. loan'[u] = 0
      BY <1>17, <2>1, <2>3
    <3>2. Scale * 0 <= x
      BY <1>6, SMT
    <3> QED
      BY <3>1, <3>2
  <2>4. CASE ~(l <= amount)
    <3>1. loan'[u] = l - amount
      BY <1>17, <2>1, <2>4
    <3>2. Scale * (l - amount) <= x
      <4>1. /\ Scale * (l - amount) = Scale * l - Scale * amount
            /\ Scale * l \in Int /\ Scale * amount \in Int
        BY <1>6, <1>10, <2>2, SMT
      <4> QED
        BY <2>2, <4>1
    <3> QED
      BY <3>1, <3>2
  <2> QED
    BY <2>3, <2>4
<1>19. Scale * st2.loan[u] <= x
  BY <1>1, <1>18, NextFields
<1>20. Owes(f, x, saved, st2, q2, u)
  BY <1>12, <1>13, <1>19 DEF Owes
<1> QED
  BY <1>1, <1>20

LEMMA MessageOwes ==
    ASSUME CInv, Message, TaxRate <= Scale,
           NEW f, NEW d \in 0 .. Scale, d = fee_deductor(liquidation_config),
           f = Brings(quote(prices), d), NEW x \in Nat, NEW u \in Users,
           Owes(f, x, saved, present, queue, u)
    PROVE  Owes(f, x, saved, present', queue', u)
<1>1. PICK w : w = quote(prices)
  OBVIOUS
<1>2. Sells(f, w, d)
  BY <1>1, ConfigTypes, QuoteType DEF Sells
<1>3. CASE ChainMessage
  BY <1>2, <1>3, BankSendOwes, MovingOwes, SendOwes DEF ChainMessage
<1>4. CASE CustodyMessage
  BY <1>2, <1>4, MovingOwes, LiquidateOwes DEF CustodyMessage
<1>5. CASE BidMessage
  BY <1>1, <1>2, <1>5, ExecuteOwes DEF BidMessage
<1>6. CASE MarketMessage
  BY <1>2, <1>6, RepayOwes DEF MarketMessage
<1> QED
  BY <1>3, <1>4, <1>5, <1>6 DEF Message

(***************************************************************************)
(* From the start of the liquidation to its end                            *)
(***************************************************************************)
\* u's collateral is less, at the prices and the whitelist of a loan above its limit.
Listed(prs, list, have) ==
    \A t \in Tokens : have[t] > 0 => prs[t] # None /\ list[t] # None

Reduced(prs, list, before, after, u) ==
    /\ Listed(prs, list, before.collaterals[u])
    /\ limit(prs, list, before.collaterals[u]) < before.loan[u]
    /\ after.collaterals[u] # before.collaterals[u]
    /\ contains(before.collaterals[u], after.collaterals[u])
    /\ after.collaterals[u] # No_collateral

Recovers(prs, list, cfg, before, after, q, u) ==
    LET x == bound(prs, list, cfg.safe_ratio, before.collaterals[u], after.collaterals[u])
    IN  /\ TaxRate <= Scale /\ fee_deductor(cfg) \in 0 .. Scale /\ x \in Nat
        /\ Owes(Brings(quote(prs), fee_deductor(cfg)), x, before, after, q, u)

Restoring(prs, list, cfg, before, after, q) ==
    \A u \in Users : Reduced(prs, list, before, after, u) =>
                       Recovers(prs, list, cfg, before, after, q, u)

LEMMA ListedQuoted ==
    ASSUME Priced, Whitelisted, NEW have, Listed(prices, whitelist, have)
    PROVE  Quoted(prices, whitelist, have)
<1> SUFFICES ASSUME NEW t \in Tokens, have[t] > 0
             PROVE  price_in(prices, t) \in Nat /\ whitelist[t].max_ltv \in 0 .. Scale
  BY DEF Quoted
<1>1. price_in(prices, t) \in Nat
  <2>1. quote(prices)[t] \in Nat /\ quote(prices)[t] = price_in(prices, t)
    BY QuoteType DEF Listed
  <2> QED
    BY <2>1
<1>2. whitelist[t] \in Elems
  BY DEF Listed, Whitelisted
<1>3. whitelist[t].max_ltv \in MaxLtvs
  BY <1>2 DEF Elems
<1>4. \A l \in MaxLtvs : l \in 0 .. Scale
  <2>1. MaxLtvs \subseteq 0 .. One
    BY CollateralAssumption
  <2> QED
    BY <2>1 DEF One
<1> QED
  BY <1>1, <1>3, <1>4

\* The calls of the custody contracts, for what all the sales bring.
LEMMA CallsBring ==
    ASSUME Priced, Whitelisted, NEW have \in Goodly, Listed(prices, whitelist, have),
           NEW amounts \in Goodly, contains(have, amounts),
           NEW q, NEW b, Calls(q, "liquidate", amounts, b),
           NEW d \in 0 .. Scale, NEW f, f = Brings(quote(prices), d),
           NEW S, S = held_in(have),
           NEW k, k = [t \in S |-> sale(price_in(prices, t), amounts[t], d)]
    PROVE  SumFunctionOnSet(k, S) <= total(f, q) /\ total(f, q) \in Int
<1>1. f \in [Msg -> Int] /\ q \in Seq(Msg)
  BY QuoteType, BringsType DEF Calls
<1>2. IsFiniteSet(S)
  BY AccountsAssumption, FS_Subset DEF held_in
<1>3. \A t \in S : /\ t \in Tokens /\ price_in(prices, t) \in Nat /\ amounts[t] \in Nat
                   /\ quote(prices)[t] = price_in(prices, t)
                   /\ k[t] = sale(price_in(prices, t), amounts[t], d) /\ k[t] \in Int
  <2> TAKE t \in S
  <2>1. t \in Tokens /\ have[t] > 0
    BY DEF held_in
  <2>2. price_in(prices, t) \in Nat /\ quote(prices)[t] = price_in(prices, t)
    BY <2>1, ListedQuoted, QuoteType DEF Quoted, Listed
  <2>3. amounts[t] \in Nat
    BY <2>1 DEF Goodly
  <2>4. sale(price_in(prices, t), amounts[t], d) \in Int
    BY <2>2, <2>3, SaleType
  <2> QED
    BY <2>1, <2>2, <2>3, <2>4
<1> DEFINE l == listed(amounts)
           T == 1 .. Len(q)
           g == [i \in T |-> f[q[i]]]
           U == Image(l, T)
<1>4. /\ l \in Seq(Tokens) /\ Len(q) = Len(l) /\ IsFiniteSet(T)
      /\ \A i \in T : g[i] \in Int /\ g[i] = f[q[i]] /\ q[i] \in Msg
  BY <1>1, ListedTokens, TotalTerms DEF Calls
<1>5. ASSUME NEW i \in T PROVE l[i] \in S /\ amounts[l[i]] > 0 /\ k[l[i]] = g[i]
  <2>1. l[i] \in Tokens /\ amounts[l[i]] > 0
    BY <1>4, ListedTokens, LenProperties
  <2>2. have[l[i]] \in Nat /\ amounts[l[i]] \in Nat /\ amounts[l[i]] <= have[l[i]]
    BY <2>1 DEF Goodly, contains
  <2>3. l[i] \in S
    BY <2>1, <2>2 DEF held_in
  <2>4. q[i].type = "liquidate" /\ q[i].amount = amounts[l[i]] /\ CustodyToken[q[i].custody] = l[i]
    BY DEF Calls
  <2>5. f[q[i]] = sale(quote(prices)[l[i]], amounts[l[i]], d)
    BY <1>4, <2>4 DEF Brings
  <2> QED
    BY <1>3, <1>4, <2>1, <2>3, <2>5
<1>6. Renames(l, g, k, T)
  <2>1. \A i, j \in T : l[i] = l[j] => i = j
    BY <1>4, ListedTokens
  <2> QED
    BY <1>4, <1>5, <2>1 DEF Renames
<1>7. U \in SUBSET S
  BY <1>5 DEF Image
<1>8. ASSUME NEW t \in S \ U PROVE k[t] <= 0
  <2>1. amounts[t] = 0
    <3>1. amounts[t] > 0 => \E i \in 1 .. Len(l) : l[i] = t
      BY <1>3, ListedTokens
    <3>2. ~(amounts[t] > 0)
      BY <1>4, <1>8, <3>1 DEF Image
    <3> QED
      BY <1>3, <3>2
  <2>2. UintMulDec(0, price_in(prices, t)) = 0
    <3>1. price_in(prices, t) \in Nat
      BY <1>3
    <3>2. 0 * price_in(prices, t) = 0 /\ 0 \div Scale = 0
      BY <3>1, ScaleAssumption, SMT
    <3> QED
      BY <3>2 DEF UintMulDec
  <2>3. d \in Nat /\ Scale \in Nat
    BY ScaleAssumption
  <2>4. 0 * d - 2 * Scale <= 0
    BY <2>3, SMT
  <2>5. k[t] = 0 * d - 2 * Scale
    BY <1>3, <2>1, <2>2 DEF sale
  <2> QED
    BY <2>4, <2>5
<1>9. total(f, q) = SumFunctionOnSet(g, T)
  BY DEF total
<1> HIDE DEF l, T, g, U
<1>10. SumFunctionOnSet(k, U) = SumFunctionOnSet(g, T)
  BY <1>4, <1>6, SumRename DEF U
<1>11. SumFunctionOnSet(k, S) <= SumFunctionOnSet(k, U)
  BY <1>2, <1>3, <1>7, <1>8, SumRestNegative
<1>12. total(f, q) \in Int
  BY <1>1, TotalType
<1> QED
  BY <1>9, <1>10, <1>11, <1>12

\* Everything is sold.
LEMMA AllSold ==
    ASSUME NEW have \in Goodly, NEW amounts, Shares(amounts, have, Scale)
    PROVE  sub(have, amounts) = No_collateral
<1>1. Scale \in Nat /\ Scale > 0
  BY ScaleAssumption
<1>2. ASSUME NEW t \in Tokens PROVE sub(have, amounts)[t] = 0
  <2>1. have[t] \in Nat /\ amounts[t] = UintMulDec(have[t], Scale)
    BY DEF Shares, Goodly
  <2>2. UintMulDec(have[t], Scale) = have[t]
    <3>1. PICK n : n = have[t]
      OBVIOUS
    <3>2. (n * Scale) \div Scale = n
      BY <1>1, <2>1, <3>1, SMT
    <3> QED
      BY <3>1, <3>2 DEF UintMulDec
  <2>3. have[t] - amounts[t] = 0
    BY <2>1, <2>2
  <2> QED
    BY <2>3 DEF sub
<1> QED
  BY <1>2 DEF sub, No_collateral

LEMMA LiquidationRecovers ==
    ASSUME CInv, Idle, NEW u \in Users, NEW b \in Users, liquidate_collateral(u, b),
           UNCHANGED liquidation_config
    PROVE  Restoring(prices, whitelist, liquidation_config, present, present', queue')
<1>1. PICK q2, st2, cfg : q2 = queue' /\ st2 = present' /\ cfg = liquidation_config
  OBVIOUS
<1>2. PICK have, borrow_limit, value :
        /\ have = collaterals[b] /\ borrow_limit = compute_borrow_limit(have)
        /\ value = collaterals_value(have)
  OBVIOUS
<1>3. PICK r : r = liquidation_ratio(cfg, loan[b], borrow_limit, value)
  OBVIOUS
<1>4. PICK amounts :
        amounts = query_liquidation_amount(cfg, loan[b], borrow_limit, have)
  OBVIOUS
<1>5. can_compute_borrow_limit(have) /\ borrow_limit < loan[b]
  BY <1>2 DEF liquidate_collateral
<1>6. /\ have \in Goodly /\ loan[b] \in Nat /\ cfg \in LiquidationConfigs
      /\ Priced /\ Whitelisted /\ loan \in LoanBooks
  BY <1>1, <1>2, PresentTypes, ConfigTypes DEF LoanBooks
<1>7. borrow_limit \in Nat /\ value \in Nat /\ borrow_limit = limit(prices, whitelist, have)
  BY <1>2, <1>5, <1>6, LimitType, ValueType, LimitIs
<1>8. amounts \in Goodly /\ contains(have, amounts)
  BY <1>4, <1>5, <1>6, <1>7, LiquidatedPart
<1>9. r \in 0 .. Scale /\ amounts = [t \in Tokens |-> UintMulDec(have[t], r)]
  <2>1. r \in 0 .. One
    BY <1>3, <1>5, <1>6, <1>7, RatioBound
  <2>2. amounts = [t \in Tokens |-> UintMulDec(have[t], r)]
    BY <1>2, <1>3, <1>4 DEF query_liquidation_amount
  <2> QED
    BY <2>1, <2>2 DEF One
<1>10. Shares(amounts, have, r)
  BY <1>9 DEF Shares
<1>11. Listed(prices, whitelist, have) /\ Quoted(prices, whitelist, have)
  <2>1. Listed(prices, whitelist, have)
    BY <1>5 DEF Listed, can_compute_borrow_limit, price_valid
  <2> QED
    BY <1>6, <2>1, ListedQuoted
<1>12. Registered(amounts)
  <2> SUFFICES ASSUME NEW t \in Tokens, amounts[t] > 0 PROVE whitelist[t] # None
    BY DEF Registered
  <2>1. amounts[t] <= have[t] /\ amounts[t] \in Nat /\ have[t] \in Nat
    BY <1>6, <1>8 DEF contains, Goodly
  <2> QED
    BY <1>11, <2>1 DEF Listed
<1>13. PICK s, n :
         /\ s = [i \in DOMAIN listed(amounts) |->
                   LET t == listed(amounts)[i]
                   IN  LiquidateMessage(whitelist[t].custody_contract, u, b, amounts[t])]
         /\ n = RepayMessage(b, bank[Market])
  OBVIOUS
<1>14. q2 = s \o <<n>>
  BY <1>1, <1>2, <1>4, <1>13 DEF liquidate_collateral
<1>15. Calls(s, "liquidate", amounts, b)
  BY <1>6, <1>8, <1>12, <1>13, LiquidateCalls DEF CInv
<1>16. n \in Repays /\ n.borrower = b /\ n.type = "repay" /\ n \in Msg
  <2>1. n \in Repays /\ n.borrower = b
    BY <1>13, PresentTypes, Addresses DEF RepayMessage, Repays
  <2> QED
    BY <2>1, RepayParts
<1>17. /\ st2.collaterals = [collaterals EXCEPT ![b] = sub(@, amounts)]
       /\ st2.loan = loan /\ st2.bank = bank
  BY <1>1, <1>2, <1>4, NextFields DEF liquidate_collateral
<1> HIDE <1>4, <1>13
<1> SUFFICES ASSUME NEW v \in Users, Reduced(prices, whitelist, present, st2, v)
             PROVE  Recovers(prices, whitelist, cfg, present, st2, q2, v)
  BY <1>1 DEF Restoring
<1>18. v = b /\ st2.collaterals[b] = sub(have, amounts)
  <2>1. collaterals \in [Users -> Goodly]
    BY PresentTypes
  <2>2. st2.collaterals[v] # collaterals[v]
    BY PresentFields DEF Reduced
  <2> QED
    BY <1>2, <1>17, <2>1, <2>2
<1>19. r # One
  <2>1. sub(have, amounts) # No_collateral
    BY <1>18 DEF Reduced
  <2> QED
    BY <1>6, <1>10, <2>1, AllSold DEF One
<1>20. PICK d, e, safe, ratio :
         /\ d = fee_deductor(cfg) /\ e = UintMulDec(value, d)
         /\ safe = safe_borrow_amount(cfg, borrow_limit) /\ ratio = cfg.safe_ratio
  OBVIOUS
<1>21. /\ TaxRate <= Scale /\ d \in 0 .. Scale /\ e \in Nat /\ e * Scale <= value * d
       /\ safe \in Nat /\ safe * Scale <= borrow_limit * ratio
       /\ Scale * loan[b] - r * e <= (Scale - r) * safe + value
  BY <1>3, <1>5, <1>6, <1>7, <1>19, <1>20, RatioLeaves
<1>22. ratio \in 0 .. Scale
  BY <1>6, <1>20, ConfigParts
<1>23. PICK f, S : f = Brings(quote(prices), d) /\ S = held_in(have)
  OBVIOUS
<1>24. PICK k : k = [t \in S |-> sale(price_in(prices, t), amounts[t], d)]
  OBVIOUS
<1>25. SumFunctionOnSet(k, S) <= total(f, s) /\ total(f, s) \in Int
  BY <1>6, <1>8, <1>11, <1>15, <1>21, <1>23, <1>24, CallsBring
<1>26. value = value_in(prices, have)
  BY <1>2 DEF collaterals_value, value_in, value_of, price_in, held_in, rate
<1>27. PICK x, brought :
         /\ x = bound(prices, whitelist, ratio, have, sub(have, amounts))
         /\ brought = total(f, s)
  OBVIOUS
<1>28. x \in Nat /\ Scale * loan[b] - brought <= x
  BY <1>6, <1>7, <1>10, <1>11, <1>21, <1>22, <1>23, <1>24, <1>25, <1>26, <1>27, SharesBound
<1>29. /\ total(f, q2) = brought
       /\ Len(q2) = Len(s) + 1 /\ Len(s) \in Nat /\ q2[Len(s) + 1] = n
       /\ \A i \in 1 .. Len(s) : q2[i].type # "repay"
  <2>1. s \in Seq(Msg) /\ Ends(q2, s, n)
    BY <1>14, <1>15 DEF Calls, Ends
  <2>2. f \in [Msg -> Int] /\ f[n] = 0
    <3>1. quote(prices) \in [Tokens -> Nat]
      BY <1>6, QuoteType
    <3> QED
      BY <1>16, <1>21, <1>23, <3>1, BringsType DEF Brings
  <2>3. total(f, q2) = brought
    BY <1>16, <1>27, <2>1, <2>2, RepayEffect
  <2>4. /\ Len(q2) = Len(s) + 1 /\ q2[Len(s) + 1] = n
        /\ \A i \in 1 .. Len(s) : q2[i] = s[i]
    BY <1>16, <2>1, RepayTotals
  <2>5. \A i \in 1 .. Len(s) : s[i].type = "liquidate"
    BY <1>15 DEF Calls
  <2> QED
    BY <2>1, <2>3, <2>4, <2>5, LenProperties
<1>30. Owes(f, x, present, st2, q2, b)
  <2>1. ~\A i \in 1 .. Len(q2) : q2[i].type # "repay"
    <3>1. Len(s) + 1 \in 1 .. Len(q2)
      BY <1>29
    <3> QED
      BY <1>16, <1>29, <3>1
  <2>2. ASSUME NEW i \in 1 .. Len(q2), q2[i].type = "repay"
        PROVE  /\ q2[i].borrower = b
               /\ Scale * st2.loan[b]
                    <= x + Scale * (st2.bank[Market] - present.bank[Market]) + total(f, q2)
    <3>1. q2[i] = n
      BY <1>29, <2>2
    <3>2. st2.bank[Market] - present.bank[Market] = 0 /\ st2.loan[b] = loan[b]
      <4>1. bank[Market] \in Nat
        BY PresentTypes, Addresses
      <4> QED
        BY <1>17, <4>1, PresentFields
    <3>3. Scale * 0 = 0 /\ Scale * loan[b] \in Int
      BY <1>6, ScaleAssumption, SMT
    <3>4. PICK w : w = Scale * loan[b]
      OBVIOUS
    <3>5. w <= x + 0 + brought
      BY <1>25, <1>27, <1>28, <3>3, <3>4
    <3> QED
      BY <1>16, <1>29, <3>1, <3>2, <3>3, <3>4, <3>5
  <2> QED
    BY <2>1, <2>2 DEF Owes
<1> QED
  BY <1>2, <1>18, <1>20, <1>21, <1>23, <1>27, <1>28, <1>30, PresentFields DEF Recovers

\* Nobody has less.
LEMMA NothingReduced ==
    ASSUME NEW prs, NEW list, NEW cfg, NEW before, NEW after, NEW q,
           after.collaterals = before.collaterals
    PROVE  Restoring(prs, list, cfg, before, after, q)
BY DEF Restoring, Reduced

LEMMA LockReduces ==
    ASSUME CInv, Idle, NEW b \in Users, NEW g \in Goods, lock_collateral(b, g)
    PROVE  Restoring(prices, whitelist, liquidation_config, present, present', queue')
<1>1. PICK st2 : st2 = present'
  OBVIOUS
<1>2. collaterals \in [Users -> Goodly] /\ g \in Goodly
  BY PresentTypes, GoodsType
<1>3. st2.collaterals = [collaterals EXCEPT ![b] = add(@, g)]
  BY <1>1, NextFields DEF lock_collateral
<1> SUFFICES ASSUME NEW u \in Users, Reduced(prices, whitelist, present, st2, u) PROVE FALSE
  BY <1>1 DEF Restoring
<1>4. PICK have : have = collaterals[u]
  OBVIOUS
<1>5. st2.collaterals[u] # have /\ contains(have, st2.collaterals[u])
  BY <1>4, PresentFields DEF Reduced
<1>6. u = b /\ st2.collaterals[u] = add(have, g)
  BY <1>2, <1>3, <1>4, <1>5
<1>7. \A t \in Tokens : add(have, g)[t] = have[t]
  <2> TAKE t \in Tokens
  <2>1. have[t] \in Nat /\ g[t] \in Nat
    BY <1>2, <1>4 DEF Goodly
  <2>2. add(have, g)[t] = have[t] + g[t]
    BY DEF add
  <2>3. add(have, g)[t] <= have[t]
    BY <1>5, <1>6 DEF contains
  <2> QED
    BY <2>1, <2>2, <2>3
<1>8. have = [t \in Tokens |-> have[t]] /\ add(have, g) = [t \in Tokens |-> add(have, g)[t]]
  BY <1>2, <1>4 DEF Goodly, add
<1>9. add(have, g) = have
  BY <1>7, <1>8, Zenon
<1> QED
  BY <1>5, <1>6, <1>9

LEMMA UnlockReduces ==
    ASSUME CInv, Idle, NEW b \in Users, NEW g \in Goods, unlock_collateral(b, g)
    PROVE  Restoring(prices, whitelist, liquidation_config, present, present', queue')
<1>1. PICK st2 : st2 = present'
  OBVIOUS
<1>2. collaterals \in [Users -> Goodly] /\ g \in Goodly /\ loan \in LoanBooks
  BY PresentTypes, GoodsType
<1>3. st2.collaterals = [collaterals EXCEPT ![b] = sub(collaterals[b], g)]
  BY <1>1, NextFields DEF unlock_collateral
<1> SUFFICES ASSUME NEW u \in Users, Reduced(prices, whitelist, present, st2, u) PROVE FALSE
  BY <1>1 DEF Restoring
<1>4. PICK have, left : have = collaterals[u] /\ left = st2.collaterals[u]
  OBVIOUS
<1>5. /\ left # have /\ contains(have, left) /\ Listed(prices, whitelist, have)
      /\ limit(prices, whitelist, have) < loan[u]
  BY <1>4, PresentFields DEF Reduced
<1>6. u = b /\ left = sub(collaterals[b], g)
  BY <1>2, <1>3, <1>4, <1>5
<1>7. limit(prices, whitelist, left) >= loan[u]
  BY <1>6, LimitIs DEF unlock_collateral, may_unlock
<1>8. have \in Goodly /\ left \in Goodly
  <2>1. contains(have, g)
    BY <1>4, <1>6 DEF unlock_collateral
  <2>2. \A t \in Tokens : left[t] \in Nat
    <3> TAKE t \in Tokens
    <3>1. have[t] \in Nat /\ g[t] \in Nat /\ g[t] <= have[t]
      BY <1>2, <1>4, <2>1 DEF Goodly, contains
    <3>2. left[t] = have[t] - g[t]
      BY <1>4, <1>6 DEF sub
    <3> QED
      BY <3>1, <3>2
  <2>3. left = [t \in Tokens |-> left[t]]
    BY <1>6 DEF sub
  <2> QED
    BY <1>2, <1>4, <2>2, <2>3 DEF Goodly
<1>9. Quoted(prices, whitelist, have) /\ contains(have, have)
  <2>1. contains(have, have)
    BY <1>8 DEF Goodly, contains
  <2> QED
    BY <1>5, <2>1, ConfigTypes, ListedQuoted
<1>10. /\ limit(prices, whitelist, left) <= limit(prices, whitelist, have)
       /\ limit(prices, whitelist, left) \in Nat /\ limit(prices, whitelist, have) \in Nat
  BY <1>5, <1>8, <1>9, LimitMonotone, LimitOfPart
<1>11. loan[u] \in Nat
  BY <1>2 DEF LoanBooks
<1> QED
  BY <1>5, <1>7, <1>10, <1>11

LEMMA TransactionRestores ==
    ASSUME CInv, Transaction
    PROVE  Restoring(prices, whitelist, liquidation_config, present, present', queue')
<1>0. Idle
  BY DEF Transaction
<1>1. CASE OverseerTransaction
  <2>1. UNCHANGED liquidation_config
    BY <1>1 DEF OverseerTransaction
  <2> QED
    BY <1>0, <1>1, <2>1, LockReduces, UnlockReduces, LiquidationRecovers
       DEF OverseerTransaction
<1>2. CASE ~OverseerTransaction
  <2>1. collaterals' = collaterals
    BY <1>2 DEF Transaction, CustodyTransaction, BidTransaction, OracleTransaction,
                GovernanceTransaction, MarketTransaction
  <2>2. PICK st2, q2 : st2 = present' /\ q2 = queue'
    OBVIOUS
  <2>3. st2.collaterals = present.collaterals
    BY <2>1, <2>2, PresentFields, NextFields
  <2>4. Restoring(prices, whitelist, liquidation_config, present, st2, q2)
    BY <2>3, NothingReduced
  <2> QED
    BY <2>2, <2>4
<1> QED
  BY <1>1, <1>2

LEMMA MessageRestores ==
    ASSUME CInv, Message,
           Restoring(prices, whitelist, liquidation_config, saved, present, queue)
    PROVE  Restoring(prices, whitelist, liquidation_config, saved, present', queue')
<1>1. PICK st2, q2, cfg : st2 = present' /\ q2 = queue' /\ cfg = liquidation_config
  OBVIOUS
<1>2. st2.collaterals = present.collaterals
  BY <1>1, MessageRuns DEF Runs
<1> SUFFICES ASSUME NEW u \in Users, Reduced(prices, whitelist, saved, st2, u)
             PROVE  Recovers(prices, whitelist, cfg, saved, st2, q2, u)
  BY <1>1 DEF Restoring
<1>3. Recovers(prices, whitelist, cfg, saved, present, queue, u)
  <2>1. Reduced(prices, whitelist, saved, present, u)
    BY <1>2 DEF Reduced
  <2> QED
    BY <1>1, <2>1 DEF Restoring
<1>4. PICK d, f, x :
        /\ d = fee_deductor(cfg) /\ f = Brings(quote(prices), d)
        /\ x = bound(prices, whitelist, cfg.safe_ratio, saved.collaterals[u],
                     present.collaterals[u])
  OBVIOUS
<1>5. /\ TaxRate <= Scale /\ d \in 0 .. Scale /\ x \in Nat
      /\ Owes(f, x, saved, present, queue, u)
  BY <1>3, <1>4 DEF Recovers
<1>6. Owes(f, x, saved, st2, q2, u)
  BY <1>1, <1>4, <1>5, MessageOwes
<1> QED
  BY <1>2, <1>4, <1>5, <1>6 DEF Recovers

\* The invariant of the collateral, and that the loan of whoever is being liquidated
\* will be within reach of what is left to him.
RInv ==
    /\ CInv
    /\ ~Idle => Restoring(prices, whitelist, liquidation_config, saved, present, queue)

LEMMA StepRestores ==
    ASSUME RInv, [Next]_cvars
    PROVE  RInv'
<1>1. CInv /\ CInv'
  BY Inductive DEF RInv
<1>2. CASE Transaction /\ queue' # <<>>
  <2>1. prices' = prices /\ whitelist' = whitelist
    BY <1>1, <1>2, ConfiguredNow, TransactionConfigures
  <2>2. liquidation_config' = liquidation_config
    <3>1. queue = <<>>
      BY <1>2 DEF Transaction, Idle
    <3>2. ~OracleTransaction /\ ~GovernanceTransaction
      BY <1>2, <3>1 DEF OracleTransaction, GovernanceTransaction, liquidation_update_config,
                        custody_update_config, chainVars
    <3> QED
      BY <1>2, <3>2 DEF Transaction, CustodyTransaction, OverseerTransaction, BidTransaction,
                        MarketTransaction, submit_bid, retract_bid, lvars
  <2>3. saved' = present
    BY <1>2 DEF Transaction
  <2>4. Restoring(prices, whitelist, liquidation_config, present, present', queue')
    BY <1>1, <1>2, TransactionRestores
  <2> QED
    BY <1>1, <2>1, <2>2, <2>3, <2>4 DEF RInv
<1>3. CASE Message /\ queue' # <<>>
  <2>1. ~Idle
    BY <1>3, MessageWaits
  <2>2. prices' = prices /\ whitelist' = whitelist /\ liquidation_config' = liquidation_config
    BY <1>3, MessageConfigures DEF decided, oracleVars
  <2>3. saved' = saved
    BY <1>3 DEF Message
  <2>4. Restoring(prices, whitelist, liquidation_config, saved, present', queue')
    BY <1>1, <1>3, <2>1, MessageRestores DEF RInv
  <2> QED
    BY <1>1, <2>2, <2>3, <2>4 DEF RInv
<1>4. CASE UNCHANGED cvars
  <2>1. /\ present' = present /\ queue' = queue /\ saved' = saved /\ prices' = prices
        /\ whitelist' = whitelist /\ liquidation_config' = liquidation_config
    BY <1>4 DEF present, cvars, chainVars, oracleVars, lvars, kvars
  <2> QED
    BY <1>1, <2>1 DEF RInv, Idle
<1>5. CASE queue' = <<>>
  BY <1>1, <1>5 DEF RInv, Idle
<1>6. CASE Revert
  BY <1>1, <1>6 DEF RInv, Revert, Idle
<1> QED
  BY <1>2, <1>3, <1>4, <1>5, <1>6 DEF Next

\* Others see nothing of a step, or one that leaves nothing waiting.
LEMMA ViewRestores ==
    ASSUME RInv, [Next]_cvars, NEW before, NEW after, before = View, after = View'
    PROVE  \/ after = before
           \/ Restoring(prices, whitelist, liquidation_config, before, after, <<>>)
<1>1. PICK st2, q2 : st2 = present' /\ q2 = queue'
  OBVIOUS
<1>2. CASE Transaction
  <2>1. View = present /\ saved' = IF queue' = <<>> THEN None ELSE present
    BY <1>2 DEF Transaction, View
  <2>2. CASE q2 # <<>>
    BY <1>1, <2>1, <2>2 DEF View, Idle
  <2>3. CASE q2 = <<>>
    <3>1. Restoring(prices, whitelist, liquidation_config, present, st2, q2)
      BY <1>1, <1>2, TransactionRestores DEF RInv
    <3>2. View' = st2
      BY <1>1, <2>3 DEF View, Idle
    <3> QED
      BY <2>1, <2>3, <3>1, <3>2
  <2> QED
    BY <2>2, <2>3
<1>3. CASE Message
  <2>1. ~Idle
    BY <1>3, MessageWaits
  <2>2. View = saved /\ saved' = IF queue' = <<>> THEN None ELSE saved
    BY <1>3, <2>1 DEF Message, View
  <2>3. CASE q2 # <<>>
    BY <1>1, <2>2, <2>3 DEF View, Idle
  <2>4. CASE q2 = <<>>
    <3>1. Restoring(prices, whitelist, liquidation_config, saved, st2, q2)
      BY <1>1, <1>3, <2>1, MessageRestores DEF RInv
    <3>2. View' = st2
      BY <1>1, <2>4 DEF View, Idle
    <3> QED
      BY <2>2, <2>4, <3>1, <3>2
  <2> QED
    BY <2>3, <2>4
<1>4. CASE Revert
  <2>1. View = saved
    BY <1>4 DEF Revert, View
  <2>2. present' = saved /\ queue' = <<>>
    BY <1>4, RevertRestores DEF RInv
  <2> QED
    BY <2>1, <2>2 DEF View, Idle
<1>5. CASE UNCHANGED cvars
  <2>1. present' = present /\ queue' = queue /\ saved' = saved
    BY <1>5 DEF present, cvars, chainVars, lvars, kvars
  <2> QED
    BY <2>1 DEF View, Idle
<1> QED
  BY <1>2, <1>3, <1>4, <1>5 DEF Next

\* A liquidation that leaves any collateral leaves a loan within safe_ratio of its
\* limit, but for what rounding costs, at every price, premium, fee and tax.
THEOREM LiquidationAlwaysRestores == Spec => LiquidationRestores
<1> DEFINE Kept == \A u \in Users :
         /\ can_compute_borrow_limit(View.collaterals[u])
         /\ View.loan[u] > compute_borrow_limit(View.collaterals[u])
         /\ View'.collaterals[u] # View.collaterals[u]
         /\ contains(View.collaterals[u], View'.collaterals[u])
         /\ View'.collaterals[u] # No_collateral
         => FromUint(View'.loan[u]) <=
              FromUint(UintMulDec(compute_borrow_limit(View'.collaterals[u]),
                                  liquidation_config.safe_ratio))
                + rounding(View.collaterals[u])
<1>1. RInv /\ [Next]_cvars => [Kept]_cvars
  <2> SUFFICES ASSUME RInv, [Next]_cvars, NEW u \in Users,
                      can_compute_borrow_limit(View.collaterals[u]),
                      View.loan[u] > compute_borrow_limit(View.collaterals[u]),
                      View'.collaterals[u] # View.collaterals[u],
                      contains(View.collaterals[u], View'.collaterals[u]),
                      View'.collaterals[u] # No_collateral
               PROVE  FromUint(View'.loan[u]) <=
                        FromUint(UintMulDec(compute_borrow_limit(View'.collaterals[u]),
                                            liquidation_config.safe_ratio))
                          + rounding(View.collaterals[u])
    OBVIOUS
  <2>1. PICK before, after : before = View /\ after = View'
    OBVIOUS
  <2>2. before \in Stores /\ after \in Stores
    BY <2>1, ViewParts DEF RInv
  <2>3. PICK have, left : have = before.collaterals[u] /\ left = after.collaterals[u]
    OBVIOUS
  <2>4. Restoring(prices, whitelist, liquidation_config, before, after, <<>>)
    BY <2>1, ViewRestores
  <2>5. Reduced(prices, whitelist, before, after, u)
    <3>1. Listed(prices, whitelist, have)
      BY <2>1, <2>3 DEF Listed, can_compute_borrow_limit, price_valid
    <3>2. limit(prices, whitelist, have) < before.loan[u]
      <4>1. have \in Goodly /\ before.loan[u] \in Nat
        BY <2>2, <2>3, StoreParts DEF LoanBooks
      <4>2. limit(prices, whitelist, have) \in Nat
        BY <2>1, <2>3, <4>1, ConfigTypes, LimitType, LimitIs DEF RInv
      <4> QED
        BY <2>1, <2>3, <4>1, <4>2, LimitIs
    <3> QED
      BY <2>1, <2>3, <3>1, <3>2 DEF Reduced
  <2>6. PICK f, x : /\ f = Brings(quote(prices), fee_deductor(liquidation_config))
                    /\ x = bound(prices, whitelist, liquidation_config.safe_ratio, have, left)
    OBVIOUS
  <2>7. Owes(f, x, before, after, <<>>, u)
    BY <2>3, <2>4, <2>5, <2>6 DEF Restoring, Recovers
  <2>8. Scale * after.loan[u] <= x
    <3>1. \A i \in 1 .. Len(<<>>) : FALSE
      OBVIOUS
    <3> QED
      BY <2>7, <3>1 DEF Owes
  <2>9. FromUint(after.loan[u]) = Scale * after.loan[u]
    <3>1. after.loan[u] \in Nat
      BY <2>2, StoreParts DEF LoanBooks
    <3> QED
      BY <3>1, ScaleAssumption, SMT DEF FromUint
  <2>10. x = FromUint(UintMulDec(compute_borrow_limit(left), liquidation_config.safe_ratio))
               + rounding(have)
    BY <2>6, LimitIs, SlackIs DEF bound
  <2>11. FromUint(after.loan[u]) <=
           FromUint(UintMulDec(compute_borrow_limit(left), liquidation_config.safe_ratio))
             + rounding(have)
    BY <2>8, <2>9, <2>10
  <2> QED
    BY <2>1, <2>3, <2>11
<1>2. Init => RInv
  BY InvInit DEF RInv, Init, ChainInit, Idle
<1>3. RInv /\ [Next]_cvars => RInv'
  BY StepRestores
<1>4. Spec => [][Kept]_cvars
  BY <1>1, <1>2, <1>3, PTL DEF Spec
<1> QED
  BY <1>4, PTL DEF LiquidationRestores
=============================================================================
